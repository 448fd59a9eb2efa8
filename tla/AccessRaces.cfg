SPECIFICATION Spec
CONSTANTS
    u1 = u1
    u2 = u2
    u3 = u3
    s1 = s1
    s2 = s2
    i1 = i1
    i2 = i2
    Users = {u1, u2, u3}
    Requests = {r1, r2}
    ProviderNames = {i1, i2}
    Subjects = {s1, s2}
    None = None
    FirstRows <- MCRows
    SignedIn = {u1}
    Bearers = {u2}
    FirstScopes <- MCScopes
    FirstProvider <- MCProvider
    Providers <- MCProviders
    Edits <- MCEdits
    NewRoles = {"admin"}
    ScopeLists <- MCScopeLists
    Ops <- MCOps
    AccessTTL = 1
    RefreshTTL = 2
    ChallengeTTL = 1
    Skew = 1
    RecoveryCodes = 1
    MaxNow = 4
    FirstStates = 2
    MaxStates = 3
    MaxFailures = 1
SYMMETRY Symmetry
CHECK_DEADLOCK FALSE
INVARIANTS TypeOK EndedStaysEnded RoleFollowsAccount LastAdmin CodesActOnce ReadersChangeNothing
PROPERTIES FactorIsAsked SubjectKeepsAccount
