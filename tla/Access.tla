------------------------------- MODULE Access -------------------------------
(***************************************************************************)
(* Accounts, and what lets somebody act for one: sessions, second factors, *)
(* single sign-on and API tokens (service/auth.go, service/twofactor.go,   *)
(* service/oauth.go, store/repo_auth.go, and their handlers).              *)
(*                                                                         *)
(* A session is a lineage of signed token pairs.  Nothing is stored of it: *)
(* a pair counts until it expires, unless a row of revoked_sessions denies *)
(* its session, or every session of its account.  The account itself is    *)
(* one row that edits, sign-ins with a second factor and the identity      *)
(* provider read, change and write back whole.                             *)
(*                                                                         *)
(* One action is one statement of the database with everything the code    *)
(* computes from it.  A wrong password changes nothing and is left out.    *)
(***************************************************************************)
EXTENDS Integers, Routes

CONSTANTS
    Users,         \* the accounts there are, and those that may be added
    Requests,      \* the API calls, each made at most once
    FirstRows,     \* the users table at the start
    SignedIn,      \* the accounts that have a session at the start
    Bearers,       \* the accounts that have an API token at the start
    FirstScopes,   \* its scopes
    ProviderNames, \* the names a provider may be configured under
    Subjects,      \* what a provider calls the people it knows
    FirstProvider, \* the provider's row at the start
    Providers,     \* what it may be replaced by
    Edits,         \* what PATCH /users/{id} may ask
    NewRoles,      \* the roles a new account may be asked for
    ScopeLists,    \* the scopes an API token may be asked for
    Ops,           \* the calls this instance makes
    AccessTTL, RefreshTTL, ChallengeTTL,
    Skew,          \* how many time steps a code may be off
    RecoveryCodes, \* how many recovery codes a set has
    MaxNow,        \* bound: how far the clock goes
    FirstStates,   \* how many sign-ins are under way at the provider at the start
    MaxStates,     \* bound: how many of them are started
    MaxFailures,   \* bound: how many statements fail or processes die
    None

TwoFactorOps == {"SetupTwoFactor", "EnableTwoFactor", "DisableTwoFactor", "RegenerateRecoveryCodes"}
UserOps      == {"CreateUser", "UpdateUser", "DeleteUser", "ResetUserTwoFactor"}
TokenOps     == {"CreateToken", "RevokeToken"}
ProviderOps  == {"SaveOAuthProvider", "DeleteOAuthProvider"}
ModelledOps  == TwoFactorOps \cup UserOps \cup TokenOps \cup ProviderOps

ASSUME AccessOpsAssumption == Ops \subseteq signInRoutes \cup {route.op : route \in Routes}

\* No handler is registered both with and without the Auth middleware, or twice.
ASSUME GuardedOnce ==
    /\ {route.op : route \in Routes} \cap (openRoutes \cup signInRoutes \cup acmeRoutes) = {}
    /\ \A route, other \in Routes : route.op = other.op => route = other

ASSUME AccessTimesAssumption ==
    /\ AccessTTL \in Nat \ {0} /\ RefreshTTL \in Nat \ {0} /\ ChallengeTTL \in Nat \ {0}
    /\ Skew \in Nat /\ RecoveryCodes \in Nat
    /\ MaxNow \in Nat /\ MaxStates \in Nat /\ FirstStates \in 0 .. MaxStates /\ MaxFailures \in Nat
ASSUME AccessNamesAssumption ==
    /\ Users \cap Requests = {} /\ None \notin Users \cup Requests \cup Subjects \cup ProviderNames
    /\ SignedIn \subseteq Users /\ Bearers \subseteq Users

-----------------------------------------------------------------------------
(* Rows and credentials.  A session, a secret, a set of recovery codes and *)
(* an API token are known by the request that made them, the first ones by *)
(* their account.                                                          *)

Ids == Users \cup Requests

\* A code: of the authenticator for a time step, or one of the recovery codes.
Totp(secret, step)  == [totp |-> TRUE, of |-> secret, n |-> step]
Recovery(set)       == {[totp |-> FALSE, of |-> set, n |-> i] : i \in 1 .. RecoveryCodes}
Codes == [totp : BOOLEAN, of : Ids, n : Int]

\* An address is named after the account that had it first.
UserRows == [state : {"none", "kept", "deleted"}, email : Users, role : Roles, active : BOOLEAN,
             password : BOOLEAN, factor : {"off", "pending", "on"}, secret : Ids \cup {None},
             step : Int, codes : SUBSET Codes,
             provider : ProviderNames \cup {None}, subject : Subjects \cup {None}]

TokenRows == [kept : BOOLEAN, user : Users \cup {None}, scopes : SUBSET Scopes, revoked : BOOLEAN]
NoToken   == [kept |-> FALSE, user |-> None, scopes |-> {}, revoked |-> FALSE]

ProviderRows == [name : ProviderNames, kept : BOOLEAN, enabled : BOOLEAN, signup : BOOLEAN, unverified : BOOLEAN,
                 domain : SUBSET Users, role : Roles]

ASSUME AccessRowsAssumption ==
    /\ FirstRows \in [Users -> UserRows] /\ FirstScopes \subseteq Scopes
    /\ FirstProvider \in ProviderRows /\ Providers \subseteq ProviderRows
    /\ NewRoles \subseteq Roles /\ ScopeLists \subseteq SUBSET Scopes
    /\ \A edit \in Edits : edit.active \in BOOLEAN \cup {None} /\ edit.password \in BOOLEAN
    /\ \E u \in Users : FirstRows[u].state = "kept" /\ FirstRows[u].active /\ FirstRows[u].role = "admin"

\* TokenPair: the role is what the account had when the pair was signed.
Pairs      == [sid : Ids, user : Users, role : Roles, at : Nat]
Challenges == [user : Users, until : Nat]
Profiles   == [subject : Subjects, email : Users, verified : BOOLEAN]

\* Sessions are of accounts that may sign in, and no request has made a secret
\* or a code yet; none is neither a pair nor a code.
ASSUME AccessFirstAssumption ==
    /\ None \notin Pairs /\ None \notin Codes
    /\ \A u \in SignedIn : FirstRows[u].state = "kept" /\ FirstRows[u].active
    /\ \A u \in Users :
          /\ FirstRows[u].secret \notin Requests /\ \A code \in FirstRows[u].codes : code.of \notin Requests
          /\ FirstRows[u].state = "none" => FirstRows[u].factor = "off"

NoRow == [state |-> "none", email |-> CHOOSE u \in Users : TRUE, role |-> "viewer", active |-> FALSE,
          password |-> FALSE, factor |-> "off", secret |-> None, step |-> 0, codes |-> {},
          provider |-> None, subject |-> None]

\* Whoever a request acts for, once it is known.
Principals == [user : Users \cup {None}, role : Roles, scopes : SUBSET Scopes, token : Ids \cup {None}]
Nobody     == [user |-> None, role |-> "viewer", scopes |-> {}, token |-> None]

\* A call with its arguments; most have few of them.
Calls == [op : Ops \cup {"none"}, pair : Pairs \cup {None}, token : Ids \cup {None},
          user : Ids \cup {None}, code : Codes \cup {None}, edit : Edits \cup {None},
          role : Roles \cup {None}, scopes : SUBSET Scopes, profile : Profiles \cup {None},
          provider : Providers \cup {None}]
Blank == [op |-> "none", pair |-> None, token |-> None, user |-> None, code |-> None,
          edit |-> None, role |-> None, scopes |-> {}, profile |-> None, provider |-> None]

VARIABLES
    users,      \* the users table
    pairs,      \* the token pairs that clients hold
    challenges, \* the two-factor challenges that clients hold
    denied,     \* revoked_sessions: until when a session is denied, 0 if it is not
    deniedAll,  \* revoked_sessions: the row standing for all sessions of an account
    tokens,     \* the API tokens
    provider,   \* the identity provider's row
    pending,    \* oauthStateStore: how many states somebody may come back with
    started,    \* how many of them there have been
    now,        \* the clock, in time steps of the authenticator
    pc,         \* the next statement of each request
    call,       \* what it was asked
    who,        \* whom it acts for
    seen,       \* the account it works on as it was read, or as it will be saved
    idp,        \* the provider's row as it was read
    ended,      \* history: the sessions a stored row has denied
    unended,    \* history: the accounts whose sessions should be denied and are not
    accepted,   \* history: which request had which code accepted
    clean,      \* history: no two requests ever had a row to write back at once
    failures    \* how many failures there have been

tables  == <<users, denied, deniedAll, tokens, provider>>
clients == <<pairs, challenges>>
memory  == <<who, seen, idp>>
history == <<ended, unended, accepted>>
vars    == <<tables, clients, pending, started, now, pc, call, memory, history, clean, failures>>

\* The steps between which a request carries a row it will write.
WritingSteps == {"count", "spend", "save", "delete", "email", "insert"}
Steps == WritingSteps \cup
         {"idle", "done", "auth", "tokenRead", "tokenUser", "login", "verify",
          "signOut", "authorize", "refreshCheck", "refreshRead", "provider", "subject", "read",
          "end", "tokenGet", "tokenRevoke", "providerSave"}

\* The rows, and what every request carries, are what the code lets them be.
TypeOK ==
    /\ users \in [Users -> UserRows] /\ tokens \in [Ids -> TokenRows]
    /\ pairs \subseteq Pairs /\ challenges \subseteq Challenges
    /\ denied \in [Ids -> Nat] /\ deniedAll \in [Users -> Nat]
    /\ provider \in ProviderRows
    /\ started \in 0 .. MaxStates /\ pending \in 0 .. started /\ now \in Nat
    /\ pc \in [Requests -> Steps] /\ call \in [Requests -> Calls]
    /\ who \in [Requests -> Principals] /\ seen \in [Requests -> UserRows]
    /\ idp \in [Requests -> ProviderRows]
    /\ ended \subseteq Ids /\ unended \subseteq Users
    /\ accepted \subseteq [by : Requests, user : Users, code : Codes]
    /\ clean \in BOOLEAN /\ failures \in Nat

Init ==
    /\ users = FirstRows
    /\ pairs = {[sid |-> u, user |-> u, role |-> FirstRows[u].role, at |-> 0] : u \in SignedIn}
    /\ challenges = {} /\ pending = FirstStates /\ started = FirstStates /\ now = 0
    /\ denied = [s \in Ids |-> 0] /\ deniedAll = [u \in Users |-> 0]
    /\ tokens = [k \in Ids |-> IF k \in Bearers
                               THEN [kept |-> TRUE, user |-> k, scopes |-> FirstScopes, revoked |-> FALSE]
                               ELSE NoToken]
    /\ provider = FirstProvider
    /\ pc = [r \in Requests |-> "idle"] /\ call = [r \in Requests |-> Blank]
    /\ who = [r \in Requests |-> Nobody] /\ seen = [r \in Requests |-> NoRow]
    /\ idp = [r \in Requests |-> FirstProvider]
    /\ ended = {} /\ unended = {} /\ accepted = {} /\ clean = TRUE /\ failures = 0

-----------------------------------------------------------------------------
(* What the code asks of rows and credentials                              *)

Kept(u)   == users[u].state = "kept"
Taken(e, u) == \E v \in Users \ {u} : Kept(v) /\ users[v].email = e   \* the unique index
HasTwoFactor(row) == row.factor = "on"

CountAdmins_AnyStatus == Cardinality({u \in Users : Kept(u) /\ users[u].role = "admin"})
\* "Demoting or disabling the last admin would lock everyone out."
CountAdmins == Cardinality({u \in Users : Kept(u) /\ users[u].role = "admin" /\ users[u].active})

LiveAccess(p)  == now < p.at + AccessTTL
LiveRefresh(p) == now < p.at + RefreshTTL
IsRevoked(s, u) == denied[s] > now \/ deniedAll[u] > now

SignOutUntil_AccessOnly(p) == p.at + AccessTTL
\* "The access token's own expiry is not enough": the entry outlives the pair.
SignOutUntil(p)            == p.at + AccessTTL + RefreshTTL
AllUntil                   == now + 2 * RefreshTTL

EndsSessions_UnlessDemoted(edit) == edit.password \/ edit.active = FALSE
\* "A password change, a demotion or a suspension has to end the sessions."
EndsSessions(edit) ==
    \/ edit.password
    \/ edit.role \notin {None, "admin"}
    \/ edit.active = FALSE

ValidRole_Any(role) == TRUE
ValidRole(role)     == role \in Roles

LosesAdmin(row, edit) ==
    row.role = "admin" /\ (edit.role \notin {None, "admin"} \/ edit.active = FALSE)

\* VerifyTOTPStep; "refusing a step already spent".
StepMatches(row, code) == code.totp /\ code.of = row.secret /\ code.n \in (now - Skew) .. (now + Skew)
Accepts_SameStep(row, code) ==
    /\ code # None
    /\ \/ StepMatches(row, code) /\ code.n >= row.step
       \/ ~code.totp /\ code \in row.codes
Accepts(row, code) ==
    /\ code # None
    /\ \/ StepMatches(row, code) /\ code.n > row.step
       \/ ~code.totp /\ code \in row.codes

\* What accepting a code consumes.
Spent(row, code) == IF code.totp THEN [row EXCEPT !.step = code.n]
                                 ELSE [row EXCEPT !.codes = @ \ {code}]

Cleared(row) == [row EXCEPT !.factor = "off", !.secret = None, !.step = 0, !.codes = {}]

\* The codes a caller may come with: what the account's authenticator shows,
\* its recovery codes, and codes that have been used before.
Presentable(u) ==
    {Totp(users[u].secret, step) : step \in {s \in (now - Skew) .. (now + Skew) : s > 0}}
      \cup users[u].codes \cup {a.code : a \in {a \in accepted : a.user = u}}
PresentableIfAny(u) == IF users[u].secret = None THEN {} ELSE Presentable(u)

\* checkOAuthDomain, linkOAuthUser.
Admissible(row, profile) == row.domain = {} \/ profile.email \in row.domain
MayLink_Any(row, profile) == TRUE
MayLink(row, profile)     == row.subject \in {None, profile.subject}
Linked(row, name, profile) == [row EXCEPT !.provider = name, !.subject = profile.subject]

AsksCode_NotFederated(op, row) == HasTwoFactor(row) /\ op # "OAuthCallback"
\* Whether a sign-in through this handler has to wait for a code.
AsksCode(op, row)              == HasTwoFactor(row)

Target(r) == IF call[r].op \in TwoFactorOps THEN who[r].user ELSE call[r].user

-----------------------------------------------------------------------------
(* Steps                                                                   *)

Goto(r, step) ==
    /\ pc' = [pc EXCEPT ![r] = step]
    /\ clean' = (clean /\ (step \in WritingSteps => \A q \in Requests \ {r} : pc[q] \notin WritingSteps))
Stop(r)       == Goto(r, "done")
Quiet         == UNCHANGED <<pending, started, now, call, failures>>

\* Save: every column of the row, and a row that is gone is inserted again.
SaveUser(u, row) == users' = [users EXCEPT ![u] = row]

\* issueSession: a pair in a fresh session.
Issue(r, u, row) == pairs' = pairs \cup {[sid |-> r, user |-> u, role |-> row.role, at |-> now]}
IssueChallenge(u) == challenges' = challenges \cup {[user |-> u, until |-> now + ChallengeTTL]}

\* The calls a client can make now, with the credentials it has.
Sessions == {[Blank EXCEPT !.pair = p] : p \in {p \in pairs : LiveAccess(p)}}
Bearing  == {[Blank EXCEPT !.token = k] : k \in {k \in Ids : tokens[k].kept}}
Callers  == Sessions \cup Bearing

\* With each of the codes there are, or with none.
Presenting(c, u) == {[c EXCEPT !.code = code] : code \in PresentableIfAny(u) \cup {None}}

SignInCalls(op) ==
    CASE op = "Login" -> UNION {Presenting([Blank EXCEPT !.user = u], u) : u \in Users}
      [] op = "VerifyTwoFactor" ->
           UNION {Presenting([Blank EXCEPT !.user = c.user], c.user) : c \in challenges}
      [] op = "Refresh" -> {[Blank EXCEPT !.pair = p] : p \in {p \in pairs : LiveRefresh(p)}}
      [] op = "Logout" -> {[Blank EXCEPT !.pair = p] : p \in pairs}
      [] op = "OAuthCallback" ->
           {[Blank EXCEPT !.profile = p, !.user = p.email] : p \in IF pending = 0 THEN {} ELSE Profiles}
      [] OTHER -> {Blank}

\* The accounts a call can name: an id is not known before it is given out.
Known == {u \in Users : users[u].state # "none"}

\* The arguments of a call behind the Auth middleware, for each caller.
Asking(op, c) ==
    CASE op = "UpdateUser" -> {[c EXCEPT !.user = a[1], !.edit = a[2]] : a \in Known \X Edits}
      [] op \in {"DeleteUser", "ResetUserTwoFactor"} -> {[c EXCEPT !.user = u] : u \in Known}
      [] op = "CreateUser" -> {[c EXCEPT !.user = a[1], !.role = a[2]] : a \in Users \X NewRoles}
      [] op = "CreateToken" -> {[c EXCEPT !.user = a[1], !.scopes = a[2]] : a \in Known \X ScopeLists}
      [] op = "RevokeToken" -> {[c EXCEPT !.user = k] : k \in {k \in Ids : tokens[k].kept}}
      [] op = "SaveOAuthProvider" -> {[c EXCEPT !.provider = p] : p \in Providers}
      [] op \in TwoFactorOps \ {"SetupTwoFactor"} ->
           Presenting(c, IF c.pair # None THEN c.pair.user ELSE tokens[c.token].user)
      [] OTHER -> {c}

Requesting(op) ==
    {[c EXCEPT !.op = op] : c \in IF op \in signInRoutes THEN SignInCalls(op)
                                   ELSE UNION {Asking(op, k) : k \in Callers}}

\* The same operations from the command line of the host, without any guard:
\* of an account it changes the password only.
Commanding(op) ==
    {[c EXCEPT !.op = op] : c \in {c \in Asking(op, Blank) :
        op = "UpdateUser" => c.edit.role = None /\ c.edit.active = None}}

\* Past the guards: where the handler of each operation begins.
Handler(op) ==
    CASE op = "RevokeToken" -> "tokenGet"
      [] op = "CreateUser" -> "insert"
      [] op \in ProviderOps -> "providerSave"
      [] op \in ModelledOps \ ({"RevokeToken", "CreateUser"} \cup ProviderOps) -> "read"
      [] OTHER -> "done"

FirstSignInStep(op) ==
    CASE op = "Login" -> "login"
      [] op = "VerifyTwoFactor" -> "verify"
      [] op = "Refresh" -> "refreshCheck"
      [] op = "OAuthCallback" -> "provider"
      [] op = "Logout" -> "signOut"
      [] op = "OAuthAuthorize" -> "authorize"
      [] OTHER -> "done"

FirstStep(c) ==
    IF c.op \in signInRoutes THEN FirstSignInStep(c.op)
    ELSE IF c.pair # None THEN "auth"
    ELSE IF c.token # None THEN "tokenRead" ELSE Handler(c.op)

Begin(r) ==
    /\ pc[r] = "idle"
    /\ \E op \in Ops : \E c \in Requesting(op) \cup IF op \in UserOps THEN Commanding(op) ELSE {} :
          call' = [call EXCEPT ![r] = c] /\ Goto(r, FirstStep(c))
    /\ UNCHANGED <<tables, clients, pending, started, now, memory, history, failures>>

\* RequireRole and RequireScope, and what the handlers themselves refuse.
Admitted(r, p) ==
    LET c == call[r] IN
    /\ Permits(RouteOf(c.op), p.role, p.scopes)
    /\ c.op = "SetupTwoFactor" => p.token = None
    /\ c.op = "DeleteUser" => c.user # p.user

\* "Minting a token for someone else is an admin action."
Addressed(r, p) ==
    IF call[r].op = "CreateToken" /\ p.role # "admin"
    THEN [call EXCEPT ![r].user = p.user] ELSE call

Enter(r, p) ==
    IF Admitted(r, p)
    THEN /\ who' = [who EXCEPT ![r] = p] /\ call' = Addressed(r, p)
         /\ Goto(r, Handler(call[r].op))
    ELSE Stop(r) /\ UNCHANGED <<who, call>>

\* Auth, for a session: the signature and the expiry, then the denylist.
Authenticate(r) ==
    /\ pc[r] = "auth"
    /\ LET p == call[r].pair IN
       IF LiveAccess(p) /\ ~IsRevoked(p.sid, p.user)
       THEN Enter(r, [user |-> p.user, role |-> p.role, scopes |-> {}, token |-> None])
       ELSE Stop(r) /\ UNCHANGED <<who, call>>
    /\ UNCHANGED <<tables, clients, pending, started, now, seen, idp, history, failures>>

\* Auth, for an API token: AuthenticateAPIToken.
TokenRead(r) ==
    /\ pc[r] = "tokenRead"
    /\ LET k == call[r].token IN
       IF tokens[k].kept /\ ~tokens[k].revoked THEN Goto(r, "tokenUser") ELSE Stop(r)
    /\ UNCHANGED <<tables, clients, memory, history>> /\ Quiet

TokenUser(r) ==
    /\ pc[r] = "tokenUser"
    /\ LET k == call[r].token
           u == tokens[k].user IN
       IF tokens[k].kept /\ Kept(u) /\ users[u].active
       THEN Enter(r, [user |-> u, role |-> users[u].role, scopes |-> tokens[k].scopes, token |-> k])
       ELSE Stop(r) /\ UNCHANGED <<who, call>>
    /\ UNCHANGED <<tables, clients, pending, started, now, seen, idp, history, failures>>

-----------------------------------------------------------------------------
(* Signing in                                                              *)

\* completeLogin and issueSession: a session at once, or after the row has
\* been saved with the code struck off.
Complete(r, u, row) ==
    IF ~HasTwoFactor(row)
    THEN Issue(r, u, row) /\ Stop(r) /\ UNCHANGED <<seen, challenges>>
    ELSE IF Accepts(row, call[r].code)
    THEN /\ seen' = [seen EXCEPT ![r] = Spent(row, call[r].code)] /\ Goto(r, "spend")
         /\ UNCHANGED clients
    ELSE Stop(r) /\ UNCHANGED <<clients, seen>>

Login(r) ==
    /\ pc[r] = "login"
    /\ \E u \in Users :
         /\ IF \E v \in Users : Kept(v) /\ users[v].email = call[r].user
            THEN Kept(u) /\ users[u].email = call[r].user ELSE u = call[r].user
         /\ LET row == users[u] IN
            IF ~(Kept(u) /\ row.password /\ row.active)
            THEN Stop(r) /\ UNCHANGED <<clients, seen, call>>
            ELSE /\ call' = [call EXCEPT ![r].user = u]
                 /\ IF HasTwoFactor(row) /\ call[r].code = None
                    THEN IssueChallenge(u) /\ Stop(r) /\ UNCHANGED <<pairs, seen>>
                    ELSE Complete(r, u, row)
    /\ UNCHANGED <<tables, pending, started, now, who, idp, history, failures>>

\* CompleteTwoFactorLogin: the account is read again.
VerifyTwoFactor(r) ==
    /\ pc[r] = "verify"
    /\ LET u == call[r].user IN
       IF /\ \E c \in challenges : c.user = u /\ now < c.until
          /\ Kept(u) /\ users[u].active
       THEN Complete(r, u, users[u])
       ELSE Stop(r) /\ UNCHANGED <<clients, seen>>
    /\ UNCHANGED <<tables, who, idp, history>> /\ Quiet

\* verifySecondFactor writes the row, and what waited for it goes on.
Spend(r) ==
    /\ pc[r] = "spend"
    /\ SaveUser(Target(r), seen[r])
    /\ accepted' = accepted \cup {[by |-> r, user |-> Target(r), code |-> call[r].code]}
    /\ IF call[r].op \in signInRoutes
       THEN Issue(r, Target(r), seen[r]) /\ Stop(r)
       ELSE Goto(r, "save") /\ UNCHANGED pairs
    /\ UNCHANGED <<denied, deniedAll, tokens, provider, challenges, memory, ended, unended>> /\ Quiet

RefreshCheck(r) ==
    /\ pc[r] = "refreshCheck"
    /\ LET p == call[r].pair IN
       IF LiveRefresh(p) /\ ~IsRevoked(p.sid, p.user) THEN Goto(r, "refreshRead") ELSE Stop(r)
    /\ UNCHANGED <<tables, clients, memory, history>> /\ Quiet

\* "The rotated pair stays in the same session."
RefreshRead(r) ==
    /\ pc[r] = "refreshRead"
    /\ LET p == call[r].pair
           row == users[p.user] IN
       IF Kept(p.user) /\ row.active
       THEN pairs' = pairs \cup {[sid |-> p.sid, user |-> p.user, role |-> row.role, at |-> now]}
       ELSE UNCHANGED pairs
    /\ Stop(r)
    /\ UNCHANGED <<tables, challenges, memory, history>> /\ Quiet

\* Logout: the access token has to be live to be read.  A row that is there
\* already stays as it is.
SignOut(r) ==
    /\ pc[r] = "signOut"
    /\ LET p == call[r].pair IN
       IF LiveAccess(p)
       THEN /\ denied' = [denied EXCEPT ![p.sid] = IF @ = 0 THEN SignOutUntil(p) ELSE @]
            /\ ended' = ended \cup {p.sid}
       ELSE UNCHANGED <<denied, ended>>
    /\ Stop(r)
    /\ UNCHANGED <<users, deniedAll, tokens, provider, clients, memory, unended, accepted>> /\ Quiet

-----------------------------------------------------------------------------
(* Single sign-on                                                          *)

\* StartOAuth.
Authorize(r) ==
    /\ pc[r] = "authorize"
    /\ IF provider.kept /\ provider.enabled /\ started < MaxStates
       THEN started' = started + 1 /\ pending' = pending + 1
       ELSE UNCHANGED <<started, pending>>
    /\ Stop(r)
    /\ UNCHANGED <<tables, clients, now, call, memory, history, failures>>

\* LoginWithOAuth: a state is redeemed once, whatever becomes of the sign-in.
Redeem(r) ==
    /\ pc[r] = "provider"
    /\ IF provider.kept /\ provider.enabled
       THEN /\ idp' = [idp EXCEPT ![r] = provider]
            /\ pending' = IF pending = 0 THEN 0 ELSE pending - 1
            /\ IF pending > 0 /\ Admissible(provider, call[r].profile) THEN Goto(r, "subject") ELSE Stop(r)
       ELSE Stop(r) /\ UNCHANGED <<pending, idp>>
    /\ UNCHANGED <<tables, clients, started, now, call, who, seen, history, failures>>

\* What a federated sign-in ends with, once it has its account.
Federated(r, u, row) ==
    IF ~row.active THEN UNCHANGED clients
    ELSE IF AsksCode("OAuthCallback", row) THEN IssueChallenge(u) /\ UNCHANGED pairs
    ELSE Issue(r, u, row) /\ UNCHANGED challenges

\* resolveOAuthUser: by the provider's name and subject first; "the address on
\* file follows the directory", and so does the person's name, which the row
\* leaves out: a sign-in may save the row when the address is the same.
BySubject(r) ==
    /\ pc[r] = "subject"
    /\ LET profile == call[r].profile
           own == {u \in Users : /\ Kept(u) /\ users[u].provider = idp[r].name
                                 /\ users[u].subject = profile.subject} IN
       \/ \E u \in own :
            /\ call' = [call EXCEPT ![r].user = u]
            /\ \/ /\ users[u].email = profile.email
                  /\ Federated(r, u, users[u]) /\ Stop(r) /\ UNCHANGED seen
               \/ /\ seen' = [seen EXCEPT ![r] = [users[u] EXCEPT !.email = profile.email]]
                  /\ Goto(r, "save") /\ UNCHANGED clients
       \/ /\ own = {}
          /\ IF profile.verified \/ idp[r].unverified THEN Goto(r, "email") ELSE Stop(r)
          /\ UNCHANGED <<call, seen, clients>>
    /\ UNCHANGED <<tables, pending, started, now, who, idp, history, failures>>

\* By email: link the account to the identity, or make one.  Whether the account
\* is free to be linked is asked of the subject alone (oauth.go:629).
ByEmail(r) ==
    /\ pc[r] = "email"
    /\ LET profile == call[r].profile
           own == {u \in Users : Kept(u) /\ users[u].email = profile.email} IN
       \/ \E u \in own :
            IF MayLink(users[u], profile)
            THEN /\ call' = [call EXCEPT ![r].user = u]
                 /\ seen' = [seen EXCEPT ![r] = Linked(users[u], idp[r].name, profile)]
                 /\ Goto(r, "save")
            ELSE Stop(r) /\ UNCHANGED <<call, seen>>
       \/ /\ own = {}
          /\ IF idp[r].signup
             THEN /\ Goto(r, "insert")
                  /\ seen' = [seen EXCEPT ![r] =
                       Linked([NoRow EXCEPT !.state = "kept", !.email = profile.email,
                                            !.role = idp[r].role, !.active = TRUE],
                              idp[r].name, profile)]
             ELSE Stop(r) /\ UNCHANGED seen
          /\ UNCHANGED call
    /\ UNCHANGED <<tables, clients, pending, started, now, who, idp, history, failures>>

-----------------------------------------------------------------------------
(* Accounts, factors and tokens, behind the guards                         *)

Edited(row, edit) ==
    [row EXCEPT !.role     = IF edit.role = None THEN @ ELSE edit.role,
                !.active   = IF edit.active = None THEN @ ELSE edit.active,
                !.password = @ \/ edit.password]

\* What each handler asks of the row it has read.
Proceeds(r, row) ==
    LET c == call[r] IN
    CASE c.op = "UpdateUser" -> c.edit.role = None \/ ValidRole(c.edit.role)
      [] c.op = "ResetUserTwoFactor" -> row.factor # "off"
      [] c.op = "SetupTwoFactor" -> ~HasTwoFactor(row)
      [] c.op = "EnableTwoFactor" -> row.factor = "pending" /\ c.code # None /\ StepMatches(row, c.code)
      [] c.op = "DisableTwoFactor" ->
           row.factor # "off" /\ row.password /\ (HasTwoFactor(row) => Accepts(row, c.code))
      [] c.op = "RegenerateRecoveryCodes" -> HasTwoFactor(row) /\ Accepts(row, c.code)
      [] OTHER -> TRUE

ProvesFactor(r, row) ==
    call[r].op \in {"DisableTwoFactor", "RegenerateRecoveryCodes"} /\ HasTwoFactor(row)

AfterRead(r, row) ==
    CASE call[r].op = "CreateToken" -> "insert"
      [] call[r].op = "DeleteUser" -> IF row.role = "admin" THEN "count" ELSE "delete"
      [] call[r].op = "UpdateUser" /\ LosesAdmin(row, call[r].edit) -> "count"
      [] ProvesFactor(r, row) -> "spend"
      [] OTHER -> "save"

Read(r) ==
    /\ pc[r] = "read"
    /\ LET row == users[Target(r)] IN
       IF Kept(Target(r)) /\ Proceeds(r, row)
       THEN /\ seen' = [seen EXCEPT ![r] = IF ProvesFactor(r, row) THEN Spent(row, call[r].code) ELSE row]
            /\ Goto(r, AfterRead(r, row))
       ELSE Stop(r) /\ UNCHANGED seen
    /\ UNCHANGED <<tables, clients, who, idp, history>> /\ Quiet

\* "This is the last active administrator."
Count(r) ==
    /\ pc[r] = "count"
    /\ IF CountAdmins <= 1 THEN Stop(r)
       ELSE Goto(r, IF call[r].op = "DeleteUser" THEN "delete" ELSE "save")
    /\ UNCHANGED <<tables, clients, memory, history>> /\ Quiet

\* The row a handler writes, made of the row it had read.
Written(r) ==
    LET row == seen[r]  c == call[r] IN
    CASE c.op = "UpdateUser" -> Edited(row, c.edit)
      [] c.op \in {"DisableTwoFactor", "ResetUserTwoFactor"} -> Cleared(row)
      [] c.op = "SetupTwoFactor" -> [Cleared(row) EXCEPT !.factor = "pending", !.secret = r]
      [] c.op = "EnableTwoFactor" ->
           [row EXCEPT !.factor = "on", !.step = c.code.n, !.codes = Recovery(r)]
      [] c.op = "RegenerateRecoveryCodes" -> [row EXCEPT !.codes = Recovery(r)]
      [] OTHER -> row

Save(r) ==
    /\ pc[r] = "save"
    /\ LET u == Target(r) IN
       IF Taken(seen[r].email, u) THEN Stop(r) /\ UNCHANGED <<users, clients>>
       ELSE /\ SaveUser(u, Written(r))
            /\ IF call[r].op = "OAuthCallback" THEN Federated(r, u, seen[r]) ELSE UNCHANGED clients
            /\ Goto(r, IF call[r].op = "UpdateUser" /\ EndsSessions(call[r].edit) THEN "end" ELSE "done")
    /\ UNCHANGED <<denied, deniedAll, tokens, provider, memory, history>> /\ Quiet

\* RevokeAllSessions: the row that stands for all sessions of the account.
\* One that is there already stays as it is, however old.
EndSessions(r) ==
    /\ pc[r] = "end"
    /\ LET u == Target(r) IN
       IF deniedAll[u] = 0
       THEN /\ deniedAll' = [deniedAll EXCEPT ![u] = AllUntil]
            /\ ended' = ended \cup {p.sid : p \in {p \in pairs : p.user = u}}
            /\ UNCHANGED unended
       ELSE unended' = unended \cup {u} /\ UNCHANGED <<deniedAll, ended>>
    /\ Stop(r)
    /\ UNCHANGED <<users, denied, tokens, provider, clients, memory, accepted>> /\ Quiet

\* "Removes a user and every token they own"; the sessions stay.
DeleteRow(r) ==
    /\ pc[r] = "delete"
    /\ LET u == Target(r) IN
       IF Kept(u)
       THEN /\ users' = [users EXCEPT ![u].state = "deleted"]
            /\ tokens' = [k \in Ids |-> IF tokens[k].user = u THEN NoToken ELSE tokens[k]]
       ELSE UNCHANGED <<users, tokens>>
    /\ Stop(r)
    /\ UNCHANGED <<denied, deniedAll, provider, clients, memory, history>> /\ Quiet

InsertUser(r, row) ==
    IF Taken(row.email, None) \/ ~ValidRole(row.role) THEN UNCHANGED <<users, clients>>
    ELSE \/ \E u \in {u \in Users : users[u].state = "none"} :
              /\ SaveUser(u, row)
              /\ IF call[r].op = "OAuthCallback" THEN Federated(r, u, row) ELSE UNCHANGED clients
         \/ (\A u \in Users : users[u].state # "none") /\ UNCHANGED <<users, clients>>  \* bound

\* CreateAPIToken: the token acts as its account, within the scopes asked for.
InsertToken(r) ==
    tokens' = [tokens EXCEPT ![r] = [kept |-> TRUE, user |-> call[r].user,
                                     scopes |-> call[r].scopes, revoked |-> FALSE]]

Insert(r) ==
    /\ pc[r] = "insert"
    /\ CASE call[r].op = "CreateToken" -> InsertToken(r) /\ UNCHANGED <<users, clients>>
         [] call[r].op = "CreateUser" ->
              /\ InsertUser(r, [NoRow EXCEPT !.state = "kept", !.email = call[r].user, !.role = call[r].role,
                                             !.active = TRUE, !.password = TRUE])
              /\ UNCHANGED tokens
         [] OTHER -> InsertUser(r, seen[r]) /\ UNCHANGED tokens
    /\ Stop(r)
    /\ UNCHANGED <<denied, deniedAll, provider, memory, history>> /\ Quiet

\* "You can only revoke your own API tokens."
TokenGet(r) ==
    /\ pc[r] = "tokenGet"
    /\ LET token == tokens[call[r].user] IN
       IF token.kept /\ (who[r].role = "admin" \/ token.user = who[r].user)
       THEN Goto(r, "tokenRevoke") ELSE Stop(r)
    /\ UNCHANGED <<tables, clients, memory, history>> /\ Quiet

TokenRevoke(r) ==
    /\ pc[r] = "tokenRevoke"
    /\ tokens' = [tokens EXCEPT ![call[r].user].revoked = @ \/ tokens[call[r].user].kept]
    /\ Stop(r)
    /\ UNCHANGED <<users, denied, deniedAll, provider, clients, memory, history>> /\ Quiet

\* There is one row, which a second save replaces.
ProviderSave(r) ==
    /\ pc[r] = "providerSave"
    /\ provider' = IF call[r].op = "SaveOAuthProvider" THEN call[r].provider
                                                       ELSE [provider EXCEPT !.kept = FALSE]
    /\ Stop(r)
    /\ UNCHANGED <<users, denied, deniedAll, tokens, clients, memory, history>> /\ Quiet

-----------------------------------------------------------------------------
(* The clock, the maintenance job, failures                                *)

\* What has expired is of no use to anybody.  A refresh that has passed the
\* denylist signs its pair before the clock moves on.
Tick ==
    /\ now < MaxNow /\ \A r \in Requests : pc[r] # "refreshRead"
    /\ now' = now + 1
    /\ pairs' = {p \in pairs : now + 1 < p.at + RefreshTTL}
    /\ challenges' = {c \in challenges : now + 1 < c.until}
    /\ UNCHANGED <<tables, pending, started, pc, call, memory, history, clean, failures>>

\* SessionRepo.Prune, from the maintenance job.
Prune ==
    /\ \/ \E s \in Ids : denied[s] \in 1 .. now - 1
       \/ \E u \in Users : deniedAll[u] \in 1 .. now - 1
    /\ denied' = [s \in Ids |-> IF denied[s] < now THEN 0 ELSE denied[s]]
    /\ deniedAll' = [u \in Users |-> IF deniedAll[u] < now THEN 0 ELSE deniedAll[u]]
    /\ UNCHANGED <<users, tokens, provider, clients, pc, memory, history, clean>> /\ Quiet

Cut(rs) == {Target(r) : r \in {r \in rs : pc[r] = "end"}}

\* A statement fails: the handler gives up.  That the sessions could not be
\* ended is only logged.
Fail(r) ==
    /\ failures < MaxFailures /\ pc[r] \notin {"idle", "done"}
    /\ failures' = failures + 1
    /\ Stop(r) /\ unended' = unended \cup Cut({r})
    /\ UNCHANGED <<tables, clients, pending, started, now, call, memory, ended, accepted>>

\* The process dies: its requests with it, and the states it had handed out.
Crash ==
    /\ failures < MaxFailures
    /\ pending > 0 \/ \E r \in Requests : pc[r] \notin {"idle", "done"}
    /\ failures' = failures + 1
    /\ pc' = [r \in Requests |-> IF pc[r] = "idle" THEN "idle" ELSE "done"]
    /\ unended' = unended \cup Cut(Requests) /\ pending' = 0
    /\ UNCHANGED <<tables, clients, started, now, call, memory, ended, accepted, clean>>

Serve(r) ==
    \/ Begin(r) \/ Authenticate(r) \/ TokenRead(r) \/ TokenUser(r)
    \/ Login(r) \/ VerifyTwoFactor(r) \/ Spend(r)
    \/ RefreshCheck(r) \/ RefreshRead(r) \/ SignOut(r)
    \/ Authorize(r) \/ Redeem(r) \/ BySubject(r) \/ ByEmail(r)
    \/ Read(r) \/ Count(r) \/ Save(r) \/ EndSessions(r) \/ DeleteRow(r)
    \/ Insert(r) \/ TokenGet(r) \/ TokenRevoke(r) \/ ProviderSave(r) \/ Fail(r)

Next ==
    \/ \E r \in Requests : Serve(r)
    \/ Tick \/ Prune \/ Crash

Spec == Init /\ [][Next]_vars

-----------------------------------------------------------------------------
(* Properties                                                              *)

Rank(role) == CASE role = "admin" -> 2 [] role = "operator" -> 1 [] OTHER -> 0

\* Once a sign-out, a password change, a demotion or a suspension has been
\* recorded, no pair of the sessions it ended, whenever it was rotated,
\* counts again before it expires (Logout, SignOut, RevokeAllSessions, Prune).
EndedStaysEnded ==
    \A p \in pairs : p.sid \in ended /\ LiveRefresh(p) => IsRevoked(p.sid, p.user)

\* No session acts with more than its account has now: the role in a pair is
\* never read again, so every demotion has to reach the denylist (UpdateUser).
\* Excepted are deleted accounts, whose sessions nothing ends; accounts whose
\* sessions could not be ended, or are about to be; and runs in which two
\* requests had a row to write back at once.
RoleFollowsAccount ==
    clean => \A p \in pairs :
        \/ ~LiveRefresh(p) \/ IsRevoked(p.sid, p.user) \/ ~Kept(p.user)
        \/ Rank(p.role) <= Rank(users[p.user].role) /\ users[p.user].active
        \/ p.user \in unended \/ \E r \in Requests : pc[r] = "end" /\ Target(r) = p.user

\* Whatever edits and deletions, as long as no two requests had a row to write
\* back at once, an active administrator is left (UpdateUser, DeleteUser: "this
\* is the last active administrator").
LastAdmin ==
    clean => \E u \in Users : Kept(u) /\ users[u].role = "admin" /\ users[u].active

\* A code lets one request in and no other, through whichever door each of
\* them came (verifySecondFactor: "refusing a step already spent"), as long as
\* no two requests had a row to write back at once.
CodesActOnce ==
    clean => \A a, b \in accepted : a.user = b.user /\ a.code = b.code => a.by = b.by

\* Nobody gets through a guard to change something with read scopes or as a
\* viewer, but for the account's own second factor and API tokens.
ReadersChangeNothing ==
    \A r \in Requests : LET route == RouteOf(call[r].op) IN
        who[r] # Nobody /\ route.changes =>
            /\ who[r].scopes \in (SUBSET ReadScopes) \ {{}} => route.scope = NoScope
            /\ who[r].role = "viewer" => call[r].op \in TwoFactorOps \cup TokenOps

\* A new session of an account with a second factor has seen a code of it,
\* however the first factor was proved (Login, VerifyTwoFactor, OAuthCallback),
\* as long as no two requests had a row to write back at once.
FactorIsAsked ==
    [][clean' => \A p \in pairs' \ pairs :
          HasTwoFactor(users[p.user]) /\ (\A q \in pairs : q.sid # p.sid)
            => \E a \in accepted' : a.by = p.sid /\ a.user = p.user]_vars

\* An account linked to one subject is not linked to another by a sign-in that
\* comes with its address: "already linked to a different identity; an
\* administrator has to unlink it first" (linkOAuthUser), as long as no two
\* requests had a row to write back at once.  The subject alone: the provider may
\* become another one (IdentityKeepsAccount).
SubjectKeepsAccount ==
    [][clean' => \A u \in Users :
          Kept(u) /\ users[u].subject # None => users'[u].subject = users[u].subject]_vars

\* "The subject is what the account is really keyed on" (models.go:282), and is
\* "that provider's own identifier for the person" (models.go:279-280): an
\* account stays with its provider too.  No run checks it: once the provider is
\* replaced under another name, whoever the new one calls by the same subject
\* is given the account by its address (oauth.go:629, :635).
IdentityKeepsAccount ==
    [][clean' => \A u \in Users :
          Kept(u) /\ users[u].subject # None => users'[u].provider = users[u].provider]_vars

\* The row that ends all sessions of an account ends those "a user currently
\* holds", and not the ones opened afterwards (RevokeAllForUser).
FreshSessionsWork ==
    \A p \in pairs : LiveRefresh(p) /\ IsRevoked(p.sid, p.user) => p.sid \in ended
=============================================================================
