SPECIFICATION Spec
CONSTANTS
    Requests = {r1, r2, r3, r4}
    Accounts = {a1, a2}
    Names = {n1, n2}
    Wildcards = {n2}
    OrderNames = {{n1}, {n1, n2}}
    DNS01 = TRUE
    HTTP01 = TRUE
    Kinds = {"newOrder", "challenge", "finalize", "prune"}
    OrderList = TRUE
    Serial = TRUE
    MaxAttempts = 2
    MaxFailures = 0
    None = None
CHECK_DEADLOCK FALSE
SYMMETRY Symmetry
INVARIANT TypeOK
PROPERTY ImplementsOrderLife
