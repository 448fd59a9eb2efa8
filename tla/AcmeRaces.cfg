SPECIFICATION Spec
CONSTANTS
    Requests = {r1, r2, r3, r4}
    Accounts = {a1, a2}
    Names = {n1, n2}
    Wildcards = {}
    OrderNames = {{n1, n2}}
    DNS01 = TRUE
    HTTP01 = FALSE
    Kinds = {"newOrder", "challenge", "finalize"}
    OrderList = TRUE
    Serial = FALSE
    MaxAttempts = 1
    MaxFailures = 1
    None = None
CHECK_DEADLOCK FALSE
SYMMETRY NameSymmetry
INVARIANTS
    UnprovenWereRushed
    ValidOrderHasCertificate
    NoStuckOrder
    NonceActsOnce
