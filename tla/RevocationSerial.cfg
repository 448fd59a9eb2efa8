SPECIFICATION Spec
CONSTANTS
    Certs = {c1, c2}
    Requests = {r1, r2, r3}
    Schedulers = {s1}
    Kinds = {"revoke", "bulk", "release", "update", "delete", "updateCA", "renewCA", "crlFor", "generate", "scan", "crls"}
    Clocks = {"certificates"}
    Reasons = {Hold, KeyCompromise}
    Hold = Hold
    Protected = FALSE
    Serial = TRUE
    MaxFailures = 0
    MaxCRLNumber = 1
    None = None
SYMMETRY Symmetry
INVARIANTS
    TypeOK
    StatusAgreesWithTable
    ListIsComplete
PROPERTIES
    ImplementsLife
    ListNumbersIncrease
