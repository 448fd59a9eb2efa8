SPECIFICATION FairSpec
CONSTANTS
    Certs = {c1}
    Requests = {r1, r2, r3}
    Schedulers = {s1}
    Kinds = {"revoke", "release", "crls"}
    Clocks = {}
    Reasons = {Hold, KeyCompromise}
    Hold = Hold
    Protected = FALSE
    Serial = FALSE
    MaxFailures = 0
    MaxCRLNumber = 0
    None = None
CHECK_DEADLOCK FALSE
PROPERTIES ReleaseLiftsHoldsOnly
