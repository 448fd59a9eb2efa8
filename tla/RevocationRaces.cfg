SPECIFICATION FairSpec
CONSTANTS
    Certs = {c1}
    Requests = {r1, r2}
    Schedulers = {s1}
    Kinds = {"revoke", "bulk", "update", "delete", "updateCA", "scan", "crls"}
    Clocks = {"certificates", "authority"}
    Reasons = {KeyCompromise}
    Hold = Hold
    Protected = FALSE
    Serial = FALSE
    MaxFailures = 1
    MaxCRLNumber = 0
    None = None
INVARIANTS
    NoOrphanRevocation
    AcknowledgedRevocationStands
    RevokedOnce
    RevocationsWereRequested
PROPERTIES
    EventuallyPublished
    StatusFollowsClock
