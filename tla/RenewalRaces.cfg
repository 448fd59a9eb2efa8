SPECIFICATION FairSpec
CONSTANTS
    Requests = {r1}
    Schedulers = {s1}
    Targets = {t1, t2}
    FirstTargets = {t1}
    t1 = t1
    l1 = l1
    l2 = l2
    Places = {l1, l2}
    FirstPlaces <- MCFirstPlaces
    Kinds = {"renew", "update", "hold", "retarget", "addTarget", "dropTarget", "test"}
    Exclusive = {"renew", "test"}
    FirstValidity = 2
    FirstKey = TRUE
    Validities = {}
    Windows = {1}
    PageLimit = 200
    MaxCerts = 8
    MaxNow = 2
    MaxFailures = 1
    MaxPushErrors = 1
    None = None
INVARIANTS
    TypeOK
    RenewalSurvives
    RecordedWasDelivered
PROPERTIES
    EventuallyRenewed
    EventuallyServed
    NeverBack
