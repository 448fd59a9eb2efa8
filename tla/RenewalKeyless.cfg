SPECIFICATION FairSpec
CONSTANTS
    Requests = {r1, r2}
    Schedulers = {s1}
    Targets = {t1}
    FirstTargets = {t1}
    t1 = t1
    l1 = l1
    l2 = l2
    Places = {l1}
    FirstPlaces <- MCFirstPlaces
    Kinds = {"hold", "release"}
    Exclusive = {}
    FirstValidity = 4
    FirstKey = FALSE
    Validities = {}
    Windows = {1}
    PageLimit = 200
    MaxCerts = 2
    MaxNow = 1
    MaxFailures = 0
    MaxPushErrors = 0
    None = None
PROPERTY
    EventuallyServed
