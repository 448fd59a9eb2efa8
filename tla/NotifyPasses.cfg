SPECIFICATION Spec
CONSTANTS
    Schedulers = {s1, s2}
    Requests = {r1}
    FirstChannels = {c1}
    MaxEvents = 1
    maxDeliveryAttempts = 3
    retryBackoff <- MCBackoff
    PassLimit = 1
    MaxFailures = 2
INVARIANTS TypeOK Accounted
PROPERTY EventuallySettled
