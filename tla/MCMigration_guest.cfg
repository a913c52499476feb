SPECIFICATION FromW1
CONSTANTS
    s1 = s1
    w1 = w1
    w2 = w2
    w3 = w3
    None = None
    Sandboxes <- OneSandbox
    Exposed <- OneSandbox
    Workers <- TwoWorkers
    Destinations <- TwoWorkers
    Keys = {k1, k2}
    Migrations = {m1, m2}
    MaxCrashes = 1
    MaxRestarts = 3
    Failing <- HostCalls
    SharedRoot = FALSE
    MaxWrites = 1
    MaxWorkerRestarts = 1
    TimeOuts = TRUE
    LateDelivery = FALSE
    MaxLate = 1
INVARIANTS
    OnlyOwnerRuns
    DoneMeansSourceGone
    RouteFollowsOwner
PROPERTY
    OneGuest
CHECK_DEADLOCK FALSE
