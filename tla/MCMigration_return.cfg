SPECIFICATION FromW1
CONSTANTS
    s1 = s1
    w1 = w1
    w2 = w2
    w3 = w3
    None = None
    Sandboxes <- OneSandbox
    Exposed = {}
    Workers <- TwoWorkers
    Destinations <- TwoWorkers
    Keys = {k1, k2}
    Migrations = {m1, m2}
    MaxCrashes = 0
    MaxRestarts = 3
    Failing = {}
    SharedRoot = FALSE
    MaxWrites = 1
    MaxWorkerRestarts = 0
    TimeOuts = FALSE
    LateDelivery = FALSE
    MaxLate = 0
INVARIANT
    EveryMigrationWorks
CHECK_DEADLOCK FALSE
