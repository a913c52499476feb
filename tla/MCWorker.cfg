SPECIFICATION FromW1
CONSTANTS
    w1 = w1
    w2 = w2
    m1 = m1
    m2 = m2
    None = None
    Workers <- TwoWorkers
    Migrations <- TwoMigrations
    Journey <- Return
    Failing <- HostCalls
    SharedRoot = TRUE
    MaxWrites = 0
    MaxWorkerRestarts = 1
    MaxInFlight = 2
INVARIANTS
    SnapshotRunsOnce
    ProcessHoldsDirectory
PROPERTY
    FenceOnlyRises
CHECK_DEADLOCK FALSE
