SPECIFICATION FairSpec
CONSTANTS
    s1 = s1
    s2 = s2
    w1 = w1
    w2 = w2
    nowhere = nowhere
    None = None
    Sandboxes <- TwoSandboxes
    Exposed <- FirstIsExposed
    Workers <- TwoWorkers
    Destinations <- SomeUnknown
    Keys = {k1, k2}
    Migrations = {m1, m2}
    MaxCrashes = 0
    MaxRestarts = 3
PROPERTY
    ConfiguredMigrationsSettle
CHECK_DEADLOCK FALSE
