SPECIFICATION FairSpec
CONSTANTS
    s1 = s1
    s2 = s2
    w1 = w1
    w2 = w2
    nowhere = nowhere
    None = None
    Sandboxes <- TwoSandboxes
    Exposed <- FirstIsExposed
    Workers <- TwoWorkers
    Destinations <- SomeUnknown
    Keys = {k1, k2}
    Migrations = {m1, m2}
    MaxCrashes = 1
    MaxRestarts = 2
INVARIANTS
    ActiveRowAgrees
    NoRollbackAfterResume
    ResumeSentOnce
    ResumeEpochsDiffer
    OwnerFollowsCutover
    EventLogFaithful
PROPERTY
    MigrationsSettle
CHECK_DEADLOCK FALSE
