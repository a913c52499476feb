SPECIFICATION CommandsFairSpec
CONSTANTS
    Ids = {c1, c2}
    Channels = {h1}
    Other = Other
    Tasks = {t1}
    Window = 2
    MaxOthers = 1
    MaxMigrations = 1
    MaxFaults = 1
INVARIANTS
    DoneHasRun
    QueueOrder
    QueueAgreesWithTable
    ReplayRunsOnce
PROPERTY
    RepeatedCommandsFinish
CHECK_DEADLOCK FALSE
