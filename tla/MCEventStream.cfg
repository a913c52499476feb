SPECIFICATION EventStreamFairSpec
CONSTANTS
    MaxReconnects = 2
    MaxEvents = 4
    MaxKills = 1
    MaxFaults = 4
INVARIANTS
    SeenInOrder
    NoEventSkipped
PROPERTY
    WatchEnds
CHECK_DEADLOCK FALSE
