SPECIFICATION ProxyFairSpec
CONSTANTS
    s1 = s1
    Sessions <- OneClient
    BufferLimit = 1
    MaxEpoch = 2
    MaxChunks = 2
    MaxFaults = 1
INVARIANTS
    BufferNeverOverflows
    ClientBytesInOrder
    NothingDropped
    NoSessionLeftBehind
    PendingWillReport
PROPERTY
    RouteSettles
CHECK_DEADLOCK FALSE
