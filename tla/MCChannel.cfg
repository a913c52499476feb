SPECIFICATION ChannelFairSpec
CONSTANTS
    c1 = c1
    c2 = c2
    t1 = t1
    t2 = t2
    Commands = {c1, c2}
    Topics = {t1, t2}
    TopicOf <- TwoTopics
    Awaiting = {c1}
    MaxSockets = 2
    MaxCalls = 3
    MaxFaults = 1
INVARIANTS
    RepliesMatch
    PendingHasSocket
    JoinedIsServed
    CompletedHasRun
PROPERTY
    CallsSettle
CHECK_DEADLOCK FALSE
