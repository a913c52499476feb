SPECIFICATION TransferFairSpec
CONSTANTS
    Kinds = {"state", "disk"}
    InPlace = {"disk"}
    Sizes <- TwoSizes
    MaxGenerations = 2
    Calls = {1, 2}
    MaxFaults = 1
INVARIANTS
    RegisteredIsPublished
PROPERTY
    RetriedTransferCompletes
CHECK_DEADLOCK FALSE
