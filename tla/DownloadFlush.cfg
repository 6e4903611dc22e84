SPECIFICATION Spec
CONSTANTS
    Images <- TwoImages
    FlashBlocks = 5
    MaxTries = 3
    RunMode = "none"
    FlushesOutput = TRUE
    LateReplies = TRUE
    Faults <- NoFaults
    MaxFaults = 0
    MaxRests = 0
CHECK_DEADLOCK FALSE
INVARIANT SuccessMeansStored
