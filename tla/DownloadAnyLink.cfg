SPECIFICATION FairHost
CONSTANTS
    Images <- TwoImages
    FlashBlocks = 5
    MaxTries = 3
    RunMode = "reset"
    FlushesOutput = TRUE
    LateReplies = TRUE
    Faults <- AllFaults
    MaxFaults = 3
    MaxRests = 2
CHECK_DEADLOCK FALSE
INVARIANT InPlace
PROPERTY Terminates
