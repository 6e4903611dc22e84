SPECIFICATION Spec
CONSTANTS
    Images <- ThreeImages
    FlashBlocks = 5
    MaxTries = 3
    RunMode = "command"
    FlushesOutput = TRUE
    LateReplies = FALSE
    Faults <- AllFaults
    MaxFaults = 5
    MaxRests = 3
CHECK_DEADLOCK FALSE
INVARIANTS
    TypeOK
    AckedStored
    RunsOnlyComplete
    RetriesSurvive
PROPERTY PromiseKept
