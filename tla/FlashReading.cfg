SPECIFICATION FairRead
CONSTANTS
    Session <- LoadStub
    SyncReplies = 2
    MaxSyncs = 2
    Faults <- AllFaults
    WrongBytes <- Wrong
    MaxFaults = 1
    Content <- Bytes
    Lengths <- TwoAndFive
    BLK = 3
INVARIANTS
    FileIsFlash
    NothingShifted
PROPERTIES
    ReadConcludes
CHECK_DEADLOCK FALSE
