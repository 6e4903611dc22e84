SPECIFICATION FairSpec
CONSTANTS
    Session <- ReadTwo
    SyncReplies = 3
    MaxSyncs = 2
    Faults <- AllFaults
    WrongBytes <- Wrong
    MaxFaults = 1
INVARIANTS
    TypeOK
    AcceptedIsPacket
    ValuesTrue
    EscapesWhole
    Quiet
PROPERTIES
    Concludes
CHECK_DEADLOCK FALSE
