SPECIFICATION LSpec
CONSTANTS
    Modes <- AllModes
    MaxResets = 3
    MaxFaults = 2
INVARIANTS
    LTypeOK
    EndsAsAsked
    LeavesReleased
CHECK_DEADLOCK FALSE
