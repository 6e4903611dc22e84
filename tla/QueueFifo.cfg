SPECIFICATION FairSpec
CONSTANTS
    Byte = {b1, b2}
    CopyOrders <- Ascending
    ReadErrors = FALSE
    UIntMax = 63
    MaxReceived = 5
    MaxGet = 3
INVARIANTS
    TypeOK
    WithinArray
PROPERTIES
    FifoKept
    GetReturns
CHECK_DEADLOCK FALSE
