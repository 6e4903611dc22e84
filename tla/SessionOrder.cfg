SPECIFICATION Spec
CONSTANTS
    Addresses = {2, 3}
    Names <- NameForms
    NoAddress = NoAddress
    BlockSize = 2
    SizeTexts <- Digits
    MaxArgs = 4
CHECK_DEADLOCK FALSE
INVARIANTS
    TypeOK
    PlacedAsAsked
    NothingSkipped
    RunsAfter
