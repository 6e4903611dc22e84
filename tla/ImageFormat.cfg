SPECIFICATION Spec
CONSTANTS
    Elf <- Sections
    Names <- AllNames
    MaxList = 3
    Entry = 1074790404
    Values <- OneOrTwo
    MaxEvents = 2
    SpoiltBy <- Bit
    SeekFails = FALSE
INVARIANTS
    TypeOK
    ReadBack
    StumpNoticed
    DataGuarded
    ParmsArrive
CHECK_DEADLOCK FALSE
