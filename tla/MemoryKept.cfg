SPECIFICATION Spec
CONSTANTS
    Byte = {b1, b2}
    Increment = 2
    MaxFile = 4
    MaxCount = 3
INVARIANTS
    TypeOK
    ShortMeansEnd
PROPERTY FileKept
