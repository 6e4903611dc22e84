SPECIFICATION Spec
CONSTANTS
    BlkSize = 8
    PartSize = 16
    Sizes <- AllSizes
    BootSizes <- BootImages
    ElfSizes <- ElfImages
    Addrs <- Places
    ElfAddrs <- ElfPlaces
    Reaches <- AllReaches
    Kinds <- Both
    AppendKinds <- Sparse
    MaxImages = 3
    MaxOpens = 2
INVARIANTS
    TypeOK
    ImagesArrive
    KeptApart
    ExtractWhole
    ListedAsAdded
CHECK_DEADLOCK FALSE
