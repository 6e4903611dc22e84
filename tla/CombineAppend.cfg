SPECIFICATION Spec
CONSTANTS
    BlkSize = 8
    PartSize = 16
    Sizes <- AllSizes
    BootSizes <- BootImages
    ElfSizes <- ElfImages
    Addrs <- Places
    ElfAddrs <- ElfPlaces
    Reaches <- AllReaches
    Kinds <- Padded
    AppendKinds <- Padded
    MaxImages = 3
    MaxOpens = 2
INVARIANT ImagesArrive
CHECK_DEADLOCK FALSE
