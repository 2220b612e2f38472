CONSTANTS
    RegionSectors = 9
    ChunkSectors = 2
    NumChunks = 5
    SectorSize = 2
    BaseOffset = 7
    Zlib = TRUE
    ZlibLens = {0, 3}
    Workers = {w1, w2, w3}
    Faults = {"read", "crc", "zlib", "write"}
SPECIFICATION Spec
SYMMETRY WorkerSymmetry
INVARIANTS
    Ind
    NoSendOnClosed
    NoGoroutineLeft
    SuccessIsComplete
    ErrorIsReal
    RunsTile
    ReadBack
PROPERTIES
    QuietAfterReturn
    ImplementsSequential
