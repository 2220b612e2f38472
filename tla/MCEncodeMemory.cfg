CONSTANTS
    RegionSectors = 14
    ChunkSectors = 1
    NumChunks = 14
    SectorSize = 2
    BaseOffset = 7
    Zlib = TRUE
    ZlibLens = {0}
    Workers = {w1, w2}
    Faults = {}
SPECIFICATION Spec
SYMMETRY WorkerSymmetry
INVARIANTS
    BoundedMemory
