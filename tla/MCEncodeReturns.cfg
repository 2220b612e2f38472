CONSTANTS
    RegionSectors = 11
    ChunkSectors = 2
    NumChunks = 6
    SectorSize = 2
    BaseOffset = 7
    Zlib = TRUE
    ZlibLens = {0, 3}
    Workers = {w1}
    Faults = {"read", "crc", "zlib", "write"}
SPECIFICATION Spec
PROPERTIES
    Returns
