CONSTANTS
    EntryArraySectors = 2
    PartitionStartLBA = 6
    MbrMax = 10
    VolumeSectors = {1, 3, 4}
    ChunkSectors = 2
    PayloadLens = {1, 2}
    SectorBytes = 4
    Word = 1024
SPECIFICATION FrameSpec
INVARIANTS
    ReadsBack
    ChecksumsAgree
    MapAccepted
    MapLeadsToVolume
