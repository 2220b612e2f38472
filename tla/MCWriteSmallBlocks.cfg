CONSTANTS
    BlockSizes = {512, 1024}
    DefaultBlockSize = 4096
    MinBlockSize = 512
    Word = 16384
    TreeSizes = {1024, 8192}
    FileSizes = {0, 1}
    MaxFiles = 1
    Sector = 512
    HeaderAt = 1024
    CatalogNode = 4096
    ExtentsNode = 1024
    AttributesNode = 8192
    ReadMax = 4096
    MaxChanges = 0
SPECIFICATION WriteSpec
INVARIANT
    BlockZeroReserved
