CONSTANTS
    BlockSizes = {4096}
    DefaultBlockSize = 4096
    MinBlockSize = 512
    Word = 16384
    TreeSizes = {1024, 8192}
    FileSizes = {0, 1, 513}
    MaxFiles = 1
    Sector = 512
    HeaderAt = 1024
    CatalogNode = 4096
    ExtentsNode = 1024
    AttributesNode = 8192
    ReadMax = 4096
    MaxChanges = 1
SPECIFICATION WriteSpec
INVARIANT
    ChangedIsError
