CONSTANTS
    BlockSizes = {0, 511, 2048}
    DefaultBlockSize = 4096
    MinBlockSize = 512
    Word = 16384
    TreeSizes = {1024, 8192, 16384}
    FileSizes = {0, 513, 5000}
    MaxFiles = 2
    Sector = 512
    HeaderAt = 1024
    CatalogNode = 4096
    ExtentsNode = 1024
    AttributesNode = 8192
    ReadMax = 4096
    MaxChanges = 2
SPECIFICATION WriteSpec
INVARIANTS
    DiskHoldsPlan
    CatalogAgrees
    StoredWhole
    FilesStayInside
