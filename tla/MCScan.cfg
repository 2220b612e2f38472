CONSTANTS
    Names = {1, 2, 3}
    Nfd <- Colliding
    TooLong = TooLong
    VolumeNames = {9, TooLong}
    RootKinds = {"dir", "file", "link"}
    MaxDepth = 2
    MaxObjects = 3
    MaxChanges = 1
SPECIFICATION ScanSpec
INVARIANTS
    CatalogAccepts
    PathsResolve
    CountsAgree
PROPERTIES
    ImplementsArchive
