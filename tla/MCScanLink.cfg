CONSTANTS
    Names = {1, 2}
    Nfd <- Distinct
    TooLong = TooLong
    VolumeNames = {9, TooLong}
    RootKinds = {"dir", "link"}
    MaxDepth = 2
    MaxObjects = 1
    MaxChanges = 0
SPECIFICATION ScanSpec
INVARIANT ContainsEveryFile
