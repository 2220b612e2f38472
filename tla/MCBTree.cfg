CONSTANTS
    NodeSize = 12
    Descriptor = 2
    HeaderRecords = 4
    Slot = 1
    KeyLength = 1
    Pointer = 1
    ByteBits = 1
    KeySizes = {1, 2, 4}
    DataSizes = {1, 5}
    MaxRecords = 5
    BlockSizes = {6, 12, 36}
SPECIFICATION BTreeSpec
INVARIANTS
    BTreeInv
    SearchFinds
    ChainIsSorted
    MapIsExact
    NodesTile
