CONSTANTS
    BlockSizes = {0, 7, 8, 12, 64}
    DefaultBlockSize = 64
    MinBlockSize = 8
    Word = 256
    TreeSizes = {0, 16, 136, 2050}
    FileSizes = {0, 1, 9, 400, 408, 440, 448, 1001, 1904, 1920, 2050}
    MaxFiles = 2
SPECIFICATION PlanSpec
INVARIANTS
    PlanInv
    BitmapFits
    ForksDisjoint
    ClumpCap
    LeastBitmap
    FreeIsTail
PROPERTIES
    PlanEnds
