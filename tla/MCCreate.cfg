CONSTANTS
    AttrNames = {n1, n2}
    AttrLens = {0, 1, 3}
    List = List
    ListLen <- TwoEach
    MaxAttempts = 2
    MaxAttrChanges = 2
    AttrKeys <- SomeKeys
    Keys = {1, 2}
    TooLong = TooLong
    MaxInline = 2
    Parts = 2
SPECIFICATION CreateSpec
INVARIANTS
    CreateInv
    AttrsFaithful
    OldImageSurvives
    SuccessIsWhole
    ScratchGone
PROPERTIES
    CreateReturns
