SPECIFICATION Spec
CONSTANTS
    InitialSize = 3
    Sizes = {0, 1, 2, 5}
    MaxOffered = 6
INVARIANTS
    Bounds
    GoodMeansComplete
    IInv
PROPERTIES
    ReadIsExact
    SendIsExact
