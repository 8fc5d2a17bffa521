SPECIFICATION Spec
CONSTANTS
    Heaps = {h1, h2, h3, h4}
    Livings = {p1, p2}
    Room = Room
    None = None
    Items = 2
    MaxTotal = 3
    MaxDrift = 1
    Capacity = 2
    MaxCalls = 2
SYMMETRY Symm
INVARIANTS
    TypeOK
    NoTwins
    SplitIsPending
PROPERTIES
    TotalIsExplained
    DriftNeedsSplit
CHECK_DEADLOCK FALSE
