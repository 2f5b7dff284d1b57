SPECIFICATION Spec
CONSTANTS
    Capacity = 1
    Values = {v1}
    IdxRange = 4
    Size = 1
    Keys = {1}
    Vals = {v1}
    CacheKeys = {k1}
    Sizes = {1}
    CacheSize = 1
    MaxInserts = 1
    MaxN = 1
    MaxR = 1
    ArraySize = 1
    Requests = {1}
    SizeRange = 9
    HeapRegions = {h1}
    MaxItems = 3
    W = 4
    Mantissa = 2
    Shift = 3
    fractionLength = 4
    MaxFixed = 1
    IntBits = 4
    BitSizes = {3}
    Base = 2
    MaxBits = 1
    MaxKey = 1
    Attrs = {1}
    IntRange = 4
    MaxBatch = 1
    MaxCalls = 1
    MaxContent = 1
INVARIANTS
    CommentsAreRead
CHECK_DEADLOCK FALSE
