SPECIFICATION Spec
CONSTANTS
    Capacity = 4
    Values = {v1, v2}
    IdxRange = 8
    Size = 3
    Keys = {1, 2, 3, 4}
    Vals = {v1, v2}
    CacheKeys = {k1, k2, k3}
    Sizes = {1, 2}
    CacheSize = 4
    MaxInserts = 4
    MaxN = 6
    MaxR = 5
    ArraySize = 5
    Requests = {1, 2, 3}
    SizeRange = 9
    HeapRegions = {h1, h2}
    MaxItems = 3
    W = 4
    Mantissa = 2
    Shift = 3
    fractionLength = 4
    MaxFixed = 3
    IntBits = 4
    BitSizes = {3, 4, 5}
    Base = 2
    MaxBits = 6
    MaxKey = 2
    Attrs = {1, 5}
    IntRange = 4
    MaxBatch = 2
    MaxCalls = 2
    MaxContent = 2
INVARIANTS
    TypeOK
    CacheIsCoherent
    ReadIffPlain
    NumbersAreExact
    BitsAreAskedFor
    RowsAreKept
    EveryRowIsHandedOut
    ReplyIsToItsRequest
PROPERTIES
    HandsOutAll
    ImplementsVector
    ImplementsMap
    ImplementsCache
    ImplementsAllocator
CHECK_DEADLOCK FALSE
