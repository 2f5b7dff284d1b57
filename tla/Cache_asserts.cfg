SPECIFICATION Spec
CONSTANTS
    Keys = {k1, k2, k3}
    Sizes = {1, 2}
    CacheSize = 4
    MaxInserts = 4
INVARIANTS
    AssertionHolds
CHECK_DEADLOCK FALSE
