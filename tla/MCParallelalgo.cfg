SPECIFICATION Spec
CONSTANTS
    MaxSize = 5
    MaxThreads = 3
    MaxDist = 7
    MaxForEach = 4
INVARIANTS
    TypeOK
    EachElementOnce
    HitIsReported
    SlicesTogether
PROPERTY
    Returns
CHECK_DEADLOCK FALSE
