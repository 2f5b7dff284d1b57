SPECIFICATION Spec
CONSTANTS
    NumThreads = 1
    MaxRequests = 2
INVARIANT
    ContentIsTimed
CHECK_DEADLOCK FALSE
