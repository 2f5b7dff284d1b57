SPECIFICATION Spec
CONSTANTS
    NumThreads = 2
    MaxRequests = 3
INVARIANTS
    TypeOK
PROPERTIES
    ConnectionEnds
CHECK_DEADLOCK FALSE
