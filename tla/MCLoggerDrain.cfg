SPECIFICATION Spec
CONSTANTS
    Producers = {p1, p2}
    MaxLog <- MCMaxLog
    Levels <- MCLevels
    Streams = {s1}
    Cerr = Cerr
    MaxEnd = 1
    NoThread = NoThread
INVARIANTS
    TypeOK
    NoEmptyFront
    NoBlankLines
    NothingLostAtJoin
PROPERTIES
    DestructorReturns
    ImplementsLogger
    QueuedAtEndIsEmitted
CHECK_DEADLOCK FALSE
