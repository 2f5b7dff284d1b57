SPECIFICATION Spec
CONSTANTS
    Threads = {t1, t2, t3}
    Own = {c1, c2}
INVARIANTS
    TypeOK
    TraceBeforeExit
PROPERTIES
    PrintingResumes
    WaitingEnds
CHECK_DEADLOCK FALSE
