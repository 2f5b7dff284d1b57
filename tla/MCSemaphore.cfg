SPECIFICATION Spec
CONSTANTS
    Threads = {t1, t2, t3, t4}
    NoThread = NoThread
    InitCounts <- MCInitCounts
    MaxCount = 3
INVARIANTS
    TypeOK
    NoLostWakeup
PROPERTIES
    ImplementsSemaphore
CHECK_DEADLOCK FALSE
