SPECIFICATION Spec
CONSTANTS
    Threads = {t1, t2}
    Own = {}
PROPERTY
    FreezeEnds
CHECK_DEADLOCK FALSE
