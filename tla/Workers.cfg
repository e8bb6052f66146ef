SPECIFICATION Spec
CONSTANTS
    Threads = {t1, t2, t3}
    Cells = {m1, m2}
    Killer = Killer
    NULL = NULL
PROPERTY
    LockReleased
CHECK_DEADLOCK FALSE
