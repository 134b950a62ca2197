\* Two application threads send their first requests at the same time.
SPECIFICATION Spec
CONSTANTS
    Threads = {t1, t2, t3}
    Null = Null
    SerialCreate = FALSE
INVARIANTS
    JoinedOnce
CHECK_DEADLOCK FALSE
