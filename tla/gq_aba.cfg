SPECIFICATION GlobalQueueSpec
CONSTANTS
    Thread = {t1, t2, t3}
    Popper = {t1, t2, t3}
    Queue = {q1, q2, q3, q4}
    Capacity = 1
    NULL = NULL
INVARIANT
    AssertUnlinked
SYMMETRY Queues
CHECK_DEADLOCK FALSE
