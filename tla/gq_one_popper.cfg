SPECIFICATION GlobalQueueSpec
CONSTANTS
    Thread = {t1, t2, t3}
    Popper = {t1}
    Queue = {q1, q2, q3, q4, q5}
    Capacity = 2
    NULL = NULL
INVARIANTS
    NoneLost
    AssertUnlinked
SYMMETRY Queues
