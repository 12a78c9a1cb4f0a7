SPECIFICATION FairSpec
CONSTANTS
    Worker = {w1, w2, w3}
    MaxPost = 2
INVARIANTS
    SleepCount
PROPERTIES
    SleepersStay
    ReadyIsDispatched
CHECK_DEADLOCK FALSE
