SPECIFICATION FairSpec
CONSTANTS
    Worker = {w1, w2}
    MaxPost = 2
PROPERTY
    Terminates
CHECK_DEADLOCK FALSE
