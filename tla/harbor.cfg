SPECIFICATION FairSpec
CONSTANTS
    DEFAULT_QUEUE_SIZE = 2
    HEADER_COOKIE_LENGTH = 12
    Plans <- MCPlans
    MaxMsg = 3
    Chunks = {1, 6}
INVARIANTS
    
    FreedOnce
    NothingBeforeHandshake
PROPERTIES
    EveryMessageAnswered
CHECK_DEADLOCK FALSE
