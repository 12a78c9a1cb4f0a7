SPECIFICATION FairSpec
CONSTANTS
    MAX_SOCKET = 2
    Use <- Uses
    MaxId = 4
    MaxBuf = 2
INVARIANTS
    WireInOrder
    FreedOnce
    
    
    HighIsInFlight
PROPERTIES
    HighDrains
    ReleaseEnds
CHECK_DEADLOCK FALSE
