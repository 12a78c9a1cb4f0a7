SPECIFICATION FairSpec
CONSTANTS
    w1 = w1
    w2 = w2
    Worker = {w1, w2}
    Other = {other}
    Weight <- MCWeight
    Harbor = 0
    Boot = 2
    MaxService = 2
    MaxPush = 1
    MonitorExit = 0
INVARIANTS
    NoneStranded
PROPERTY
    EveryMessageServed
