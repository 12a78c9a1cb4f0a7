SPECIFICATION Spec
CONSTANTS
    w1 = w1
    w2 = w2
    Worker = {w1, w2}
    Other = {other}
    Weight <- SameWeight
    Harbor = 0
    Boot = 1
    MaxService = 2
    MaxPush = 2
    MonitorExit = 1
INVARIANTS
    OnePlace
    InOrder
    
PROPERTIES
    ImplementsActor
SYMMETRY Workers
