SPECIFICATION Spec
CONSTANTS
    TIME_NEAR_SHIFT = 1
    TIME_LEVEL_SHIFT = 1
    Timer = {n1, n2}
    Timeout <- Timeouts
    MaxDiff = 2
PROPERTY ImplementsAlarm
