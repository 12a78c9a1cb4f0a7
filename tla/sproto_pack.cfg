SPECIFICATION Spec
CONSTANTS
    Parts = {"sproto"}
    Clients = {c1, c2}
INVARIANT PackFits
CHECK_DEADLOCK FALSE
