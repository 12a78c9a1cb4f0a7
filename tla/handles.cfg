SPECIFICATION Spec
CONSTANTS
    HANDLE_MASK = 3
    Harbor = 0
    Name = {n1, n2}
    MaxContext = 6
INVARIANTS
    NoReuse
PROPERTIES
    SlotsAreKept
    NamesAreStable
