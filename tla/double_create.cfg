CONSTANTS
    Callers = {c1, c2}
    Ids = {i1}
    NoId = NoId
    Ops = {"new", "newId", "put"}
    MaxSends = 1
    MaxClock = 3
    ReuseAfterError = TRUE
SPECIFICATION Spec
SYMMETRY Symmetry
PROPERTIES
    CreationKept
