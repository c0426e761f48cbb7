CONSTANTS
    Callers = {c1}
    Ids = {i1}
    NoId = NoId
    Ops = {"new", "newId", "put"}
    MaxSends = 1
    MaxClock = 2
    ReuseAfterError = FALSE
SPECIFICATION Spec
SYMMETRY Symmetry
INVARIANTS
    IndexComplete
