CONSTANTS
    Callers = {c1, c2}
    Ids = {i1}
    NoId = NoId
    Ops = {"new", "newId", "put", "get", "delete", "update", "updateIf"}
    MaxSends = 1
    MaxClock = 3
    ReuseAfterError = TRUE
SPECIFICATION Spec
SYMMETRY Symmetry
INVARIANTS
    LockErrorTruthful
PROPERTIES
    VersionSteps
