CONSTANTS
    Callers = {c1, c2}
    Ids = {i1, i2}
    NoId = NoId
    Kinds = {"put", "delete", "check"}
    MaxItems = 2
    MaxClock = 3
    ReuseAfterError = FALSE
SPECIFICATION Spec
SYMMETRY Symmetry
INVARIANTS
    TransactInv
    AllOrNothing
    OkMeansAll
    LockMeansNothing
    SnapshotRead
PROPERTIES
    CommitsOnCurrentCopies
    OnlyCreatesAppear
