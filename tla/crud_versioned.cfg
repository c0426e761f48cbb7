CONSTANTS
    Callers = {c1, c2}
    Ids = {i1}
    NoId = NoId
    Ops = {"new", "newId", "put", "get"}
    MaxSends = 2
    MaxClock = 3
    ReuseAfterError = FALSE
SPECIFICATION Spec
SYMMETRY Symmetry
INVARIANTS
    CrudInv
    CopyInSync
    AcknowledgedIsStored
    LockErrorTruthful
    WholeRows
PROPERTIES
    NoLostEdits
    CreationKept
    ImplementsVersionedItem
