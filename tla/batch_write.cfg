CONSTANTS
    Ids = {i1, i2}
    NoId = NoId
    Ptrs = {p1, p2}
    ChunkSize = 2
    MaxRetries = 2
    MaxOps = 3
    MaxRuns = 2
SPECIFICATION Spec
INVARIANTS
    BatchInv
    AllApplied
    InOrder
    RowsMatchItems
PROPERTIES
    RunEnds
CHECK_DEADLOCK FALSE
