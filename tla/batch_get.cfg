CONSTANTS
    Keys = {k1, k2, k3}
    ChunkSize = 2
    MaxRetries = 2
    MaxIds = 3
    MaxChanges = 2
SPECIFICATION Spec
INVARIANTS
    GetInv
PROPERTIES
    ImplementsReadAll
    RunEnds
