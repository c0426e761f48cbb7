CONSTANTS
    Keys <- Keys3
    Rows <- SomeRows
    Pks = {"p"}
    Indexes = {"gsi1", "gsi2"}
    gsi1Name = "gsi1"
    KeyKind <- SomeKinds
    MaxExact = 3
    Ranges <- SomeRanges
    Conds = {"c", "bad"}
    BadConds = {"bad"}
    Limits = {1}
    MaxSettings = 2
    MaxChanges = 2
SPECIFICATION Spec
INVARIANTS
    ReadInv
PROPERTIES
    ImplementsReadAll
    AllEnds
