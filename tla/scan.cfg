CONSTANTS
    Keys <- Keys2
    Rows <- SomeRows
    Conds = {"c", "bad"}
    BadConds = {"bad"}
    Limits = {1}
    Totals = {0, 2, 3}
    MaxInt32 = 2
    MaxChanges = 1
SPECIFICATION Spec
INVARIANTS
    ScanInv
    NoLeak
PROPERTIES
    ImplementsReadAll
    AllEnds
