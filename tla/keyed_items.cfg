CONSTANTS
    Types = {"Default", "Sk", "Both"}
    pkFields <- PkOf
    skFields <- SkOf
    Fields <- Names
    Values <- Texts
    Ids = {i1, i2}
    Callers = {c1, c2}
    OwnIds = TRUE
    MaxVersion = 2
SPECIFICATION Spec
SYMMETRY Symmetry
INVARIANTS
    OneRowPerItem
    ZeroKeyIsTheKey
PROPERTIES
    NeverReplacesAnother
    SuccessorsInPlace
