CONSTANTS
    Goroutines = {g1, g2, g3}
    Types = {"Order", "User", "int"}
    Embeds = {"Order", "User"}
    ModelTag <- Tags
    FieldTags <- Fields
SPECIFICATION Spec
SYMMETRY Symmetry
INVARIANTS
    OneEntry
    EntryComplete
