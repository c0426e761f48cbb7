CONSTANTS
    Fields = {"Notes", "Log", "Temp", "Raw"}
    Kind <- Kinds
    dynamodbav <- Named
    Programs = {"old", "mid", "new"}
    Compressed <- Tagged
    Values = {"v", "NaN"}
    NoJSON = {"NaN"}
SPECIFICATION CompressSpec
INVARIANTS
    NewestReadsAll
PROPERTIES
    ReadsLastWritten
