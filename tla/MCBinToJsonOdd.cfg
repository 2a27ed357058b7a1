\* An ABI with an extension before a required field.
SPECIFICATION Spec
CONSTANTS
    Types   <- OddTypes
    Kind    <- OddKind
    Element <- OddElement
    Size    <- OddSize
    Fields  <- OddFields
    Strings <- WideStrings
    TextOf  <- WideTextOf
    Inputs  <- SixBytes
    MaxByte = 2
    MaxStack = 4
INVARIANTS
    WritesJson
