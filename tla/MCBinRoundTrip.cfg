SPECIFICATION Spec
CONSTANTS
    Types   <- FullTypes
    Kind    <- FullKind
    Element <- FullElement
    Size    <- FullSize
    Fields  <- FullFields
    Strings <- WideStrings
    TextOf  <- WideTextOf
    Inputs  <- FiveBytes
    MaxByte = 2
    MaxStack = 4
INVARIANTS
    SameBytes
