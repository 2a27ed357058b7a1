SPECIFICATION Spec
CONSTANTS
    Types   <- FullTypes
    Kind    <- FullKind
    Element <- FullElement
    Size    <- FullSize
    Fields  <- FullFields
    Strings <- SmallStrings
    TextOf  <- SmallTextOf
    MaxByte = 1
    MaxStack = 3
    MaxTokens = 12
INVARIANTS
    SameBinary
    ReorderableAccepts
    BackToTheSameText
