\* An ABI with an extension before a required field.
SPECIFICATION Spec
CONSTANTS
    Types   <- OddTypes
    Kind    <- OddKind
    Element <- OddElement
    Size    <- OddSize
    Fields  <- OddFields
    Strings <- SmallStrings
    TextOf  <- SmallTextOf
    MaxByte = 1
    MaxStack = 4
    MaxTokens = 6
PROPERTIES
    OnlyExtensionsLeftOut
