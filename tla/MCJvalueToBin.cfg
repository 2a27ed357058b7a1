\* Every document of nine tokens; four nested arrays are one too many for MaxStack.
SPECIFICATION Spec
CONSTANTS
    Types   <- FewTypes
    Kind    <- FewKind
    Element <- FewElement
    Size    <- FewSize
    Fields  <- FewFields
    Strings <- FewStrings
    TextOf  <- FewTextOf
    MaxByte = 0
    MaxStack = 3
    MaxTokens = 9
INVARIANTS
    TypeOK
    BuilderSound
    EncoderSound
PROPERTIES
    Terminates
    ImplementsConversion
