\* JsonToBin over every kind of type.  Fourteen tokens hold an `all` whose
\* extension is a variant with a `tail` that leaves out its own extension, and a
\* `tree` deeper than MaxStack lets through.
SPECIFICATION Spec
CONSTANTS
    Types   <- FullTypes
    Kind    <- FullKind
    Element <- FullElement
    Size    <- FullSize
    Fields  <- FullFields
    Strings <- SmallStrings
    TextOf  <- SmallTextOf
    MaxByte = 1
    MaxStack = 4
    MaxTokens = 14
INVARIANTS
    TypeOK
    ReaderInStep
    IndexesInBounds
    OpenArraysOwnTheirSize
PROPERTIES
    ExtensionsTrail
    OnlyExtensionsLeftOut
    ImplementsConversion
