SPECIFICATION Spec
CONSTANTS
    Contracts <- SmallContracts
    Abis      <- SmallAbis
    TypeNames <- SmallTypeNames
    Defines   <- SmallDefines
    Texts     <- SmallTexts
    Fits      <- SmallFits
INVARIANTS
    TypeOK
    LentNamesLive
    NoStaleError
PROPERTIES
    FailureKeepsResults
