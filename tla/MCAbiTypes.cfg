SPECIFICATION Spec
CONSTANTS
    Builtins    <- SmallBuiltins
    Order       <- SmallOrder
    Abis        <- SmallAbis
    Requests    <- SmallRequests
    Reflected   <- SmallReflected
    CppRequests <- SmallCppRequests
    MaxDepth = 12
INVARIANTS
    TypeOK
    TableSound
    DefinitionsComeBack
    FieldsFlattened
    CirclesRefused
PROPERTIES
    TableOnlyGrows
