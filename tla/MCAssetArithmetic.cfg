SPECIFICATION Spec
CONSTANTS
    MaxAmount = 3
    Symbols = {"SYS", "none"}
    ValidSymbols = {"SYS"}
    Contracts = {"sysio", "other"}
    Objects = {"a", "b"}
    Numbers <- SomeNumbers
INVARIANTS
    TypeOK
    CheckedIsExact
PROPERTIES
    FailureIsVisible
