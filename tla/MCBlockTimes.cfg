CONSTANTS
    Bits = 10
    MaxBytes = 2
    NameSize = 2
    Letters = {"A", "B"}
    CodeSize = 2
    AmountBits = 8
    Radix = 3
    Byte = 5
    KeySize = 2
    PrivateSize = 1
    SignatureSize = 2
    ChecksumSize = 1
    Checksum <- MCChecksum
    JsonTypes = {"block_timestamp"}
    BinTypes = {}
    Texts <- TestedTexts
    Binaries <- None
    KeyTypes <- None
    Keyed <- None
    SomeNames <- MCSomeNames
    Shapes <- None
    SizeBits = 12
    MaxBits = 9
    WideBytes = 2
    SizeBytes = 2

SPECIFICATION Spec

CHECK_DEADLOCK FALSE

INVARIANT BlockTimesComeBack
