CONSTANTS
    Bits = 10
    MaxBytes = 2
    NameSize = 2
    Letters = {"A", "B"}
    CodeSize = 2
    AmountBits = 8
    Radix = 3
    Byte = 5
    KeySize = 2
    PrivateSize = 1
    SignatureSize = 2
    ChecksumSize = 1
    Checksum <- MCChecksum
    JsonTypes = {"int8", "uint8", "name", "c_name", "symbol", "asset", "time_point_sec", "time_point",
                 "block_timestamp", "symbol_code", "bitset", "public_key", "private_key", "signature",
                 "s_text", "s_shorts", "s_strings", "s_struct", "s_nested", "s_variant", "s_map",
                 "s_checksum", "s_abi_def", "int128", "uint128"}
    BinTypes = {"varuint32", "varint32", "bitset", "s_text", "s_shorts", "s_strings", "s_struct", "s_nested",
                "s_variant", "s_map", "s_set", "s_list", "s_c_array", "s_array",
                "s_checksum", "s_abi_def", "int128", "uint128"}
    Texts <- MCTexts
    Binaries <- MCBinaries
    KeyTypes <- MCKeyTypes
    Keyed <- MCKeyed
    SomeNames <- MCSomeNames
    Shapes <- MCShapes
    SizeBits = 12
    MaxBits = 9
    WideBytes = 2
    SizeBytes = 2

SPECIFICATION Spec

CHECK_DEADLOCK FALSE

INVARIANT ValuesComeBack
INVARIANT TimeTextsComeBack
INVARIANT KeysKeepOrder
INVARIANT DatesFollowCalendar
INVARIANT UnknownMembersIgnored
PROPERTY IntegersReadExactly
PROPERTY ReadsNoMore
