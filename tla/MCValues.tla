------------------------------- MODULE MCValues -------------------------------
(***************************************************************************)
(* Small widths and alphabets for Values.  Dates, times and the integers   *)
(* whose keys are built have their true widths; a float is a pattern of    *)
(* two bytes, sign first.                                                  *)
(***************************************************************************)
EXTENDS Values

SeqsUpTo(S, n) == UNION {[1 .. k -> S] : k \in 0 .. n}

(* s1 \o s2 for all members of two sets of sequences *)
Then(S1, S2) == {s1 \o s2 : s1 \in S1, s2 \in S2}
Perhaps(c) == {<<>>, <<c>>}
Numbers == {int_to_decimal(n) : n \in {0, 7, 12, 127, 128, 255, 256, 260, 999}}

IntTexts ==
    {int_to_decimal(n) : n \in -300 .. 300} \cup SeqsUpTo({"-", "0", "1", "2", "8", "x"}, 4)

NameTexts == SeqsUpTo({0, 1, 15, 16, 31, Other}, 4)
MCSomeNames == {<<0, 0, 0>>, <<31, 1, 15>>, <<0, 1, 0>>}

Codes == Then({<<>>, <<" ">>, <<" ", " ">>}, SeqsUpTo(Letters, 3) \cup {<<"A", " ">>, <<"x">>})
SymbolTexts == Then(Numbers \cup {<<>>, <<"0", "7">>}, Then(Perhaps(","), Codes))
AssetTexts ==
    Then(Then(Perhaps(" "), Perhaps("-")),
         Then(Then((Numbers \ {<<"1", "2">>, <<"2", "6", "0">>}) \cup {<<>>},
                   {<<>>} \cup Then({<<".">>}, {<<>>, <<"5">>, <<"0", "5">>, <<"1", "2", "8">>})),
              Codes))

(* Every month and day number of years around each kind of leap rule and   *)
(* both ends of the time a value can have, and of some years outside.      *)
Midnight(y, m, d) ==
    [date |-> [y |-> y, m |-> m, d |-> d], h |-> 0, min |-> 0, sec |-> 0,
     tail |-> "fraction", fraction |-> <<0, 0, 0>>]
DateTexts ==
    {Midnight(y, m, d) : y \in (1970 .. 1972) \cup (1999 .. 2000) \cup (2099 .. 2106),
                          m \in 1 .. 12, d \in 1 .. 31}
    \cup {Midnight(y, m, d) : y \in {0, 1, 1969, 1970, 2000, 2106, 2107, 9999},
                              m \in {0, 2, 3, 13, 99}, d \in {0, 1, 29, 99}}
TimeTexts ==
    {[date |-> [y |-> y, m |-> m, d |-> d], h |-> h, min |-> min, sec |-> s, tail |-> t,
      fraction |-> <<>>] :
        y \in {1969, 2000, 2106}, m \in {1, 2, 12}, d \in {1, 7, 31}, h \in {0, 6, 99},
        min \in {0, 28, 99}, s \in {15, 16, 99}, t \in {"none", "fraction", "other"}}

BitsetTexts == SeqsUpTo({"0", "1"}, 9) \cup SeqsUpTo({"1", "x"}, 2)
SizeForms == {<<n>> : n \in 0 .. 17} \cup {<<128 + n, 0>> : n \in {0, 1, 9}} \cup {<<232, 7>>}
BitsetBinaries == Then(SizeForms, SeqsUpTo({0, 1, 128, 170, 255}, 3))

(* The ends of times and of block slots, and both sides of 2025-01-01. *)
Fractions == {<<>>, <<0>>, <<4, 9, 9, 9, 9, 9>>, <<5>>, <<5, 0, 0, 9>>, <<9, 9, 9, 9, 9, 9>>,
              <<0, 0, 0, 0, 0, 1>>, <<1, 2, 3, 4, 5, 6, 7>>,
              <<0, 0, 0>>, <<4, 9, 9>>, <<5, 0, 0>>, <<9, 9, 9>>}
Days == {[y |-> 1970, m |-> 1, d |-> 1], [y |-> 2024, m |-> 12, d |-> 31],
         [y |-> 2025, m |-> 1, d |-> 1], [y |-> 2093, m |-> 1, d |-> 19],
         [y |-> 2106, m |-> 2, d |-> 7]}
FineTexts(fractions) ==
    {[date |-> date, h |-> h, min |-> min, sec |-> s, tail |-> "fraction", fraction |-> f] :
        date \in Days, h \in {0, 3, 6, 23}, min \in {0, 14, 28, 59}, s \in {0, 7, 8, 15, 16, 59},
        f \in fractions}
    \cup TimeTexts

(* test.cpp:849-853 *)
BlockText(y, m, d, h, min, s, fraction) ==
    [date |-> [y |-> y, m |-> m, d |-> d], h |-> h, min |-> min, sec |-> s,
     tail |-> "fraction", fraction |-> fraction]
TestedTexts ==
    [block_timestamp |->
        {BlockText(2000, 1, 1, 0, 0, 0, <<0, 0, 0>>), BlockText(2000, 1, 1, 0, 0, 0, <<5, 0, 0>>),
         BlockText(2000, 1, 1, 0, 0, 1, <<0, 0, 0>>),
         BlockText(2018, 6, 15, 19, 17, 47, <<5, 0, 0>>), BlockText(2018, 6, 15, 19, 17, 48, <<0, 0, 0>>)}]
None == <<>>

KeyText(prefix, suffix, digits) == [prefix |-> prefix, suffix |-> suffix, digits |-> digits]
FixedKinds == {"K1", "EM", "XX"}
KeyTextInputs ==
    [prefix : {"SYS"}, suffix : {""}, digits : SeqsUpTo(-1 .. Radix, 4) \cup SeqsUpTo(0 .. Radix - 1, 5)]
    \cup [prefix : {"PUB_"}, suffix : FixedKinds, digits : SeqsUpTo(-1 .. Radix, 4)]
    \cup [prefix : {"PUB_"}, suffix : {"K1", "WA"}, digits : SeqsUpTo(0 .. Radix - 1, 7)]
PrivateTexts ==
    [prefix : {"", "PVT_"}, suffix : {"", "R1", "EM"}, digits : SeqsUpTo(-1 .. Radix, 4) \cup SeqsUpTo(0 .. Radix - 1, 6)]

MCChecksum(bytes, suffix) ==
    LET Mix(h, b) == (3 * h + b + 1) % Byte
        start == IF suffix = "" THEN 0 ELSE CHOOSE i \in 1 .. 5 : KeyKinds[i] = suffix
    IN  <<FoldLeft(Mix, start, bytes)>>

(* What fits each kind of signature, with its checksum and a wrong one. *)
SignatureTexts ==
    {KeyText("SIG_", suffix, binary_to_base58(bytes \o checksum)) :
        suffix \in {"R1", "WA", "ED"}, bytes \in SeqsUpTo({0, 1, 4}, 6), checksum \in {<<0>>}}
    \cup UNION {{KeyText("SIG_", suffix, binary_to_base58(bytes \o MCChecksum(bytes, suffix))) :
                    bytes \in SeqsUpTo({0, 1, 4}, 6)} : suffix \in {"R1", "WA", "ED"}}

UInt8 == [kind |-> "uint", bytes |-> 1]
Int8 == [kind |-> "int", bytes |-> 1]
Bool == [kind |-> "bool"]
String == [kind |-> "string"]
VectorOf(T) == [kind |-> "vector", of |-> T]
OptionalOf(T) == [kind |-> "optional", of |-> T]

Int16 == [kind |-> "int", bytes |-> 2]
NA == <<97>>
NB == <<98>>
NX == <<120>>
StructOf(names, types) == [kind |-> "tuple", of |-> types, names |-> names]

Checksum3 == [kind |-> "fixed_bytes", size |-> 3, word |-> 2]
Checksum4 == [kind |-> "fixed_bytes", size |-> 4, word |-> 2]
MightNotExist(T) == [kind |-> "might_not_exist", of |-> T]

MCShapes ==
    [s_text     |-> String,
     s_shorts   |-> VectorOf(Int16),
     s_strings  |-> VectorOf(String),
     s_struct   |-> StructOf(<<NA, NB>>, <<UInt8, VectorOf(Int8)>>),
     s_nested   |-> StructOf(<<NA, NB>>, <<OptionalOf(UInt8),
                                         StructOf(<<NA, NX>>, <<Bool, [kind |-> "bytes"]>>)>>),
     s_variant  |-> [kind |-> "variant", of |-> <<UInt8, String, VectorOf(OptionalOf(Bool))>>, names |-> <<NA, NB, NX>>],
     s_map      |-> [kind |-> "map", of |-> <<String, VectorOf(UInt8)>>],
     s_set      |-> [kind |-> "set", of |-> UInt8],
     s_list     |-> [kind |-> "list", of |-> OptionalOf(Int8)],
     s_c_array  |-> [kind |-> "c_array", of |-> UInt8, size |-> 2],
     s_array    |-> [kind |-> "array", of |-> Int8, size |-> 2],
     s_checksum |-> Checksum3,
     s_abi_def  |-> StructOf(<<NA, NB, NX>>, <<String, MightNotExist(VectorOf(UInt8)),
                                               MightNotExist(VectorOf(OptionalOf(Bool)))>>)]

(* JSON values, as tokens. *)
Number(n) == <<Text("string", [i \in 1 .. Len(int_to_decimal(n)) |-> Ascii(int_to_decimal(n)[i])])>>
Array(items) == <<Punctuation("start_array")>> \o FlattenSeq(items) \o <<Punctuation("end_array")>>
Object(members) ==
    <<Punctuation("start_object")>>
    \o FlattenSeq([i \in 1 .. Len(members) |-> <<Text("key", members[i][1])>> \o members[i][2]])
    \o <<Punctuation("end_object")>>
True == <<Text("bool", <<1>>)>>
Null == <<Punctuation("null")>>
Hex == <<Text("string", <<48, 65, 102, 49>>)>>

Simple == {Null, True, Number(7), Number(-1), Number(300), Hex, Array(<<>>), Object(<<>>),
           Array(<<Number(1), Number(2)>>)}
Inner == {Object(<<<<NX, Hex>>, <<NB, Array(<<Object(<<>>)>>)>>, <<NA, True>>>>),
          Object(<<<<NA, True>>, <<NA, Number(1)>>>>)}
Objects ==
    {Object(m) : m \in SeqsUpTo({NA, NB} \X {Null, Number(7), Array(<<Number(1), Number(2)>>)}
                                \cup {NA, NX} \X {True, Number(300)}
                                \cup {NB, NX} \X Inner, 3)}
Lists == {Array(l) : l \in SeqsUpTo(Simple \cup {<<Text("string", n)>> : n \in {NA, NB, NX}}, 3)}
Documents == Simple \cup Inner \cup Lists \cup Objects
Cut == {SubSeq(d, 1, Len(d) - 1) : d \in Simple \cup Inner}

Sizes == {<<0>>, <<1>>, <<2>>, <<3>>, <<129, 0>>, <<128, 16>>, <<129, 16>>, <<255, 127>>, <<128, 128>>}
Sized(content) == Then(Sizes, content)
Utf8Bytes == {97, 34, 92, 10, 127, 130, 160, 195, 226, 237}

HexTexts == {<<Text("string", t)>> : t \in Then({<<>>, <<48, 65>>}, SeqsUpTo({48, 70, 97, 103}, 4))}

WideTexts ==
    {int_to_decimal(n) : n \in -32778 .. -32758}
    \cup {int_to_decimal(n) : n \in (-300 .. 600) \cup (32758 .. 32778) \cup (65526 .. 65546)}
    \cup SeqsUpTo({"-", "0", "1", "6", "x"}, 3) \cup {<<"1", "0", "0", "0", "0", "0", "0", "0">>}

MCTexts ==
    [int8 |-> IntTexts, uint8 |-> IntTexts, name |-> NameTexts, c_name |-> NameTexts,
     symbol |-> SymbolTexts, asset |-> AssetTexts, time_point_sec |-> DateTexts \cup FineTexts({<<0, 0, 0>>}),
     time_point |-> FineTexts(Fractions), block_timestamp |-> FineTexts(Fractions), symbol_code |-> Codes,
     bitset |-> BitsetTexts, public_key |-> KeyTextInputs, private_key |-> PrivateTexts,
     signature |-> SignatureTexts,
     s_text |-> Simple, s_shorts |-> Documents \cup Cut, s_strings |-> Lists,
     s_struct |-> Documents \cup Cut, s_nested |-> Documents \cup Cut, s_variant |-> Lists,
     s_map |-> Documents, s_checksum |-> HexTexts, s_abi_def |-> Objects,
     int128 |-> WideTexts, uint128 |-> WideTexts]

VarintBinaries == SeqsUpTo({0, 1, 2, 7, 127, 128, 129, 135, 255}, 3)
MCBinaries ==
    [varuint32 |-> VarintBinaries, varint32 |-> VarintBinaries, bitset |-> BitsetBinaries,
     s_text    |-> Then({<<0>>, <<2>>, <<3>>, <<129, 0>>}, SeqsUpTo(Utf8Bytes, 3)),
     s_shorts  |-> Sized(SeqsUpTo({0, 1, 128, 255}, 4)),
     s_strings |-> Sized(SeqsUpTo({0, 1, 2, 97}, 4)),
     s_struct  |-> SeqsUpTo({0, 1, 2, 255}, 4),
     s_nested  |-> SeqsUpTo({0, 1, 2}, 5),
     s_variant |-> Then({<<0>>, <<1>>, <<2>>, <<3>>, <<129, 0>>}, SeqsUpTo({0, 1, 2, 97}, 3)),
     s_map     |-> Then({<<0>>, <<1>>, <<2>>, <<129, 0>>}, SeqsUpTo({0, 1, 2, 97}, 5)),
     s_set     |-> Sized(SeqsUpTo({0, 1, 2, 255}, 3)),
     s_list    |-> Sized(SeqsUpTo({0, 1, 2, 255}, 4)),
     s_c_array |-> Sized(SeqsUpTo({0, 1, 255}, 3)),
     s_checksum |-> SeqsUpTo({0, 1, 127, 255}, 4),
     s_abi_def |-> SeqsUpTo({0, 1, 2, 97}, 5),
     int128    |-> SeqsUpTo({0, 1, 127, 128, 129, 255}, 3),
     uint128   |-> SeqsUpTo({0, 1, 127, 128, 129, 255}, 3),
     s_array   |-> SeqsUpTo({0, 1, 127, 128, 255}, 3)]

MCKeyTypes ==
    [key_int16     |-> [kind |-> "int", bytes |-> 2],
     key_float     |-> [kind |-> "float", bytes |-> 2],
     key_varuint32 |-> [kind |-> "varuint32"],
     key_string    |-> String,
     key_bytes     |-> VectorOf(UInt8),
     key_int8s     |-> VectorOf(Int8),
     key_bools     |-> VectorOf(Bool),
     key_nested    |-> VectorOf(VectorOf(UInt8)),
     key_optional  |-> OptionalOf(UInt8),
     key_optionals |-> VectorOf(OptionalOf(Bool)),
     key_tuple     |-> [kind |-> "tuple", of |-> <<String, OptionalOf(String), UInt8>>],
     key_variant   |-> [kind |-> "variant", of |-> <<String, UInt8, VectorOf(Bool)>>],
     key_bitset    |-> [kind |-> "bitset"],
     key_checksum  |-> Checksum4]

Few == SeqsUpTo({0, 1, 255}, 3)
Bools == SeqsUpTo(BOOLEAN, 3)
MCKeyed ==
    [key_int16     |-> {-32768, -32767, -257, -256, -1, 0, 1, 255, 256, 32767},
     key_float     |-> {0, 1, 255, 256, 31743, 31744, 32768, 32769, 33023, 33024, 64511, 64512},
     key_varuint32 |-> {0, 1, 127, 128, 255, 256, 16383, 16384, 2097151, 2097152,
                        268435455, 268435456, 2147483647},
     key_string    |-> Few,
     key_bytes     |-> Few,
     key_int8s     |-> SeqsUpTo({-128, -127, 127}, 3),
     key_bools     |-> Bools,
     key_nested    |-> SeqsUpTo({<<>>, <<0>>, <<0, 0>>, <<1>>, <<0, 1>>, <<255>>}, 2),
     key_optional  |-> SeqsUpTo({0, 1, 255}, 1),
     key_optionals |-> SeqsUpTo(SeqsUpTo(BOOLEAN, 1), 3),
     key_tuple     |-> {<<s, o, b>> : s \in SeqsUpTo({0, 1}, 2),
                                      o \in SeqsUpTo(SeqsUpTo({0, 1}, 1), 1), b \in {0, 1}},
     key_variant   |-> [index : {0}, item : Few] \cup [index : {1}, item : {0, 1, 255}]
                       \cup [index : {2}, item : Bools],
     key_checksum  |-> [1 .. 2 -> {0, 1, 255, 256, 257, 32767, 32768, 65535}],
     key_bitset    |-> [size : {0}, bytes : {<<>>}]
                       \cup [size : {1}, bytes : {<<0>>, <<1>>}]
                       \cup [size : {8}, bytes : {<<b>> : b \in {0, 1, 255}}]
                       \cup [size : {9}, bytes : {<<b, c>> : b \in {0, 1, 255}, c \in {0, 1}}]]
=============================================================================
