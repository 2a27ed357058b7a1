-------------------------------- MODULE Values --------------------------------
(***************************************************************************)
(* A value of a builtin type on its way between its forms: the text in     *)
(* JSON, the value in memory, the binary form and the key.  A step is one  *)
(* call of the library's from_json, to_json, from_bin, to_bin or to_key on *)
(* what the last call gave, or a change of a bitset; a reader or writer    *)
(* that refuses ends it.                                                   *)
(***************************************************************************)
EXTENDS TypedJson, Names, Assets, Times, Bitsets, KeyTexts

CONSTANTS
    JsonTypes,    \* the types, by name, that have a text form here
    BinTypes,     \* the types, by name, that have a binary form here
    Texts,        \* the texts of each JsonType
    Binaries,     \* the binary forms of each BinType
    KeyTypes,     \* the types, by name, whose key form is built
    Keyed,        \* their values
    Shapes,       \* the types made of others, by name
    SomeNames,    \* what murmur64 may give
    MaxBits       \* bound of the model: bitsets of more bits are not changed

VARIABLES
    type,         \* the name of the type of the value
    form,         \* the form it is in: "text", "value", "bin", "key", "refused"
    data          \* the value in that form

(* History: the first value in memory, and the text a time was given in,   *)
(* each in a sequence of at most one.                                      *)
VARIABLES origin, given

vars == <<type, form, data, origin, given>>

TimeTypes == {"time_point_sec", "time_point", "block_timestamp"}

IntTypes ==
    [int8    |-> IntType(8, TRUE), uint8 |-> IntType(8, FALSE),
     int128  |-> IntType(8 * WideBytes, TRUE), uint128 |-> IntType(8 * WideBytes, FALSE)]

(* from_json of the type; the end of the document must be there. *)
FromText(text) ==
    CASE type \in {"int8", "uint8"} -> from_json_int(IntTypes[type], text)
      [] type = "int128"           -> int128_from_json(text)
      [] type = "uint128"          -> uint128_from_json(text)
      [] type = "name"             -> hash_name(text, SomeNames)
      [] type = "c_name"           -> {string_to_name(text)}
      [] type = "symbol"           -> string_to_symbol(text)
      [] type = "asset"            -> string_to_asset(text)
      [] type = "symbol_code"      -> string_to_symbol_code(text)
      [] type = "time_point_sec"   -> string_to_utc_seconds(text)
      [] type = "time_point"       -> string_to_utc_microseconds(text)
      [] type = "block_timestamp"  -> string_to_block_timestamp(text)
      [] type = "bitset"           -> from_string(text)
      [] type \in DOMAIN Family    -> key_from_string(type, text)
      [] type \in DOMAIN Shapes    ->
             LET T == Shapes[type]
             IN  {r[1] : r \in {q \in value_from_json(T, Default(T), text) : q[2] = <<>>}}

(* to_json of the type: like a reader, it may refuse. *)
ToText(value) ==
    CASE type \in {"int8", "uint8"} -> {int_to_decimal(value)}
      [] type = "int128"            -> {int128_to_json(value)}
      [] type = "uint128"           -> {binary_to_decimal(value)}
      [] type \in {"name", "c_name"} -> {name_to_string(value)}
      [] type = "symbol"            -> {symbol_to_string(value)}
      [] type = "asset"             -> {asset_to_string(value)}
      [] type = "symbol_code"       -> {value}
      [] type = "time_point_sec"    -> {microseconds_to_str(value, 0)}
      [] type = "time_point"        -> {microseconds_to_str(value, value.micro)}
      [] type = "block_timestamp"   ->
             LET time == to_time_point(value) IN {microseconds_to_str(time, time.micro)}
      [] type = "bitset"            -> {to_string(value)}
      [] type \in DOMAIN Family     -> key_to_string(type, value)
      [] type \in DOMAIN Shapes     -> value_to_json(Shapes[type], value)

(* convert_from_bin does not look at what is left. *)
FromBinary(bin) ==
    CASE type = "varuint32" -> {r[1] : r \in varuint32_from_bin(bin)}
      [] type = "varint32"  -> {r[1] : r \in varint32_from_bin(bin)}
      [] type \in {"int128", "uint128"} -> {r[1] : r \in Take(bin, WideBytes)}
      [] type = "bitset"    -> from_bin(bin)
      [] type \in DOMAIN Shapes -> {r[1] : r \in value_from_bin(Shapes[type], bin)}

ToBinary(value) ==
    CASE type = "varuint32" -> {varuint32_to_bin(value)}
      [] type = "varint32"  -> {varint32_to_bin(value)}
      [] type \in {"int128", "uint128"} -> {value}
      [] type = "bitset"    -> {to_bin(value)}
      [] type \in DOMAIN Shapes -> convert_to_bin(Shapes[type], value)

Init ==
    /\ \/ /\ type \in JsonTypes /\ form = "text" /\ data \in Texts[type]
          /\ origin = <<>>
       \/ /\ type \in BinTypes /\ form = "bin" /\ data \in Binaries[type]
          /\ origin = <<>>
       \/ /\ type \in DOMAIN Keyed /\ form = "value" /\ data \in Keyed[type]
          /\ origin = <<data>>
    /\ given = IF type \in TimeTypes THEN <<data>> ELSE <<>>

(* A reader gives one of its results, or refuses if it has none. *)
Read(results) ==
    \/ /\ data' \in results
       /\ form' = "value"
       /\ origin' = IF origin = <<>> THEN <<data'>> ELSE origin
       /\ UNCHANGED <<type, given>>
    \/ /\ results = {}
       /\ form' = "refused"
       /\ UNCHANGED <<type, data, origin, given>>

Write(target, results) ==
    /\ form = "value"
    /\ \/ form' = target /\ data' \in results
       \/ form' = "refused" /\ results = {} /\ UNCHANGED data
    /\ UNCHANGED <<type, origin, given>>

FromJson == form = "text" /\ Read(FromText(data))
ToJson == type \in JsonTypes /\ Write("text", ToText(data))
FromBin == form = "bin" /\ Read(FromBinary(data))
ToBin == type \in BinTypes /\ Write("bin", ToBinary(data))
ConvertToKey == type \in DOMAIN Keyed /\ Write("key", {to_key(KeyTypes[type], data)})

(* The member functions of bitset that change it. *)
Changed(bitset) ==
    UNION {{set(bitset, pos), clear(bitset, pos), flip(bitset, pos)} : pos \in 0 .. bitset.size - 1}
    \cup {flip_all(bitset), zero_all_bits(bitset)}
    \cup {or_assign(bitset, o) : o \in {bitset, flip_all(bitset), flip_all(zero_all_bits(bitset))}}
    \cup {resize(bitset, n) : n \in 0 .. MaxBits}

ChangeBits ==
    /\ type = "bitset" /\ form = "value" /\ data.size <= MaxBits
    /\ data' \in Changed(data)
    /\ origin' = <<data'>>
    /\ UNCHANGED <<type, form, given>>

Next == FromJson \/ ToJson \/ FromBin \/ ToBin \/ ConvertToKey \/ ChangeBits

Spec == Init /\ [][Next]_vars

----------------------------------------------------------------------------
(* Every byte belongs to a character. *)
IsUtf8(s) ==
    LET From[i \in 1 .. Len(s) + 1] ==
            i > Len(s) \/ (Validate(s, i) > 0 /\ From[i + Validate(s, i)])
    IN  From[1]

(* w is v, but for bytes of v that are no text. *)
Repaired(v, w) ==
    /\ IsUtf8(w) /\ Len(w) = Len(v)
    /\ \A i \in 1 .. Len(v) : w[i] = v[i] \/ (w[i] = 63 /\ v[i] >= 128)
    /\ IsUtf8(v) => w = v

(* The value that comes back as w was v: two forms give something up.  In  *)
(* strings, JSON has no bytes that are no text; in times, no microseconds. *)
Settled(v, w) ==
    \/ w = v
    \/ type \in DOMAIN Shapes /\ Shapes[type].kind = "string" /\ Repaired(v, w)
    \/ type = "time_point" /\ w = [v EXCEPT !.micro = @ - (@ % 1000)]

(* Once a reader has accepted a text or a binary form, however odd, the    *)
(* value it gave (and a bitset as it was changed since) survives every     *)
(* further conversion: what is written of it is accepted again and stands  *)
(* for the same value.  (The writers emit only what the readers take; bits *)
(* outside a bitset, an amount cut to its width, a wrapped date or slot, a *)
(* longer varint, a set out of order, a repeated or unknown member are all *)
(* settled by then.)  This says nothing of whether that first value is the *)
(* one the text stands for: see TimeTextsComeBack and BlockTimesComeBack.  *)
ValuesComeBack ==
    origin # <<>> =>
        /\ form # "refused"
        /\ form = "value" => Settled(origin[1], data)

(* A time in the form that to_json writes, on a day of the calendar. *)
WrittenTime(text) ==
    /\ text.date.m \in 1 .. 12 /\ text.date.d \in 1 .. DaysOf(text.date.y, text.date.m)
    /\ text.h < 24 /\ text.min < 60 /\ text.sec < 60
    /\ text.tail = "fraction" /\ Len(text.fraction) = 3

(* text is of a time before that date and time of day, in seconds. *)
Earlier(text, y, m, d, sec) ==
    LET date == text.date
        time == 3600 * text.h + 60 * text.min + text.sec
    IN  \/ date.y < y
        \/ date.y = y /\ date.m < m
        \/ date.y = y /\ date.m = m /\ date.d < d
        \/ date.y = y /\ date.m = m /\ date.d = d /\ time < sec

(* The type has that time: 2^32 seconds from 1970, with three places in a  *)
(* time_point, and 2^32 half seconds from 2025.                            *)
InTime(text) ==
    IF type = "block_timestamp"
    THEN /\ text.fraction \in {<<0, 0, 0>>, <<5, 0, 0>>}
         /\ ~Earlier(text, 2025, 1, 1, 0) /\ Earlier(text, 2093, 1, 19, 11648)
    ELSE /\ type = "time_point_sec" => text.fraction = <<0, 0, 0>>
         /\ ~Earlier(text, 1970, 1, 1, 0) /\ Earlier(text, 2106, 2, 7, 23296)

(* A time given as to_json writes it, in the range of its type, comes back *)
(* as the same text: the days and seconds counted on reading are those the *)
(* divisions of the writer take apart.  Blocks have no time before 2025;   *)
(* what the repository's test expects there is BlockTimesComeBack.         *)
TimeTextsComeBack ==
    given # <<>> /\ form = "text" /\ WrittenTime(given[1]) /\ InTime(given[1])
    => data = given[1]

(* run_check_type (test.cpp:563-582), called for block_timestamp_type in   *)
(* test.cpp:849-853 with times of 2000 and 2018, expects of a text that    *)
(* what is read from it is written as the same text.  (The epoch of blocks *)
(* is 2025: the slot of an earlier time is negative, and wraps.)           *)
BlockTimesComeBack ==
    type = "block_timestamp" /\ given # <<>> /\ form = "text" => data = given[1]

(* The members that a binary may leave out: each is written as no elements.*)
LeftOut(t) ==
    IF t \in DOMAIN Shapes /\ Shapes[t].kind = "tuple"
    THEN Cardinality({i \in DOMAIN Shapes[t].of : Shapes[t].of[i].kind = "might_not_exist"})
    ELSE 0

(* What a reader of the binary form gives can be written, and in no more   *)
(* bytes than it was read from: no size that was read is larger than what  *)
(* came after it, though a size is multiplied in the width of size_t       *)
(* before it is compared with what is left.                                *)
ReadsNoMore ==
    [][form = "bin" /\ form' = "value" =>
          \E bin \in ToBinary(data') : Len(bin) <= Len(data) + LeftOut(type)]_vars

(* The tokens of an object without its unknown members. *)
KnownMembers(T, tokens) ==
    LET Keys(n) == {k \in 1 .. n : tokens[k].type = "key" /\ Depth(tokens, k) = 1}
        Known(n) ==
            \/ n \in {1, Len(tokens)}
            \/ \E i \in 1 .. Len(T.names) : T.names[i] = tokens[Max(Keys(n))].text
    IN  FoldLeft(LAMBDA kept, n : IF Known(n) THEN Append(kept, tokens[n]) ELSE kept,
                 <<>>, [n \in 1 .. Len(tokens) |-> n])

(* A structure is read as if the members it does not know were not in the  *)
(* document, whatever their values are made of: from_json_skip_value stops *)
(* exactly where the value ends.                                           *)
UnknownMembersIgnored ==
    /\ form = "text" /\ type \in DOMAIN Shapes
    /\ Shapes[type].kind = "tuple" /\ Is(data, "start_object")
    => FromText(data) = FromText(KnownMembers(Shapes[type], data))

(* The number in memory. *)
InMemory(value) ==
    IF type \in {"int8", "uint8"} THEN value
    ELSE IF type = "uint128" THEN FromMemory(value)
    ELSE TwosComplement(FromMemory(value), WideBytes)

(* The number a text of digits stands for, with no width. *)
NumberOf(digits) == FoldLeft(LAMBDA n, c : 10 * n + Digit(c), 0, digits)

ReadsExactly ==
    type \in DOMAIN IntTypes /\ form = "text" =>
        LET T        == IntTypes[type]
            negative == T.signed /\ data # <<>> /\ data[1] = "-"
            digits   == IF negative THEN Tail(data) ELSE data
            number   == IF negative THEN -NumberOf(digits) ELSE NumberOf(digits)
            wide     == type \in {"int128", "uint128"}
        IN  IF /\ wide \/ digits # <<>>
               /\ \A i \in 1 .. Len(digits) : IsDigit(digits[i])
               /\ wide /\ negative => number # 0
               /\ Lowest(T) <= number /\ number <= Highest(T)
            THEN form' = "value" /\ InMemory(data') = number
            ELSE form' = "refused"

(* A text for an integer type is taken exactly if it is a decimal number   *)
(* of the type's range, and then gives that number: the test by division   *)
(* in from_json_int neither lets a number wrap nor refuses a limit, nor do *)
(* the carries and signs of the 128-bit integers made of bytes.  (These    *)
(* take a text without digits for 0, and refuse -0.)                       *)
IntegersReadExactly == [][ReadsExactly]_vars

(* The contract of to_key.hpp: keys are in the order of the values, byte   *)
(* by byte, and no key is the beginning of the key of another value.       *)
KeysKeepOrder ==
    form = "key" =>
        LET T == KeyTypes[type]
        IN  \A w \in Keyed[type] :
                LET key == to_key(T, w)
                IN  /\ Bytewise(data, key) <=> Less(T, origin[1], w)
                    /\ data # key => ~(Len(data) <= Len(key)
                                       /\ data = SubSeq(key, 1, Len(data)))

(* The date written for a day is the one after the date written for the    *)
(* day before, by the Gregorian calendar, and day 0 is 1970-01-01: the     *)
(* arithmetic of from_days over eras, centuries and months misses no leap  *)
(* day and adds none.                                                      *)
DatesFollowCalendar ==
    type = "time_point_sec" /\ form = "value" => FollowsCalendar(data.day)
=============================================================================
