------------------------------ MODULE TypedJson ------------------------------
(***************************************************************************)
(* The JSON form of C++ values (from_json.hpp, to_json.hpp).  Texts are    *)
(* sequences of bytes, documents sequences of tokens as json_token_stream  *)
(* hands them out (a number is a string); types are those of Codec, with   *)
(* the names of its members in a structure and of its alternatives in a    *)
(* variant.  Like the code, a reader is given the object to fill: what a   *)
(* document does not mention stays.                                        *)
(***************************************************************************)
EXTENDS Codec, Decimal, FiniteSetsExt

Quote == 34
Backslash == 92

Ascii(c) == IF c = "-" THEN 45 ELSE 48 + Digit(c)
FromAscii(b) == IF b = 45 THEN "-" ELSE IF b \in 48 .. 57 THEN Digits[b - 47] ELSE "x"

----------------------------------------------------------------------------
(* Strings *)

SequenceLength(b) ==
    IF b < 128 THEN 1 ELSE IF b \in 194 .. 223 THEN 2
    ELSE IF b \in 224 .. 239 THEN 3 ELSE IF b \in 240 .. 244 THEN 4 ELSE 0

SecondByte(b) ==
    IF b = 224 THEN 160 .. 191 ELSE IF b = 237 THEN 128 .. 159
    ELSE IF b = 240 THEN 144 .. 191 ELSE IF b = 244 THEN 128 .. 143 ELSE 128 .. 191

(* rapidjson::UTF8<>::Validate: the length of the character that starts at *)
(* i, or 0.                                                                *)
Validate(s, i) ==
    LET n == SequenceLength(s[i])
    IN  IF /\ i + n - 1 <= Len(s)
           /\ n > 1 => s[i + 1] \in SecondByte(s[i])
           /\ \A k \in 2 .. n - 1 : s[i + k] \in 128 .. 191
        THEN n ELSE 0

hex_digits == <<48, 49, 50, 51, 52, 53, 54, 55, 56, 57, 65, 66, 67, 68, 69, 70>>
hex(b) == <<hex_digits[(b \div 16) + 1], hex_digits[(b % 16) + 1]>>

escape(b) ==
    IF b \in {Quote, Backslash} THEN <<Backslash, b>>
    ELSE <<Backslash, 117, 48, 48>> \o hex(b)      \* \u00

(* to_json(string_view): what is not UTF-8 becomes a question mark. *)
string_to_json(s) ==
    LET Rest[i \in 1 .. Len(s) + 1] ==
            IF i > Len(s) THEN <<Quote>>
            ELSE LET n == Validate(s, i)
                 IN  IF s[i] \in {Quote, Backslash, 127} \cup 0 .. 31
                     THEN escape(s[i]) \o Rest[i + 1]
                     ELSE IF n > 0 THEN SubSeq(s, i, i + n - 1) \o Rest[i + n]
                     ELSE <<63>> \o Rest[i + 1]
    IN  <<Quote>> \o Rest[1]

unhex_digit(b) ==
    IF b \in 48 .. 57 THEN {b - 48} ELSE IF b \in 65 .. 70 THEN {b - 55}
    ELSE IF b \in 97 .. 102 THEN {b - 87} ELSE {}

(* How rapidjson reads the literals that are written here: empty for one   *)
(* it refuses.                                                             *)
parse_string(text) ==
    LET Rest[i \in 2 .. Len(text) + 1] ==
            IF i > Len(text) THEN {}
            ELSE IF text[i] = Quote THEN IF i = Len(text) THEN {<<>>} ELSE {}
            ELSE IF text[i] = Backslash /\ text[i + 1] \in {Quote, Backslash}
            THEN {<<text[i + 1]>> \o s : s \in Rest[i + 2]}
            ELSE IF text[i] = Backslash
            THEN {<<16 * h + l>> \o s :
                     h \in unhex_digit(text[i + 4]), l \in unhex_digit(text[i + 5]), s \in Rest[i + 6]}
            ELSE LET n == Validate(text, i)
                 IN  IF text[i] < 32 \/ n = 0 THEN {}
                     ELSE {SubSeq(text, i, i + n - 1) \o s : s \in Rest[i + n]}
    IN  Rest[2]

----------------------------------------------------------------------------
(* Tokens *)

Punctuation(type) == [type |-> type, text |-> <<>>]
Text(type, s) == [type |-> type, text |-> s]

(* A string as it arrives when what is written is read again. *)
Strings(type, s) == {Text(type, t) : t \in parse_string(string_to_json(s))}

Is(tokens, type) == tokens # <<>> /\ tokens[1].type = type

Enclosed(open, parts, close) ==
    Concat(<<{<<Punctuation(open)>>}>> \o parts \o <<{<<Punctuation(close)>>}>>)

RECURSIVE value_to_json(_, _)
value_to_json(T, v) ==
    LET String(type, s) == {<<t>> : t \in Strings(type, s)}
        Member(name, U, x) == Concat(<<String("key", name), value_to_json(U, x)>>)
    IN  CASE T.kind \in {"uint", "int"} ->
                 LET digits == int_to_decimal(v)
                 IN  {<<Text("string", [i \in 1 .. Len(digits) |-> Ascii(digits[i])])>>}
          [] T.kind = "bool"     -> {<<Text("bool", <<IF v THEN 1 ELSE 0>>)>>}
          [] T.kind = "string"   -> String("string", v)
          [] T.kind = "bytes"    ->
                 {<<Text("string", FlattenSeq([i \in 1 .. Len(v) |-> hex(v[i])]))>>}
          [] T.kind = "fixed_bytes" -> value_to_json([kind |-> "bytes"], extract_as_byte_array(T, v))
          [] T.kind = "might_not_exist" -> value_to_json(T.of, v)
          [] T.kind = "vector"   ->
                 Enclosed("start_array", [i \in 1 .. Len(v) |-> value_to_json(T.of, v[i])], "end_array")
          [] T.kind = "map"      ->
                 Enclosed("start_object",
                          [i \in 1 .. Len(v) |-> Member(v[i][1], T.of[2], v[i][2])], "end_object")
          [] T.kind = "tuple"    ->
                 Enclosed("start_object",
                          [i \in 1 .. Len(T.of) |-> Member(T.names[i], T.of[i], v[i])], "end_object")
          [] T.kind = "optional" ->
                 IF v = <<>> THEN {<<Punctuation("null")>>} ELSE value_to_json(T.of, v[1])
          [] T.kind = "variant"  ->
                 Enclosed("start_array",
                          <<String("string", T.names[v.index + 1]),
                            value_to_json(T.of[v.index + 1], v.item)>>, "end_array")

----------------------------------------------------------------------------
Depth(tokens, n) ==
    Cardinality({i \in 1 .. n : tokens[i].type \in {"start_object", "start_array"}})
    - Cardinality({i \in 1 .. n : tokens[i].type \in {"end_object", "end_array"}})

(* Faulty: a structure or array is left after its first token. *)
skip_token(tokens) == IF tokens = <<>> THEN {} ELSE {Tail(tokens)}

(* What is left after one value. *)
from_json_skip_value(tokens) ==
    LET ends == {n \in 1 .. Len(tokens) : Depth(tokens, n) = 0}
    IN  IF ends = {} THEN {} ELSE {SubSeq(tokens, Min(ends) + 1, Len(tokens))}

unhex(text) ==
    IF Len(text) % 2 = 1 THEN {}
    ELSE Concat([i \in 1 .. Len(text) \div 2 |->
                    {<<16 * h + l>> : h \in unhex_digit(text[2 * i - 1]), l \in unhex_digit(text[2 * i])}])

RECURSIVE value_from_json(_, _, _), elements_from_json(_, _, _), from_json_object(_, _, _)
value_from_json(T, obj, tokens) ==
    LET Number(signed) ==
            from_json_int(IntType(8 * T.bytes, signed),
                          [i \in 1 .. Len(tokens[1].text) |-> FromAscii(tokens[1].text[i])])
        Alternative(stream) ==
            IF ~Is(stream, "string") THEN {}
            ELSE Bind({i \in 1 .. Len(T.of) :
                          /\ T.names[i] = stream[1].text
                          /\ \A j \in 1 .. i - 1 : T.names[j] # T.names[i]},
                      LAMBDA i : Map(value_from_json(T.of[i], Default(T.of[i]), Tail(stream)),
                                     LAMBDA x : [index |-> i - 1, item |-> x]))
    IN  CASE T.kind \in {"uint", "int"} ->
                 IF Is(tokens, "string") THEN Number(T.kind = "int") \X {Tail(tokens)} ELSE {}
          [] T.kind = "bool"     ->
                 IF Is(tokens, "bool") THEN {<<tokens[1].text = <<1>>, Tail(tokens)>>} ELSE {}
          [] T.kind = "string"   ->
                 IF Is(tokens, "string") THEN {<<tokens[1].text, Tail(tokens)>>} ELSE {}
          [] T.kind = "bytes"    ->
                 IF Is(tokens, "string") THEN unhex(tokens[1].text) \X {Tail(tokens)} ELSE {}
          [] T.kind = "fixed_bytes" ->
                 Map({r \in value_from_json([kind |-> "bytes"], <<>>, tokens) : Len(r[1]) = T.size},
                     LAMBDA bytes : convert_array(T, bytes))
          [] T.kind = "might_not_exist" -> value_from_json(T.of, obj, tokens)
          [] T.kind = "vector"   ->
                 IF Is(tokens, "start_array") THEN elements_from_json(T, obj, Tail(tokens)) ELSE {}
          [] T.kind \in {"map", "tuple"} ->
                 IF Is(tokens, "start_object") THEN from_json_object(T, obj, Tail(tokens)) ELSE {}
          [] T.kind = "optional" ->
                 IF Is(tokens, "null") THEN {<<<<>>, Tail(tokens)>>}
                 ELSE Map(value_from_json(T.of, Default(T.of), tokens), LAMBDA x : <<x>>)
          [] T.kind = "variant"  ->
                 IF Is(tokens, "start_array")
                 THEN {<<r[1], Tail(r[2])>> :
                          r \in {q \in Alternative(Tail(tokens)) : Is(q[2], "end_array")}}
                 ELSE {}

(* The elements are added to those there are. *)
elements_from_json(T, obj, tokens) ==
    IF Is(tokens, "end_array") THEN {<<obj, Tail(tokens)>>}
    ELSE Bind(value_from_json(T.of, Default(T.of), tokens),
              LAMBDA r : elements_from_json(T, Append(obj, r[1]), r[2]))

(* A key of a map makes an element, or names one there is; one that is no  *)
(* member of a structure is skipped with its value.                        *)
from_json_object(T, obj, tokens) ==
    LET key  == tokens[1].text
        Entry(U) ==
            LET found == {i \in DOMAIN obj : obj[i][1] = key}
                old   == IF found = {} THEN Default(U) ELSE obj[CHOOSE i \in found : TRUE][2]
            IN  Map(value_from_json(U, old, Tail(tokens)), LAMBDA x :
                    IF found = {} THEN emplace(T.of[1], obj, <<key, x>>, LAMBDA e : e[1])
                    ELSE [i \in DOMAIN obj |-> IF i \in found THEN <<key, x>> ELSE obj[i]])
        Member(i) ==
            Map(value_from_json(T.of[i], obj[i], Tail(tokens)), LAMBDA x : [obj EXCEPT ![i] = x])
        found_members == {i \in 1 .. Len(T.names) : T.names[i] = key}
    IN  IF Is(tokens, "end_object") THEN {<<obj, Tail(tokens)>>}
        ELSE IF ~Is(tokens, "key") THEN {}
        ELSE Bind(IF T.kind = "map" THEN Entry(T.of[2])
                  ELSE IF found_members = {} THEN {obj} \X from_json_skip_value(Tail(tokens))
                  ELSE Member(Min(found_members)),
                  LAMBDA r : from_json_object(T, r[1], r[2]))
==============================================================================
