-------------------------------- MODULE ToKey --------------------------------
(***************************************************************************)
(* The key form of values (to_key.hpp, bitset.hpp): a sequence of bytes    *)
(* whose order is that of the values.  A type is a record: its kind and    *)
(* what it is made of.  A floating-point number is its bit pattern, a      *)
(* string the sequence of its bytes, fixed_bytes the sequence of its words;*)
(* lists, sets and maps are written like vectors, structures and pairs     *)
(* like tuples.                                                            *)
(***************************************************************************)
EXTENDS FixedBytes

(* Values with bitwise serialization of one byte. *)
OneByte(T) ==
    \/ T.kind = "bool"
    \/ T.kind \in {"uint", "int"} /\ T.bytes = 1

BigEndian(v, bytes) == [i \in 1 .. bytes |-> (v \div 256 ^ (bytes - i)) % 256]

(* Negative numbers are turned over, others get the top bit; -0 is 0. *)
float_to_key(pattern, bytes) ==
    LET signbit == 2 ^ (8 * bytes - 1)
        result  == IF pattern = signbit THEN 0 ELSE pattern
    IN  IF result >= signbit THEN 2 * signbit - 1 - result ELSE result + signbit

(* The number of additional bytes in unary, then the value. *)
to_key_varuint32(obj) ==
    LET n == IF obj < 128 THEN 1 ELSE IF obj < 16384 THEN 2
             ELSE IF obj < 2097152 THEN 3 ELSE IF obj < 268435456 THEN 4 ELSE 5
    IN  <<256 - 2 ^ (9 - n) + (IF n = 5 THEN 0 ELSE obj \div 256 ^ (n - 1))>>
        \o BigEndian(obj, n - 1)

(* Faulty: a byte that is 0 is written as it is. *)
to_key_element_bare(one, key) == IF one THEN key ELSE <<1>> \o key

(* An element, or the end of the elements.  A byte that is 0 is followed   *)
(* by a 1, for two zeros are the end.                                      *)
to_key_element(one, key) ==
    IF one THEN key \o (IF key = <<0>> THEN <<1>> ELSE <<>>) ELSE <<1>> \o key
to_key_end(one) == IF one THEN <<0, 0>> ELSE <<0>>

to_key_string(bytes) ==
    FlattenSeq([i \in 1 .. Len(bytes) |-> IF bytes[i] = 0 THEN <<0, 1>> ELSE <<bytes[i]>>])
    \o <<0, 0>>

RECURSIVE to_key(_, _)
to_key(T, v) ==
    CASE T.kind = "uint"      -> BigEndian(v, T.bytes)
      [] T.kind = "int"       -> BigEndian(v + 2 ^ (8 * T.bytes - 1), T.bytes)
      [] T.kind = "bool"      -> <<IF v THEN 1 ELSE 0>>
      [] T.kind = "float"     -> BigEndian(float_to_key(v, T.bytes), T.bytes)
      [] T.kind = "varuint32" -> to_key_varuint32(v)
      [] T.kind = "string"    -> to_key_string(v)
      [] T.kind = "vector"    ->
             FlattenSeq([i \in 1 .. Len(v) |-> to_key_element(OneByte(T.of), to_key(T.of, v[i]))])
             \o to_key_end(OneByte(T.of))
      [] T.kind = "optional"  ->
             IF v = <<>> THEN to_key_end(OneByte(T.of))
             ELSE to_key_element(OneByte(T.of), to_key(T.of, v[1]))
      [] T.kind = "tuple"     ->
             FlattenSeq([i \in 1 .. Len(T.of) |-> to_key(T.of[i], v[i])])
      [] T.kind = "variant"   -> to_key_varuint32(v.index) \o to_key(T.of[v.index + 1], v.item)
      [] T.kind = "bitset"    ->
             BigEndian(v.size, 4)
             \o FlattenSeq([i \in 1 .. Len(v.bytes) |-> to_key_element(TRUE, <<v.bytes[i]>>)])
             \o to_key_end(TRUE)
      [] T.kind = "fixed_bytes" -> extract_as_byte_array(T, v)

(* Lexicographic order of sequences, given that of their elements. *)
Lexicographic(v, w, Less(_, _)) ==
    \/ \E i \in 1 .. Len(v) :
           /\ i <= Len(w) /\ Less(v[i], w[i])
           /\ \A j \in 1 .. i - 1 : v[j] = w[j]
    \/ Len(v) < Len(w) /\ \A j \in 1 .. Len(v) : v[j] = w[j]

Bytewise(v, w) == Lexicographic(v, w, <)

(* The number a floating-point pattern stands for, up to scale. *)
Magnitude(pattern, bytes) ==
    LET signbit == 2 ^ (8 * bytes - 1)
    IN  IF pattern >= signbit THEN signbit - pattern ELSE pattern

(* operator< of the type. *)
RECURSIVE Less(_, _, _)
Less(T, v, w) ==
    CASE T.kind \in {"uint", "int", "varuint32"} -> v < w
      [] T.kind = "bool"     -> ~v /\ w
      [] T.kind = "float"    -> Magnitude(v, T.bytes) < Magnitude(w, T.bytes)
      [] T.kind = "string"   -> Bytewise(v, w)
      [] T.kind \in {"vector", "optional"} ->
             Lexicographic(v, w, LAMBDA a, b : Less(T.of, a, b))
      [] T.kind = "tuple"    ->
             \E i \in 1 .. Len(T.of) :
                 Less(T.of[i], v[i], w[i]) /\ \A j \in 1 .. i - 1 : v[j] = w[j]
      [] T.kind = "variant"  ->
             \/ v.index < w.index
             \/ v.index = w.index /\ Less(T.of[v.index + 1], v.item, w.item)
      [] T.kind = "bitset"   ->
             \/ v.size < w.size
             \/ v.size = w.size /\ Bytewise(v.bytes, w.bytes)
      [] T.kind = "fixed_bytes" -> Bytewise(v, w)
=============================================================================
