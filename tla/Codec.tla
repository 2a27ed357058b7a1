-------------------------------- MODULE Codec --------------------------------
(***************************************************************************)
(* The binary form of C++ values (to_bin.hpp, from_bin.hpp, stream.hpp): a *)
(* sequence of bytes without names or types.  A type is a record: its kind *)
(* and what it is made of; structures and pairs are read and written like  *)
(* tuples, deques like lists, enumerations like numbers, and an            *)
(* opaque<T> or an input_stream is bytes.  A set or map in memory is the   *)
(* sequence of its elements in order.  A bool is read without a look at    *)
(* the byte: for one that is neither 0 nor 1 the build may take either.  A *)
(* might_not_exist<T>, at the end of an abi_def, is a T that a binary may  *)
(* leave out.                                                              *)
(*                                                                         *)
(* A reader gives the set of the pairs it may yield, the value and what is *)
(* left of the stream: empty when it refuses.                              *)
(***************************************************************************)
EXTENDS ToKey, Varint

CONSTANTS SizeBits, SizeBytes   \* of size_t and of the varuint64 loop: 64 and 10 in the code

----------------------------------------------------------------------------
(* Little-endian memory, as bitwise serialization copies it. *)
Memory(n, bytes) == [i \in 1 .. bytes |-> (n \div 256 ^ (i - 1)) % 256]
FromMemory(mem) == FoldRight(LAMBDA b, n : 256 * n + b, mem, 0)
TwosComplement(n, bytes) == IF n >= 2 ^ (8 * bytes - 1) THEN n - 2 ^ (8 * bytes) ELSE n

Bitwise(T) == T.kind \in {"uint", "int"}

(* Each part is one of the sequences its writer or reader may give. *)
Concat(parts) ==
    FoldLeft(LAMBDA acc, part : {a \o p : a \in acc, p \in part}, {<<>>}, parts)

(* A size of 32 bits, byte by byte; a larger one is refused. *)
SizeWrites(n) ==
    IF n >= 2 ^ Bits THEN {}
    ELSE {[i \in 1 .. Len(varuint32_to_bin(n)) |-> <<varuint32_to_bin(n)[i]>>]}

(* The writes of to_bin, in order. *)
RECURSIVE Writes(_, _)
Writes(T, v) ==
    LET All(types) == Concat([i \in 1 .. Len(types) |-> Writes(types[i], v[i])])
        Elements == All([i \in 1 .. Len(v) |-> T.of])
        Copied == {<<FlattenSeq([i \in 1 .. Len(v) |-> Memory(v[i], T.of.bytes)])>>}
    IN  CASE Bitwise(T)             -> {<<Memory(v, T.bytes)>>}
          [] T.kind = "bool"        -> {<<<<IF v THEN 1 ELSE 0>>>>}
          [] T.kind = "varuint32"   -> SizeWrites(v)
          [] T.kind = "fixed_bytes" ->
                 {[i \in 1 .. T.size |-> <<extract_as_byte_array(T, v)[i]>>]}
          [] T.kind = "might_not_exist" -> Writes(T.of, v)
          [] T.kind \in {"string", "bytes"} -> Concat(<<SizeWrites(Len(v)), {<<v>>}>>)
          [] T.kind \in {"vector", "c_array"} /\ Bitwise(T.of) ->
                 Concat(<<SizeWrites(Len(v)), Copied>>)
          [] T.kind \in {"list", "set"} \/ (T.kind \in {"vector", "c_array"} /\ ~Bitwise(T.of)) ->
                 Concat(<<SizeWrites(Len(v)), Elements>>)
          [] T.kind = "map"         ->
                 Concat(<<SizeWrites(Len(v)),
                          All([i \in 1 .. Len(v) |-> [kind |-> "tuple", of |-> T.of]])>>)
          [] T.kind = "array"       -> Elements
          [] T.kind = "tuple"       -> All(T.of)
          [] T.kind = "optional"    ->
                 IF v = <<>> THEN {<<<<0>>>>} ELSE Concat(<<{<<<<1>>>>}, Writes(T.of, v[1])>>)
          [] T.kind = "variant"     ->
                 Concat(<<SizeWrites(v.index), Writes(T.of[v.index + 1], v.item)>>)

size_stream(writes) == FoldLeft(LAMBDA size, w : size + Len(w), 0, writes)

(* The buffer once all is written: empty if a write does not fit. *)
fixed_buf_stream(size, writes) ==
    FoldLeft(LAMBDA bufs, w : {b \o w : b \in {c \in bufs : Len(c) + Len(w) <= size}},
             {<<>>}, writes)

(* The size is counted first; the second pass must fill it exactly. *)
convert_to_bin(T, v) ==
    UNION {LET size == size_stream(writes)
           IN  {buf \in fixed_buf_stream(size, writes) : Len(buf) = size} :
               writes \in Writes(T, v)}

----------------------------------------------------------------------------
(* input_stream *)

(* Faulty: the end is not looked at, and what is not there is read as 0. *)
TakeUnchecked(bin, n) ==
    {<<[i \in 1 .. n |-> IF i <= Len(bin) THEN bin[i] ELSE 0], SubSeq(bin, n + 1, Len(bin))>>}

Take(bin, n) ==
    IF n <= Len(bin) THEN {<<SubSeq(bin, 1, n), SubSeq(bin, n + 1, Len(bin))>>} ELSE {}

Size32(bin) == {<<r[1], SubSeq(bin, r[2] + 1, Len(bin))>> : r \in varuint32_from_bin(bin)}
Size64(bin) ==
    {<<r[1], SubSeq(bin, r[2] + 1, Len(bin))>> : r \in varuint_from_bin(bin, SizeBits, SizeBytes)}

(* Apply what comes next to each result there may be. *)
Bind(results, Next(_)) == UNION {Next(r) : r \in results}
Map(results, F(_)) == {<<F(r[1]), r[2]>> : r \in results}

(* vector::resize throws for more than this. *)
can_hold(size, width) == size <= (2 ^ (SizeBits - 1) - 1) \div width

(* The bytes to copy are the product of the size and the width, in the     *)
(* width of size_t; what the copy does not fill stays 0.                   *)
vector_from_bin(width, bin) ==
    Bind(Size64(bin), LAMBDA s :
        LET size  == s[1]
            bytes == (size * width) % 2 ^ SizeBits
            Item(mem, i) ==
                FromMemory([k \in 1 .. width |->
                    LET p == (i - 1) * width + k IN IF p <= Len(mem) THEN mem[p] ELSE 0])
        IN  IF bytes <= Len(s[2]) /\ can_hold(size, width)
            THEN Map(Take(s[2], bytes), LAMBDA mem : [i \in 1 .. size |-> Item(mem, i)])
            ELSE {})

(* An element with an equal key stays, and the new one is dropped. *)
emplace(T, elements, x, KeyOf(_)) ==
    IF \E i \in DOMAIN elements : KeyOf(elements[i]) = KeyOf(x) THEN elements
    ELSE SortSeq(Append(elements, x), LAMBDA y, z : Less(T, KeyOf(y), KeyOf(z)))

(* A value-initialized object. *)
RECURSIVE Default(_)
Default(T) ==
    CASE T.kind \in {"uint", "int"} -> 0
      [] T.kind = "bool"            -> FALSE
      [] T.kind = "fixed_bytes"     -> [i \in 1 .. count_words(T) |-> 0]
      [] T.kind = "might_not_exist" -> Default(T.of)
      [] T.kind = "tuple"           -> [i \in 1 .. Len(T.of) |-> Default(T.of[i])]
      [] T.kind = "variant"         -> [index |-> 0, item |-> Default(T.of[1])]
      [] OTHER                      -> <<>>

RECURSIVE value_from_bin(_, _), all_from_bin(_, _, _)
all_from_bin(types, i, bin) ==
    IF i > Len(types) THEN {<<<<>>, bin>>}
    ELSE Bind(value_from_bin(types[i], bin), LAMBDA r :
             Map(all_from_bin(types, i + 1, r[2]), LAMBDA rest : <<r[1]>> \o rest))

value_from_bin(T, bin) ==
    LET All(types, stream) == all_from_bin(types, 1, stream)
        Elements(U, stream) ==
            Bind(Size32(stream), LAMBDA s : All([i \in 1 .. s[1] |-> U], s[2]))
        Collect(U, KeyOf(_), elements) ==
            FoldLeft(LAMBDA acc, x : emplace(U, acc, x, KeyOf), <<>>, elements)
    IN  CASE T.kind = "uint"      -> Map(Take(bin, T.bytes), FromMemory)
          [] T.kind = "int"       ->
                 Map(Take(bin, T.bytes), LAMBDA m : TwosComplement(FromMemory(m), T.bytes))
          [] T.kind = "bool"      ->
                 Bind(Take(bin, 1), LAMBDA r :
                     (IF r[1][1] \in {0, 1} THEN {r[1][1] = 1} ELSE BOOLEAN) \X {r[2]})
          [] T.kind = "varuint32" -> Size32(bin)
          [] T.kind = "fixed_bytes" -> Map(Take(bin, T.size), LAMBDA bytes : convert_array(T, bytes))
          [] T.kind = "might_not_exist" ->
                 IF bin = <<>> THEN {<<Default(T.of), bin>>} ELSE value_from_bin(T.of, bin)
          [] T.kind = "string"    -> Bind(Size32(bin), LAMBDA s : Take(s[2], s[1]))
          [] T.kind = "bytes"     -> Bind(Size64(bin), LAMBDA s : Take(s[2], s[1]))
          [] T.kind = "vector" /\ Bitwise(T.of) ->
                 Map(vector_from_bin(T.of.bytes, bin), LAMBDA v :
                     [i \in 1 .. Len(v) |->
                         IF T.of.kind = "int" THEN TwosComplement(v[i], T.of.bytes) ELSE v[i]])
          [] T.kind = "list" \/ (T.kind = "vector" /\ ~Bitwise(T.of)) -> Elements(T.of, bin)
          [] T.kind = "set"       ->
                 Map(Elements(T.of, bin), LAMBDA e : Collect(T.of, LAMBDA x : x, e))
          [] T.kind = "map"       ->
                 Map(Elements([kind |-> "tuple", of |-> T.of], bin),
                     LAMBDA e : Collect(T.of[1], LAMBDA x : x[1], e))
          [] T.kind = "c_array"   ->
                 Bind(Size32(bin), LAMBDA s :
                     IF s[1] = T.size THEN All([i \in 1 .. T.size |-> T.of], s[2]) ELSE {})
          [] T.kind = "array"     -> All([i \in 1 .. T.size |-> T.of], bin)
          [] T.kind = "tuple"     -> All(T.of, bin)
          [] T.kind = "optional"  ->
                 Bind(value_from_bin([kind |-> "bool"], bin), LAMBDA present :
                     IF present[1] THEN Map(value_from_bin(T.of, present[2]), LAMBDA x : <<x>>)
                     ELSE {<<<<>>, present[2]>>})
          [] T.kind = "variant"   ->
                 Bind(Size32(bin), LAMBDA u :
                     IF u[1] < Len(T.of)
                     THEN Map(value_from_bin(T.of[u[1] + 1], u[2]),
                              LAMBDA x : [index |-> u[1], item |-> x])
                     ELSE {})
==============================================================================
