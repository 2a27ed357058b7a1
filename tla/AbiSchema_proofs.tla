--------------------------- MODULE AbiSchema_proofs ---------------------------
(***************************************************************************)
(* Facts about the type table, the reader and their sequences, for every   *)
(* table: what the proofs about the three conversions share.               *)
(***************************************************************************)
EXTENDS Wire, SequenceTheorems, FiniteSets, FiniteSetTheorems, TLAPS

ArrayKinds == {"array", "fixed_array"}

----------------------------------------------------------------------------
\* Popping a nonempty sequence keeps all but its last element.
LEMMA PopFacts ==
    ASSUME NEW S, NEW s \in Seq(S), Len(s) > 0
    PROVE  /\ Pop(s) \in Seq(S)
           /\ Len(Pop(s)) = Len(s) - 1
           /\ \A i \in 1 .. Len(s) - 1 : Pop(s)[i] = s[i]
  <1> DEFINE n == Len(s) - 1
  <1>1. /\ n \in Nat /\ n \in Int /\ 1 \in Int
        /\ \A i \in 1 .. n : s[i] \in S
    OBVIOUS
  <1> HIDE DEF n
  <1>2. /\ SubSeq(s, 1, n) \in Seq(S)
        /\ Len(SubSeq(s, 1, n)) = IF 1 <= n THEN n - 1 + 1 ELSE 0
        /\ \A i \in 1 .. n - 1 + 1 : SubSeq(s, 1, n)[i] = s[1 + i - 1]
    BY <1>1, SubSeqProperties
  <1>3. Pop(s) = SubSeq(s, 1, n)
    BY DEF Pop, n
  <1> DEFINE p == SubSeq(s, 1, n)
  <1> HIDE DEF p
  <1>4. Len(p) = n /\ \A i \in 1 .. n : p[i] = s[i]
    BY <1>1, <1>2 DEF p
  <1>5. QED
    BY <1>2, <1>3, <1>4 DEF p, n

\* Appending keeps what was there and ends with the new element.
LEMMA AppendFacts ==
    ASSUME NEW S, NEW s \in Seq(S), NEW e \in S
    PROVE  /\ Append(s, e) \in Seq(S)
           /\ Len(Append(s, e)) = Len(s) + 1
           /\ Append(s, e)[Len(s) + 1] = e
           /\ \A i \in 1 .. Len(s) : Append(s, e)[i] = s[i]
  OBVIOUS

\* The pseudo serializers pass on to a type of the table that is neither.
LEMMA BaseFacts ==
    ASSUME NEW t \in Types
    PROVE  /\ Unextended(t) \in Types
           /\ Base(t) \in Types
           /\ Kind[Base(t)] \in {"builtin", "struct", "variant"} \cup ArrayKinds
  <1>1. Unextended(t) \in Types /\ ~Extension(Unextended(t))
    BY TableAssumption, NestingAssumption DEF Unextended, Extension, Kinds
  <1>2. Base(t) \in Types
    BY <1>1, TableAssumption DEF Base
  <1>3. Kind[Base(t)] \in {"builtin", "struct", "variant"} \cup ArrayKinds
    BY <1>1, <1>2, TableAssumption, NestingAssumption
    DEF Base, Optional, Extension, Kinds, ArrayKinds
  <1>4. QED
    BY <1>1, <1>2, <1>3

\* The byte of a scalar's text is a natural number.
LEMMA ByteOfFacts ==
    ASSUME NEW word \in Scalars
    PROVE  ByteOf(word) \in Nat
  <1>1. PICK b \in Byte : TextOf[b] = word
    BY DEF Scalars
  <1>2. ByteOf(word) \in Byte
    BY <1>1 DEF ByteOf
  <1>3. QED
    BY <1>2, ByteAssumption DEF Byte

\* The reader after a value, and after the start of a container.
LEMMA PastValueFacts ==
    ASSUME NEW r \in Seq(Contexts), Len(r) > 0, Waiting(r) # "name"
    PROVE  /\ PastValue(r) \in Seq(Contexts)
           /\ Waiting(r) = "root" => PastValue(r) = << >>
           /\ Waiting(r) # "root" =>
                 /\ Len(PastValue(r)) = Len(r)
                 /\ \A i \in 1 .. Len(r) - 1 : PastValue(r)[i] = r[i]
                 /\ PastValue(r)[Len(r)] = IF Waiting(r) = "value" THEN "name" ELSE "item"
  BY DEF PastValue, Waiting, Contexts

\* After a key the reader waits for its value, and past that for the next key.
LEMMA KeyFacts ==
    ASSUME NEW r \in Seq(Contexts), Len(r) > 0, Waiting(r) = "name"
    PROVE  /\ After(r, "key") \in Seq(Contexts) /\ Len(After(r, "key")) = Len(r)
           /\ Waiting(After(r, "key")) = "value"
           /\ PastValue(After(r, "key")) = r
  <1> DEFINE n == Len(r)
             k == After(r, "key")
  <1>1. n \in 1 .. Len(r) /\ "value" \in Contexts /\ r[n] = "name"
    BY DEF Contexts, Waiting
  <1>2. k = [r EXCEPT ![n] = "value"]
    BY DEF After
  <1> HIDE DEF n, k
  <1>3. /\ k \in Seq(Contexts) /\ Len(k) = Len(r)
        /\ \A j \in 1 .. Len(r) : k[j] = IF j = n THEN "value" ELSE r[j]
    BY <1>1, <1>2, ExceptSeq
  <1>4. Waiting(k) = "value"
    BY <1>1, <1>3 DEF Waiting, n
  <1> DEFINE p == [k EXCEPT ![n] = "name"]
  <1>5. PastValue(k) = p
    BY <1>3, <1>4 DEF PastValue, n
  <1>6. /\ p \in Seq(Contexts) /\ Len(p) = Len(r)
        /\ \A j \in 1 .. Len(r) : p[j] = IF j = n THEN "name" ELSE k[j]
    BY <1>1, <1>3, ExceptSeq DEF Contexts
  <1> HIDE DEF p
  <1>7. p = r
    BY <1>1, <1>3, <1>6, SeqEqual
  <1>8. QED
    BY <1>3, <1>4, <1>5, <1>7 DEF k

\* After a token it expects, a reader is a reader.
LEMMA AfterFacts ==
    ASSUME NEW r \in Seq(Contexts), NEW type, type \in Expected(r)
    PROVE  /\ Len(r) > 0 /\ After(r, type) \in Seq(Contexts)
           /\ type \in ValueTokens \cup {"key", "end_object", "end_array"}
           /\ type \in ValueTokens => Waiting(r) # "name"
  <1>1. Len(r) > 0
    BY DEF Expected, Complete
  <1>2. type \in ValueTokens \cup {"key", "end_object", "end_array"}
    BY <1>1 DEF Expected, Complete, Contexts, Waiting
  <1>3. CASE type \in ValueTokens
    <2>1. Waiting(r) # "name"
      BY <1>1, <1>3 DEF Expected, ValueTokens
    <2>2. PastValue(r) \in Seq(Contexts)
      BY <1>1, <2>1, PastValueFacts
    <2>3. QED
      BY <1>1, <1>3, <2>1, <2>2 DEF After, ValueTokens, Contexts
  <1>4. CASE type = "key"
    BY <1>1, <1>4 DEF After, Contexts, ValueTokens
  <1>5. CASE type \in {"end_object", "end_array"}
    <2>1. After(r, type) = Pop(r)
      BY <1>5 DEF After
    <2>2. QED
      BY <1>1, <1>5, <2>1, PopFacts DEF ValueTokens
  <1>6. QED
    BY <1>2, <1>3, <1>4, <1>5

----------------------------------------------------------------------------
(***************************************************************************)
(* Induction, for a set: a set that holds 0 and with each number the next  *)
(* one holds every number.                                                 *)
(***************************************************************************)
LEMMA SetInduction ==
    ASSUME NEW S, 0 \in S, \A n \in Nat : n \in S => n + 1 \in S
    PROVE  Nat \subseteq S
  <1> SUFFICES ASSUME NEW n \in Nat, n \notin S PROVE FALSE
    OBVIOUS
  <1> DEFINE T == {m \in 0 .. n : m \notin S}
             f == [m \in T |-> m - 1]
  <1>1. IsFiniteSet(T)
    <2>1. IsFiniteSet(0 .. n)
      BY FS_Interval
    <2>2. QED
      BY <2>1, FS_Subset
  <1>2. \A m \in T : m - 1 \in T
    <2> SUFFICES ASSUME NEW m \in T PROVE m - 1 \in T
      OBVIOUS
    <2>1. m \in Nat /\ m # 0 /\ m <= n /\ m \notin S
      OBVIOUS
    <2>2. m - 1 \in Nat /\ (m - 1) + 1 = m
      BY <2>1
    <2>3. QED
      BY <2>1, <2>2
  <1>3. f \in Injection(T, T)
    BY <1>2 DEF Injection, IsInjective
  <1>4. f \in Surjection(T, T)
    BY <1>1, <1>3, FS_Injection
  <1>5. n \in T
    OBVIOUS
  <1>6. PICK m \in T : f[m] = n
    BY <1>4, <1>5 DEF Surjection
  <1>7. QED
    BY <1>6

Flattened(f, s, n) == f = [i \in 1 .. n |-> IF i = 1 THEN s[i] ELSE f[i - 1] \o s[i]]

\* The joined pieces exist: set by set, as the recursion cannot be expanded.
LEMMA FlattenedExists ==
    ASSUME NEW s, NEW n \in Nat
    PROVE  \E f : Flattened(f, s, n)
  <1> DEFINE S == {m \in Nat : \E f : Flattened(f, s, m)}
  <1>1. 0 \in S
    <2>1. Flattened([i \in 1 .. 0 |-> 0], s, 0)
      BY DEF Flattened
    <2>2. QED
      BY <2>1
  <1>2. ASSUME NEW m \in Nat, m \in S PROVE m + 1 \in S
    <2>1. PICK f : Flattened(f, s, m)
      BY <1>2
    <2>2. \A i \in 1 .. m : f[i] = IF i = 1 THEN s[i] ELSE f[i - 1] \o s[i]
      BY <2>1 DEF Flattened
    <2> DEFINE g == [i \in 1 .. m + 1 |-> IF i = 1 THEN s[i] ELSE f[i - 1] \o s[i]]
    <2>3. ASSUME NEW i \in 1 .. m + 1, i # 1
          PROVE  g[i - 1] = f[i - 1]
      <3>1. i - 1 \in 1 .. m /\ i - 1 \in 1 .. m + 1
        BY <2>3
      <3>2. QED
        BY <3>1, <2>2
    <2>4. g = [i \in 1 .. m + 1 |-> IF i = 1 THEN s[i] ELSE g[i - 1] \o s[i]]
      BY <2>3, Zenon
    <2>5. Flattened(g, s, m + 1)
      BY <2>4 DEF Flattened
    <2>6. QED
      BY <2>5
  <1> HIDE DEF S
  <1>3. Nat \subseteq S
    BY <1>1, <1>2, SetInduction
  <1>4. QED
    BY <1>3 DEF S

\* g is the first k sizes of the binary with the bytes before them.
JoinedUpTo(g, k, bytes, sizes) ==
    LET end == IF k = 0 THEN 0 ELSE sizes[k].position
    IN  /\ g \in Seq(Nat) /\ Len(g) = end + k
        /\ \A m \in 1 .. k : g[sizes[m].position + m] = sizes[m].size
        /\ \A m \in 0 .. k - 1, i \in 1 .. end :
              /\ m > 0 => sizes[m].position < i
              /\ i <= sizes[m + 1].position
              => g[i + m] = bytes[i]

Ordered(bytes, sizes) ==
    /\ \A i \in 1 .. Len(sizes) : sizes[i].position \in Nat /\ sizes[i].size \in Nat
    /\ \A i \in 1 .. Len(sizes) : sizes[i].position <= Len(bytes)
    /\ \A i, j \in 1 .. Len(sizes) : i <= j => sizes[i].position <= sizes[j].position

\* What lies where when b comes behind a.
LEMMA Behind ==
    ASSUME NEW g \in Seq(Nat), NEW p \in Seq(Nat)
    PROVE  /\ g \o p \in Seq(Nat) /\ Len(g \o p) = Len(g) + Len(p)
           /\ \A i \in 1 .. Len(g) : (g \o p)[i] = g[i]
           /\ \A i \in 1 .. Len(p) : (g \o p)[Len(g) + i] = p[i]
  <1> DEFINE c == g \o p
  <1>1. PICK m \in Nat : m = Len(g)
    OBVIOUS
  <1>2. PICK n \in Nat : n = Len(p)
    OBVIOUS
  <1>3. /\ c \in Seq(Nat) /\ Len(c) = m + n
        /\ \A i \in 1 .. m + n : c[i] = IF i <= m THEN g[i] ELSE p[i - m]
    BY <1>1, <1>2, ConcatProperties
  <1> HIDE DEF c
  <1>4. \A i \in 1 .. m : c[i] = g[i]
    BY <1>3
  <1>5. ASSUME NEW i \in 1 .. n PROVE c[m + i] = p[i]
    <2>1. m + i \in 1 .. m + n /\ ~(m + i <= m) /\ (m + i) - m = i
      OBVIOUS
    <2>2. QED
      BY <2>1, <1>3
  <1>6. QED
    BY <1>1, <1>2, <1>3, <1>4, <1>5 DEF c

\* The bytes from one place to another, behind some that are there already.
IsBehind(h, g, bytes, from, to) ==
    /\ h \in Seq(Nat) /\ Len(h) = Len(g) + (to - from)
    /\ \A i \in 1 .. Len(g) : h[i] = g[i]
    /\ \A i \in from + 1 .. to : h[Len(g) + (i - from)] = bytes[i]

\* What lies where when a part of bytes comes behind g.
LEMMA BytesBehind ==
    ASSUME NEW g \in Seq(Nat), NEW bytes \in Seq(Nat), NEW from \in Nat, NEW to \in Nat,
           from <= to, to <= Len(bytes)
    PROVE  IsBehind(g \o SubSeq(bytes, from + 1, to), g, bytes, from, to)
  <1> DEFINE p == SubSeq(bytes, from + 1, to)
  <1>0. \A i \in from + 1 .. to : bytes[i] \in Nat
    BY ElementOfSeq
  <1>1. /\ p \in Seq(Nat) /\ Len(p) = to - from
        /\ \A i \in 1 .. to - from : p[i] = bytes[from + i]
    BY <1>0, SubSeqProperties
  <1> HIDE DEF p
  <1>2. /\ g \o p \in Seq(Nat) /\ Len(g \o p) = Len(g) + Len(p)
        /\ \A i \in 1 .. Len(g) : (g \o p)[i] = g[i]
        /\ \A i \in 1 .. Len(p) : (g \o p)[Len(g) + i] = p[i]
    BY <1>1, Behind
  <1>3. ASSUME NEW i \in from + 1 .. to
        PROVE  (g \o p)[Len(g) + (i - from)] = bytes[i]
    <2>1. i - from \in 1 .. to - from /\ from + (i - from) = i
      OBVIOUS
    <2>2. (g \o p)[Len(g) + (i - from)] = p[i - from]
      BY <2>1, <1>1, <1>2, Zenon
    <2>3. p[i - from] = bytes[from + (i - from)]
      BY <2>1, <1>1, Zenon
    <2>4. QED
      BY <2>1, <2>2, <2>3, Zenon
  <1>4. QED
    BY <1>1, <1>2, <1>3, Zenon DEF p, IsBehind

\* Three sequences in a row.
LEMMA Associative ==
    ASSUME NEW g \in Seq(Nat), NEW p \in Seq(Nat), NEW q \in Seq(Nat)
    PROVE  g \o (p \o q) = (g \o p) \o q
  BY SMT

\* One more size, with the bytes before it.
LEMMA OneSizeMore ==
    ASSUME NEW bytes \in Seq(Nat), NEW sizes \in Seq(Sizes), Ordered(bytes, sizes),
           NEW k \in Nat, k < Len(sizes), NEW g, JoinedUpTo(g, k, bytes, sizes)
    PROVE  LET from == IF k = 0 THEN 0 ELSE sizes[k].position
               last == sizes[k + 1]
           IN  JoinedUpTo(g \o (SubSeq(bytes, from + 1, last.position) \o <<last.size>>),
                          k + 1, bytes, sizes)
  <1>0. k + 1 \in 1 .. Len(sizes) /\ (k # 0 => k \in 1 .. Len(sizes))
    OBVIOUS
  <1>1. PICK from \in Nat : from = IF k = 0 THEN 0 ELSE sizes[k].position
    BY <1>0 DEF Ordered
  <1>2. PICK to \in Nat : to = sizes[k + 1].position
    BY <1>0 DEF Ordered
  <1>3. PICK size \in Nat : size = sizes[k + 1].size
    BY <1>0 DEF Ordered
  <1>4. from <= to /\ to <= Len(bytes)
    BY <1>0, <1>1, <1>2 DEF Ordered
  <1>5. g \in Seq(Nat) /\ Len(g) = from + k
    BY <1>1 DEF JoinedUpTo
  <1> DEFINE h == g \o SubSeq(bytes, from + 1, to)
             n == Append(h, size)
  <1>6. /\ h \in Seq(Nat) /\ Len(h) = to + k
        /\ \A i \in 1 .. from + k : h[i] = g[i]
        /\ \A i \in from + 1 .. to : h[Len(g) + (i - from)] = bytes[i]
    <2>1. /\ h \in Seq(Nat) /\ Len(h) = Len(g) + (to - from)
          /\ \A i \in 1 .. Len(g) : h[i] = g[i]
          /\ \A i \in from + 1 .. to : h[Len(g) + (i - from)] = bytes[i]
      <3>1. IsBehind(h, g, bytes, from, to)
        BY <1>4, <1>5, BytesBehind, Zenon
      <3>2. QED
        BY <3>1, Zenon DEF IsBehind
    <2> HIDE DEF h
    <2>2. Len(g) + (to - from) = to + k
      BY <1>5
    <2>3. QED
      BY <2>1, <2>2, <1>5
  <1>7. g \o (SubSeq(bytes, from + 1, to) \o <<size>>) = n
    <2>0. \A i \in from + 1 .. to : bytes[i] \in Nat
      BY <1>4, ElementOfSeq
    <2>1. SubSeq(bytes, from + 1, to) \in Seq(Nat) /\ <<size>> \in Seq(Nat)
      BY <2>0, SubSeqProperties
    <2>2. g \o (SubSeq(bytes, from + 1, to) \o <<size>>) = h \o <<size>>
      BY <2>1, <1>5, Associative, Zenon
    <2> HIDE DEF h
    <2>3. h \o <<size>> = Append(h, size)
      BY <1>6
    <2>4. QED
      BY <2>2, <2>3
  <1> HIDE DEF h
  <1>8. /\ n \in Seq(Nat) /\ Len(n) = to + k + 1 /\ n[to + k + 1] = size
        /\ \A i \in 1 .. to + k : n[i] = h[i]
    BY <1>6
  <1> HIDE DEF n
  <1>9. ASSUME NEW i \in from + 1 .. to
        PROVE  n[i + k] = bytes[i]
    <2>1. Len(g) + (i - from) = i + k /\ i + k \in 1 .. to + k
      BY <1>5
    <2>2. QED
      BY <2>1, <1>6, <1>8
  <1>10. ASSUME NEW i \in 1 .. from + k
         PROVE  n[i] = g[i]
    BY <1>4, <1>6, <1>8
  <1>11. ASSUME NEW m \in 1 .. k + 1
         PROVE  n[sizes[m].position + m] = sizes[m].size
    <2>1. CASE m = k + 1
      <3>1. sizes[m].position = to /\ sizes[m].size = size
        BY <2>1, <1>2, <1>3, Zenon
      <3>2. to + m = to + k + 1
        BY <2>1
      <3>3. QED
        BY <3>1, <3>2, <1>8, Zenon
    <2>2. CASE m \in 1 .. k
      <3>1. m \in 1 .. Len(sizes) /\ k \in 1 .. Len(sizes)
        BY <2>2
      <3>2. sizes[m].position \in Nat /\ sizes[m].position <= from
        BY <3>1, <2>2, <1>1 DEF Ordered
      <3>3. sizes[m].position + m \in 1 .. from + k
        BY <3>2, <2>2
      <3>4. g[sizes[m].position + m] = sizes[m].size
        BY <2>2 DEF JoinedUpTo
      <3>5. QED
        BY <3>3, <3>4, <1>10
    <2>3. QED
      BY <2>1, <2>2
  <1>12. ASSUME NEW m \in 0 .. k, NEW i \in 1 .. to,
                m > 0 => sizes[m].position < i, i <= sizes[m + 1].position
         PROVE  n[i + m] = bytes[i]
    <2>1. CASE m = k
      <3>1. i \in from + 1 .. to
        BY <2>1, <1>12, <1>1
      <3>2. QED
        BY <3>1, <2>1, <1>9
    <2>2. CASE m \in 0 .. k - 1
      <3>1. m + 1 \in 1 .. Len(sizes) /\ k \in 1 .. Len(sizes) /\ m + 1 <= k
        BY <2>2
      <3>2. sizes[m + 1].position \in Nat /\ sizes[m + 1].position <= from
        BY <3>1, <1>1 DEF Ordered
      <3>3. i \in 1 .. from /\ i + m \in 1 .. from + k
        BY <3>2, <2>2, <1>12
      <3>4. g[i + m] = bytes[i]
        BY <3>3, <2>2, <1>1, <1>12 DEF JoinedUpTo
      <3>5. QED
        BY <3>3, <3>4, <1>10
    <2>3. QED
      BY <2>1, <2>2
  <1>13. JoinedUpTo(n, k + 1, bytes, sizes)
    <2>1. k + 1 # 0 /\ (k + 1) - 1 = k /\ to + (k + 1) = to + k + 1
      OBVIOUS
    <2>2. Len(n) = sizes[k + 1].position + (k + 1)
      BY <1>2, <1>8, <2>1
    <2>3. \A m \in 0 .. k, i \in 1 .. to :
              /\ m > 0 => sizes[m].position < i
              /\ i <= sizes[m + 1].position
              => n[i + m] = bytes[i]
      BY <1>12
    <2>4. QED
      BY <1>2, <1>8, <1>11, <2>1, <2>2, <2>3, ZenonT(60) DEF JoinedUpTo
  <1>14. QED
    BY <1>1, <1>2, <1>3, <1>7, <1>13


\* The end of the bytes before size k.
Reached(k, sizes) == IF k = 0 THEN 0 ELSE sizes[k].position

SizePiece(k, bytes, sizes) ==
    SubSeq(bytes, Reached(k - 1, sizes) + 1, sizes[k].position) \o <<sizes[k].size>>

\* Without pieces nothing is joined.
LEMMA NothingYet ==
    ASSUME NEW bytes, NEW sizes
    PROVE  JoinedUpTo(<< >>, 0, bytes, sizes)
  BY DEF JoinedUpTo

\* All pieces, one behind the other.
LEMMA AllPieces ==
    ASSUME NEW bytes \in Seq(Nat), NEW sizes \in Seq(Sizes), Ordered(bytes, sizes),
           NEW s, NEW f, Len(sizes) # 0, Flattened(f, s, Len(sizes)),
           \A k \in 1 .. Len(sizes) : s[k] = SizePiece(k, bytes, sizes)
    PROVE  JoinedUpTo(f[Len(sizes)], Len(sizes), bytes, sizes)
  <1>1. PICK K \in Nat : K = Len(sizes)
    OBVIOUS
  <1>2. \A i \in 1 .. K : f[i] = IF i = 1 THEN s[i] ELSE f[i - 1] \o s[i]
    BY <1>1 DEF Flattened
  <1> DEFINE S == {k \in Nat : k \in 1 .. K => JoinedUpTo(f[k], k, bytes, sizes)}
  <1>3. 0 \in S
    OBVIOUS
  <1>4. ASSUME NEW k \in Nat, k \in S PROVE k + 1 \in S
    <2>1. CASE ~(k + 1 \in 1 .. K)
      BY <2>1
    <2>2. CASE k + 1 \in 1 .. K
      <3>0. k < Len(sizes) /\ (k + 1) - 1 = k /\ (k + 1 = 1 <=> k = 0)
        BY <2>2, <1>1
      <3>1. PICK g : JoinedUpTo(g, k, bytes, sizes) /\ f[k + 1] = g \o s[k + 1]
        <4>1. CASE k = 0
          <5>1. s[k + 1] \in Seq(Nat)
            <6>1. k + 1 \in 1 .. Len(sizes) /\ Reached(k, sizes) = 0
              BY <4>1, <2>2, <1>1 DEF Reached
            <6>2. PICK to \in Nat : to = sizes[k + 1].position /\ to <= Len(bytes)
              BY <6>1 DEF Ordered
            <6>3. PICK size \in Nat : size = sizes[k + 1].size
              BY <6>1 DEF Ordered
            <6>4. s[k + 1] = SubSeq(bytes, 1, to) \o <<size>>
              <7>1. s[k + 1] = SubSeq(bytes, Reached(k, sizes) + 1, to) \o <<size>>
                BY <6>1, <6>2, <6>3, <3>0, Zenon DEF SizePiece
              <7>2. Reached(k, sizes) + 1 = 1
                BY <6>1
              <7>3. QED
                BY <7>1, <7>2
            <6>5. \A i \in 1 .. to : bytes[i] \in Nat
              BY <6>2
            <6>6. SubSeq(bytes, 1, to) \in Seq(Nat)
              BY <6>5, SubSeqProperties
            <6>7. <<size>> \in Seq(Nat)
              OBVIOUS
            <6>8. SubSeq(bytes, 1, to) \o <<size>> \in Seq(Nat)
              BY <6>6, <6>7, ConcatProperties, Zenon
            <6>9. QED
              BY <6>4, <6>8
          <5>2. f[k + 1] = s[k + 1]
            BY <4>1, <2>2, <1>2
          <5>3. << >> \o s[k + 1] = s[k + 1]
            BY <5>1, ConcatEmptySeq, Zenon
          <5>4. QED
            BY <4>1, <5>2, <5>3, NothingYet, Zenon
        <4>2. CASE k # 0
          <5>1. k \in 1 .. K /\ k + 1 # 1
            BY <4>2, <2>2
          <5>2. JoinedUpTo(f[k], k, bytes, sizes)
            BY <5>1, <1>4
          <5>3. f[k + 1] = f[k] \o s[k + 1]
            BY <5>1, <3>0, <2>2, <1>2, Zenon
          <5>4. QED
            BY <5>2, <5>3
        <4>3. QED
          BY <4>1, <4>2
      <3>2. s[k + 1] = SubSeq(bytes, Reached(k, sizes) + 1, sizes[k + 1].position)
                       \o <<sizes[k + 1].size>>
        BY <3>0, <2>2, <1>1, Zenon DEF SizePiece
      <3>3. JoinedUpTo(g \o s[k + 1], k + 1, bytes, sizes)
        BY <3>0, <3>1, <3>2, OneSizeMore, Zenon DEF Reached
      <3>4. JoinedUpTo(f[k + 1], k + 1, bytes, sizes)
        BY <3>1, <3>3, Zenon
      <3>5. QED
        BY <3>4
    <2>3. QED
      BY <2>1, <2>2, Zenon
  <1> HIDE DEF S
  <1>5. K \in S
    BY <1>3, <1>4, SetInduction
  <1>6. K \in 1 .. K
    BY <1>1
  <1>7. QED
    BY <1>1, <1>5, <1>6, Zenon DEF S

\* The bytes behind the last size make the whole.
LEMMA LastPiece ==
    ASSUME NEW bytes \in Seq(Nat), NEW sizes \in Seq(Sizes), Ordered(bytes, sizes),
           NEW g, JoinedUpTo(g, Len(sizes), bytes, sizes)
    PROVE  Joined(g \o SubSeq(bytes, Reached(Len(sizes), sizes) + 1, Len(bytes)), bytes, sizes)
  <1>1. PICK K \in Nat : K = Len(sizes)
    OBVIOUS
  <1>2. PICK n \in Nat : n = Len(bytes)
    OBVIOUS
  <1>3. PICK from \in Nat : from = Reached(K, sizes)
    BY <1>1 DEF Ordered, Reached
  <1>4. from <= n /\ n <= Len(bytes)
    BY <1>1, <1>2, <1>3 DEF Ordered, Reached
  <1>5. g \in Seq(Nat) /\ Len(g) = from + K
    BY <1>1, <1>3 DEF JoinedUpTo, Reached
  <1> DEFINE b == g \o SubSeq(bytes, from + 1, n)
  <1>6. /\ b \in Seq(Nat) /\ Len(b) = n + K
        /\ \A i \in 1 .. from + K : b[i] = g[i]
        /\ \A i \in from + 1 .. n : b[i + K] = bytes[i]
    <2>1. IsBehind(b, g, bytes, from, n)
      BY <1>4, <1>5, BytesBehind, Zenon
    <2> HIDE DEF b
    <2>2. Len(b) = n + K
      BY <2>1, <1>4, <1>5 DEF IsBehind
    <2>3. \A i \in 1 .. from + K : b[i] = g[i]
      BY <2>1, <1>5 DEF IsBehind
    <2>4. ASSUME NEW i \in from + 1 .. n PROVE b[i + K] = bytes[i]
      <3>1. Len(g) + (i - from) = i + K
        BY <1>5
      <3>2. b[Len(g) + (i - from)] = bytes[i]
        BY <2>1, Zenon DEF IsBehind
      <3>3. QED
        BY <3>1, <3>2, Zenon
    <2>5. QED
      BY <2>1, <2>2, <2>3, <2>4, Zenon DEF IsBehind
  <1> HIDE DEF b
  <1>7. ASSUME NEW k \in 1 .. K
        PROVE  b[sizes[k].position + k] = sizes[k].size
    <2>1. K \in 1 .. K /\ k <= K /\ K # 0
      OBVIOUS
    <2>2. sizes[k].position \in Nat /\ sizes[k].position <= from
      BY <2>1, <1>1, <1>3 DEF Ordered, Reached
    <2>3. sizes[k].position + k \in 1 .. from + K
      BY <2>2
    <2>4. g[sizes[k].position + k] = sizes[k].size
      BY <1>1, Zenon DEF JoinedUpTo
    <2>5. QED
      BY <2>3, <2>4, <1>6, Zenon
  <1>8. ASSUME NEW k \in 0 .. K, NEW i \in 1 .. n,
               k > 0 => sizes[k].position < i,
               k < K => i <= sizes[k + 1].position
        PROVE  b[i + k] = bytes[i]
    <2>1. CASE k = K
      <3>1. i \in from + 1 .. n
        BY <2>1, <1>8, <1>3 DEF Reached
      <3>2. QED
        BY <3>1, <2>1, <1>6, Zenon
    <2>2. CASE k \in 0 .. K - 1
      <3>1. k + 1 \in 1 .. K /\ K \in 1 .. K /\ K # 0
        BY <2>2
      <3>2. sizes[k + 1].position \in Nat /\ sizes[k + 1].position <= from
        BY <3>1, <1>1, <1>3 DEF Ordered, Reached
      <3>3. i \in 1 .. from /\ i + k \in 1 .. from + K /\ i <= sizes[k + 1].position
        BY <3>2, <2>2, <1>8
      <3>4. g[i + k] = bytes[i]
        <4>1. from = IF K = 0 THEN 0 ELSE sizes[K].position
          BY <1>3 DEF Reached
        <4>2. QED
          BY <3>3, <4>1, <2>2, <1>1, <1>8, Zenon DEF JoinedUpTo
      <3>5. QED
        BY <3>3, <3>4, <1>6, Zenon
    <2>3. QED
      BY <2>1, <2>2
  <1>9. Joined(b, bytes, sizes)
    BY <1>1, <1>2, <1>6, <1>7, <1>8, Zenon DEF Joined
  <1>10. QED
    BY <1>1, <1>2, <1>3, <1>9, Zenon DEF b

----------------------------------------------------------------------------
(***************************************************************************)
(* What stays of a way through a binary when the binary grows.             *)
(***************************************************************************)
\* bytes2 goes on where bytes ends, and sizes2 has its new sizes there.
Longer(bytes, bytes2) ==
    /\ bytes \in Seq(Nat) /\ bytes2 \in Seq(Nat)
    /\ Len(bytes) <= Len(bytes2) /\ \A i \in 1 .. Len(bytes) : bytes2[i] = bytes[i]

SizesGrown(sizes, sizes2, bytes) ==
    /\ sizes \in Seq(Sizes) /\ sizes2 \in Seq(Sizes)
    /\ Len(sizes) <= Len(sizes2)
    /\ \A i \in 1 .. Len(sizes) : sizes2[i].position = sizes[i].position
    /\ \A i \in Len(sizes) + 1 .. Len(sizes2) : sizes2[i].position >= Len(bytes)

\* A point of a way lies in a longer binary as well.
LEMMA LiesInStays ==
    ASSUME NEW bytes, NEW bytes2, Longer(bytes, bytes2),
           NEW sizes, NEW sizes2, SizesGrown(sizes, sizes2, bytes),
           NEW a, LiesIn(a, bytes, sizes)
    PROVE  LiesIn(a, bytes2, sizes2)
  <1>1. PICK n \in Nat, n2 \in Nat : n = Len(bytes) /\ n2 = Len(bytes2) /\ n <= n2
    BY DEF Longer
  <1>2. PICK m \in Nat, m2 \in Nat : m = Len(sizes) /\ m2 = Len(sizes2) /\ m <= m2
    BY DEF SizesGrown
  <1>3. /\ a.stack \in Seq(LevelSet) /\ a.waiting \in BOOLEAN
        /\ a.bytes \in 0 .. n /\ a.sizes \in 0 .. m
    BY <1>1, <1>2 DEF LiesIn
  <1>4. ASSUME NEW k \in 1 .. m2
        PROVE  IF k <= a.sizes THEN sizes2[k].position <= a.bytes
               ELSE sizes2[k].position >= a.bytes
    <2>1. CASE k <= m
      <3>1. k \in 1 .. m
        BY <2>1
      <3>2. sizes2[k].position = sizes[k].position
        BY <3>1, <1>2, Zenon DEF SizesGrown
      <3>3. IF k <= a.sizes THEN sizes[k].position <= a.bytes ELSE sizes[k].position >= a.bytes
        BY <3>1, <1>2, Zenon DEF LiesIn
      <3>4. QED
        BY <3>2, <3>3, Zenon
    <2>2. CASE ~(k <= m)
      <3>1. k \in m + 1 .. m2 /\ ~(k <= a.sizes)
        BY <2>2, <1>3
      <3>2. sizes2[k].position >= n
        BY <3>1, <1>1, <1>2, Zenon DEF SizesGrown
      <3>3. sizes2[k] \in Sizes
        BY <1>2 DEF SizesGrown
      <3>4. sizes2[k].position \in Nat
        BY <3>3 DEF Sizes
      <3>5. sizes2[k].position >= a.bytes
        BY <3>2, <3>4, <1>3
      <3>6. QED
        BY <3>1, <3>5
    <2>3. QED
      BY <2>1, <2>2
  <1>5. a.bytes \in 0 .. n2 /\ a.sizes \in 0 .. m2
    BY <1>1, <1>2, <1>3
  <1>6. QED
    BY <1>1, <1>2, <1>3, <1>4, <1>5, Zenon DEF LiesIn

\* A move by the first token of a value stays one when the binary grows.
LEMMA ValueMoveStays ==
    ASSUME NEW bytes, NEW bytes2, Longer(bytes, bytes2),
           NEW sizes, NEW sizes2, SizesGrown(sizes, sizes2, bytes),
           NEW t, NEW allow, NEW below, NEW a, NEW tok, NEW b,
           LiesIn(a, bytes, sizes),
           ValueMove(t, allow, below, a, tok, b, bytes, sizes)
    PROVE  ValueMove(t, allow, below, a, tok, b, bytes2, sizes2)
  <1>1. PICK n \in Nat, n2 \in Nat : n = Len(bytes) /\ n2 = Len(bytes2) /\ n <= n2
    BY DEF Longer
  <1>2. PICK m \in Nat, m2 \in Nat : m = Len(sizes) /\ m2 = Len(sizes2) /\ m <= m2
    BY DEF SizesGrown
  <1>3. a.bytes \in Nat /\ a.sizes \in Nat
    BY <1>1, <1>2 DEF LiesIn
  <1>4. ASSUME NEW i \in Nat, i < n
        PROVE  i < n2 /\ bytes2[i + 1] = bytes[i + 1]
    <2>1. i + 1 \in 1 .. n /\ i < n2
      BY <1>4, <1>1
    <2>2. QED
      BY <2>1, <1>1, Zenon DEF Longer
  <1>5. ASSUME NEW i \in Nat, i < m
        PROVE  i < m2 /\ sizes2[i + 1].position = sizes[i + 1].position
    <2>1. i + 1 \in 1 .. m /\ i < m2
      BY <1>5, <1>2
    <2>2. QED
      BY <2>1, <1>2, Zenon DEF SizesGrown
  <1> DEFINE at == a.bytes + Flag(t)
  <1>6. at \in Nat
    BY <1>3 DEF Flag
  <1> HIDE DEF at
  <1>7. CASE AbsentMove(t, below, a, tok, b, bytes)
    <2>1. AbsentMove(t, below, a, tok, b, bytes2)
      BY <1>7, <1>1, <1>3, <1>4, Zenon DEF AbsentMove
    <2>2. QED
      BY <2>1, Zenon DEF ValueMove
  <1>8. CASE /\ Optional(t) => a.bytes < Len(bytes) /\ bytes[a.bytes + 1] = 1
             /\ \/ ScalarMove(t, below, at, a, tok, b, bytes)
                \/ OpenMove(t, allow, below, at, a, tok, b)
                \/ ArrayMove(t, below, at, a, tok, b, sizes)
    <2>1. Optional(t) => a.bytes < Len(bytes2) /\ bytes2[a.bytes + 1] = 1
      BY <1>8, <1>1, <1>3, <1>4, Zenon
    <2>2. ScalarMove(t, below, at, a, tok, b, bytes) => ScalarMove(t, below, at, a, tok, b, bytes2)
      BY <1>1, <1>4, <1>6, Zenon DEF ScalarMove
    <2>3. ArrayMove(t, below, at, a, tok, b, sizes) => ArrayMove(t, below, at, a, tok, b, sizes2)
      BY <1>2, <1>3, <1>5, Zenon DEF ArrayMove
    <2>4. QED
      BY <2>1, <2>2, <2>3, <1>8, Zenon DEF ValueMove, at
  <1>9. QED
    BY <1>7, <1>8, Zenon DEF ValueMove, at

\* What later tokens leave alone of an earlier move.
Settled(a, tok, bytes, bytes2, sizes, sizes2) ==
    LET n == Innermost(a).size_insertion_index
    IN  /\ tok.type = "end_array" /\ Kind[Innermost(a).type] = "array" =>
              sizes2[n].size = sizes[n].size
        /\ tok.type = "end_object" /\ LeavesOut(a) =>
              Len(bytes2) = Len(bytes) /\ Len(sizes2) = Len(sizes)

\* So does every move, if what it closed stays as it was.
LEMMA MoveStays ==
    ASSUME NEW bytes, NEW bytes2, Longer(bytes, bytes2),
           NEW sizes, NEW sizes2, SizesGrown(sizes, sizes2, bytes),
           NEW a, NEW tok, NEW b, LiesIn(a, bytes, sizes),
           Settled(a, tok, bytes, bytes2, sizes, sizes2),
           Move(a, tok, b, bytes, sizes)
    PROVE  Move(a, tok, b, bytes2, sizes2)
  <1> DEFINE e == Innermost(a)
  <1>1. CASE KeyMove(a, tok, b)
    BY <1>1, Zenon DEF Move
  <1>2. CASE ObjectEndMove(a, tok, b, bytes, sizes)
    <2>1. tok.type = "end_object"
      BY <1>2 DEF ObjectEndMove, Token
    <2>2. ObjectEndMove(a, tok, b, bytes2, sizes2)
      BY <1>2, <2>1, Zenon DEF ObjectEndMove, Settled, AtTheEnd
    <2>3. QED
      BY <2>2, Zenon DEF Move
  <1>3. CASE FieldMove(a, tok, b, bytes, sizes)
    <2>1. FieldMove(a, tok, b, bytes2, sizes2)
      BY <1>3, ValueMoveStays, Zenon DEF FieldMove
    <2>2. QED
      BY <2>1, Zenon DEF Move
  <1>4. CASE ElementMove(a, tok, b, bytes, sizes)
    <2>1. ElementMove(a, tok, b, bytes2, sizes2)
      BY <1>4, ValueMoveStays, Zenon DEF ElementMove
    <2>2. QED
      BY <2>1, Zenon DEF Move
  <1>5. CASE ArrayEndMove(a, tok, b, sizes)
    <2>1. tok.type = "end_array"
      BY <1>5 DEF ArrayEndMove, Token
    <2>2. ArrayEndMove(a, tok, b, sizes2)
      BY <1>5, <2>1, Zenon DEF ArrayEndMove, Settled
    <2>3. QED
      BY <2>2, Zenon DEF Move
  <1>6. CASE NameMove(a, tok, b, bytes)
    <2>1. NameMove(a, tok, b, bytes2)
      <3>1. PICK n \in Nat, n2 \in Nat : n = Len(bytes) /\ n2 = Len(bytes2) /\ n <= n2
        BY DEF Longer
      <3>2. a.bytes \in Nat /\ a.bytes < n
        BY <3>1, <1>6 DEF NameMove, LiesIn
      <3>3. a.bytes + 1 \in 1 .. n /\ a.bytes < n2
        BY <3>1, <3>2
      <3>4. bytes2[a.bytes + 1] = bytes[a.bytes + 1]
        BY <3>1, <3>3, Zenon DEF Longer
      <3>5. QED
        BY <1>6, <3>1, <3>3, <3>4, Zenon DEF NameMove
    <2>2. QED
      BY <2>1, Zenon DEF Move
  <1>7. CASE AlternativeMove(a, tok, b, bytes, sizes)
    <2>1. AlternativeMove(a, tok, b, bytes2, sizes2)
      BY <1>7, ValueMoveStays, Zenon DEF AlternativeMove
    <2>2. QED
      BY <2>1, Zenon DEF Move
  <1>8. QED
    BY <1>1, <1>2, <1>3, <1>4, <1>5, <1>6, <1>7, Zenon DEF Move

\* The token tok leads on from p to p2.
LeadsOn(start, tokens, p, tok, p2, bytes, sizes) ==
    IF tokens = << >> THEN ValueMove(start, TRUE, << >>, p, tok, p2, bytes, sizes)
    ELSE Move(p, tok, p2, bytes, sizes)

\* An extension was left out where a struct ended on the way.
LeftOut(tokens, at) ==
    \E i \in 1 .. Len(tokens) - 1 : tokens[i + 1].type = "end_object" /\ LeavesOut(at[i])
==============================================================================
