--------------------------- MODULE JsonToBin_proofs ---------------------------
(***************************************************************************)
(* Proofs about JsonToBin, for every type table, stack limit and document  *)
(* length.                                                                 *)
(***************************************************************************)
EXTENDS JsonToBin, AbiSchema_proofs

LOCAL INSTANCE SequencesExt

----------------------------------------------------------------------------
(***************************************************************************)
(* The inductive invariant.  A stack entry e beside a container c of the   *)
(* text is Inside a value when it is below the top: its current field,     *)
(* element or alternative is the entry above.  The top entry is looser.    *)
(***************************************************************************)
OwnsSize(e, sizes) ==
    Kind[e.type] = "array" => e.size_insertion_index \in 1 .. sizes

Inside(e, c, sizes) ==
    \/ /\ Kind[e.type] = "struct" /\ c = "name"
       /\ e.position \in 0 .. Len(Fields[e.type]) - 1
    \/ /\ Kind[e.type] = "variant" /\ c = "item"
       /\ e.position = 1 /\ e.variant_type_index < Len(Fields[e.type])
    \/ /\ Kind[e.type] \in ArrayKinds /\ c = "item"
       /\ e.position >= 0 /\ ~e.allow_extensions /\ OwnsSize(e, sizes)

AtTop(e, c, sizes) ==
    \/ /\ Kind[e.type] = "struct" /\ c \in {"name", "value"}
       /\ e.position \in -1 .. Len(Fields[e.type]) - 1
       /\ c = "value" => e.position >= 0
    \/ /\ Kind[e.type] = "variant" /\ c = "item"
       /\ e.position \in -1 .. 1
       /\ e.position >= 0 => e.variant_type_index < Len(Fields[e.type])
    \/ /\ Kind[e.type] \in ArrayKinds /\ c = "item"
       /\ e.position >= -1 /\ ~e.allow_extensions /\ OwnsSize(e, sizes)

\* Nothing can follow the current field or alternative of e.
AtEnd(e) ==
    /\ e.allow_extensions
    /\ \/ Kind[e.type] = "struct"  /\ e.position + 1 = Len(Fields[e.type])
       \/ Kind[e.type] = "variant" /\ e.position = 1

\* An entry allows extensions only if every level below it is at its end.
AllowTrail(st) ==
    \A i, j \in 1 .. Len(st) : i < j /\ st[j].allow_extensions => AtEnd(st[i])

OwnSizes(st) ==
    \A i, j \in 1 .. Len(st) :
        i < j /\ Kind[st[i].type] = "array" /\ Kind[st[j].type] = "array"
        => st[i].size_insertion_index < st[j].size_insertion_index

\* Every level of st is inside a value: where the start of a value begins.
AllInside(st, rd, sizes) ==
    /\ Len(rd) = Len(st)
    /\ \A i \in 1 .. Len(st) : Inside(st[i], rd[i], sizes)
    /\ AllowTrail(st)
    /\ OwnSizes(st)

\* Between two serializer calls.
Levels(st, rd, sizes) ==
    /\ Len(rd) = Len(st)
    /\ \A i \in 1 .. Len(st) : i < Len(st) => Inside(st[i], rd[i], sizes)
    /\ Len(st) > 0 => AtTop(st[Len(st)], rd[Len(st)], sizes)
    /\ AllowTrail(st)
    /\ OwnSizes(st)

SkippedAtEnd ==
    skipped_extension =>
        /\ pc \notin {"begin", "object"}
        /\ pc = "loop" => \A i \in 1 .. Len(stack) : AtEnd(stack[i]) /\ reader[i] # "value"

IInv ==
    /\ TypeOK
    /\ pc = "begin" => reader = FreshReader /\ stack = << >>
    /\ pc \in {"loop", "object"} => Levels(stack, reader, Len(size_insertions))
    /\ pc = "object" => /\ Len(stack) > 0
                        /\ Kind[Top.type] = "struct" /\ Top.position = -1
                        /\ Waiting(reader) = "name"
    /\ SkippedAtEnd
    /\ InsertionsOrdered
    /\ NeverExpectedEnd

----------------------------------------------------------------------------
\* The presence byte of an optional.
LEMMA PresenceFacts ==
    ASSUME NEW t \in Types
    PROVE  Presence(t) \in Seq(Nat)
  BY DEF Presence

----------------------------------------------------------------------------
(***************************************************************************)
(* Starting a value from levels that are all inside one.                   *)
(***************************************************************************)

\* A new entry on top of levels that are all inside a value.
LEMMA PushLevels ==
    ASSUME NEW st \in Seq(Entries), NEW rd \in Seq(Contexts),
           NEW m \in Nat, NEW n \in Nat, m <= n,
           AllInside(st, rd, m),
           NEW e \in Entries, NEW c \in Contexts, AtTop(e, c, n),
           e.allow_extensions => \A i \in 1 .. Len(st) : AtEnd(st[i]),
           Kind[e.type] = "array" => m < e.size_insertion_index
    PROVE  Levels(Append(st, e), Append(rd, c), n)
  <1> DEFINE st2 == Append(st, e)
             rd2 == Append(rd, c)
  <1>1. /\ Len(st2) = Len(st) + 1 /\ st2[Len(st) + 1] = e
        /\ \A i \in 1 .. Len(st) : st2[i] = st[i]
    BY AppendFacts
  <1>2. /\ Len(rd2) = Len(rd) + 1 /\ rd2[Len(rd) + 1] = c
        /\ \A i \in 1 .. Len(rd) : rd2[i] = rd[i]
    BY AppendFacts
  <1>3. Len(rd) = Len(st) /\ Len(st) \in Nat
    BY DEF AllInside
  <1> HIDE DEF st2, rd2
  <1>4. ASSUME NEW i \in 1 .. Len(st)
        PROVE  Inside(st[i], rd[i], n)
    <2>1. Inside(st[i], rd[i], m)
      BY DEF AllInside
    <2>2. st[i] \in Entries
      OBVIOUS
    <2>3. QED
      BY <2>1, <2>2, SMTT(60) DEF Inside, OwnsSize, Entries
  <1>5. \A i \in 1 .. Len(st2) : i < Len(st2) => Inside(st2[i], rd2[i], n)
    BY <1>1, <1>2, <1>3, <1>4
  <1>6. AtTop(st2[Len(st2)], rd2[Len(st2)], n)
    BY <1>1, <1>2, <1>3
  <1>7. AllowTrail(st2)
    BY <1>1, <1>3 DEF AllowTrail, AllInside
  <1>8. OwnSizes(st2)
    <2>1. SUFFICES ASSUME NEW i \in 1 .. Len(st2), NEW j \in 1 .. Len(st2), i < j,
                          Kind[st2[i].type] = "array", Kind[st2[j].type] = "array"
                   PROVE  st2[i].size_insertion_index < st2[j].size_insertion_index
      BY DEF OwnSizes
    <2>2. CASE j <= Len(st)
      BY <2>1, <2>2, <1>1, <1>3 DEF OwnSizes, AllInside
    <2>3. CASE j = Len(st) + 1
      <3>1. i \in 1 .. Len(st) /\ st2[i] = st[i] /\ st2[j] = e
        BY <2>1, <2>3, <1>1, <1>3
      <3>2. st[i].size_insertion_index \in 1 .. m
        BY <3>1, <2>1 DEF AllInside, Inside, OwnsSize, ArrayKinds
      <3>3. e.size_insertion_index \in Nat /\ m < e.size_insertion_index
        BY <3>1, <2>1 DEF Entries
      <3>4. QED
        BY <3>1, <3>2, <3>3
    <2>4. QED
      BY <2>2, <2>3, <1>1, <1>3
  <1>9. QED
    BY <1>1, <1>2, <1>3, <1>5, <1>6, <1>7, <1>8 DEF Levels, st2, rd2

\* No entry was pushed: what is inside a value may also be on top.
LEMMA SettleLevels ==
    ASSUME NEW st \in Seq(Entries), NEW rd \in Seq(Contexts), NEW m \in Nat,
           AllInside(st, rd, m)
    PROVE  Levels(st, rd, m)
  <1>1. Len(rd) = Len(st) /\ AllowTrail(st) /\ OwnSizes(st)
    BY DEF AllInside
  <1>2. \A i \in 1 .. Len(st) : Inside(st[i], rd[i], m)
    BY DEF AllInside
  <1>3. \A i \in 1 .. Len(st) : AtTop(st[i], rd[i], m)
    <2>1. SUFFICES ASSUME NEW i \in 1 .. Len(st)
                   PROVE  AtTop(st[i], rd[i], m)
      OBVIOUS
    <2>2. Inside(st[i], rd[i], m) /\ st[i] \in Entries
      BY <1>2
    <2> DEFINE e == st[i]
               c == rd[i]
    <2>a. e.type \in Types /\ e.position \in Int
      BY <2>2 DEF Entries
    <2>b. Fields[e.type] \in Seq([name : Strings, type : Types])
      BY <2>a, TableAssumption
    <2>3. e.type \in Types /\ e.position \in Int /\ Len(Fields[e.type]) \in Nat
      BY <2>a, <2>b
    <2> HIDE DEF e, c
    <2>4. Inside(e, c, m)
      BY <2>2 DEF e, c
    <2>5. AtTop(e, c, m)
      BY <2>3, <2>4 DEF Inside, AtTop, ArrayKinds
    <2>6. QED
      BY <2>5 DEF e, c
  <1>4. QED
    BY <1>1, <1>2, <1>3 DEF Levels

\* A failed conversion satisfies the invariant.
LEMMA FailStep ==
    ASSUME IInv, NEW e \in Errors, e # "expected_end", Fail(e),
           pc # "done", root' = root,
           doc' \in Seq(Tokens(Strings)), reader' \in Seq(Contexts)
    PROVE  IInv'
  BY DEF IInv, TypeOK, Fail, SkippedAtEnd, InsertionsOrdered, NeverExpectedEnd

\* What a handler returns to the loop with.
LEMMA ReturnStep ==
    ASSUME IInv, pc # "done", root' = root,
           doc' \in Seq(Tokens(Strings)), reader' \in Seq(Contexts),
           NEW st \in Seq(Entries), Return(st),
           out' \in Seq(Nat), size_insertions' \in Seq(Insertions),
           skipped_extension' \in BOOLEAN,
           InsertionsOrdered',
           Levels(st, reader', Len(size_insertions')),
           skipped_extension' =>
               \A i \in 1 .. Len(st) : AtEnd(st[i]) /\ reader'[i] # "value"
    PROVE  IInv'
  BY DEF IInv, TypeOK, Return, SkippedAtEnd, NeverExpectedEnd, Levels, AtEnd,
         AllowTrail, OwnSizes, AtTop, Inside, OwnsSize

\* Bytes written in two pieces are the bytes of both.
LEMMA BytesAppended ==
  ASSUME NEW s \in Seq(Nat), NEW t \in Seq(Nat), NEW u \in Seq(Nat)
  PROVE  (s \o t) \o u = s \o (t \o u)
  BY SMTT(30)

\* Writing more keeps the insertion points in order and within the output.
LEMMA WriteKeepsOrder ==
    ASSUME TypeOK, InsertionsOrdered, NEW bytes \in Seq(Nat),
           out' = out \o bytes, size_insertions' = size_insertions
    PROVE  out' \in Seq(Nat) /\ InsertionsOrdered'
  <1>1. out \in Seq(Nat) /\ size_insertions \in Seq(Insertions)
    BY DEF TypeOK
  <1>2. out' \in Seq(Nat) /\ Len(out) <= Len(out') /\ Len(out) \in Nat /\ Len(out') \in Nat
    BY <1>1
  <1>3. \A i \in DOMAIN size_insertions : size_insertions[i].position \in Nat
    <2>1. \A i \in DOMAIN size_insertions : size_insertions[i] \in Insertions
      BY <1>1
    <2>2. QED
      BY <2>1 DEF Insertions
  <1>4. QED
    BY <1>2, <1>3 DEF InsertionsOrdered

----------------------------------------------------------------------------
(***************************************************************************)
(* Starting a value preserves the invariant.  rd is the reader once the    *)
(* value is past.                                                          *)
(***************************************************************************)
LEMMA StartValueStep ==
    ASSUME IInv, ~skipped_extension, pc # "done", root' = root,
           NEW t \in Types, NEW allow \in BOOLEAN,
           NEW tok \in Tokens(Strings), tok.type \in ValueTokens,
           NEW below \in Seq(Entries), NEW rd \in Seq(Contexts),
           rd = PastValue(reader), reader' = After(reader, tok.type),
           reader' \in Seq(Contexts), doc' \in Seq(Tokens(Strings)),
           AllInside(below, rd, Len(size_insertions)),
           allow => \A i \in 1 .. Len(below) : AtEnd(below[i]),
           StartValue(t, allow, tok, below)
    PROVE  IInv'
  <1> DEFINE m == Len(size_insertions)
  <1>a. /\ TypeOK /\ InsertionsOrdered /\ out \in Seq(Nat)
        /\ size_insertions \in Seq(Insertions) /\ m \in Nat
        /\ error # "expected_end" /\ skipped_extension \in BOOLEAN
    BY DEF IInv, TypeOK, NeverExpectedEnd
  <1>b. /\ Base(t) \in Types /\ Presence(t) \in Seq(Nat)
        /\ Kind[Base(t)] \in {"builtin", "struct", "variant"} \cup ArrayKinds
    BY BaseFacts, PresenceFacts
  <1>c. /\ tok.type \in {"null", "string"} => reader' = rd
        /\ tok.type = "start_object" => reader' = Append(rd, "name")
        /\ tok.type = "start_array" => reader' = Append(rd, "item")
    BY DEF After, ValueTokens
  <1>1. CASE AbsentOptional(t, tok, below)
    <2>1. /\ out' = out \o <<0>> /\ Return(below) /\ reader' = rd
          /\ UNCHANGED <<size_insertions, skipped_extension>>
      BY <1>1, <1>a, <1>c DEF AbsentOptional
    <2>2. out' \in Seq(Nat) /\ InsertionsOrdered'
      <3>1. <<0>> \in Seq(Nat)
        OBVIOUS
      <3>2. QED
        BY <3>1, <2>1, <1>a, WriteKeepsOrder
    <2>3. Levels(below, reader', Len(size_insertions'))
      BY <2>1, <1>a, SettleLevels
    <2>4. QED
      BY <2>1, <2>2, <2>3, <1>a, ReturnStep
  <1>2. CASE StartBuiltin(t, tok, below)
    <2>1. CASE tok.type = "string" /\ tok.text \in Scalars
      <3>1. /\ out' = out \o Presence(t) \o <<ByteOf(tok.text)>>
            /\ Return(below) /\ reader' = rd
            /\ UNCHANGED <<size_insertions, skipped_extension>>
        BY <1>2, <2>1, <1>c DEF StartBuiltin
      <3>0. <<ByteOf(tok.text)>> \in Seq(Nat)
        BY <2>1, ByteOfFacts
      <3>2. Presence(t) \o <<ByteOf(tok.text)>> \in Seq(Nat)
        BY <3>0, <1>b
      <3>a. out \in Seq(Nat) /\ Presence(t) \in Seq(Nat)
        BY <1>a, <1>b
      <3>b. (out \o Presence(t)) \o <<ByteOf(tok.text)>>
                = out \o (Presence(t) \o <<ByteOf(tok.text)>>)
        BY <3>0, <3>a, BytesAppended
      <3>3. out' = out \o (Presence(t) \o <<ByteOf(tok.text)>>)
        BY ONLY <3>1, <3>b
      <3>4. out' \in Seq(Nat) /\ InsertionsOrdered'
        BY <3>1, <3>2, <3>3, <1>a, WriteKeepsOrder
      <3>5. Levels(below, reader', Len(size_insertions'))
        BY <3>1, <1>a, SettleLevels
      <3>6. QED
        BY <3>1, <3>4, <3>5, <1>a, ReturnStep
    <2>2. CASE ~(tok.type = "string" /\ tok.text \in Scalars)
      <3>1. Fail("expected_number")
        BY <1>2, <2>2 DEF StartBuiltin
      <3>2. QED
        BY <3>1, FailStep DEF Errors
    <2>3. QED
      BY <2>1, <2>2
  <1>3. CASE StartStruct(t, allow, tok, below)
    <2>1. CASE tok.type = "start_object"
      <3> DEFINE e == Entry(Base(t), allow, 0)
      <3>1. /\ out' = out \o Presence(t) /\ stack' = Append(below, e)
            /\ reader' = Append(rd, "name") /\ pc' = "object"
            /\ UNCHANGED <<size_insertions, skipped_extension, error, bin>>
        BY <1>3, <2>1, <1>c DEF StartStruct
      <3>2. /\ Kind[Base(t)] = "struct" /\ e \in Entries
            /\ e.type = Base(t) /\ e.position = -1 /\ e.allow_extensions = allow
        BY <1>3, <1>b DEF StartStruct, Entry, Entries
      <3>3. out' \in Seq(Nat) /\ InsertionsOrdered'
        BY <3>1, <1>a, <1>b, WriteKeepsOrder
      <3>4. AtTop(e, "name", m)
        <4>1. Fields[Base(t)] \in Seq([name : Strings, type : Types])
          BY <1>b, TableAssumption
        <4>2. Len(Fields[Base(t)]) \in Nat
          BY <4>1
        <4>3. QED
          BY <3>2, <4>2 DEF AtTop
      <3> HIDE DEF e
      <3>5. Levels(stack', reader', m)
        BY <3>1, <3>2, <3>4, <1>a, PushLevels DEF Contexts
      <3>6. stack' \in Seq(Entries) /\ Len(stack') = Len(below) + 1
            /\ stack'[Len(below) + 1] = e
        BY <3>1, <3>2, AppendFacts
      <3>7. Len(reader') = Len(stack') /\ reader'[Len(reader')] = "name"
        BY <3>1, <3>6, AppendFacts DEF AllInside, Contexts
      <3>8. /\ Len(stack') > 0 /\ Kind[Top'.type] = "struct"
            /\ Top'.position = -1 /\ Waiting(reader)' = "name"
        BY <3>2, <3>6, <3>7 DEF Top, Waiting
      <3>9. TypeOK'
        BY <3>1, <3>3, <3>6 DEF IInv, TypeOK
      <3>10. QED
        BY <3>1, <3>3, <3>5, <3>8, <3>9, <1>a DEF IInv, SkippedAtEnd, NeverExpectedEnd
    <2>2. CASE tok.type # "start_object"
      <3>1. Fail("expected_start_object")
        BY <1>3, <2>2 DEF StartStruct
      <3>2. QED
        BY <3>1, FailStep DEF Errors
    <2>3. QED
      BY <2>1, <2>2
  <1>4. CASE StartArray(t, tok, below)
    <2>1. CASE tok.type = "start_array"
      <3> DEFINE new == [position |-> Len(out'), size |-> 0]
                 e == Entry(Base(t), FALSE, m + 1)
      <3>1. /\ out' = out \o Presence(t) /\ reader' = Append(rd, "item")
            /\ size_insertions' = Append(size_insertions, new)
            /\ Return(Append(below, Entry(Base(t), FALSE, Len(size_insertions'))))
            /\ UNCHANGED skipped_extension
        BY <1>4, <2>1, <1>c DEF StartArray
      <3>2. /\ out' \in Seq(Nat) /\ Len(out') \in Nat /\ Len(out) \in Nat
            /\ Len(out) <= Len(out')
        BY <3>1, <1>a, <1>b
      <3>3. new \in Insertions /\ new.position = Len(out')
        BY <3>2 DEF Insertions
      <3> HIDE DEF new
      <3>4. /\ size_insertions' \in Seq(Insertions) /\ Len(size_insertions') = m + 1
            /\ size_insertions'[m + 1] = new
            /\ \A i \in 1 .. m : size_insertions'[i] = size_insertions[i]
        BY <3>1, <3>3, <1>a, AppendFacts
      <3>5. InsertionsOrdered'
        <4>1. \A i \in 1 .. m : size_insertions[i] \in Insertions
          BY <1>a
        <4>2. \A i \in 1 .. m : size_insertions[i].position \in Nat
          BY <4>1 DEF Insertions
        <4>3. DOMAIN size_insertions' = 1 .. m + 1 /\ DOMAIN size_insertions = 1 .. m
          BY <3>4, <1>a
        <4>4. \A i \in 1 .. m : size_insertions[i].position <= Len(out)
          BY <4>3, <1>a DEF InsertionsOrdered
        <4>a. /\ \A i \in 1 .. m : size_insertions'[i].position = size_insertions[i].position
              /\ size_insertions'[m + 1].position = Len(out')
              /\ \A i \in 1 .. m + 1 : i \in 1 .. m \/ i = m + 1
          BY <3>3, <3>4, <1>a
        <4>5. \A i \in 1 .. m + 1 : size_insertions'[i].position <= Len(out')
          <5>1. \A i \in 1 .. m : size_insertions'[i].position <= Len(out')
            <6>1. SUFFICES ASSUME NEW i \in 1 .. m
                           PROVE  size_insertions'[i].position <= Len(out')
              OBVIOUS
            <6>2. size_insertions[i].position \in Nat /\ size_insertions[i].position <= Len(out)
              BY <4>2, <4>4
            <6>3. QED
              BY <6>2, <4>a, <3>2
          <5>2. QED
            BY <5>1, <4>a, <3>2
        <4>6. \A i, j \in 1 .. m + 1 :
                 i <= j => size_insertions'[i].position <= size_insertions'[j].position
          <5>1. SUFFICES ASSUME NEW i \in 1 .. m + 1, NEW j \in 1 .. m + 1, i <= j
                         PROVE  size_insertions'[i].position <= size_insertions'[j].position
            OBVIOUS
          <5>2. CASE j \in 1 .. m
            <6>1. i \in 1 .. m
              BY <5>1, <5>2, <1>a
            <6>2. size_insertions[i].position <= size_insertions[j].position
              BY <5>1, <5>2, <6>1, <4>3, <1>a DEF InsertionsOrdered
            <6>3. QED
              BY <5>2, <6>1, <6>2, <4>a
          <5>3. CASE j = m + 1
            BY <5>3, <4>5, <4>a
          <5>4. QED
            BY <5>2, <5>3, <4>a
        <4>7. QED
          BY <4>3, <4>5, <4>6 DEF InsertionsOrdered
      <3>6. /\ Kind[Base(t)] = "array" /\ e \in Entries
            /\ e.type = Base(t) /\ e.position = -1 /\ e.allow_extensions = FALSE
            /\ e.size_insertion_index = m + 1
        BY <1>4, <1>a, <1>b DEF StartArray, Entry, Entries
      <3>7. Return(Append(below, e))
        BY <3>1, <3>4
      <3> HIDE DEF e
      <3>8. AtTop(e, "item", m + 1)
        BY <3>6, <1>a DEF AtTop, ArrayKinds, OwnsSize
      <3>9. m + 1 \in Nat /\ m <= m + 1 /\ m < m + 1
        BY <1>a
      <3>10. Levels(Append(below, e), reader', m + 1)
        BY <3>1, <3>6, <3>8, <3>9, <1>a, PushLevels DEF Contexts
      <3>11. Append(below, e) \in Seq(Entries)
        BY <3>6
      <3>12. QED
        BY <3>1, <3>2, <3>4, <3>5, <3>7, <3>10, <3>11, <1>a, ReturnStep
    <2>2. CASE tok.type # "start_array"
      <3>1. Fail("expected_start_array")
        BY <1>4, <2>2 DEF StartArray
      <3>2. QED
        BY <3>1, FailStep DEF Errors
    <2>3. QED
      BY <2>1, <2>2
  <1>5. ASSUME StartFixedArray(t, tok, below) \/ StartVariant(t, allow, tok, below)
        PROVE  IInv'
    <2>1. CASE tok.type = "start_array"
      <3>1. PICK a \in BOOLEAN :
              /\ out' = out \o Presence(t) /\ Return(Append(below, Entry(Base(t), a, 0)))
              /\ UNCHANGED <<size_insertions, skipped_extension>>
              /\ \/ Kind[Base(t)] = "fixed_array" /\ ~a
                 \/ Kind[Base(t)] = "variant" /\ a = allow
        BY <1>5, <2>1 DEF StartFixedArray, StartVariant
      <3> DEFINE e == Entry(Base(t), a, 0)
      <3>2. /\ e \in Entries
            /\ e.type = Base(t) /\ e.position = -1 /\ e.allow_extensions = a
        BY <1>b DEF Entry, Entries
      <3>3. out' \in Seq(Nat) /\ InsertionsOrdered'
        BY <3>1, <1>a, <1>b, WriteKeepsOrder
      <3>4. Append(below, e) \in Seq(Entries) /\ Return(Append(below, e))
        BY <3>1, <3>2
      <3> HIDE DEF e
      <3>5. AtTop(e, "item", m)
        BY <3>1, <3>2 DEF AtTop, ArrayKinds, OwnsSize
      <3>6. Levels(Append(below, e), Append(rd, "item"), m)
        BY <3>1, <3>2, <3>5, <1>a, PushLevels DEF Contexts
      <3>7. QED
        BY <2>1, <3>1, <3>3, <3>4, <3>6, <1>a, <1>c, ReturnStep
    <2>2. CASE tok.type # "start_array"
      <3>1. Fail("expected_start_array")
        BY <1>5, <2>2 DEF StartFixedArray, StartVariant
      <3>2. QED
        BY <3>1, FailStep DEF Errors
    <2>3. QED
      BY <2>1, <2>2
  <1>6. QED
    BY <1>1, <1>2, <1>3, <1>4, <1>5 DEF StartValue

----------------------------------------------------------------------------
(***************************************************************************)
(* Changing and popping the top entry.                                     *)
(***************************************************************************)
LEMMA UpdateTop ==
    ASSUME NEW st \in Seq(Entries), NEW rd \in Seq(Contexts), NEW m \in Nat,
           Len(st) > 0, Levels(st, rd, m),
           NEW e \in Entries, e.type = st[Len(st)].type,
           e.allow_extensions = st[Len(st)].allow_extensions,
           e.size_insertion_index = st[Len(st)].size_insertion_index,
           NEW rd2 \in Seq(Contexts), Len(rd2) = Len(rd),
           \A i \in 1 .. Len(rd) - 1 : rd2[i] = rd[i],
           NEW st2, st2 = [st EXCEPT ![Len(st)] = e]
    PROVE  /\ st2 \in Seq(Entries) /\ Len(st2) = Len(st) /\ st2[Len(st)] = e
           /\ \A i \in 1 .. Len(st) - 1 : st2[i] = st[i]
           /\ AtTop(e, rd2[Len(rd)], m) => Levels(st2, rd2, m)
           /\ Inside(e, rd2[Len(rd)], m) => AllInside(st2, rd2, m)
  <1>1. /\ st2 \in Seq(Entries) /\ Len(st2) = Len(st) /\ Len(st) \in Nat
        /\ st2[Len(st)] = e
        /\ \A i \in 1 .. Len(st) - 1 : st2[i] = st[i]
    OBVIOUS
  <1>2. Len(rd2) = Len(st2) /\ Len(rd) = Len(st)
    BY <1>1 DEF Levels
  <1>3. AllowTrail(st2)
    <2>1. SUFFICES ASSUME NEW i \in 1 .. Len(st2), NEW j \in 1 .. Len(st2),
                          i < j, st2[j].allow_extensions
                   PROVE  AtEnd(st2[i])
      BY DEF AllowTrail
    <2>2. i \in 1 .. Len(st) - 1 /\ st2[i] = st[i]
      BY <2>1, <1>1
    <2>3. st[j].allow_extensions
      BY <2>1, <1>1
    <2>4. QED
      BY <2>1, <2>2, <2>3, <1>1 DEF Levels, AllowTrail
  <1>4. OwnSizes(st2)
    <2>1. \A i \in 1 .. Len(st) : /\ st2[i].type = st[i].type
                                  /\ st2[i].size_insertion_index = st[i].size_insertion_index
      BY <1>1
    <2>2. QED
      BY <2>1, <1>1 DEF Levels, OwnSizes
  <1>5. \A i \in 1 .. Len(st2) : i < Len(st2) => Inside(st2[i], rd2[i], m)
    BY <1>1, <1>2 DEF Levels
  <1>6. AtTop(e, rd2[Len(rd)], m) => Levels(st2, rd2, m)
    BY <1>1, <1>2, <1>3, <1>4, <1>5 DEF Levels
  <1>7. Inside(e, rd2[Len(rd)], m) => AllInside(st2, rd2, m)
    BY <1>1, <1>2, <1>3, <1>4, <1>5 DEF AllInside
  <1>8. QED
    BY <1>1, <1>6, <1>7

\* Below the top, every level is inside a value.
LEMMA PopLevels ==
    ASSUME NEW st \in Seq(Entries), NEW rd \in Seq(Contexts), NEW m \in Nat,
           Len(st) > 0, Levels(st, rd, m)
    PROVE  /\ Pop(st) \in Seq(Entries) /\ Pop(rd) \in Seq(Contexts)
           /\ Levels(Pop(st), Pop(rd), m)
           /\ \A i \in 1 .. Len(Pop(st)) : Pop(rd)[i] # "value"
           /\ st[Len(st)].allow_extensions => \A i \in 1 .. Len(Pop(st)) : AtEnd(Pop(st)[i])
           /\ (\A i \in 1 .. Len(st) : AtEnd(st[i])) =>
                  \A i \in 1 .. Len(Pop(st)) : AtEnd(Pop(st)[i])
  <1> DEFINE n == Len(st) - 1
             st2 == Pop(st)
             rd2 == Pop(rd)
  <1>1. Len(rd) = Len(st) /\ Len(st) \in Nat /\ n \in Nat
    BY DEF Levels
  <1>2. st2 \in Seq(Entries) /\ Len(st2) = n /\ \A i \in 1 .. n : st2[i] = st[i]
    BY PopFacts
  <1>3. rd2 \in Seq(Contexts) /\ Len(rd2) = n /\ \A i \in 1 .. n : rd2[i] = rd[i]
    BY <1>1, PopFacts
  <1> HIDE DEF st2, rd2
  <1>4. \A i \in 1 .. n : Inside(st2[i], rd2[i], m)
    BY <1>1, <1>2, <1>3 DEF Levels
  <1>5. AllowTrail(st2) /\ OwnSizes(st2)
    <2>1. AllowTrail(st) /\ OwnSizes(st) /\ 1 .. n \subseteq 1 .. Len(st)
      BY <1>1 DEF Levels
    <2>2. AllowTrail(st2)
      <3>1. SUFFICES ASSUME NEW i \in 1 .. n, NEW j \in 1 .. n,
                            i < j, st2[j].allow_extensions
                     PROVE  AtEnd(st2[i])
        BY <1>2 DEF AllowTrail
      <3>2. st2[i] = st[i] /\ st2[j] = st[j] /\ i \in 1 .. Len(st) /\ j \in 1 .. Len(st)
        BY <2>1, <1>2
      <3>3. QED
        BY <3>1, <3>2, <2>1 DEF AllowTrail
    <2>3. OwnSizes(st2)
      <3>1. SUFFICES ASSUME NEW i \in 1 .. n, NEW j \in 1 .. n, i < j,
                            Kind[st2[i].type] = "array", Kind[st2[j].type] = "array"
                     PROVE  st2[i].size_insertion_index < st2[j].size_insertion_index
        BY <1>2 DEF OwnSizes
      <3>2. st2[i] = st[i] /\ st2[j] = st[j] /\ i \in 1 .. Len(st) /\ j \in 1 .. Len(st)
        BY <2>1, <1>2
      <3>3. QED
        BY <3>1, <3>2, <2>1 DEF OwnSizes
    <2>4. QED
      BY <2>2, <2>3
  <1>6. AllInside(st2, rd2, m)
    BY <1>2, <1>3, <1>4, <1>5 DEF AllInside
  <1>7. Levels(st2, rd2, m)
    BY <1>2, <1>3, <1>6, SettleLevels
  <1>8. \A i \in 1 .. n : rd2[i] # "value"
    BY <1>4 DEF Inside
  <1>9. st[Len(st)].allow_extensions => \A i \in 1 .. n : AtEnd(st2[i])
    BY <1>1, <1>2 DEF Levels, AllowTrail
  <1>10. (\A i \in 1 .. Len(st) : AtEnd(st[i])) => \A i \in 1 .. n : AtEnd(st2[i])
    BY <1>1, <1>2
  <1>11. QED
    BY <1>2, <1>3, <1>7, <1>8, <1>9, <1>10 DEF st2, rd2

----------------------------------------------------------------------------
(***************************************************************************)
(* One lemma per action.                                                   *)
(***************************************************************************)

\* Reading a token leaves a reader and a document.
LEMMA ReadFacts ==
    ASSUME TypeOK, NEW tok \in Tokens(Strings), Read(tok)
    PROVE  /\ reader \in Seq(Contexts) /\ Len(reader) > 0
           /\ tok.type \in Expected(reader)
           /\ reader' = After(reader, tok.type)
           /\ reader' \in Seq(Contexts)
           /\ doc' \in Seq(Tokens(Strings))
  <1>1. /\ reader \in Seq(Contexts) /\ doc \in Seq(Tokens(Strings))
        /\ tok.type \in Expected(reader) /\ reader' = After(reader, tok.type)
        /\ doc' = Append(doc, tok)
    BY DEF TypeOK, Read
  <1>2. QED
    BY <1>1, AfterFacts

LEMMA InitInv == Init => IInv
  <1> SUFFICES ASSUME Init PROVE IInv
    OBVIOUS
  <1>1. TypeOK
    <2>1. FreshReader \in Seq(Contexts)
      BY DEF FreshReader, Contexts
    <2>2. /\ << >> \in Seq(Tokens(Strings)) /\ << >> \in Seq(Entries)
          /\ << >> \in Seq(Insertions) /\ << >> \in Seq(Nat)
      OBVIOUS
    <2>3. "none" \in Errors
      BY DEF Errors
    <2>4. QED
      BY <2>1, <2>2, <2>3 DEF Init, TypeOK
  <1>2. InsertionsOrdered
    BY DEF Init, InsertionsOrdered
  <1>3. QED
    BY <1>1, <1>2 DEF Init, IInv, SkippedAtEnd, NeverExpectedEnd

LEMMA BeginStep == IInv /\ Begin => IInv'
  <1> SUFFICES ASSUME IInv, Begin PROVE IInv'
    OBVIOUS
  <1>1. PICK tok \in Tokens(Strings) : Read(tok) /\ StartValue(root, TRUE, tok, << >>)
    BY DEF Begin
  <1>2. /\ pc = "begin" /\ root' = root /\ root \in Types /\ ~skipped_extension
        /\ reader = <<"root">> /\ size_insertions \in Seq(Insertions) /\ TypeOK
    BY DEF Begin, IInv, TypeOK, SkippedAtEnd, FreshReader
  <1>3. /\ reader \in Seq(Contexts) /\ Len(reader) = 1 /\ Waiting(reader) = "root"
        /\ Complete(reader) = FALSE
    BY <1>2 DEF Waiting, Contexts, Complete
  <1>4. /\ reader' = After(reader, tok.type) /\ reader' \in Seq(Contexts)
        /\ doc' \in Seq(Tokens(Strings)) /\ tok.type \in ValueTokens
    BY <1>1, <1>2, <1>3, ReadFacts DEF Expected
  <1>5. PastValue(reader) = << >>
    BY <1>3 DEF PastValue
  <1>6. AllInside(<< >>, << >>, Len(size_insertions))
    BY DEF AllInside, AllowTrail, OwnSizes
  <1>7. << >> \in Seq(Entries) /\ << >> \in Seq(Contexts)
    OBVIOUS
  <1>8. \A i \in 1 .. Len(<< >>) : AtEnd(<< >>[i])
    OBVIOUS
  <1>9. pc # "done" /\ TRUE \in BOOLEAN
    BY <1>2
  <1>10. QED
    BY <1>1, <1>2, <1>4, <1>5, <1>6, <1>7, <1>8, <1>9, StartValueStep

\* What holds when the serializer of a top entry of some kind is called.
LEMMA TurnFacts ==
    ASSUME IInv, Len(stack) > 0, pc \in {"loop", "object"}
    PROVE  /\ TypeOK /\ InsertionsOrdered
           /\ Top \in Entries /\ Top.type \in Types /\ Top.position \in Int
           /\ Top.allow_extensions \in BOOLEAN
           /\ Top.variant_type_index \in Nat /\ Top.size_insertion_index \in Nat
           /\ Fields[Top.type] \in Seq([name : Strings, type : Types])
           /\ Len(Fields[Top.type]) \in Nat
           /\ stack \in Seq(Entries) /\ Len(stack) \in Nat
           /\ reader \in Seq(Contexts) /\ Len(reader) = Len(stack)
           /\ size_insertions \in Seq(Insertions) /\ Len(size_insertions) \in Nat
           /\ Levels(stack, reader, Len(size_insertions))
           /\ AtTop(Top, Waiting(reader), Len(size_insertions))
           /\ ~Complete(reader)
  <1>1. /\ TypeOK /\ InsertionsOrdered
        /\ stack \in Seq(Entries) /\ Len(stack) \in Nat /\ reader \in Seq(Contexts)
        /\ size_insertions \in Seq(Insertions) /\ Len(size_insertions) \in Nat
        /\ Levels(stack, reader, Len(size_insertions))
    BY DEF IInv, TypeOK
  <1>2. Len(reader) = Len(stack)
    BY <1>1 DEF Levels
  <1>3. AtTop(Top, Waiting(reader), Len(size_insertions))
    BY <1>1, <1>2 DEF Levels, Top, Waiting
  <1>4. Top \in Entries
    BY <1>1 DEF Top
  <1>5. /\ Top.type \in Types /\ Top.position \in Int
        /\ Top.allow_extensions \in BOOLEAN
        /\ Top.variant_type_index \in Nat /\ Top.size_insertion_index \in Nat
    BY <1>4 DEF Entries
  <1>6. Fields[Top.type] \in Seq([name : Strings, type : Types])
    BY <1>5, TableAssumption
  <1>7. ~Complete(reader)
    BY <1>1, <1>2 DEF Complete
  <1>8. QED
    BY <1>1, <1>2, <1>3, <1>4, <1>5, <1>6, <1>7

\* A type named by a field is a type of the table.
LEMMA FieldFacts ==
    ASSUME NEW t \in Types, NEW p \in 0 .. Len(Fields[t]) - 1
    PROVE  Field(t, p) \in [name : Strings, type : Types] /\ Field(t, p).type \in Types
  <1>1. Fields[t] \in Seq([name : Strings, type : Types])
    BY TableAssumption
  <1>2. p + 1 \in 1 .. Len(Fields[t])
    BY <1>1
  <1>3. Field(t, p) \in [name : Strings, type : Types]
    BY <1>1, <1>2, ElementOfSeq DEF Field
  <1>4. QED
    BY <1>3

\* Moving the top entry to another position changes nothing else of it.
LEMMA Moved ==
    ASSUME stack \in Seq(Entries), Len(stack) > 0, NEW p \in Int
    PROVE  \E e \in Entries :
             /\ WithPosition(p) = [stack EXCEPT ![Len(stack)] = e]
             /\ e.type = Top.type /\ e.position = p
             /\ e.allow_extensions = Top.allow_extensions
             /\ e.size_insertion_index = Top.size_insertion_index
             /\ e.variant_type_index = Top.variant_type_index
  <1> DEFINE e == [Top EXCEPT !.position = p]
  <1>1. Top \in Entries
    BY DEF Top
  <1>2. e \in Entries /\ e.position = p
    BY <1>1 DEF Entries
  <1>3. /\ e.type = Top.type
        /\ e.allow_extensions = Top.allow_extensions
        /\ e.size_insertion_index = Top.size_insertion_index
        /\ e.variant_type_index = Top.variant_type_index
    BY <1>1 DEF Entries
  <1>4. WithPosition(p) = [stack EXCEPT ![Len(stack)] = e]
    BY DEF WithPosition, Top
  <1> HIDE DEF e
  <1>5. QED
    BY <1>2, <1>3, <1>4

LEMMA ObjectStep == IInv /\ Object => IInv'
  <1> SUFFICES ASSUME IInv, Object PROVE IInv'
    OBVIOUS
  <1> DEFINE m == Len(size_insertions)
             next == Top.position + 1
  <1>1. PICK tok \in Tokens(Strings) :
          Read(tok) /\ (EndObject(tok) \/ FieldKey(tok) \/ FieldValue(tok))
    BY DEF Object
  <1>2. /\ pc \in {"loop", "object"} /\ pc # "done" /\ pc # "begin" /\ root' = root
        /\ Len(stack) > 0 /\ Kind[Top.type] = "struct"
    BY DEF Object, Turn, IInv, TypeOK
  <1>3. /\ TypeOK /\ InsertionsOrdered
        /\ Top \in Entries /\ Top.type \in Types /\ Top.position \in Int
        /\ Top.allow_extensions \in BOOLEAN
        /\ Len(Fields[Top.type]) \in Nat
        /\ stack \in Seq(Entries) /\ Len(stack) \in Nat
        /\ reader \in Seq(Contexts) /\ Len(reader) = Len(stack)
        /\ size_insertions \in Seq(Insertions) /\ m \in Nat
        /\ Levels(stack, reader, m)
        /\ AtTop(Top, Waiting(reader), m)
        /\ ~Complete(reader)
    BY <1>2, TurnFacts
  <1>4. /\ reader' = After(reader, tok.type) /\ reader' \in Seq(Contexts)
        /\ doc' \in Seq(Tokens(Strings)) /\ tok.type \in Expected(reader)
    BY <1>1, <1>3, ReadFacts
  <1>5. /\ Waiting(reader) \in {"name", "value"}
        /\ Top.position \in -1 .. Len(Fields[Top.type]) - 1
        /\ Waiting(reader) = "value" => Top.position >= 0
    BY <1>2, <1>3 DEF AtTop, ArrayKinds
  <1>6. /\ Waiting(reader) = "name" => tok.type \in {"key", "end_object"}
        /\ Waiting(reader) = "value" => tok.type \in ValueTokens
    BY <1>3, <1>4 DEF Expected
  <1>7. out \in Seq(Nat) /\ skipped_extension \in BOOLEAN
    BY <1>3 DEF TypeOK
  <1>8. skipped_extension =>
          \A i \in 1 .. Len(stack) : AtEnd(stack[i]) /\ reader[i] # "value"
    BY <1>2 DEF IInv, SkippedAtEnd
  <1>9. CASE EndObject(tok)
    <2>1. CASE Return(Pop(stack))
      <3>1. /\ UNCHANGED <<out, size_insertions>>
            /\ tok.type = "end_object"
            /\ skipped_extension' \in BOOLEAN
            /\ skipped_extension' => skipped_extension \/ Top.allow_extensions
        BY <1>9, <1>7, <2>1 DEF EndObject, MayEndBefore, Return, Fail
      <3>2. reader' = Pop(reader)
        BY <3>1, <1>4 DEF After
      <3>3. /\ Pop(stack) \in Seq(Entries) /\ Levels(Pop(stack), reader', m)
            /\ \A i \in 1 .. Len(Pop(stack)) : reader'[i] # "value"
            /\ Top.allow_extensions => \A i \in 1 .. Len(Pop(stack)) : AtEnd(Pop(stack)[i])
            /\ skipped_extension => \A i \in 1 .. Len(Pop(stack)) : AtEnd(Pop(stack)[i])
        BY <3>2, <1>2, <1>3, <1>8, PopLevels DEF Top
      <3>4. InsertionsOrdered'
        BY <3>1, <1>3 DEF InsertionsOrdered
      <3>5. QED
        BY <2>1, <3>1, <3>3, <3>4, <1>2, <1>3, <1>4, <1>7, ReturnStep
    <2>2. CASE Fail("expected_field")
      BY <2>2, <1>2, <1>4, FailStep DEF Errors
    <2>3. QED
      BY <2>1, <2>2, <1>9 DEF EndObject
  <1>10. CASE FieldKey(tok)
    <2>1. /\ tok.type = "key" /\ Waiting(reader) = "name"
          /\ reader' = [reader EXCEPT ![Len(reader)] = "value"]
      BY <1>10, <1>4, <1>5, <1>6 DEF FieldKey, After, ValueTokens
    <2>2. CASE /\ Return(WithPosition(next)) /\ next < Len(Fields[Top.type])
               /\ UNCHANGED <<out, size_insertions, skipped_extension>>
               /\ ~skipped_extension
      <3>1. next \in Int /\ next \in 0 .. Len(Fields[Top.type]) - 1
        BY <2>2, <1>3, <1>5
      <3>2. PICK e \in Entries :
              /\ WithPosition(next) = [stack EXCEPT ![Len(stack)] = e]
              /\ e.type = Top.type /\ e.position = next
              /\ e.allow_extensions = Top.allow_extensions
              /\ e.size_insertion_index = Top.size_insertion_index
              /\ e.variant_type_index = Top.variant_type_index
        BY <3>1, <1>2, <1>3, Moved
      <3> DEFINE st2 == WithPosition(next)
                 rd2 == reader'
      <3>3. /\ Len(rd2) = Len(reader) /\ rd2[Len(reader)] = "value"
            /\ \A i \in 1 .. Len(reader) - 1 : rd2[i] = reader[i]
        BY <2>1, <1>2, <1>3
      <3>4. AtTop(e, "value", m)
        BY <3>1, <3>2, <1>2, <1>3 DEF AtTop
      <3>a. rd2 \in Seq(Contexts) /\ AtTop(e, rd2[Len(reader)], m)
        BY <3>3, <3>4, <1>4
      <3> HIDE DEF next, m, st2, rd2
      <3>b. st2 = [stack EXCEPT ![Len(stack)] = e]
        BY <3>2 DEF st2
      <3>5. st2 \in Seq(Entries) /\ Levels(st2, rd2, m)
        BY <3>2, <3>3, <3>a, <3>b, <1>2, <1>3, UpdateTop DEF Top
      <3>6. InsertionsOrdered'
        BY <2>2, <1>3 DEF InsertionsOrdered
      <3>7. QED
        BY <2>2, <3>5, <3>6, <1>2, <1>3, <1>4, <1>7, ReturnStep DEF st2, rd2, m
    <2>3. CASE Fail("unexpected_field") \/ Fail("expected_field")
      BY <2>3, <1>2, <1>4, FailStep DEF Errors
    <2>4. QED
      BY <2>2, <2>3, <1>3, <1>10 DEF FieldKey
  <1>11. CASE FieldValue(tok)
    <2>1. Waiting(reader) = "value" /\ tok.type \in ValueTokens
      BY <1>11, <1>5, <1>6 DEF FieldValue
    <2>2. ~skipped_extension
      BY <2>1, <1>2, <1>3, <1>8 DEF Waiting
    <2> DEFINE rd == PastValue(reader)
               t == Field(Top.type, Top.position).type
               allow == AllowIn(Top.type, Top.position, Top.allow_extensions)
    <2>3. /\ rd \in Seq(Contexts) /\ Len(rd) = Len(reader) /\ rd[Len(reader)] = "name"
          /\ \A i \in 1 .. Len(reader) - 1 : rd[i] = reader[i]
      BY <2>1, <1>2, <1>3, PastValueFacts
    <2>4. Top.position \in 0 .. Len(Fields[Top.type]) - 1
      BY <2>1, <1>3, <1>5
    <2>5. Inside(Top, "name", m)
      BY <2>4, <1>2 DEF Inside
    <2>6. AllInside(stack, rd, m)
      <3>1. stack = [stack EXCEPT ![Len(stack)] = Top]
        BY <1>2, <1>3 DEF Top
      <3>2. /\ Top \in Entries /\ Len(stack) > 0 /\ stack \in Seq(Entries)
            /\ reader \in Seq(Contexts) /\ Len(reader) = Len(stack) /\ m \in Nat
            /\ Levels(stack, reader, m)
        BY <1>2, <1>3
      <3>3. Inside(Top, rd[Len(reader)], m)
        BY <2>3, <2>5
      <3> HIDE DEF rd, m
      <3>4. QED
        BY <3>1, <3>2, <3>3, <2>3, UpdateTop, SMTT(60) DEF Top
    <2>7. t \in Types /\ allow \in BOOLEAN
      BY <2>4, <1>3, FieldFacts DEF AllowIn
    <2>8. allow => \A i \in 1 .. Len(stack) : AtEnd(stack[i])
      <3>1. allow => AtEnd(Top)
        BY <1>2 DEF AllowIn, AtEnd
      <3>2. Top.allow_extensions => \A i \in 1 .. Len(stack) - 1 : AtEnd(stack[i])
        BY <1>2, <1>3 DEF Levels, AllowTrail, Top
      <3>3. allow => Top.allow_extensions
        BY DEF AllowIn
      <3>4. QED
        BY <3>1, <3>2, <3>3, <1>3 DEF Top
    <2>9. StartValue(t, allow, tok, stack)
      BY <1>11 DEF FieldValue
    <2> HIDE DEF t, allow
    <2>10. QED
      BY <2>1, <2>2, <2>3, <2>6, <2>7, <2>8, <2>9, <1>2, <1>3, <1>4, StartValueStep
  <1>12. QED
    BY <1>1, <1>9, <1>10, <1>11

\* The top entry is array-like: what its end and its elements start from.
LEMMA ItemFacts ==
    ASSUME IInv, Len(stack) > 0, pc = "loop", root' = root,
           Kind[Top.type] \in ArrayKinds \cup {"variant"},
           NEW tok \in Tokens(Strings), Read(tok)
    PROVE  /\ Waiting(reader) = "item"
           /\ tok.type \in ValueTokens \cup {"end_array"}
           /\ tok.type = "end_array" => reader' = Pop(reader)
           /\ reader' = After(reader, tok.type)
           /\ reader' \in Seq(Contexts) /\ doc' \in Seq(Tokens(Strings))
           /\ PastValue(reader) = reader
           /\ Kind[Top.type] \in ArrayKinds => ~skipped_extension
           /\ Kind[Top.type] = "variant" /\ skipped_extension => Top.position = 1
           /\ out \in Seq(Nat) /\ skipped_extension \in BOOLEAN
           /\ skipped_extension => \A i \in 1 .. Len(stack) : AtEnd(stack[i])
  <1>1. /\ TypeOK /\ ~Complete(reader)
        /\ AtTop(Top, Waiting(reader), Len(size_insertions))
        /\ stack \in Seq(Entries)
    BY TurnFacts
  <1>2. Waiting(reader) = "item"
    BY <1>1 DEF AtTop, ArrayKinds
  <1>3. /\ reader' = After(reader, tok.type) /\ reader' \in Seq(Contexts)
        /\ doc' \in Seq(Tokens(Strings)) /\ tok.type \in Expected(reader)
    BY <1>1, ReadFacts
  <1>4. tok.type \in ValueTokens \cup {"end_array"}
    BY <1>1, <1>2, <1>3 DEF Expected
  <1>5. tok.type = "end_array" => reader' = Pop(reader)
    BY <1>3 DEF After
  <1>6. PastValue(reader) = reader
    BY <1>2 DEF PastValue
  <1>7. skipped_extension => \A i \in 1 .. Len(stack) : AtEnd(stack[i])
    BY DEF IInv, SkippedAtEnd
  <1>8. skipped_extension => AtEnd(Top)
    BY <1>1, <1>7 DEF Top
  <1>9. /\ Kind[Top.type] \in ArrayKinds => ~skipped_extension
        /\ Kind[Top.type] = "variant" /\ skipped_extension => Top.position = 1
    BY <1>8 DEF AtEnd, ArrayKinds
  <1>10. out \in Seq(Nat) /\ skipped_extension \in BOOLEAN
    BY <1>1 DEF TypeOK
  <1>11. QED
    BY <1>2, <1>3, <1>4, <1>5, <1>6, <1>7, <1>9, <1>10

\* The end of an array-like value.
LEMMA EndItems ==
    ASSUME IInv, Len(stack) > 0, pc = "loop", root' = root,
           Kind[Top.type] \in ArrayKinds \cup {"variant"},
           NEW tok \in Tokens(Strings), Read(tok), tok.type = "end_array",
           Return(Pop(stack)), UNCHANGED <<out, skipped_extension>>,
           size_insertions' \in Seq(Insertions),
           Len(size_insertions') = Len(size_insertions),
           InsertionsOrdered'
    PROVE  IInv'
  <1>1. /\ stack \in Seq(Entries) /\ reader \in Seq(Contexts)
        /\ Len(size_insertions) \in Nat
        /\ Levels(stack, reader, Len(size_insertions))
    BY TurnFacts
  <1>2. /\ reader' = Pop(reader) /\ reader' \in Seq(Contexts)
        /\ doc' \in Seq(Tokens(Strings))
        /\ out \in Seq(Nat) /\ skipped_extension \in BOOLEAN
        /\ skipped_extension => \A i \in 1 .. Len(stack) : AtEnd(stack[i])
    BY ItemFacts
  <1>3. /\ Pop(stack) \in Seq(Entries)
        /\ Levels(Pop(stack), reader', Len(size_insertions))
        /\ \A i \in 1 .. Len(Pop(stack)) : reader'[i] # "value"
        /\ skipped_extension => \A i \in 1 .. Len(Pop(stack)) : AtEnd(Pop(stack)[i])
    BY <1>1, <1>2, PopLevels
  <1>4. QED
    BY <1>1, <1>2, <1>3, ReturnStep

\* An element of an array.
LEMMA ElemStep ==
    ASSUME IInv, Len(stack) > 0, pc = "loop", root' = root,
           Kind[Top.type] \in ArrayKinds,
           NEW tok \in Tokens(Strings), Read(tok), tok.type # "end_array",
           Elem(tok)
    PROVE  IInv'
  <1> DEFINE m == Len(size_insertions)
             next == Top.position + 1
             below == WithPosition(next)
  <1>1. /\ Top \in Entries /\ Top.type \in Types /\ Top.position \in Int
        /\ stack \in Seq(Entries) /\ Len(stack) \in Nat
        /\ reader \in Seq(Contexts) /\ Len(reader) = Len(stack) /\ m \in Nat
        /\ Levels(stack, reader, m) /\ AtTop(Top, Waiting(reader), m)
    BY TurnFacts
  <1>2. /\ Waiting(reader) = "item" /\ tok.type \in ValueTokens
        /\ PastValue(reader) = reader /\ ~skipped_extension
        /\ reader' = After(reader, tok.type)
        /\ reader' \in Seq(Contexts) /\ doc' \in Seq(Tokens(Strings))
    BY ItemFacts
  <1>3. next \in Int /\ next >= 0 /\ ~Top.allow_extensions /\ OwnsSize(Top, m)
    BY <1>1 DEF AtTop, ArrayKinds
  <1>4. PICK e \in Entries :
          /\ WithPosition(next) = [stack EXCEPT ![Len(stack)] = e]
          /\ e.type = Top.type /\ e.position = next
          /\ e.allow_extensions = Top.allow_extensions
          /\ e.size_insertion_index = Top.size_insertion_index
    BY <1>1, <1>3, Moved
  <1>5. Inside(e, reader[Len(reader)], m)
    BY <1>2, <1>3, <1>4 DEF Inside, OwnsSize, Waiting
  <1>a. below = [stack EXCEPT ![Len(stack)] = e]
    BY <1>4
  <1>b. Element[Top.type] \in Types /\ FALSE \in BOOLEAN
    BY <1>1, TableAssumption
  <1>c. StartValue(Element[Top.type], FALSE, tok, below)
    BY DEF Elem
  <1> HIDE DEF below, next, m
  <1>6. below \in Seq(Entries) /\ AllInside(below, reader, m)
    BY <1>1, <1>4, <1>5, <1>a, UpdateTop DEF Top
  <1>7. pc # "done"
    OBVIOUS
  <1>8. QED
    BY <1>1, <1>2, <1>6, <1>7, <1>b, <1>c, StartValueStep DEF m

LEMMA ArrayStep == IInv /\ Array => IInv'
  <1> SUFFICES ASSUME IInv, Array PROVE IInv'
    OBVIOUS
  <1>1. PICK tok \in Tokens(Strings) :
          Read(tok) /\ IF tok.type = "end_array" THEN EndArray(tok) ELSE Elem(tok)
    BY DEF Array
  <1>2. /\ stack \in Seq(Entries) /\ size_insertions \in Seq(Insertions)
        /\ root' = root /\ pc = "loop" /\ Kind[Top.type] = "array"
    BY DEF Array, Turn, IInv, TypeOK
  <1>3. Len(stack) > 0
    BY <1>2 DEF Array, Turn
  <1>4. CASE tok.type = "end_array"
    <2>1. /\ size_insertions' = [size_insertions EXCEPT
                ![Top.size_insertion_index].size = Top.position + 1]
          /\ Return(Pop(stack)) /\ UNCHANGED <<out, skipped_extension>>
      BY <1>1, <1>4 DEF EndArray
    <2> DEFINE k == Top.size_insertion_index
               n == Top.position + 1
    <2>2. /\ k \in 1 .. Len(size_insertions) /\ n \in Nat
          /\ InsertionsOrdered
      <3>1. /\ AtTop(Top, Waiting(reader), Len(size_insertions))
            /\ Top.position \in Int /\ InsertionsOrdered
        BY <1>2, <1>3, TurnFacts
      <3>2. QED
        BY <3>1, <1>2 DEF AtTop, OwnsSize, ArrayKinds
    <2> HIDE DEF k, n
    <2>3. size_insertions[k] \in Insertions
      BY <2>2, <1>2
    <2>4. [position |-> size_insertions[k].position, size |-> n] \in Insertions
      BY <2>2, <2>3 DEF Insertions
    <2>5. [size_insertions[k] EXCEPT !.size = n]
            = [position |-> size_insertions[k].position, size |-> n]
      BY <2>3 DEF Insertions
    <2>6. size_insertions' = [size_insertions EXCEPT
             ![k] = [position |-> size_insertions[k].position, size |-> n]]
      BY <2>1, <2>5 DEF k, n
    <2>7. /\ size_insertions' \in Seq(Insertions)
          /\ Len(size_insertions') = Len(size_insertions)
          /\ DOMAIN size_insertions' = DOMAIN size_insertions
      BY <2>2, <2>4, <2>6, <1>2
    <2>8. \A i \in DOMAIN size_insertions :
            size_insertions'[i].position = size_insertions[i].position
      BY <2>2, <2>6, <1>2
    <2>9. InsertionsOrdered'
      BY <2>1, <2>2, <2>7, <2>8 DEF InsertionsOrdered
    <2>10. Kind[Top.type] \in ArrayKinds \cup {"variant"}
      BY <1>2 DEF ArrayKinds
    <2>11. Return(Pop(stack)) /\ UNCHANGED <<out, skipped_extension>>
      BY <2>1
    <2>12. QED
      BY <2>7, <2>9, <2>10, <2>11, <1>1, <1>2, <1>3, <1>4, EndItems
  <1>5. CASE tok.type # "end_array"
    BY <1>1, <1>2, <1>3, <1>5, ElemStep DEF ArrayKinds
  <1>6. QED
    BY <1>4, <1>5

LEMMA FixedArrayStep == IInv /\ FixedArray => IInv'
  <1> SUFFICES ASSUME IInv, FixedArray PROVE IInv'
    OBVIOUS
  <1>1. PICK tok \in Tokens(Strings) :
          Read(tok) /\ IF tok.type = "end_array" THEN EndFixedArray(tok) ELSE Elem(tok)
    BY DEF FixedArray
  <1>2. /\ stack \in Seq(Entries) /\ size_insertions \in Seq(Insertions)
        /\ root' = root /\ pc = "loop" /\ Kind[Top.type] = "fixed_array"
        /\ InsertionsOrdered
    BY DEF FixedArray, Turn, IInv, TypeOK
  <1>3. Len(stack) > 0
    BY <1>2 DEF FixedArray, Turn
  <1>4. CASE tok.type = "end_array"
    <2>1. CASE /\ Return(Pop(stack))
               /\ UNCHANGED <<out, size_insertions, skipped_extension>>
      <3>1. InsertionsOrdered'
        BY <2>1, <1>2 DEF InsertionsOrdered
      <3>a. /\ size_insertions' \in Seq(Insertions)
            /\ Len(size_insertions') = Len(size_insertions)
            /\ UNCHANGED <<out, skipped_extension>>
        BY <2>1, <1>2
      <3>2. QED
        BY <2>1, <3>1, <3>a, <1>1, <1>2, <1>3, <1>4, EndItems DEF ArrayKinds
    <2>2. CASE Fail("incorrect_size")
      <3>1. reader' \in Seq(Contexts) /\ doc' \in Seq(Tokens(Strings))
        BY <1>1, <1>2, <1>3, ItemFacts DEF ArrayKinds
      <3>2. QED
        BY <2>2, <3>1, <1>2, FailStep DEF Errors
    <2>3. QED
      BY <2>1, <2>2, <1>1, <1>4 DEF EndFixedArray
  <1>5. CASE tok.type # "end_array"
    BY <1>1, <1>2, <1>3, <1>5, ElemStep DEF ArrayKinds
  <1>6. QED
    BY <1>4, <1>5

\* The alternative of a variant, once its name was read.
LEMMA VariantValueStep ==
    ASSUME IInv, Len(stack) > 0, pc = "loop", root' = root,
           Kind[Top.type] = "variant", Top.position = 0,
           NEW tok \in Tokens(Strings), Read(tok), tok.type # "end_array",
           StartValue(Field(Top.type, Top.variant_type_index).type,
                      Top.allow_extensions, tok, WithPosition(1))
    PROVE  IInv'
  <1> DEFINE m == Len(size_insertions)
             below == WithPosition(1)
             t == Field(Top.type, Top.variant_type_index).type
  <1>1. /\ Top \in Entries /\ Top.type \in Types /\ Top.allow_extensions \in BOOLEAN
        /\ Top.variant_type_index \in Nat
        /\ stack \in Seq(Entries) /\ Len(stack) \in Nat
        /\ reader \in Seq(Contexts) /\ Len(reader) = Len(stack) /\ m \in Nat
        /\ Levels(stack, reader, m) /\ AtTop(Top, Waiting(reader), m)
        /\ Len(Fields[Top.type]) \in Nat
    BY TurnFacts
  <1>2. /\ Waiting(reader) = "item" /\ tok.type \in ValueTokens
        /\ PastValue(reader) = reader /\ ~skipped_extension
        /\ reader' = After(reader, tok.type)
        /\ reader' \in Seq(Contexts) /\ doc' \in Seq(Tokens(Strings))
    BY ItemFacts
  <1>3. Top.variant_type_index \in 0 .. Len(Fields[Top.type]) - 1
    BY <1>1 DEF AtTop, ArrayKinds
  <1>4. PICK e \in Entries :
          /\ WithPosition(1) = [stack EXCEPT ![Len(stack)] = e]
          /\ e.type = Top.type /\ e.position = 1
          /\ e.allow_extensions = Top.allow_extensions
          /\ e.size_insertion_index = Top.size_insertion_index
          /\ e.variant_type_index = Top.variant_type_index
    BY <1>1, Moved
  <1>5. Inside(e, reader[Len(reader)], m)
    BY <1>1, <1>2, <1>3, <1>4 DEF Inside, Waiting
  <1>6. t \in Types
    BY <1>1, <1>3, FieldFacts
  <1>7. below = [stack EXCEPT ![Len(stack)] = e]
    BY <1>4
  <1>8. AtEnd(e) \/ ~Top.allow_extensions
    BY <1>4 DEF AtEnd
  <1>9. StartValue(t, Top.allow_extensions, tok, below)
    OBVIOUS
  <1> HIDE DEF below, t, m
  <1>10. /\ below \in Seq(Entries) /\ AllInside(below, reader, m)
         /\ Len(below) = Len(stack) /\ below[Len(stack)] = e
         /\ \A i \in 1 .. Len(stack) - 1 : below[i] = stack[i]
    <2>1. /\ e.type = stack[Len(stack)].type
          /\ e.allow_extensions = stack[Len(stack)].allow_extensions
          /\ e.size_insertion_index = stack[Len(stack)].size_insertion_index
      BY <1>4 DEF Top
    <2>2. below \in Seq(Entries) /\ AllInside(below, reader, m)
      BY <2>1, <1>1, <1>5, <1>7, UpdateTop
    <2>3. QED
      BY <2>2, <1>1, <1>7
  <1>11. Top.allow_extensions => \A i \in 1 .. Len(below) : AtEnd(below[i])
    <2>1. Top.allow_extensions => \A i \in 1 .. Len(stack) - 1 : AtEnd(stack[i])
      BY <1>1 DEF Levels, AllowTrail, Top
    <2>2. QED
      BY <2>1, <1>1, <1>8, <1>10, SMTT(60)
  <1>12. pc # "done"
    OBVIOUS
  <1>13. QED
    BY <1>1, <1>2, <1>6, <1>9, <1>10, <1>11, <1>12, StartValueStep DEF m

\* The name of the alternative of a variant.
LEMMA VariantTypeStep ==
    ASSUME IInv, Len(stack) > 0, pc = "loop", root' = root,
           Kind[Top.type] = "variant", Top.position = -1,
           NEW tok \in Tokens(Strings), Read(tok), tok.type # "end_array",
           VariantType(tok)
    PROVE  IInv'
  <1> DEFINE m == Len(size_insertions)
             n == Len(Fields[Top.type])
  <1>1. /\ Top \in Entries /\ Top.type \in Types
        /\ stack \in Seq(Entries) /\ Len(stack) \in Nat
        /\ reader \in Seq(Contexts) /\ Len(reader) = Len(stack) /\ m \in Nat
        /\ Levels(stack, reader, m) /\ InsertionsOrdered /\ TypeOK
        /\ Fields[Top.type] \in Seq([name : Strings, type : Types]) /\ n \in Nat
        /\ size_insertions \in Seq(Insertions)
    BY TurnFacts
  <1>2. /\ Waiting(reader) = "item" /\ tok.type \in ValueTokens
        /\ PastValue(reader) = reader /\ ~skipped_extension
        /\ reader' = After(reader, tok.type)
        /\ reader' \in Seq(Contexts) /\ doc' \in Seq(Tokens(Strings))
    BY ItemFacts
  <1>3. CASE Fail("expected_string") \/ Fail("invalid_type_for_variant")
    BY <1>2, <1>3, FailStep DEF Errors
  <1>4. ASSUME NEW i \in DOMAIN Fields[Top.type], tok.type = "string",
               out' = Append(out, i - 1),
               Return([stack EXCEPT ![Len(stack)].position = 0,
                                    ![Len(stack)].variant_type_index = i - 1]),
               UNCHANGED <<size_insertions, skipped_extension>>
        PROVE  IInv'
    <2>1. i \in Nat /\ i - 1 \in Nat /\ i - 1 < n
      BY <1>1
    <2> DEFINE e == [Top EXCEPT !.position = 0, !.variant_type_index = i - 1]
               st2 == [stack EXCEPT ![Len(stack)].position = 0,
                                    ![Len(stack)].variant_type_index = i - 1]
    <2>2. /\ e \in Entries /\ e.type = Top.type /\ e.position = 0
          /\ e.variant_type_index = i - 1
          /\ e.allow_extensions = Top.allow_extensions
          /\ e.size_insertion_index = Top.size_insertion_index
      <3>1. Top \in Entries /\ 0 \in Int /\ i - 1 \in Nat
        BY <1>1, <2>1
      <3>2. e.position = 0 /\ e.variant_type_index = i - 1
        BY <3>1 DEF Entries
      <3>3. /\ e.type = Top.type
            /\ e.allow_extensions = Top.allow_extensions
            /\ e.size_insertion_index = Top.size_insertion_index
        BY <3>1 DEF Entries
      <3>4. e \in Entries
        BY <3>1 DEF Entries
      <3>5. QED
        BY <3>2, <3>3, <3>4
    <2>3. st2 = [stack EXCEPT ![Len(stack)] = e]
      BY <1>1 DEF Top
    <2>4. reader' = reader
      BY <1>2, <1>4 DEF After
    <2>5. Return(st2) /\ out' = out \o <<i - 1>>
      BY <1>1, <1>4, SMTT(60) DEF TypeOK
    <2> HIDE DEF e, st2, n, m
    <2>6. AtTop(e, reader[Len(reader)], m)
      BY <2>1, <2>2, <1>2 DEF AtTop, Waiting, n
    <2>7. st2 \in Seq(Entries) /\ Levels(st2, reader, m)
      BY <2>2, <2>3, <2>6, <1>1, UpdateTop DEF Top
    <2>8. <<i - 1>> \in Seq(Nat)
      BY <2>1
    <2>9. out' \in Seq(Nat) /\ InsertionsOrdered'
      BY <2>5, <2>8, <1>1, <1>4, WriteKeepsOrder
    <2>10. skipped_extension' = FALSE
      BY <1>2, <1>4, <1>1 DEF TypeOK
    <2>11. QED
      BY <2>4, <2>5, <2>7, <2>9, <2>10, <1>1, <1>2, <1>4, ReturnStep DEF m
  <1>5. QED
    BY <1>3, <1>4 DEF VariantType, Alternatives

LEMMA VariantStep == IInv /\ Variant => IInv'
  <1> SUFFICES ASSUME IInv, Variant PROVE IInv'
    OBVIOUS
  <1>1. PICK tok \in Tokens(Strings) :
           /\ Read(tok)
           /\ \/ tok.type = "end_array" /\ EndVariant(tok)
              \/ tok.type # "end_array" /\ Top.position = -1 /\ VariantType(tok)
              \/ /\ tok.type # "end_array" /\ Top.position = 0
                 /\ StartValue(Field(Top.type, Top.variant_type_index).type,
                               Top.allow_extensions, tok, WithPosition(1))
              \/ Fail("expected_variant")
    BY DEF Variant
  <1>2. /\ stack \in Seq(Entries) /\ size_insertions \in Seq(Insertions)
        /\ root' = root /\ pc = "loop" /\ Kind[Top.type] = "variant"
        /\ InsertionsOrdered
    BY DEF Variant, Turn, IInv, TypeOK
  <1>3. Len(stack) > 0
    BY <1>2 DEF Variant, Turn
  <1>4. CASE /\ tok.type = "end_array" /\ Return(Pop(stack))
             /\ UNCHANGED <<out, size_insertions, skipped_extension>>
    <2>1. InsertionsOrdered'
      BY <1>4, <1>2 DEF InsertionsOrdered
    <2>2. /\ size_insertions' \in Seq(Insertions)
          /\ Len(size_insertions') = Len(size_insertions)
          /\ UNCHANGED <<out, skipped_extension>>
      BY <1>4, <1>2
    <2>3. QED
      BY <2>1, <2>2, <1>1, <1>2, <1>3, <1>4, EndItems
  <1>5. CASE Fail("expected_variant")
    <2>1. reader' \in Seq(Contexts) /\ doc' \in Seq(Tokens(Strings))
      BY <1>1, <1>2, <1>3, ItemFacts
    <2>2. QED
      BY <2>1, <1>2, <1>5, FailStep DEF Errors
  <1>6. CASE tok.type # "end_array" /\ Top.position = -1 /\ VariantType(tok)
    BY <1>6, <1>1, <1>2, <1>3, VariantTypeStep
  <1>7. CASE /\ tok.type # "end_array" /\ Top.position = 0
             /\ StartValue(Field(Top.type, Top.variant_type_index).type,
                           Top.allow_extensions, tok, WithPosition(1))
    BY <1>7, <1>1, <1>2, <1>3, VariantValueStep
  <1>8. QED
    BY <1>1, <1>4, <1>5, <1>6, <1>7 DEF EndVariant

LEMMA FinishStep == IInv /\ Finish => IInv'
  <1> SUFFICES ASSUME IInv, Finish PROVE IInv'
    OBVIOUS
  <1>1. /\ TypeOK /\ InsertionsOrdered /\ pc = "loop" /\ stack = << >>
        /\ Levels(stack, reader, Len(size_insertions)) /\ error # "expected_end"
        /\ UNCHANGED <<root, doc, reader>>
    BY DEF IInv, Finish, NeverExpectedEnd
  <1>2. Complete(reader)
    BY <1>1 DEF Levels, Complete, TypeOK
  <1>3. /\ pc' = "done"
        /\ UNCHANGED <<root, doc, reader, stack, out, size_insertions,
                       skipped_extension, error>>
    BY <1>1, <1>2 DEF Finish
  <1>4. TypeOK'
    BY <1>1, <1>3 DEF TypeOK
  <1>5. InsertionsOrdered'
    BY <1>1, <1>3 DEF InsertionsOrdered
  <1>6. QED
    BY <1>1, <1>3, <1>4, <1>5 DEF IInv, SkippedAtEnd, NeverExpectedEnd

LEMMA StepInv == IInv /\ [Next]_vars => IInv'
  <1> SUFFICES ASSUME IInv, [Next]_vars PROVE IInv'
    OBVIOUS
  <1>1. CASE RecursionLimit \/ SyntaxError
    <2>1. /\ UNCHANGED <<root, doc, reader>> /\ pc # "done"
          /\ Fail("recursion_limit_reached") \/ Fail("syntax")
      BY <1>1 DEF RecursionLimit, SyntaxError
    <2>2. reader' \in Seq(Contexts) /\ doc' \in Seq(Tokens(Strings))
      BY <2>1 DEF IInv, TypeOK
    <2>3. QED
      BY <2>1, <2>2, FailStep DEF Errors
  <1>2. CASE UNCHANGED vars
    BY <1>2 DEF IInv, TypeOK, SkippedAtEnd, InsertionsOrdered, NeverExpectedEnd, Top,
                Levels, AllowTrail, OwnSizes, AtTop, Inside, AtEnd, OwnsSize, vars
  <1>3. QED
    BY <1>1, <1>2, BeginStep, ObjectStep, ArrayStep, FixedArrayStep, VariantStep,
       FinishStep DEF Next, Step, Terminated

----------------------------------------------------------------------------
(***************************************************************************)
(* The theorems.                                                           *)
(***************************************************************************)

\* The inductive invariant holds of every state of every conversion.
THEOREM Inductive == Spec => []IInv
  BY InitInv, StepInv, PTL DEF Spec

\* Type correctness.
THEOREM TypeCorrect == Spec => []TypeOK
  <1>1. IInv => TypeOK
    BY DEF IInv
  <1>2. QED
    BY <1>1, Inductive, PTL

\* The check after the loop (abieos.hpp:796) is never the one that fails.
THEOREM EndReached == Spec => []NeverExpectedEnd
  <1>1. IInv => NeverExpectedEnd
    BY DEF IInv
  <1>2. QED
    BY <1>1, Inductive, PTL

\* The splice only walks forward through what was written.
THEOREM SpliceForward == Spec => []InsertionsOrdered
  <1>1. IInv => InsertionsOrdered
    BY DEF IInv
  <1>2. QED
    BY <1>1, Inductive, PTL

\* Two open arrays never share a size insertion.
THEOREM SizesApart == Spec => []OpenArraysOwnTheirSize
  <1>1. IInv => OpenArraysOwnTheirSize
    <2>1. SUFFICES ASSUME IInv, pc \in {"loop", "object"}
                   PROVE  \A i, j \in DOMAIN stack :
                            /\ i < j
                            /\ Kind[stack[i].type] = "array"
                            /\ Kind[stack[j].type] = "array"
                            => stack[i].size_insertion_index < stack[j].size_insertion_index
      BY DEF OpenArraysOwnTheirSize
    <2>2. OwnSizes(stack) /\ stack \in Seq(Entries)
      BY <2>1 DEF IInv, Levels, TypeOK
    <2>3. DOMAIN stack = 1 .. Len(stack)
      BY <2>2
    <2>4. QED
      BY <2>2, <2>3 DEF OwnSizes
  <1>2. QED
    BY <1>1, Inductive, PTL

\* The stack and the text's open containers correspond level by level.
THEOREM ReaderFollowsStack == Spec => []ReaderInStep
  <1>1. IInv => ReaderInStep
    <2>1. SUFFICES ASSUME IInv, pc \in {"loop", "object"}
                   PROVE  /\ Len(reader) = Len(stack)
                          /\ \A i \in DOMAIN stack :
                               IF Struct(i) THEN \/ reader[i] = "name"
                                                 \/ reader[i] = "value" /\ i = Len(stack)
                               ELSE reader[i] = "item"
      BY DEF ReaderInStep, IInv
    <2>2. /\ stack \in Seq(Entries) /\ DOMAIN stack = 1 .. Len(stack) /\ Len(stack) \in Nat
          /\ Levels(stack, reader, Len(size_insertions))
      BY <2>1 DEF IInv, TypeOK
    <2>3. ASSUME NEW i \in 1 .. Len(stack), i < Len(stack)
          PROVE  IF Struct(i) THEN reader[i] = "name" ELSE reader[i] = "item"
      BY <2>2, <2>3 DEF Levels, Inside, Struct, ArrayKinds
    <2>4. ASSUME NEW i \in 1 .. Len(stack), i = Len(stack)
          PROVE  IF Struct(i) THEN reader[i] \in {"name", "value"} ELSE reader[i] = "item"
      BY <2>2, <2>4 DEF Levels, AtTop, Struct, ArrayKinds
    <2>5. Len(reader) = Len(stack)
      BY <2>2 DEF Levels
    <2>6. ASSUME NEW i \in DOMAIN stack
          PROVE  IF Struct(i) THEN \/ reader[i] = "name"
                                   \/ reader[i] = "value" /\ i = Len(stack)
                 ELSE reader[i] = "item"
      <3>1. CASE i < Len(stack)
        BY <2>2, <2>3, <3>1
      <3>2. CASE i = Len(stack)
        BY <2>2, <2>4, <3>2
      <3>3. QED
        BY <2>2, <3>1, <3>2
    <2>7. QED
      BY <2>5, <2>6
  <1>2. QED
    BY <1>1, Inductive, PTL

\* No serializer indexes a vector out of its range.
THEOREM NoOverrun == Spec => []IndexesInBounds
  <1>1. IInv => IndexesInBounds
    <2>1. SUFFICES ASSUME IInv, pc \in {"loop", "object"}, NEW i \in DOMAIN stack
                   PROVE  EntryInBounds(i)
      BY DEF IndexesInBounds
    <2> DEFINE e == stack[i]
               c == reader[i]
               m == Len(size_insertions)
    <2>2. /\ stack \in Seq(Entries) /\ i \in 1 .. Len(stack) /\ Len(stack) \in Nat
          /\ Levels(stack, reader, m) /\ m \in Nat
      BY <2>1 DEF IInv, TypeOK
    <2>3. e \in Entries
      BY <2>2
    <2>4. e.type \in Types /\ e.position \in Int
      BY <2>3 DEF Entries
    <2>5. Len(Fields[e.type]) \in Nat
      <3>1. Fields[e.type] \in Seq([name : Strings, type : Types])
        BY <2>4, TableAssumption
      <3>2. QED
        BY <3>1
    <2>6. CASE i < Len(stack)
      <3>1. Inside(e, c, m) /\ c # "value"
        BY <2>2, <2>6 DEF Levels, Inside
      <3>2. CASE Kind[e.type] = "struct"
        BY <3>1, <3>2, <2>4, <2>5 DEF Inside, EntryInBounds, ArrayKinds
      <3>3. CASE Kind[e.type] = "variant"
        BY <3>1, <3>3, <2>4, <2>5 DEF Inside, EntryInBounds, ArrayKinds
      <3>4. CASE Kind[e.type] \in ArrayKinds
        BY <3>1, <3>4, <2>4, <2>5 DEF Inside, EntryInBounds, ArrayKinds, OwnsSize
      <3>5. QED
        BY <3>1, <3>2, <3>3, <3>4 DEF Inside
    <2>7. CASE i = Len(stack)
      <3>1. AtTop(e, c, m)
        BY <2>2, <2>7 DEF Levels
      <3>2. CASE Kind[e.type] = "struct"
        BY <3>1, <3>2, <2>2, <2>7, <2>4, <2>5 DEF AtTop, EntryInBounds, ArrayKinds
      <3>3. CASE Kind[e.type] = "variant"
        BY <3>1, <3>3, <2>2, <2>7, <2>4, <2>5 DEF AtTop, EntryInBounds, ArrayKinds
      <3>4. CASE Kind[e.type] \in ArrayKinds
        BY <3>1, <3>4, <2>2, <2>7, <2>4, <2>5
        DEF AtTop, EntryInBounds, ArrayKinds, OwnsSize
      <3>5. QED
        BY <3>1, <3>2, <3>3, <3>4 DEF AtTop
    <2>8. QED
      BY <2>2, <2>6, <2>7
  <1>2. QED
    BY <1>1, Inductive, PTL

\* After an extension was left out a step writes nothing and opens nothing.
LEMMA NothingMore ==
    IInv /\ [Next]_vars /\ skipped_extension =>
        /\ out' = out
        /\ size_insertions' = size_insertions
        /\ Len(stack') <= Len(stack)
  <1> DEFINE Quiet == /\ out' = out
                      /\ size_insertions' = size_insertions
                      /\ Len(stack') <= Len(stack)
  <1>1. ASSUME IInv, [Next]_vars, skipped_extension
        PROVE  Quiet
    <2>1. /\ stack \in Seq(Entries) /\ Len(stack) \in Nat
          /\ pc \notin {"begin", "object"}
          /\ pc = "loop" => \A i \in 1 .. Len(stack) : AtEnd(stack[i]) /\ reader[i] # "value"
      BY <1>1 DEF IInv, TypeOK, SkippedAtEnd
    <2>2. \A e \in Errors : Fail(e) => Quiet
      BY <2>1 DEF Fail
    <2>3. CASE Object
      <3>1. PICK tok \in Tokens(Strings) :
              Read(tok) /\ (EndObject(tok) \/ FieldKey(tok) \/ FieldValue(tok))
        BY <2>3 DEF Object
      <3>2. pc = "loop" /\ Len(stack) > 0
        BY <2>1, <2>3 DEF Object, Turn
      <3>3. /\ ~Complete(reader) /\ Len(reader) = Len(stack) /\ TypeOK
            /\ AtTop(Top, Waiting(reader), Len(size_insertions))
            /\ Kind[Top.type] = "struct"
        BY <1>1, <2>3, <3>2, TurnFacts DEF Object, Turn
      <3>4. Waiting(reader) = "name"
        BY <2>1, <3>2, <3>3 DEF AtTop, ArrayKinds, Waiting
      <3>5. tok.type \in {"key", "end_object"}
        BY <3>1, <3>3, <3>4 DEF Read, Expected
      <3>6. CASE EndObject(tok)
        <4>1. \/ Return(Pop(stack)) /\ UNCHANGED <<out, size_insertions>>
              \/ Fail("expected_field")
          BY <3>6 DEF EndObject
        <4>2. Len(Pop(stack)) = Len(stack) - 1
          BY <2>1, <3>2, PopFacts
        <4>3. QED
          BY <4>1, <4>2, <2>1, <2>2 DEF Return, Errors
      <3>7. CASE FieldKey(tok)
        BY <3>7, <1>1, <2>2 DEF FieldKey, Errors
      <3>8. QED
        BY <3>1, <3>5, <3>6, <3>7 DEF FieldValue
    <2>4. ~(Array \/ FixedArray)
      <3>1. SUFFICES ASSUME Array \/ FixedArray PROVE FALSE
        OBVIOUS
      <3>2. /\ pc = "loop" /\ Len(stack) > 0 /\ Kind[Top.type] \in ArrayKinds
        BY <2>1, <3>1 DEF Array, FixedArray, Turn, ArrayKinds
      <3>3. AtEnd(Top)
        BY <2>1, <3>2 DEF Top
      <3>4. QED
        BY <3>2, <3>3 DEF AtEnd, ArrayKinds
    <2>5. CASE Variant
      <3>1. pc = "loop" /\ Len(stack) > 0 /\ Kind[Top.type] = "variant"
        BY <2>1, <2>5 DEF Variant, Turn
      <3>2. AtEnd(Top)
        BY <2>1, <3>1 DEF Top
      <3>3. Top.position = 1
        BY <3>1, <3>2 DEF AtEnd
      <3>4. (Return(Pop(stack)) /\ UNCHANGED <<out, size_insertions>>)
            \/ Fail("expected_variant")
        BY <2>5, <3>3 DEF Variant, EndVariant
      <3>5. Len(Pop(stack)) = Len(stack) - 1
        BY <2>1, <3>1, PopFacts
      <3>6. QED
        BY <3>4, <3>5, <2>1, <2>2 DEF Return, Errors
    <2>6. CASE RecursionLimit \/ SyntaxError
      BY <2>6, <2>2 DEF RecursionLimit, SyntaxError, Errors
    <2>7. CASE Finish
      BY <2>7, <2>1, <2>2 DEF Finish, Errors
    <2>8. CASE UNCHANGED vars
      BY <2>8, <2>1 DEF vars
    <2>9. QED
      BY <1>1, <2>1, <2>3, <2>4, <2>5, <2>6, <2>7, <2>8 DEF Next, Step, Terminated, Begin
  <1>2. QED
    BY <1>1

\* After an extension was left out nothing more is written or opened.
THEOREM NothingAfterOmission == Spec => ExtensionsTrail
  <1>1. IInv /\ [Next]_vars =>
          [skipped_extension =>
              /\ out' = out
              /\ size_insertions' = size_insertions
              /\ Len(stack') <= Len(stack)]_vars
    BY NothingMore
  <1>2. QED
    BY <1>1, Inductive, PTL DEF Spec, ExtensionsTrail

\* A value that starts takes no entry away.
LEMMA StartKeepsEntries ==
    ASSUME NEW below \in Seq(Entries), stack \in Seq(Entries), Len(below) = Len(stack),
           size_insertions \in Seq(Insertions), out \in Seq(Nat),
           NEW t \in Types, NEW allow \in BOOLEAN, NEW tok,
           StartValue(t, allow, tok, below)
    PROVE  Len(stack') \in Nat /\ Len(stack') >= Len(stack)
  <1>1. Base(t) \in Types
    BY BaseFacts
  <1>2. \A a \in BOOLEAN, i \in Nat : Len(Append(below, Entry(Base(t), a, i))) = Len(below) + 1
    <2>1. \A a \in BOOLEAN, i \in Nat : Entry(Base(t), a, i) \in Entries
      BY <1>1 DEF Entry, Entries
    <2>2. QED
      BY <2>1, AppendFacts
  <1>3. \/ stack' = below \/ stack' = stack
        \/ \E a \in BOOLEAN, i \in Nat : stack' = Append(below, Entry(Base(t), a, i))
    <2>1. CASE AbsentOptional(t, tok, below) \/ StartBuiltin(t, tok, below)
      BY <2>1 DEF AbsentOptional, StartBuiltin, Return, Fail
    <2>2. CASE StartStruct(t, allow, tok, below)
      BY <2>2 DEF StartStruct, Return, Fail
    <2>3. CASE StartArray(t, tok, below)
      <3>1. CASE tok.type = "start_array"
        <4>1. /\ size_insertions' = Append(size_insertions, [position |-> Len(out'), size |-> 0])
              /\ stack' = Append(below, Entry(Base(t), FALSE, Len(size_insertions')))
          BY <2>3, <3>1 DEF StartArray, Return
        <4>2. Len(size_insertions') \in Nat
          BY <4>1
        <4>3. QED
          BY <4>1, <4>2
      <3>2. QED
        BY <2>3, <3>1 DEF StartArray, Fail
    <2>4. CASE StartFixedArray(t, tok, below)
      BY <2>4 DEF StartFixedArray, Return, Fail
    <2>5. CASE StartVariant(t, allow, tok, below)
      BY <2>5 DEF StartVariant, Return, Fail
    <2>6. QED
      BY <2>1, <2>2, <2>3, <2>4, <2>5 DEF StartValue
  <1>4. QED
    BY <1>2, <1>3

(***************************************************************************)
(* If the ABI has its extensions last, an object that ends early has left  *)
(* out extensions only (abieos.hpp:821-826).                               *)
(***************************************************************************)
THEOREM RequiredFieldsRead ==
    ASSUME ExtensionsLast
    PROVE  Spec => OnlyExtensionsLeftOut
  <1> DEFINE Shorter == Len(stack') < Len(stack) /\ Kind[Top.type] = "struct"
             Rest == \A i \in DOMAIN Fields[Top.type] :
                        i > Top.position + 1 => Extension(Fields[Top.type][i].type)
  <1>1. ASSUME IInv, [Next]_vars, Shorter
        PROVE  Rest
    <2>1. stack \in Seq(Entries) /\ Len(stack) \in Nat
      BY <1>1 DEF IInv, TypeOK
    <2>2. ~UNCHANGED stack
      BY <1>1, <2>1
    <2>3. Object
      <3>1. ~(RecursionLimit \/ SyntaxError \/ Finish \/ Terminated \/ UNCHANGED vars)
        <4>1. RecursionLimit \/ SyntaxError => UNCHANGED stack
          BY DEF RecursionLimit, SyntaxError, Fail
        <4>2. Finish => UNCHANGED stack
          BY DEF Finish, Fail
        <4>3. Terminated \/ UNCHANGED vars => UNCHANGED stack
          BY DEF Terminated, vars
        <4>4. QED
          BY <2>2, <4>1, <4>2, <4>3
      <3>2. ~(Array \/ FixedArray \/ Variant)
        BY <1>1 DEF Array, FixedArray, Variant, Turn
      <3>3. ~Begin
        <4>1. Begin => stack = << >>
          BY <1>1 DEF Begin, IInv
        <4>2. stack # << >>
          BY <1>1, <2>1
        <4>3. QED
          BY <4>1, <4>2
      <3>4. QED
        BY <1>1, <3>1, <3>2, <3>3 DEF Next, Step
    <2>4. PICK tok \in Tokens(Strings) :
            Read(tok) /\ (EndObject(tok) \/ FieldKey(tok) \/ FieldValue(tok))
      BY <2>3 DEF Object
    <2>5. /\ pc \in {"loop", "object"} /\ Len(stack) > 0 /\ Kind[Top.type] = "struct"
          /\ size_insertions \in Seq(Insertions) /\ out \in Seq(Nat) /\ ~Complete(reader)
          /\ Len(Fields[Top.type]) \in Nat /\ Top.position \in Int
          /\ Top.allow_extensions \in BOOLEAN /\ Top.type \in Types
          /\ AtTop(Top, Waiting(reader), Len(size_insertions))
      <3>1. pc \in {"loop", "object"} /\ Len(stack) > 0
        BY <1>1, <2>3 DEF Object, Turn, IInv
      <3>2. QED
        BY <1>1, <3>1, TurnFacts DEF TypeOK
    <2>6. ~FieldKey(tok)
      <3>1. FieldKey(tok) => Len(stack') = Len(stack)
        BY <2>1, <2>5 DEF FieldKey, Return, Fail, WithPosition
      <3>2. QED
        BY <1>1, <2>1, <3>1
    <2>7. ~FieldValue(tok)
      <3>1. SUFFICES ASSUME FieldValue(tok) PROVE FALSE
        OBVIOUS
      <3>2. Waiting(reader) = "value"
        <4>1. Waiting(reader) \in {"name", "value"}
          BY <2>5 DEF AtTop, ArrayKinds
        <4>2. Waiting(reader) = "name" => tok.type \in {"key", "end_object"}
          BY <2>4, <2>5 DEF Read, Expected
        <4>3. QED
          BY <3>1, <4>1, <4>2 DEF FieldValue
      <3>3. Top.position \in 0 .. Len(Fields[Top.type]) - 1
        BY <2>5, <3>2 DEF AtTop, ArrayKinds
      <3>4. Field(Top.type, Top.position).type \in Types
        BY <2>5, <3>3, FieldFacts
      <3>5. AllowIn(Top.type, Top.position, Top.allow_extensions) \in BOOLEAN
        BY <2>5 DEF AllowIn
      <3>6. Len(stack') >= Len(stack)
        BY <2>1, <2>5, <3>1, <3>4, <3>5, StartKeepsEntries DEF FieldValue
      <3>7. QED
        BY <1>1, <2>1, <3>6
    <2>8. EndObject(tok) /\ ~Fail("expected_field")
      BY <2>2, <2>4, <2>6, <2>7 DEF Fail
    <2>9. \/ Top.position + 1 = Len(Fields[Top.type])
          \/ Extension(Field(Top.type, Top.position + 1).type)
      BY <2>8 DEF EndObject, MayEndBefore
    <2>10. /\ Top.position >= -1
           /\ DOMAIN Fields[Top.type] = 1 .. Len(Fields[Top.type])
      BY <2>5, TableAssumption DEF AtTop, ArrayKinds
    <2>11. ASSUME NEW i \in DOMAIN Fields[Top.type], i > Top.position + 1
           PROVE  Extension(Fields[Top.type][i].type)
      <3>1. /\ Top.position + 2 \in DOMAIN Fields[Top.type]
            /\ Top.position + 2 <= i /\ i \in Nat
        BY <2>5, <2>10, <2>11, SMTT(60)
      <3>2. Extension(Fields[Top.type][Top.position + 2].type)
        <4>1. Top.position + 1 # Len(Fields[Top.type])
          BY <2>5, <2>10, <3>1
        <4>2. Top.position + 1 + 1 = Top.position + 2
          BY <2>5
        <4>3. QED
          BY <2>9, <4>1, <4>2 DEF Field
      <3>3. CASE i = Top.position + 2
        BY <3>2, <3>3
      <3>4. CASE Top.position + 2 < i
        BY <2>5, <3>1, <3>2, <3>4 DEF ExtensionsLast
      <3>5. QED
        BY <2>5, <3>1, <3>3, <3>4
    <2>12. QED
      BY <2>11
  <1>2. QED
    BY <1>1, Inductive, PTL DEF Spec, OnlyExtensionsLeftOut

----------------------------------------------------------------------------
(***************************************************************************)
(* One more token on the way.                                              *)
(***************************************************************************)
\* Array values and the numbers of their sizes.
HoldsSize(e, n) == Kind[e.type] = "array" /\ e.size_insertion_index = n

Opened(st, n) == \E k \in 1 .. Len(st) : HoldsSize(st[k], n)

\* An array that was open earlier: closed with more elements, or going on.
Counted(e, st, sizes) ==
    Kind[e.type] = "array" =>
        LET n == e.size_insertion_index
        IN  /\ n \in 1 .. Len(sizes)
            /\ ~Opened(st, n) => e.position < sizes[n].size
            /\ \A k \in 1 .. Len(st) : HoldsSize(st[k], n) => e.position <= st[k].position

\* What a step does to the arrays.
ArraysKept(st, sizes, st2, sizes2) ==
    \A n \in 1 .. Len(sizes) :
        /\ ~Opened(st, n) => ~Opened(st2, n) /\ sizes2[n].size = sizes[n].size
        /\ \A k \in 1 .. Len(st) : HoldsSize(st[k], n) =>
              /\ ~Opened(st2, n) => st[k].position < sizes2[n].size
              /\ \A j \in 1 .. Len(st2) :
                    HoldsSize(st2[j], n) => st[k].position <= st2[j].position

\* What is counted stays counted.
LEMMA CountedStays ==
    ASSUME NEW st \in Seq(LevelSet), NEW st2 \in Seq(LevelSet),
           NEW sizes \in Seq(Sizes), NEW sizes2 \in Seq(Sizes),
           Len(sizes) <= Len(sizes2),
           ArraysKept(st, sizes, st2, sizes2),
           NEW e \in LevelSet, Counted(e, st, sizes)
    PROVE  Counted(e, st2, sizes2)
  <1> SUFFICES ASSUME Kind[e.type] = "array"
               PROVE  Counted(e, st2, sizes2)
    BY Zenon DEF Counted
  <1>1. PICK n : n = e.size_insertion_index
    OBVIOUS
  <1>2. /\ n \in 1 .. Len(sizes)
        /\ ~Opened(st, n) => e.position < sizes[n].size
        /\ \A k \in 1 .. Len(st) : HoldsSize(st[k], n) => e.position <= st[k].position
    BY <1>1, Zenon DEF Counted
  <1>3. n \in 1 .. Len(sizes2) /\ n \in 1 .. Len(sizes)
    BY <1>2
  <1>4. e.position \in Int
    BY DEF LevelSet
  <1>5. CASE ~Opened(st, n)
    <2>1. ~Opened(st2, n) /\ sizes2[n].size = sizes[n].size
      BY <1>2, <1>5, Zenon DEF ArraysKept
    <2>2. \A j \in 1 .. Len(st2) : ~HoldsSize(st2[j], n)
      BY <2>1, Zenon DEF Opened
    <2>3. QED
      BY <2>1, <2>2, <1>1, <1>2, <1>3, <1>5, Zenon DEF Counted
  <1>6. CASE Opened(st, n)
    <2>1. PICK k \in 1 .. Len(st) : HoldsSize(st[k], n)
      BY <1>6, Zenon DEF Opened
    <2>2. e.position <= st[k].position
      BY <2>1, <1>2, Zenon
    <2>3. st[k] \in LevelSet
      OBVIOUS
    <2>4. st[k].position \in Int
      BY <2>3 DEF LevelSet
    <2>5. sizes2[n] \in Sizes
      BY <1>3
    <2>6. sizes2[n].size \in Nat
      BY <2>5 DEF Sizes
    <2>7. /\ ~Opened(st2, n) => st[k].position < sizes2[n].size
          /\ \A j \in 1 .. Len(st2) :
                HoldsSize(st2[j], n) => st[k].position <= st2[j].position
      BY <2>1, <1>3, Zenon DEF ArraysKept
    <2>8. ~Opened(st2, n) => e.position < sizes2[n].size
      BY <2>2, <2>4, <2>6, <2>7, <1>4
    <2>9. ASSUME NEW j \in 1 .. Len(st2), HoldsSize(st2[j], n)
          PROVE  e.position <= st2[j].position
      <3>1. st2[j] \in LevelSet
        OBVIOUS
      <3>2. st2[j].position \in Int
        BY <3>1 DEF LevelSet
      <3>3. st[k].position <= st2[j].position
        BY <2>7, <2>9, Zenon
      <3>4. QED
        BY <3>2, <3>3, <2>2, <2>4, <1>4
    <2>10. QED
      BY <2>8, <2>9, <1>1, <1>3, Zenon DEF Counted
  <1>7. QED
    BY <1>5, <1>6

(***************************************************************************)
(* at is a way to where a conversion is.                                   *)
(***************************************************************************)
Shut(tokens, at, st, sizes) ==
    \A i \in 1 .. Len(tokens) - 1 :
        LET e == Innermost(at[i])
        IN  tokens[i + 1].type = "end_array" /\ Kind[e.type] = "array" =>
                /\ e.size_insertion_index \in 1 .. Len(sizes)
                /\ ~Opened(st, e.size_insertion_index)

AllCounted(tokens, at, st, sizes) ==
    \A i \in 0 .. Len(tokens) : \A j \in 1 .. Len(at[i].stack) :
        Counted(at[i].stack[j], st, sizes)

Walk(start, tokens, at, bytes, sizes, st, waiting, skipped) ==
    /\ Way(start, tokens, at, bytes, sizes)
    /\ at[Len(tokens)] = Point(st, waiting, Len(bytes), Len(sizes))
    /\ LeftOut(tokens, at) => skipped
    /\ Shut(tokens, at, st, sizes)
    /\ AllCounted(tokens, at, st, sizes)

Continues(start, tokens, bytes, sizes, st, waiting, skipped,
          tok, bytes2, sizes2, st2, waiting2, skipped2) ==
    LET p  == Point(st, waiting, Len(bytes), Len(sizes))
        p2 == Point(st2, waiting2, Len(bytes2), Len(sizes2))
        q  == st[Len(st)].size_insertion_index
    IN  /\ tokens \in Seq(Tokens(Strings)) /\ tok \in Tokens(Strings)
        /\ Longer(bytes, bytes2) /\ SizesGrown(sizes, sizes2, bytes)
        /\ st \in Seq(LevelSet) /\ st2 \in Seq(LevelSet) /\ waiting2 \in BOOLEAN
        /\ LeadsOn(start, tokens, p, tok, p2, bytes2, sizes2)
        /\ \A i \in 1 .. Len(sizes2) : sizes2[i].position <= Len(bytes2)
        /\ skipped => Len(bytes2) = Len(bytes) /\ Len(sizes2) = Len(sizes)
        /\ skipped => skipped2
        /\ tok.type = "end_object" /\ tokens # << >> /\ LeavesOut(p) => skipped2
        /\ ArraysKept(st, sizes, st2, sizes2)
        /\ tok.type = "end_array" /\ tokens # << >> /\ Kind[st[Len(st)].type] = "array" =>
              q \in 1 .. Len(sizes) /\ ~Opened(st2, q)
        /\ \A j \in 1 .. Len(st2) : Counted(st2[j], st2, sizes2)

\* A way goes on by one more token.
LEMMA OneMoreToken ==
    ASSUME NEW start, NEW tokens, NEW at, NEW bytes, NEW bytes2, NEW sizes, NEW sizes2,
           NEW st, NEW st2, NEW waiting, NEW waiting2, NEW skipped, NEW skipped2, NEW tok,
           Walk(start, tokens, at, bytes, sizes, st, waiting, skipped),
           Continues(start, tokens, bytes, sizes, st, waiting, skipped,
                     tok, bytes2, sizes2, st2, waiting2, skipped2)
    PROVE  \E at2 : Walk(start, Append(tokens, tok), at2, bytes2, sizes2, st2, waiting2, skipped2)
  <1>0. PICK p2 : p2 = Point(st2, waiting2, Len(bytes2), Len(sizes2))
    OBVIOUS
  <1>b. /\ tokens \in Seq(Tokens(Strings)) /\ tok \in Tokens(Strings)
        /\ Longer(bytes, bytes2) /\ SizesGrown(sizes, sizes2, bytes)
        /\ st \in Seq(LevelSet) /\ st2 \in Seq(LevelSet) /\ waiting2 \in BOOLEAN
        /\ LeadsOn(start, tokens, Point(st, waiting, Len(bytes), Len(sizes)), tok, p2,
                   bytes2, sizes2)
        /\ \A i \in 1 .. Len(sizes2) : sizes2[i].position <= Len(bytes2)
        /\ skipped => Len(bytes2) = Len(bytes) /\ Len(sizes2) = Len(sizes)
        /\ skipped => skipped2
        /\ (/\ tok.type = "end_object" /\ tokens # << >>
            /\ LeavesOut(Point(st, waiting, Len(bytes), Len(sizes)))) => skipped2
        /\ ArraysKept(st, sizes, st2, sizes2)
        /\ tok.type = "end_array" /\ tokens # << >> /\ Kind[st[Len(st)].type] = "array" =>
              /\ st[Len(st)].size_insertion_index \in 1 .. Len(sizes)
              /\ ~Opened(st2, st[Len(st)].size_insertion_index)
        /\ \A j \in 1 .. Len(st2) : Counted(st2[j], st2, sizes2)
    BY <1>0, Zenon DEF Continues
  <1> USE <1>b
  <1>1. PICK n \in Nat : n = Len(tokens)
    OBVIOUS
  <1> DEFINE tokens2 == Append(tokens, tok)
             at2 == [i \in 0 .. n + 1 |-> IF i <= n THEN at[i] ELSE p2]
  <1>2. \A i \in 0 .. n : at2[i] = at[i]
    OBVIOUS
  <1>3. at2[n + 1] = p2
    OBVIOUS
  <1>4. Len(tokens2) = n + 1 /\ tokens2[n + 1] = tok /\ \A i \in 1 .. n : tokens2[i] = tokens[i]
    BY <1>1
  <1>5. n = 0 <=> tokens = << >>
    BY <1>1
  <1> HIDE DEF tokens2, at2
  <1>6. PICK p : p = Point(st, waiting, Len(bytes), Len(sizes))
    OBVIOUS
  <1>7. at[n] = p /\ Innermost(p) = st[Len(st)] /\ p2.stack = st2
    <2>1. at[n] = p
      BY <1>1, <1>6 DEF Walk
    <2>2. p.stack = st
      BY <1>6 DEF Point
    <2>3. p2.stack = st2
      BY <1>0 DEF Point
    <2>4. QED
      BY <2>1, <2>2, <2>3 DEF Innermost
  <1>8. \A i \in 0 .. n : LiesIn(at[i], bytes, sizes)
    BY <1>1, Zenon DEF Walk, Way
  <1>9. \A i \in 0 .. n : LiesIn(at[i], bytes2, sizes2)
    BY <1>8, LiesInStays, Zenon
  <1>a. bytes2 \in Seq(Nat) /\ sizes \in Seq(Sizes) /\ sizes2 \in Seq(Sizes)
        /\ Len(sizes) <= Len(sizes2)
    BY DEF Longer, SizesGrown
  <1>10. LiesIn(p2, bytes2, sizes2)
    <2>1. PICK nb \in Nat : nb = Len(bytes2)
      BY <1>a
    <2>2. PICK m \in Nat : m = Len(sizes2)
      BY <1>a
    <2>3. /\ p2.stack = st2 /\ p2.waiting = waiting2 /\ p2.bytes = nb /\ p2.sizes = m
      BY <1>0, <2>1, <2>2 DEF Point
    <2>4. \A k \in 1 .. m : k <= p2.sizes /\ sizes2[k].position <= p2.bytes
      BY <2>1, <2>2, <2>3
    <2>5. p2.bytes \in 0 .. nb /\ p2.sizes \in 0 .. m
      BY <2>3
    <2>6. QED
      BY <2>1, <2>2, <2>3, <2>4, <2>5, Zenon DEF LiesIn
  <1>11. \A i \in 0 .. n + 1 : LiesIn(at2[i], bytes2, sizes2)
    BY <1>2, <1>3, <1>9, <1>10
  <1>12. at2[0] = FirstPoint
    <2>1. at[0] = FirstPoint
      BY DEF Walk, Way
    <2>2. QED
      BY <2>1, <1>2
  <1>13. ValueMove(start, TRUE, << >>, at2[0], tokens2[1], at2[1], bytes2, sizes2)
    <2>1. CASE n = 0
      <3>1. at2[0] = p /\ at2[1] = p2 /\ tokens2[1] = tok
        BY <2>1, <1>2, <1>3, <1>4, <1>7
      <3>2. QED
        BY <3>1, <2>1, <1>5, <1>6, Zenon DEF LeadsOn
    <2>2. CASE n # 0
      <3>1. 0 \in 0 .. n /\ 1 \in 0 .. n /\ 1 \in 1 .. n /\ n > 0
        BY <2>2
      <3>2. ValueMove(start, TRUE, << >>, at[0], tokens[1], at[1], bytes, sizes)
        BY <3>1, <1>1, Zenon DEF Walk, Way
      <3>3. ValueMove(start, TRUE, << >>, at[0], tokens[1], at[1], bytes2, sizes2)
        BY <3>1, <3>2, <1>8, ValueMoveStays, Zenon
      <3>4. QED
        BY <3>1, <3>3, <1>2, <1>4, Zenon
    <2>3. QED
      BY <2>1, <2>2
  <1>14. ASSUME NEW i \in 1 .. n
         PROVE  Move(at2[i], tokens2[i + 1], at2[i + 1], bytes2, sizes2)
    <2>1. CASE i = n
      <3>1. at2[i] = p /\ tokens2[i + 1] = tok /\ at2[i + 1] = p2 /\ tokens # << >>
        BY <2>1, <1>2, <1>3, <1>4, <1>5, <1>7
      <3>2. QED
        BY <3>1, <1>6, Zenon DEF LeadsOn
    <2>2. CASE i # n
      <3>1. i \in 1 .. n - 1 /\ i \in 0 .. n /\ i + 1 \in 0 .. n /\ i + 1 \in 1 .. n
        BY <2>2
      <3>2. Move(at[i], tokens[i + 1], at[i + 1], bytes, sizes)
        BY <3>1, <1>1, Zenon DEF Walk, Way
      <3> DEFINE q == Innermost(at[i]).size_insertion_index
      <3>3. tokens[i + 1].type = "end_array" /\ Kind[Innermost(at[i]).type] = "array" =>
               q \in 1 .. Len(sizes) /\ ~Opened(st, q)
        BY <3>1, <1>1, Zenon DEF Walk, Shut
      <3>4. q \in 1 .. Len(sizes) /\ ~Opened(st, q) => sizes2[q].size = sizes[q].size
        BY Zenon DEF ArraysKept
      <3>5. tokens[i + 1].type = "end_object" /\ LeavesOut(at[i]) =>
               Len(bytes2) = Len(bytes) /\ Len(sizes2) = Len(sizes)
        <4>1. tokens[i + 1].type = "end_object" /\ LeavesOut(at[i]) => LeftOut(tokens, at)
          BY <3>1, <1>1, Zenon DEF LeftOut
        <4>2. LeftOut(tokens, at) => skipped
          BY Zenon DEF Walk
        <4>3. QED
          BY <4>1, <4>2
      <3>6. Settled(at[i], tokens[i + 1], bytes, bytes2, sizes, sizes2)
        BY <3>3, <3>4, <3>5, Zenon DEF Settled
      <3>7. Move(at[i], tokens[i + 1], at[i + 1], bytes2, sizes2)
        BY <3>1, <3>2, <3>6, <1>8, MoveStays, Zenon
      <3>8. QED
        BY <3>1, <3>7, <1>2, <1>4, Zenon
    <2>3. QED
      BY <2>1, <2>2
  <1>15. Way(start, tokens2, at2, bytes2, sizes2)
    <2>1. (n + 1) - 1 = n
      OBVIOUS
    <2>2. QED
      BY <2>1, <1>4, <1>11, <1>12, <1>13, <1>14, Zenon DEF Way
  <1>16. LeftOut(tokens2, at2) => skipped2
    <2>1. SUFFICES ASSUME NEW i \in 1 .. n, tokens2[i + 1].type = "end_object", LeavesOut(at2[i])
                   PROVE  skipped2
      BY <1>4 DEF LeftOut
    <2>2. CASE i = n
      <3>1. at2[i] = p /\ tokens2[i + 1] = tok /\ tokens # << >>
        BY <2>2, <1>2, <1>4, <1>5, <1>7
      <3>2. QED
        BY <2>1, <3>1, <1>6, Zenon
    <2>3. CASE i # n
      <3>1. i \in 1 .. n - 1 /\ i \in 0 .. n /\ i + 1 \in 1 .. n
        BY <2>3
      <3>2. tokens[i + 1].type = "end_object" /\ LeavesOut(at[i])
        BY <2>1, <3>1, <1>2, <1>4, Zenon
      <3>3. LeftOut(tokens, at)
        BY <3>1, <3>2, <1>1, Zenon DEF LeftOut
      <3>4. QED
        BY <3>3, Zenon DEF Walk
    <2>4. QED
      BY <2>2, <2>3
  <1>17. Shut(tokens2, at2, st2, sizes2)
    <2>1. SUFFICES ASSUME NEW i \in 1 .. n, tokens2[i + 1].type = "end_array",
                          Kind[Innermost(at2[i]).type] = "array"
                   PROVE  /\ Innermost(at2[i]).size_insertion_index \in 1 .. Len(sizes2)
                          /\ ~Opened(st2, Innermost(at2[i]).size_insertion_index)
      BY <1>4 DEF Shut
    <2> DEFINE q == Innermost(at2[i]).size_insertion_index
    <2>2. q \in 1 .. Len(sizes) /\ ~Opened(st2, q)
      <3>1. CASE i = n
        <4>1. at2[i] = p /\ tokens2[i + 1] = tok /\ tokens # << >>
          BY <3>1, <1>2, <1>4, <1>5, <1>7
        <4>2. QED
          BY <2>1, <4>1, <1>7, Zenon
      <3>2. CASE i # n
        <4>1. i \in 1 .. n - 1 /\ i \in 0 .. n /\ i + 1 \in 1 .. n
          BY <3>2
        <4>2. at2[i] = at[i] /\ tokens2[i + 1] = tokens[i + 1]
          BY <4>1, <1>2, <1>4, Zenon
        <4>3. q \in 1 .. Len(sizes) /\ ~Opened(st, q)
          BY <2>1, <4>1, <4>2, <1>1, Zenon DEF Walk, Shut
        <4>4. QED
          BY <4>3, Zenon DEF ArraysKept
      <3>3. QED
        BY <3>1, <3>2
    <2>3. QED
      BY <2>2, <1>a
  <1>18. AllCounted(tokens2, at2, st2, sizes2)
    <2>1. SUFFICES ASSUME NEW i \in 0 .. n + 1, NEW s, s = at2[i].stack
                   PROVE  \A j \in 1 .. Len(s) : Counted(s[j], st2, sizes2)
      BY <1>4, Zenon DEF AllCounted
    <2>2. CASE i = n + 1
      <3>1. s = st2
        BY <2>1, <2>2, <1>3, <1>7, Zenon
      <3>2. QED
        BY <3>1, Zenon
    <2>3. CASE i # n + 1
      <3>1. i \in 0 .. n
        BY <2>3
      <3>2. s = at[i].stack
        BY <2>1, <3>1, <1>2
      <3>3. s \in Seq(LevelSet)
        BY <3>1, <3>2, <1>8, Zenon DEF LiesIn
      <3>4. \A j \in 1 .. Len(s) : Counted(s[j], st, sizes)
        BY <3>1, <3>2, <1>1, Zenon DEF Walk, AllCounted
      <3>5. TAKE j \in 1 .. Len(s)
      <3>6. s[j] \in LevelSet
        BY <3>3
      <3>7. QED
        BY <3>4, <3>6, <1>a, CountedStays, Zenon
    <2>4. QED
      BY <2>2, <2>3
  <1>19. at2[Len(tokens2)] = Point(st2, waiting2, Len(bytes2), Len(sizes2))
    BY <1>0, <1>3, <1>4
  <1>20. Walk(start, tokens2, at2, bytes2, sizes2, st2, waiting2, skipped2)
    BY <1>15, <1>16, <1>17, <1>18, <1>19, Zenon DEF Walk
  <1>21. QED
    BY <1>20, Zenon DEF tokens2

----------------------------------------------------------------------------
\* The arrays of st are still open in st2, where only later numbers are new.
Carried(st, st2, m) ==
    /\ \A k \in 1 .. Len(st2) :
          Kind[st2[k].type] = "array" /\ st2[k].size_insertion_index <= m =>
             /\ k \in 1 .. Len(st) /\ st[k].type = st2[k].type
             /\ st[k].size_insertion_index = st2[k].size_insertion_index
             /\ st[k].position <= st2[k].position
    /\ \A k \in 1 .. Len(st) :
          Kind[st[k].type] = "array" =>
             /\ k \in 1 .. Len(st2) /\ st2[k].type = st[k].type
             /\ st2[k].size_insertion_index = st[k].size_insertion_index

\* A number belongs to one open array.
LEMMA OneHolder ==
    ASSUME NEW st \in Seq(LevelSet), OwnSizes(st), NEW n,
           NEW i \in 1 .. Len(st), NEW j \in 1 .. Len(st),
           HoldsSize(st[i], n), HoldsSize(st[j], n)
    PROVE  i = j
  <1>1. st[i] \in LevelSet /\ st[j] \in LevelSet
    OBVIOUS
  <1>2. st[i].size_insertion_index \in Nat /\ st[j].size_insertion_index \in Nat
    BY <1>1 DEF LevelSet
  <1>3. CASE i < j
    BY <1>2, <1>3 DEF OwnSizes, HoldsSize
  <1>4. CASE j < i
    BY <1>2, <1>4 DEF OwnSizes, HoldsSize
  <1>5. QED
    BY <1>3, <1>4

\* No array is closed and no size is set.
LEMMA CarriedKeeps ==
    ASSUME NEW st \in Seq(LevelSet), NEW st2 \in Seq(LevelSet), OwnSizes(st),
           NEW sizes \in Seq(Sizes), NEW sizes2,
           Carried(st, st2, Len(sizes)),
           \A n \in 1 .. Len(sizes) : sizes2[n].size = sizes[n].size
    PROVE  ArraysKept(st, sizes, st2, sizes2)
  <1> SUFFICES ASSUME NEW n \in 1 .. Len(sizes)
               PROVE  /\ ~Opened(st, n) => ~Opened(st2, n) /\ sizes2[n].size = sizes[n].size
                      /\ \A k \in 1 .. Len(st) : HoldsSize(st[k], n) =>
                            /\ ~Opened(st2, n) => st[k].position < sizes2[n].size
                            /\ \A j \in 1 .. Len(st2) :
                                  HoldsSize(st2[j], n) => st[k].position <= st2[j].position
    BY Zenon DEF ArraysKept
  <1>1. n <= Len(sizes)
    OBVIOUS
  <1>2. ASSUME NEW j \in 1 .. Len(st2), HoldsSize(st2[j], n)
        PROVE  j \in 1 .. Len(st) /\ HoldsSize(st[j], n) /\ st[j].position <= st2[j].position
    BY <1>1, <1>2, Zenon DEF Carried, HoldsSize
  <1>3. ASSUME NEW k \in 1 .. Len(st), HoldsSize(st[k], n)
        PROVE  Opened(st2, n)
    BY <1>3, Zenon DEF Carried, HoldsSize, Opened
  <1>4. ASSUME NEW k \in 1 .. Len(st), HoldsSize(st[k], n),
               NEW j \in 1 .. Len(st2), HoldsSize(st2[j], n)
        PROVE  st[k].position <= st2[j].position
    <2>1. j \in 1 .. Len(st) /\ HoldsSize(st[j], n) /\ st[j].position <= st2[j].position
      BY <1>2, <1>4, Zenon
    <2>2. k = j
      BY <2>1, <1>4, OneHolder, Zenon
    <2>3. QED
      BY <2>1, <2>2
  <1>5. ~Opened(st, n) => ~Opened(st2, n)
    BY <1>2, Zenon DEF Opened
  <1>6. QED
    BY <1>3, <1>4, <1>5, Zenon

\* The innermost array ends, with the size its elements come to.
LEMMA ClosedKeeps ==
    ASSUME NEW st \in Seq(LevelSet), Len(st) > 0, OwnSizes(st),
           NEW sizes \in Seq(Sizes), NEW sizes2, NEW q,
           HoldsSize(st[Len(st)], q), q \in 1 .. Len(sizes),
           \A n \in 1 .. Len(sizes) :
               sizes2[n].size = IF n = q THEN st[Len(st)].position + 1 ELSE sizes[n].size
    PROVE  ~Opened(Pop(st), q) /\ ArraysKept(st, sizes, Pop(st), sizes2)
  <1> DEFINE st2 == Pop(st)
  <1>1. PICK m \in Nat : m = Len(st) /\ m > 0
    OBVIOUS
  <1>2. /\ st2 \in Seq(LevelSet) /\ Len(st2) = m - 1
        /\ \A i \in 1 .. m - 1 : st2[i] = st[i]
    BY <1>1, PopFacts
  <1> HIDE DEF st2
  <1>3. m \in 1 .. Len(st) /\ \A i \in 1 .. m - 1 : i \in 1 .. Len(st) /\ i # m
    BY <1>1
  <1>4. st[m] \in LevelSet
    BY <1>3
  <1>5. st[m].position \in Int
    BY <1>4 DEF LevelSet
  <1>6. ~Opened(st2, q)
    <2>1. SUFFICES ASSUME NEW j \in 1 .. m - 1, HoldsSize(st2[j], q) PROVE FALSE
      BY <1>2, Zenon DEF Opened
    <2>2. HoldsSize(st[j], q) /\ HoldsSize(st[m], q)
      BY <2>1, <1>1, <1>2, Zenon
    <2>3. QED
      BY <2>2, <1>3, OneHolder, Zenon
  <1>7. ASSUME NEW n \in 1 .. Len(sizes)
        PROVE  /\ ~Opened(st, n) => ~Opened(st2, n) /\ sizes2[n].size = sizes[n].size
               /\ \A k \in 1 .. Len(st) : HoldsSize(st[k], n) =>
                     /\ ~Opened(st2, n) => st[k].position < sizes2[n].size
                     /\ \A j \in 1 .. Len(st2) :
                           HoldsSize(st2[j], n) => st[k].position <= st2[j].position
    <2>1. CASE n = q
      <3>1. Opened(st, n)
        BY <2>1, <1>1, <1>3, Zenon DEF Opened
      <3>2. sizes2[n].size = st[m].position + 1
        BY <2>1, <1>1, Zenon
      <3>3. ASSUME NEW k \in 1 .. Len(st), HoldsSize(st[k], n)
            PROVE  st[k].position < sizes2[n].size
        <4>1. k = m
          BY <3>3, <2>1, <1>1, <1>3, OneHolder, Zenon
        <4>2. QED
          BY <4>1, <3>2, <1>5
      <3>4. \A j \in 1 .. Len(st2) : ~HoldsSize(st2[j], n)
        BY <2>1, <1>6, Zenon DEF Opened
      <3>5. QED
        BY <3>1, <3>3, <3>4, Zenon
    <2>2. CASE n # q
      <3>1. sizes2[n].size = sizes[n].size
        BY <2>2, Zenon
      <3>2. ASSUME NEW j \in 1 .. Len(st2), HoldsSize(st2[j], n)
            PROVE  j \in 1 .. Len(st) /\ HoldsSize(st[j], n) /\ st2[j] = st[j]
        BY <3>2, <1>2, <1>3, Zenon
      <3>3. ASSUME NEW k \in 1 .. Len(st), HoldsSize(st[k], n)
            PROVE  Opened(st2, n)
        <4>1. k # m
          <5>1. st[m].size_insertion_index = q
            BY <1>1, Zenon DEF HoldsSize
          <5>2. st[k].size_insertion_index = n
            BY <3>3, Zenon DEF HoldsSize
          <5>3. QED
            BY <5>1, <5>2, <2>2
        <4>2. k \in 1 .. m - 1
          BY <4>1, <1>1
        <4>3. QED
          BY <4>2, <3>3, <1>2, Zenon DEF Opened
      <3>4. ASSUME NEW k \in 1 .. Len(st), HoldsSize(st[k], n),
                   NEW j \in 1 .. Len(st2), HoldsSize(st2[j], n)
            PROVE  st[k].position <= st2[j].position
        <4>1. j \in 1 .. Len(st) /\ HoldsSize(st[j], n) /\ st2[j] = st[j]
          BY <3>2, <3>4, Zenon
        <4>2. k = j
          BY <4>1, <3>4, OneHolder, Zenon
        <4>3. st[k] \in LevelSet
          OBVIOUS
        <4>4. st[k].position \in Int
          BY <4>3 DEF LevelSet
        <4>5. QED
          BY <4>1, <4>2, <4>4
      <3>5. ~Opened(st, n) => ~Opened(st2, n)
        BY <3>2, Zenon DEF Opened
      <3>6. QED
        BY <3>1, <3>3, <3>4, <3>5, Zenon
    <2>3. QED
      BY <2>1, <2>2, Zenon
  <1>8. ArraysKept(st, sizes, st2, sizes2)
    BY <1>7, Zenon DEF ArraysKept
  <1>9. QED
    BY <1>6, <1>8 DEF st2

\* The innermost value moves on.
LEMMA CarriedMoved ==
    ASSUME NEW st \in Seq(LevelSet), NEW m, NEW st2 \in Seq(LevelSet), Len(st2) = Len(st),
           \A i \in 1 .. Len(st) - 1 : st2[i] = st[i],
           Len(st) > 0 =>
             /\ st2[Len(st)].type = st[Len(st)].type
             /\ st2[Len(st)].size_insertion_index = st[Len(st)].size_insertion_index
             /\ st[Len(st)].position <= st2[Len(st)].position
                \/ Kind[st[Len(st)].type] # "array"
    PROVE  Carried(st, st2, m)
  <1>1. ASSUME NEW k \in 1 .. Len(st)
        PROVE  /\ st2[k].type = st[k].type
               /\ st2[k].size_insertion_index = st[k].size_insertion_index
               /\ st[k].position <= st2[k].position \/ Kind[st[k].type] # "array"
    <2>1. CASE k = Len(st)
      BY <2>1
    <2>2. CASE k # Len(st)
      <3>1. k \in 1 .. Len(st) - 1
        BY <2>2
      <3>2. st2[k] = st[k]
        BY <3>1
      <3>3. st[k] \in LevelSet
        OBVIOUS
      <3>4. st[k].position \in Int
        BY <3>3 DEF LevelSet
      <3>5. st[k].position <= st[k].position
        BY <3>4
      <3>6. QED
        BY <3>2, <3>5, Zenon
    <2>3. QED
      BY <2>1, <2>2
  <1>2. QED
    BY <1>1, Zenon DEF Carried

\* A value opens, and if it is an array, with a number of its own.
LEMMA CarriedPushed ==
    ASSUME NEW st \in Seq(LevelSet), NEW m \in Nat, NEW below \in Seq(LevelSet),
           Carried(st, below, m), NEW e \in LevelSet,
           Kind[e.type] = "array" => e.size_insertion_index = m + 1
    PROVE  Carried(st, Append(below, e), m)
  <1> DEFINE st2 == Append(below, e)
  <1>1. PICK n \in Nat : n = Len(below)
    OBVIOUS
  <1>2. /\ Len(st2) = n + 1 /\ st2[n + 1] = e
        /\ \A i \in 1 .. n : st2[i] = below[i]
    BY <1>1, AppendFacts
  <1> HIDE DEF st2
  <1>3. ASSUME NEW k \in 1 .. n + 1,
               Kind[st2[k].type] = "array", st2[k].size_insertion_index <= m
        PROVE  /\ k \in 1 .. Len(st) /\ st[k].type = st2[k].type
               /\ st[k].size_insertion_index = st2[k].size_insertion_index
               /\ st[k].position <= st2[k].position
    <2>1. k # n + 1
      <3>1. SUFFICES ASSUME k = n + 1 PROVE FALSE
        OBVIOUS
      <3>2. st2[k] = e
        BY <3>1, <1>2
      <3>3. e.size_insertion_index = m + 1 /\ e.size_insertion_index <= m
        BY <3>2, <1>3
      <3>4. QED
        BY <3>3
    <2>2. k \in 1 .. n
      BY <2>1
    <2>3. st2[k] = below[k]
      BY <2>2, <1>2
    <2>4. Kind[below[k].type] = "array" /\ below[k].size_insertion_index <= m
      BY <2>3, <1>3
    <2>5. /\ k \in 1 .. Len(st) /\ st[k].type = below[k].type
          /\ st[k].size_insertion_index = below[k].size_insertion_index
          /\ st[k].position <= below[k].position
      BY <2>2, <2>4, <1>1, Zenon DEF Carried
    <2>6. QED
      BY <2>3, <2>5, Zenon
  <1>4. ASSUME NEW k \in 1 .. Len(st), Kind[st[k].type] = "array"
        PROVE  /\ k \in 1 .. n + 1 /\ st2[k].type = st[k].type
               /\ st2[k].size_insertion_index = st[k].size_insertion_index
    <2>1. /\ k \in 1 .. n /\ below[k].type = st[k].type
          /\ below[k].size_insertion_index = st[k].size_insertion_index
      BY <1>1, <1>4, Zenon DEF Carried
    <2>2. st2[k] = below[k] /\ k \in 1 .. n + 1
      BY <2>1, <1>2
    <2>3. QED
      BY <2>1, <2>2, Zenon
  <1>5. QED
    BY <1>2, <1>3, <1>4, Zenon DEF Carried, st2

\* A value that is no array ends.
LEMMA CarriedPopped ==
    ASSUME NEW st \in Seq(LevelSet), NEW m, Len(st) > 0, Kind[st[Len(st)].type] # "array"
    PROVE  Carried(st, Pop(st), m)
  <1> DEFINE st2 == Pop(st)
  <1>1. PICK n \in Nat : n = Len(st) - 1
    OBVIOUS
  <1>2. /\ st2 \in Seq(LevelSet) /\ Len(st2) = n
        /\ \A i \in 1 .. n : st2[i] = st[i]
    BY <1>1, PopFacts
  <1> HIDE DEF st2
  <1>3. ASSUME NEW k \in 1 .. n
        PROVE  k \in 1 .. Len(st) /\ st2[k] = st[k] /\ st[k].position <= st[k].position
    <2>1. k \in 1 .. Len(st)
      BY <1>1
    <2>2. st[k] \in LevelSet
      BY <2>1
    <2>3. st[k].position \in Int
      BY <2>2 DEF LevelSet
    <2>4. QED
      BY <2>1, <2>3, <1>2
  <1>4. ASSUME NEW k \in 1 .. Len(st), Kind[st[k].type] = "array"
        PROVE  k \in 1 .. n
    <2>1. k # Len(st)
      BY <1>4
    <2>2. QED
      BY <2>1, <1>1
  <1>5. QED
    BY <1>2, <1>3, <1>4, Zenon DEF Carried, st2

----------------------------------------------------------------------------
\* FlattenSeq is what its recursion says.
LEMMA FlattenIs ==
    ASSUME NEW s, Len(s) \in Nat, Len(s) # 0
    PROVE  \E f : Flattened(f, s, Len(s)) /\ FlattenSeq(s) = f[Len(s)]
  <1> DEFINE F == CHOOSE f : f = [i \in 1 .. Len(s) |-> IF i = 1 THEN s[i] ELSE f[i - 1] \o s[i]]
  <1>1. FlattenSeq(s) = F[Len(s)]
    BY DEF FlattenSeq
  <1>2. \E f : f = [i \in 1 .. Len(s) |-> IF i = 1 THEN s[i] ELSE f[i - 1] \o s[i]]
    BY FlattenedExists DEF Flattened
  <1>3. Flattened(F, s, Len(s))
    BY <1>2, Zenon DEF Flattened
  <1>4. QED
    BY <1>1, <1>3


(***************************************************************************)
(* What the loop over size_insertions makes.                               *)
(***************************************************************************)
LEMMA SpliceJoins ==
    ASSUME TypeOK, InsertionsOrdered
    PROVE  Joined(Splice, out, size_insertions)
  <1> DEFINE K == Len(size_insertions)
             s == [i \in 1 .. K |-> Piece(i)]
  <1>1. /\ out \in Seq(Nat) /\ size_insertions \in Seq(Insertions) /\ K \in Nat
    BY DEF TypeOK
  <1>2. Ordered(out, size_insertions)
    <2>1. \A i \in 1 .. K : size_insertions[i] \in Insertions
      BY <1>1
    <2>2. DOMAIN size_insertions = 1 .. K
      BY <1>1
    <2>3. QED
      BY <2>1, <2>2 DEF Ordered, InsertionsOrdered, Insertions
  <1>3. size_insertions \in Seq(Sizes)
    BY <1>1 DEF Insertions, Sizes
  <1>4. ASSUME NEW k \in Nat
        PROVE  Start(k + 1) = Reached(k, size_insertions)
    <2>1. (k + 1) - 1 = k /\ (k + 1 = 1 <=> k = 0)
      OBVIOUS
    <2>2. QED
      BY <2>1, Zenon DEF Start, Reached
  <1>5. \A k \in 1 .. K : s[k] = SizePiece(k, out, size_insertions)
    <2>1. TAKE k \in 1 .. K
    <2>2. k - 1 \in Nat /\ (k - 1) + 1 = k
      OBVIOUS
    <2>3. Start(k) = Reached(k - 1, size_insertions)
      BY <2>2, <1>4
    <2>4. QED
      BY <2>3, Zenon DEF Piece, SizePiece
  <1>6. Len(s) = K
    BY <1>1
  <1> HIDE DEF s
  <1>7. JoinedUpTo(FlattenSeq(s), K, out, size_insertions)
    <2>1. CASE K = 0
      <3>1. FlattenSeq(s) = s /\ s = << >>
        BY <2>1, <1>6 DEF FlattenSeq, s
      <3>2. QED
        BY <3>1, <2>1, NothingYet, Zenon
    <2>2. CASE K # 0
      <3>1. PICK f : Flattened(f, s, K) /\ FlattenSeq(s) = f[K]
        BY <2>2, <1>1, <1>6, FlattenIs
      <3>2. JoinedUpTo(f[K], K, out, size_insertions)
        BY <3>1, <2>2, <1>1, <1>2, <1>3, <1>5, AllPieces, Zenon
      <3>3. QED
        BY <3>1, <3>2
    <2>3. QED
      BY <2>1, <2>2
  <1>8. Splice = FlattenSeq(s) \o SubSeq(out, Reached(K, size_insertions) + 1, Len(out))
    BY <1>1, <1>4, Zenon DEF Splice, s
  <1>9. QED
    BY <1>1, <1>2, <1>3, <1>7, <1>8, LastPiece, Zenon

----------------------------------------------------------------------------
(***************************************************************************)
(* The conversion is on a way through what it has read and written.        *)
(***************************************************************************)
WaitingNow == reader # << >> /\ Waiting(reader) = "value"
Here == Point(stack, WaitingNow, Len(out), Len(size_insertions))

WInv ==
    /\ IInv
    /\ pc = "begin" => doc = << >> /\ out = << >> /\ size_insertions = << >>
    /\ pc \in {"loop", "object", "done"} => doc # << >>
    /\ pc = "done" => stack = << >> /\ reader = << >> /\ bin = Splice
    /\ pc # "failed" =>
         \E at : Walk(root, doc, at, out, size_insertions, stack, WaitingNow, skipped_extension)

\* The stack entries and insertions of the model, under the names of Wire.
LEMMA Same == Entries = LevelSet /\ Insertions = Sizes
  BY DEF Entries, LevelSet, Insertions, Sizes

\* A conversion starts at the start of the way.
LEMMA WInit == Init => WInv
  <1> SUFFICES ASSUME Init PROVE WInv
    OBVIOUS
  <1>1. IInv
    BY InitInv
  <1>2. /\ doc = << >> /\ out = << >> /\ size_insertions = << >> /\ stack = << >>
        /\ pc = "begin" /\ reader = <<"root">> /\ skipped_extension = FALSE
    BY DEF Init, FreshReader
  <1>3. WaitingNow = FALSE
    BY <1>2 DEF WaitingNow, Waiting
  <1> DEFINE at == [i \in 0 .. 0 |-> FirstPoint]
  <1>4. at[0] = FirstPoint /\ Len(doc) = 0 /\ Len(out) = 0 /\ Len(size_insertions) = 0
    BY <1>2
  <1> HIDE DEF at
  <1>5. /\ FirstPoint.stack = << >> /\ FirstPoint.waiting = FALSE
        /\ FirstPoint.bytes = 0 /\ FirstPoint.sizes = 0
    BY DEF FirstPoint, Point
  <1>6. << >> \in Seq(LevelSet)
    OBVIOUS
  <1>7. LiesIn(at[0], out, size_insertions)
    <2>1. 1 .. Len(size_insertions) = {} /\ 0 \in 0 .. Len(out) /\ 0 \in 0 .. Len(size_insertions)
      BY <1>4
    <2>2. QED
      BY <2>1, <1>4, <1>5, <1>6, Zenon DEF LiesIn
  <1>8. Way(root, doc, at, out, size_insertions)
    BY <1>4, <1>7 DEF Way
  <1>9. at[Len(doc)] = Point(stack, WaitingNow, Len(out), Len(size_insertions))
    BY <1>2, <1>3, <1>4 DEF FirstPoint
  <1>10. AllCounted(doc, at, stack, size_insertions)
    BY <1>4, <1>5 DEF AllCounted
  <1>11. ~LeftOut(doc, at) /\ Shut(doc, at, stack, size_insertions)
    BY <1>4 DEF LeftOut, Shut
  <1>12. Walk(root, doc, at, out, size_insertions, stack, WaitingNow, skipped_extension)
    BY <1>8, <1>9, <1>10, <1>11 DEF Walk
  <1>13. QED
    BY <1>1, <1>2, <1>12 DEF WInv

\* After the first token of a value nothing waits.
LEMMA NotWaiting ==
    ASSUME NEW r \in Seq(Contexts), NEW type \in ValueTokens, type \in Expected(r)
    PROVE  ~(After(r, type) # << >> /\ Waiting(After(r, type)) = "value")
  <1>1. Len(r) > 0 /\ Waiting(r) # "name"
    BY AfterFacts
  <1> DEFINE p == PastValue(r)
  <1>2. /\ p \in Seq(Contexts)
        /\ p # << >> => Waiting(p) # "value"
    <2>1. CASE Waiting(r) = "root"
      BY <1>1, <2>1, PastValueFacts
    <2>2. CASE Waiting(r) # "root"
      <3>1. /\ p \in Seq(Contexts) /\ Len(p) = Len(r)
            /\ p[Len(r)] = IF Waiting(r) = "value" THEN "name" ELSE "item"
        BY <1>1, <2>2, PastValueFacts
      <3>2. QED
        BY <3>1 DEF Waiting
    <2>3. QED
      BY <2>1, <2>2
  <1> HIDE DEF p
  <1>3. /\ type \in {"null", "string"} => After(r, type) = p
        /\ type = "start_object" => After(r, type) = Append(p, "name")
        /\ type = "start_array" => After(r, type) = Append(p, "item")
    BY DEF After, ValueTokens, p
  <1>4. ASSUME NEW c \in {"name", "item"}
        PROVE  Waiting(Append(p, c)) # "value"
    <2>1. Len(Append(p, c)) = Len(p) + 1 /\ Append(p, c)[Len(p) + 1] = c
      BY <1>2, AppendFacts DEF Contexts
    <2>2. QED
      BY <2>1 DEF Waiting
  <1>5. QED
    BY <1>2, <1>3, <1>4 DEF ValueTokens

\* Writing more, and noting no size or one where it ends.
LEMMA GrownOut ==
    ASSUME out \in Seq(Nat), NEW more \in Seq(Nat), out' = out \o more
    PROVE  /\ Longer(out, out') /\ Len(out') = Len(out) + Len(more)
           /\ \A i \in 1 .. Len(more) : out'[Len(out) + i] = more[i]
  <1>1. /\ out' \in Seq(Nat) /\ Len(out') = Len(out) + Len(more)
        /\ \A i \in 1 .. Len(out) : out'[i] = out[i]
        /\ \A i \in 1 .. Len(more) : out'[Len(out) + i] = more[i]
    BY Behind
  <1>2. QED
    BY <1>1 DEF Longer

\* No size is noted.
LEMMA SameSizes ==
    ASSUME size_insertions \in Seq(Insertions), size_insertions' = size_insertions
    PROVE  SizesGrown(size_insertions, size_insertions', out)
  BY Same DEF SizesGrown

(***************************************************************************)
(* The first token of a value is the move that it should be.               *)
(***************************************************************************)
LEMMA StartMoves ==
    ASSUME TypeOK, NEW t \in Types, NEW allow \in BOOLEAN, NEW tok \in Tokens(Strings),
           NEW below, StartValue(t, allow, tok, below), pc' # "failed",
           NEW waiting, WaitingNow' = FALSE
    PROVE  /\ ValueMove(t, allow, below, Point(stack, waiting, Len(out), Len(size_insertions)),
                        tok, Here', out', size_insertions')
           /\ Longer(out, out') /\ SizesGrown(size_insertions, size_insertions', out)
           /\ \A n \in 1 .. Len(size_insertions) :
                 size_insertions'[n].size = size_insertions[n].size
           /\ \/ stack' = below
              \/ \E e : /\ stack' = Append(below, e)
                        /\ Kind[e.type] = "array" =>
                              e.size_insertion_index = Len(size_insertions) + 1
           /\ skipped_extension' = skipped_extension /\ pc' \in {"loop", "object"}
           /\ tok.type \in ValueTokens
  <1> DEFINE a == Point(stack, waiting, Len(out), Len(size_insertions))
             at == a.bytes + Flag(t)
  <1>1. /\ out \in Seq(Nat) /\ size_insertions \in Seq(Insertions) /\ Len(out) \in Nat
        /\ Len(size_insertions) \in Nat
    BY DEF TypeOK
  <1>2. /\ a.stack = stack /\ a.waiting = waiting /\ a.bytes = Len(out)
        /\ a.sizes = Len(size_insertions)
    BY DEF Point
  <1> HIDE DEF a
  <1>3. Here' = Point(stack', FALSE, Len(out'), Len(size_insertions'))
    BY DEF Here
  <1>4. \A e \in Errors \ {"none"} : ~Fail(e)
    BY DEF Fail
  <1>5. CASE AbsentOptional(t, tok, below)
    <2>1. /\ Optional(t) /\ tok.type = "null" /\ out' = Append(out, 0) /\ stack' = below
          /\ pc' = "loop" /\ UNCHANGED <<size_insertions, skipped_extension>>
      BY <1>5 DEF AbsentOptional, Return
    <2>2. tok = Token("null")
      BY <2>1 DEF Tokens, TokenTypes, ValueTokens, Token
    <2>3. out' = out \o <<0>> /\ <<0>> \in Seq(Nat) /\ Len(<<0>>) = 1 /\ <<0>>[1] = 0
      BY <2>1, <1>1
    <2>4. Longer(out, out') /\ Len(out') = Len(out) + 1 /\ out'[Len(out) + 1] = 0
      <3>1. /\ Longer(out, out') /\ Len(out') = Len(out) + Len(<<0>>)
            /\ \A i \in 1 .. Len(<<0>>) : out'[Len(out) + i] = <<0>>[i]
        BY <2>3, <1>1, GrownOut
      <3>2. QED
        BY <3>1, <2>3
    <2>5. AbsentMove(t, below, a, tok, Here', out')
      <3>1. Len(out) < Len(out')
        BY <2>4, <1>1
      <3>2. QED
        BY <3>1, <2>1, <2>2, <2>4, <1>2, <1>3 DEF AbsentMove
    <2>6. ValueMove(t, allow, below, a, tok, Here', out', size_insertions')
      BY <2>5 DEF ValueMove
    <2>7. SizesGrown(size_insertions, size_insertions', out)
      BY <2>1, <1>1, SameSizes
    <2>8. tok.type \in ValueTokens
      BY <2>1 DEF ValueTokens
    <2>9. QED
      BY <2>1, <2>4, <2>6, <2>7, <2>8 DEF a
  <1>6. CASE /\ ~(Optional(t) /\ tok.type = "null")
             /\ \/ StartBuiltin(t, tok, below)
                \/ StartStruct(t, allow, tok, below)
                \/ StartArray(t, tok, below)
                \/ StartFixedArray(t, tok, below)
                \/ StartVariant(t, allow, tok, below)
    <2>1. /\ Presence(t) \in Seq(Nat) /\ Len(Presence(t)) = Flag(t)
          /\ Optional(t) => Presence(t)[1] = 1
          /\ Flag(t) \in {0, 1} /\ (Optional(t) => Flag(t) = 1)
      BY DEF Presence, Flag
    <2>2. at = Len(out) + Flag(t) /\ at \in Nat
      BY <2>1, <1>1, <1>2
    <2> HIDE DEF at
    \* The presence byte alone.
    <2>3. ASSUME out' = out \o Presence(t)
          PROVE  /\ Longer(out, out') /\ Len(out') = at
                 /\ Optional(t) => a.bytes < Len(out') /\ out'[a.bytes + 1] = 1
      <3>1. /\ Longer(out, out') /\ Len(out') = Len(out) + Len(Presence(t))
            /\ \A i \in 1 .. Len(Presence(t)) : out'[Len(out) + i] = Presence(t)[i]
        BY <2>1, <2>3, <1>1, GrownOut
      <3>2. Optional(t) => 1 \in 1 .. Len(Presence(t)) /\ Len(out) < Len(out')
        BY <2>1, <3>1, <1>1
      <3>3. QED
        BY <3>1, <3>2, <2>1, <2>2, <1>2
    <2>4. CASE StartBuiltin(t, tok, below)
      <3>1. /\ Kind[Base(t)] = "builtin" /\ tok.type = "string" /\ tok.text \in Scalars
            /\ out' = out \o Presence(t) \o <<ByteOf(tok.text)>> /\ stack' = below
            /\ pc' = "loop" /\ UNCHANGED <<size_insertions, skipped_extension>>
        BY <2>4, <1>4 DEF StartBuiltin, Return, Errors
      <3>2. PICK v : v = ByteOf(tok.text)
        OBVIOUS
      <3>3. v \in Byte /\ TextOf[v] = tok.text
        BY <3>1, <3>2 DEF Scalars, ByteOf
      <3>4. v \in Nat
        BY <3>3, ByteAssumption DEF Byte
      <3>5. tok = [type |-> "string", text |-> TextOf[v]]
        BY <3>1, <3>3 DEF Tokens
      <3> DEFINE more == Presence(t) \o <<v>>
      <3>6. /\ more \in Seq(Nat) /\ Len(more) = Flag(t) + 1 /\ more[Flag(t) + 1] = v
            /\ Optional(t) => more[1] = 1
        <4>1. <<v>> \in Seq(Nat) /\ Len(<<v>>) = 1 /\ <<v>>[1] = v
          BY <3>4
        <4>2. /\ more \in Seq(Nat) /\ Len(more) = Len(Presence(t)) + Len(<<v>>)
              /\ \A i \in 1 .. Len(Presence(t)) : more[i] = Presence(t)[i]
              /\ \A i \in 1 .. Len(<<v>>) : more[Len(Presence(t)) + i] = <<v>>[i]
          BY <4>1, <2>1, Behind
        <4> HIDE DEF more
        <4>3. 1 \in 1 .. Len(<<v>>) /\ (Optional(t) => 1 \in 1 .. Len(Presence(t)))
          BY <4>1, <2>1
        <4>4. QED
          BY <4>1, <4>2, <4>3, <2>1
      <3>7. out' = out \o more
        <4>1. <<v>> \in Seq(Nat)
          BY <3>4
        <4>2. QED
          BY <4>1, <3>1, <3>2, <2>1, <1>1, Associative
      <3> HIDE DEF more
      <3>8. /\ Longer(out, out') /\ Len(out') = at + 1 /\ out'[at + 1] = v
            /\ Optional(t) => a.bytes < Len(out') /\ out'[a.bytes + 1] = 1
        <4>1. /\ Longer(out, out') /\ Len(out') = Len(out) + Len(more)
              /\ \A i \in 1 .. Len(more) : out'[Len(out) + i] = more[i]
          BY <3>6, <3>7, <1>1, GrownOut
        <4>2. /\ Len(out) + Len(more) = at + 1 /\ Len(out) + (Flag(t) + 1) = at + 1
              /\ Flag(t) + 1 \in 1 .. Len(more) /\ 1 \in 1 .. Len(more)
              /\ Len(out) < at + 1
          BY <3>6, <2>1, <2>2, <1>1
        <4>3. out'[at + 1] = more[Flag(t) + 1]
          <5>1. out'[Len(out) + (Flag(t) + 1)] = more[Flag(t) + 1]
            BY <4>1, <4>2, Zenon
          <5>2. QED
            BY <5>1, <4>2, Zenon
        <4>4. out'[Len(out) + 1] = more[1]
          BY <4>1, <4>2, Zenon
        <4>5. QED
          BY <4>1, <4>2, <4>3, <4>4, <3>6, <1>2
      <3>9. ScalarMove(t, below, at, a, tok, Here', out')
        <4>1. at < Len(out')
          BY <3>8, <2>2
        <4>2. Here' = Point(below, FALSE, at + 1, a.sizes)
          BY <3>1, <3>8, <1>2, <1>3
        <4>3. QED
          BY <4>1, <4>2, <3>1, <3>3, <3>5, <3>8, Zenon DEF ScalarMove
      <3>10. ValueMove(t, allow, below, a, tok, Here', out', size_insertions')
        BY <3>8, <3>9, Zenon DEF ValueMove, at
      <3>11. SizesGrown(size_insertions, size_insertions', out)
        BY <3>1, <1>1, SameSizes
      <3>12. QED
        BY <3>1, <3>8, <3>10, <3>11 DEF a, ValueTokens
    <2>5. ASSUME NEW level,
                 /\ Kind[Base(t)] \in {"struct", "variant", "fixed_array"}
                 /\ tok = Token(IF Kind[Base(t)] = "struct" THEN "start_object" ELSE "start_array")
                 /\ out' = out \o Presence(t) /\ size_insertions' = size_insertions
                 /\ stack' = Append(below, level)
                 /\ level = Level(Base(t), allow /\ Kind[Base(t)] # "fixed_array", 0)
          PROVE  /\ ValueMove(t, allow, below, a, tok, Here', out', size_insertions')
                 /\ Kind[level.type] # "array"
      <3>1. /\ Longer(out, out') /\ Len(out') = at
            /\ Optional(t) => a.bytes < Len(out') /\ out'[a.bytes + 1] = 1
        BY <2>3, <2>5
      <3>2. Here' = Point(Append(below, level), FALSE, at, a.sizes)
        BY <3>1, <2>5, <1>2, <1>3
      <3>3. OpenMove(t, allow, below, at, a, tok, Here')
        BY <3>2, <2>5, Zenon DEF OpenMove
      <3>4. Kind[level.type] # "array"
        BY <2>5 DEF Level
      <3>5. QED
        BY <3>1, <3>3, <3>4, Zenon DEF ValueMove, at
    <2>6. CASE StartStruct(t, allow, tok, below)
      <3>1. /\ Kind[Base(t)] = "struct" /\ tok.type = "start_object"
            /\ out' = out \o Presence(t) /\ stack' = Append(below, Entry(Base(t), allow, 0))
            /\ pc' = "object" /\ UNCHANGED <<size_insertions, skipped_extension>>
        BY <2>6, <1>4 DEF StartStruct, Errors
      <3>2. tok = Token("start_object")
        BY <3>1 DEF Tokens, TokenTypes, ValueTokens, Token
      <3>3. Longer(out, out')
        BY <2>3, <3>1
      <3>4. PICK level : level = Entry(Base(t), allow, 0)
        OBVIOUS
      <3>5. /\ ValueMove(t, allow, below, a, tok, Here', out', size_insertions')
            /\ Kind[level.type] # "array"
        <4>0. allow = (allow /\ Kind[Base(t)] # "fixed_array")
          BY <3>1
        <4>1. level = Level(Base(t), allow /\ Kind[Base(t)] # "fixed_array", 0)
          BY <4>0, <3>4, Zenon DEF Entry, Level
        <4>2. QED
          BY <4>1, <3>1, <3>2, <3>4, <2>5
      <3>6. SizesGrown(size_insertions, size_insertions', out)
        BY <3>1, <1>1, SameSizes
      <3>7. QED
        BY <3>1, <3>3, <3>4, <3>5, <3>6 DEF a, ValueTokens
    <2>7. CASE StartFixedArray(t, tok, below) \/ StartVariant(t, allow, tok, below)
      <3>1. /\ Kind[Base(t)] \in {"fixed_array", "variant"} /\ tok.type = "start_array"
            /\ out' = out \o Presence(t)
            /\ \/ Kind[Base(t)] = "fixed_array" /\ stack' = Append(below, Entry(Base(t), FALSE, 0))
               \/ Kind[Base(t)] = "variant" /\ stack' = Append(below, Entry(Base(t), allow, 0))
            /\ pc' = "loop" /\ UNCHANGED <<size_insertions, skipped_extension>>
        BY <2>7, <1>4 DEF StartFixedArray, StartVariant, Return, Errors
      <3>2. tok = Token("start_array")
        BY <3>1 DEF Tokens, TokenTypes, ValueTokens, Token
      <3>3. Longer(out, out')
        BY <2>3, <3>1
      <3>4. PICK level : /\ stack' = Append(below, level)
                         /\ level = Level(Base(t), allow /\ Kind[Base(t)] # "fixed_array", 0)
        <4>1. CASE Kind[Base(t)] = "fixed_array"
          <5>1. FALSE = (allow /\ Kind[Base(t)] # "fixed_array")
            BY <4>1
          <5>2. stack' = Append(below, Entry(Base(t), FALSE, 0))
            BY <4>1, <3>1
          <5>3. QED
            BY <5>1, <5>2, Zenon DEF Entry, Level
        <4>2. CASE Kind[Base(t)] = "variant"
          <5>1. allow = (allow /\ Kind[Base(t)] # "fixed_array")
            BY <4>2
          <5>2. stack' = Append(below, Entry(Base(t), allow, 0))
            BY <4>2, <3>1
          <5>3. QED
            BY <5>1, <5>2, Zenon DEF Entry, Level
        <4>3. QED
          BY <3>1, <4>1, <4>2
      <3>5. /\ ValueMove(t, allow, below, a, tok, Here', out', size_insertions')
            /\ Kind[level.type] # "array"
        BY <3>1, <3>2, <3>4, <2>5
      <3>6. SizesGrown(size_insertions, size_insertions', out)
        BY <3>1, <1>1, SameSizes
      <3>7. QED
        BY <3>1, <3>3, <3>4, <3>5, <3>6 DEF a, ValueTokens
    <2>8. CASE StartArray(t, tok, below)
      <3>1. /\ Kind[Base(t)] = "array" /\ tok.type = "start_array"
            /\ out' = out \o Presence(t)
            /\ size_insertions' = Append(size_insertions, [position |-> Len(out'), size |-> 0])
            /\ stack' = Append(below, Entry(Base(t), FALSE, Len(size_insertions')))
            /\ pc' = "loop" /\ UNCHANGED skipped_extension
        BY <2>8, <1>4 DEF StartArray, Return, Errors
      <3>2. tok = Token("start_array")
        BY <3>1 DEF Tokens, TokenTypes, ValueTokens, Token
      <3>3. /\ Longer(out, out') /\ Len(out') = at
            /\ Optional(t) => a.bytes < Len(out') /\ out'[a.bytes + 1] = 1
        BY <2>3, <3>1
      <3>4. PICK m \in Nat : m = Len(size_insertions)
        BY <1>1
      <3>5. PICK new : new = [position |-> at, size |-> 0]
        OBVIOUS
      <3>6. new \in Insertions /\ new.position = at
        BY <3>5, <2>2 DEF Insertions
      <3>7. /\ size_insertions' \in Seq(Insertions) /\ Len(size_insertions') = m + 1
            /\ size_insertions'[m + 1] = new
            /\ \A i \in 1 .. m : size_insertions'[i] = size_insertions[i]
        BY <3>1, <3>3, <3>4, <3>5, <3>6, <1>1, AppendFacts
      <3>8. SizesGrown(size_insertions, size_insertions', out)
        <4>1. at >= Len(out)
          BY <2>1, <2>2, <1>1
        <4>2. \A i \in m + 1 .. m + 1 : size_insertions'[i].position >= Len(out)
          BY <4>1, <3>6, <3>7
        <4>3. \A i \in 1 .. m : size_insertions'[i].position = size_insertions[i].position
          BY <3>7
        <4>4. m <= m + 1
          OBVIOUS
        <4>5. QED
          BY <4>2, <4>3, <4>4, <3>4, <3>7, <1>1, Same, Zenon DEF SizesGrown
      <3>9. PICK level : level = Level(Base(t), FALSE, m + 1)
        OBVIOUS
      <3>10. stack' = Append(below, level)
        BY <3>1, <3>7, <3>9 DEF Entry, Level
      <3>11. ArrayMove(t, below, at, a, tok, Here', size_insertions')
        <4>1. Here' = Point(Append(below, level), FALSE, at, a.sizes + 1)
          BY <3>3, <3>4, <3>7, <3>10, <1>2, <1>3
        <4>2. a.sizes < Len(size_insertions')
          BY <3>4, <3>7, <1>2
        <4>3. size_insertions'[a.sizes + 1].position = at
          BY <3>4, <3>6, <3>7, <1>2
        <4>4. QED
          BY <4>1, <4>2, <4>3, <3>1, <3>2, <3>4, <3>9, <1>2, Zenon DEF ArrayMove
      <3>12. ValueMove(t, allow, below, a, tok, Here', out', size_insertions')
        BY <3>3, <3>11, Zenon DEF ValueMove, at
      <3>13. \A n \in 1 .. Len(size_insertions) : size_insertions'[n].size = size_insertions[n].size
        BY <3>4, <3>7
      <3>14. level.size_insertion_index = Len(size_insertions) + 1
        BY <3>4, <3>9 DEF Level
      <3>15. QED
        BY <3>1, <3>3, <3>8, <3>10, <3>12, <3>13, <3>14 DEF a, ValueTokens
    <2>9. QED
      BY <2>4, <2>6, <2>7, <2>8, <1>6
  <1>7. QED
    BY <1>5, <1>6 DEF StartValue

\* Every entry of the stack is counted while its array is open.
LEMMA CountedNow ==
    ASSUME NEW st \in Seq(LevelSet), NEW rd, NEW sizes \in Seq(Sizes),
           Levels(st, rd, Len(sizes))
    PROVE  OwnSizes(st) /\ \A j \in 1 .. Len(st) : Counted(st[j], st, sizes)
  <1>1. OwnSizes(st)
    BY DEF Levels, OwnSizes
  <1>2. ASSUME NEW j \in 1 .. Len(st), Kind[st[j].type] = "array"
        PROVE  Counted(st[j], st, sizes)
    <2>1. PICK n : n = st[j].size_insertion_index
      OBVIOUS
    <2>2. n \in 1 .. Len(sizes)
      <3>1. CASE j < Len(st)
        <4>1. Inside(st[j], rd[j], Len(sizes))
          BY <3>1 DEF Levels
        <4>2. QED
          BY <4>1, <2>1, <1>2 DEF Inside, OwnsSize
      <3>2. CASE j = Len(st)
        <4>1. AtTop(st[j], rd[j], Len(sizes))
          BY <3>2 DEF Levels
        <4>2. QED
          BY <4>1, <2>1, <1>2 DEF AtTop, OwnsSize
      <3>3. QED
        BY <3>1, <3>2
    <2>3. HoldsSize(st[j], n)
      BY <1>2, <2>1 DEF HoldsSize
    <2>4. Opened(st, n)
      BY <2>3, Zenon DEF Opened
    <2>5. st[j] \in LevelSet
      OBVIOUS
    <2>6. st[j].position \in Int
      BY <2>5 DEF LevelSet
    <2>7. st[j].position <= st[j].position
      BY <2>6
    <2>8. ASSUME NEW k \in 1 .. Len(st), HoldsSize(st[k], n)
          PROVE  st[j].position <= st[k].position
      <3>1. k = j
        BY <2>3, <2>8, <1>1, OneHolder, Zenon
      <3>2. QED
        BY <3>1, <2>7
    <2>9. QED
      BY <2>1, <2>2, <2>4, <2>8, Zenon DEF Counted
  <1>3. \A j \in 1 .. Len(st) : Counted(st[j], st, sizes)
    BY <1>2, Zenon DEF Counted
  <1>4. QED
    BY <1>1, <1>3

(***************************************************************************)
(* A token that leads on keeps the way.                                    *)
(***************************************************************************)
LEMMA TokenStep ==
    ASSUME WInv, IInv', pc \in {"begin", "loop", "object"}, pc' \in {"loop", "object"},
           root' = root, NEW tok \in Tokens(Strings), doc' = Append(doc, tok),
           Longer(out, out'), SizesGrown(size_insertions, size_insertions', out),
           skipped_extension => out' = out /\ size_insertions' = size_insertions,
           skipped_extension => skipped_extension',
           tok.type = "end_object" /\ doc # << >> /\ LeavesOut(Here) => skipped_extension',
           LeadsOn(root, doc, Here, tok, Here', out', size_insertions'),
           ArraysKept(stack, size_insertions, stack', size_insertions'),
           tok.type = "end_array" /\ doc # << >> /\ Kind[Top.type] = "array" =>
               /\ Top.size_insertion_index \in 1 .. Len(size_insertions)
               /\ ~Opened(stack', Top.size_insertion_index)
    PROVE  WInv'
  <1>1. /\ doc \in Seq(Tokens(Strings)) /\ stack \in Seq(LevelSet)
        /\ stack' \in Seq(LevelSet) /\ size_insertions' \in Seq(Sizes)
    BY Same, SMTT(60) DEF WInv, IInv, TypeOK
  <1>2. doc' # << >>
    BY <1>1, SMTT(60)
  <1>3. WaitingNow' \in BOOLEAN
    BY DEF WaitingNow
  <1>4. \A i \in 1 .. Len(size_insertions') : size_insertions'[i].position <= Len(out')
    <2>1. InsertionsOrdered' /\ DOMAIN size_insertions' = 1 .. Len(size_insertions')
      BY <1>1 DEF IInv
    <2>2. QED
      BY <2>1, Zenon DEF InsertionsOrdered
  <1>5. \A j \in 1 .. Len(stack') : Counted(stack'[j], stack', size_insertions')
    <2>1. Levels(stack', reader', Len(size_insertions'))
      BY DEF IInv
    <2>2. QED
      BY <2>1, <1>1, CountedNow
  <1>6. PICK at : Walk(root, doc, at, out, size_insertions, stack, WaitingNow, skipped_extension)
    BY DEF WInv
  <1>7. PICK p : p = Here'
    OBVIOUS
  <1>8. PICK w : w = WaitingNow
    OBVIOUS
  <1>9. PICK w2 \in BOOLEAN : w2 = WaitingNow'
    BY <1>3
  <1>10. /\ Here = Point(stack, w, Len(out), Len(size_insertions))
         /\ p = Point(stack', w2, Len(out'), Len(size_insertions'))
         /\ Top = stack[Len(stack)]
    BY <1>7, <1>8, <1>9 DEF Here, Top
  <1>11. \E at2 : Walk(root, Append(doc, tok), at2, out', size_insertions', stack', w2,
                       skipped_extension')
    <2>1. Walk(root, doc, at, out, size_insertions, stack, w, skipped_extension)
      BY <1>6, <1>8
    <2>2. LeadsOn(root, doc, Point(stack, w, Len(out), Len(size_insertions)), tok, p,
                  out', size_insertions')
      BY <1>7, <1>10
    <2>3. (/\ tok.type = "end_object" /\ doc # << >>
           /\ LeavesOut(Point(stack, w, Len(out), Len(size_insertions)))) => skipped_extension'
      BY <1>10
    <2>4. tok.type = "end_array" /\ doc # << >> /\ Kind[stack[Len(stack)].type] = "array" =>
              /\ stack[Len(stack)].size_insertion_index \in 1 .. Len(size_insertions)
              /\ ~Opened(stack', stack[Len(stack)].size_insertion_index)
      BY <1>10
    <2>5. skipped_extension =>
              Len(out') = Len(out) /\ Len(size_insertions') = Len(size_insertions)
      OBVIOUS
    <2>6. QED
      <3>1. Continues(root, doc, out, size_insertions, stack, w, skipped_extension,
                      tok, out', size_insertions', stack', w2, skipped_extension')
        BY <1>1, <1>4, <1>5, <1>10, <2>2, <2>3, <2>4, <2>5, Zenon DEF Continues
      <3>2. QED
        BY <3>1, <2>1, OneMoreToken, Zenon
  <1>12. \E at2 : Walk(root', doc', at2, out', size_insertions', stack', WaitingNow',
                       skipped_extension')
    BY <1>9, <1>11, Zenon
  <1>13. QED
    BY <1>2, <1>12 DEF WInv

\* A failure ends the way.
LEMMA FailKeeps ==
    ASSUME IInv', pc' = "failed"
    PROVE  WInv'
  BY DEF WInv

\* The first token of a value, wherever it is.
LEMMA StartKeeps ==
    ASSUME WInv, IInv', pc \in {"begin", "loop", "object"}, root' = root,
           NEW tok \in Tokens(Strings), Read(tok), ~skipped_extension,
           NEW t \in Types, NEW allow \in BOOLEAN, NEW below \in Seq(LevelSet),
           StartValue(t, allow, tok, below),
           Carried(stack, below, Len(size_insertions)),
           ValueMove(t, allow, below, Here, tok, Here', out', size_insertions')
               => LeadsOn(root, doc, Here, tok, Here', out', size_insertions')
    PROVE  WInv'
  <1>1. CASE pc' = "failed"
    BY <1>1, FailKeeps
  <1>2. CASE pc' # "failed"
    <2>1. /\ TypeOK /\ reader \in Seq(Contexts) /\ reader' = After(reader, tok.type)
          /\ tok.type \in Expected(reader) /\ doc' = Append(doc, tok)
          /\ stack \in Seq(LevelSet) /\ size_insertions \in Seq(Sizes)
          /\ stack' \in Seq(LevelSet)
      BY Same DEF WInv, IInv, TypeOK, Read
    <2>2. tok.type \in ValueTokens
      BY <1>2 DEF StartValue, AbsentOptional, StartBuiltin, StartStruct, StartArray,
                  StartFixedArray, StartVariant, Fail, ValueTokens
    <2>3. WaitingNow' = FALSE
      BY <2>1, <2>2, NotWaiting DEF WaitingNow
    <2>4. PICK w : w = WaitingNow
      OBVIOUS
    <2>5. /\ ValueMove(t, allow, below, Point(stack, w, Len(out), Len(size_insertions)),
                       tok, Here', out', size_insertions')
          /\ Longer(out, out') /\ SizesGrown(size_insertions, size_insertions', out)
          /\ \A n \in 1 .. Len(size_insertions) :
                size_insertions'[n].size = size_insertions[n].size
          /\ \/ stack' = below
             \/ \E e : /\ stack' = Append(below, e)
                       /\ Kind[e.type] = "array" =>
                             e.size_insertion_index = Len(size_insertions) + 1
          /\ skipped_extension' = skipped_extension /\ pc' \in {"loop", "object"}
      BY <1>2, <2>1, <2>3, StartMoves
    <2>6. Here = Point(stack, w, Len(out), Len(size_insertions))
      BY <2>4 DEF Here
    <2>7. LeadsOn(root, doc, Here, tok, Here', out', size_insertions')
      BY <2>5, <2>6
    <2>8. Carried(stack, stack', Len(size_insertions))
      <3>1. CASE stack' = below
        BY <3>1
      <3>2. CASE \E e : /\ stack' = Append(below, e)
                        /\ Kind[e.type] = "array" =>
                              e.size_insertion_index = Len(size_insertions) + 1
        <4>1. PICK e : /\ stack' = Append(below, e)
                       /\ Kind[e.type] = "array" =>
                             e.size_insertion_index = Len(size_insertions) + 1
          BY <3>2
        <4>2. e \in LevelSet
          <5>1. stack'[Len(below) + 1] = e /\ Len(stack') = Len(below) + 1
            BY <4>1
          <5>2. QED
            BY <5>1, <2>1
        <4>3. Len(size_insertions) \in Nat
          BY <2>1
        <4>4. QED
          BY <4>1, <4>2, <4>3, <2>1, CarriedPushed
      <3>3. QED
        BY <3>1, <3>2, <2>5
    <2>9. OwnSizes(stack)
      <3>1. CASE pc = "begin"
        <4>1. Len(stack) = 0
          BY <3>1 DEF WInv, IInv
        <4>2. QED
          BY <4>1 DEF OwnSizes
      <3>2. CASE pc # "begin"
        <4>1. Levels(stack, reader, Len(size_insertions))
          BY <3>2 DEF WInv, IInv
        <4>2. QED
          BY <4>1, <2>1, CountedNow
      <3>3. QED
        BY <3>1, <3>2
    <2>10. ArraysKept(stack, size_insertions, stack', size_insertions')
      BY <2>1, <2>5, <2>8, <2>9, CarriedKeeps
    <2>11. tok.type # "end_array" /\ tok.type # "end_object"
      BY <2>2 DEF ValueTokens
    <2>12. QED
      BY <2>1, <2>5, <2>7, <2>10, <2>11, TokenStep
  <1>3. QED
    BY <1>1, <1>2

\* One lemma per action: it keeps the way.
LEMMA BeginKeeps == WInv /\ IInv' /\ Begin => WInv'
  <1> SUFFICES ASSUME WInv, IInv', Begin PROVE WInv'
    OBVIOUS
  <1>1. PICK tok \in Tokens(Strings) : Read(tok) /\ StartValue(root, TRUE, tok, << >>)
    BY DEF Begin
  <1>2. /\ pc = "begin" /\ root' = root /\ root \in Types /\ ~skipped_extension
        /\ stack = << >> /\ doc = << >> /\ TypeOK
    BY DEF Begin, WInv, IInv, TypeOK, SkippedAtEnd
  <1>3. << >> \in Seq(LevelSet) /\ Carried(stack, << >>, Len(size_insertions))
    BY <1>2 DEF Carried
  <1>4. ValueMove(root, TRUE, << >>, Here, tok, Here', out', size_insertions')
            => LeadsOn(root, doc, Here, tok, Here', out', size_insertions')
    BY <1>2 DEF LeadsOn
  <1>5. QED
    BY <1>1, <1>2, <1>3, <1>4, StartKeeps

\* Where the serializer of the innermost value is called.
LEMMA HereFacts ==
    ASSUME WInv, Len(stack) > 0, pc \in {"loop", "object"}
    PROVE  /\ Here.stack = stack /\ Here.waiting = (Waiting(reader) = "value")
           /\ Here.bytes = Len(out) /\ Here.sizes = Len(size_insertions)
           /\ Innermost(Here) = Top
           /\ \A p : MovedTo(Here, p) = WithPosition(p)
           /\ doc # << >> /\ stack # << >>
           /\ stack \in Seq(LevelSet) /\ size_insertions \in Seq(Sizes) /\ OwnSizes(stack)
  <1>1. Here.stack = stack /\ Here.waiting = WaitingNow /\ Here.bytes = Len(out)
        /\ Here.sizes = Len(size_insertions)
    BY DEF Here, Point
  <1>2. /\ stack \in Seq(LevelSet) /\ size_insertions \in Seq(Sizes)
        /\ Len(reader) = Len(stack) /\ Levels(stack, reader, Len(size_insertions))
    BY TurnFacts, Same DEF WInv
  <1>3. reader # << >> /\ stack # << >>
    BY <1>2
  <1>4. WaitingNow = (Waiting(reader) = "value")
    BY <1>3 DEF WaitingNow
  <1>5. Innermost(Here) = Top /\ \A p : MovedTo(Here, p) = WithPosition(p)
    BY <1>1 DEF Innermost, MovedTo, Top, WithPosition
  <1>6. OwnSizes(stack)
    BY <1>2, CountedNow
  <1>7. doc # << >>
    BY DEF WInv
  <1>8. QED
    BY <1>1, <1>2, <1>3, <1>4, <1>5, <1>6, <1>7

\* A token that writes nothing.
LEMMA WritesNothing ==
    ASSUME WInv, IInv', Len(stack) > 0, pc \in {"loop", "object"}, pc' = "loop",
           root' = root, NEW tok \in Tokens(Strings), Read(tok),
           UNCHANGED <<out, size_insertions>>,
           skipped_extension => skipped_extension',
           tok.type = "end_object" /\ LeavesOut(Here) => skipped_extension',
           Carried(stack, stack', Len(size_insertions)),
           tok.type = "end_array" => Kind[Top.type] # "array",
           Move(Here, tok, Here', out, size_insertions)
    PROVE  WInv'
  <1>1. /\ TypeOK /\ out \in Seq(Nat) /\ size_insertions \in Seq(Insertions)
        /\ stack' \in Seq(LevelSet) /\ size_insertions' = size_insertions /\ out' = out
    BY Same DEF WInv, IInv, TypeOK
  <1>2. /\ doc # << >> /\ stack \in Seq(LevelSet) /\ size_insertions \in Seq(Sizes)
        /\ OwnSizes(stack)
    BY HereFacts
  <1>3. Longer(out, out')
    BY <1>1 DEF Longer
  <1>4. SizesGrown(size_insertions, size_insertions', out)
    BY <1>1, SameSizes
  <1>5. LeadsOn(root, doc, Here, tok, Here', out', size_insertions')
    BY <1>1, <1>2 DEF LeadsOn
  <1>6. \A n \in 1 .. Len(size_insertions) : size_insertions'[n].size = size_insertions[n].size
    BY <1>1
  <1>7. ArraysKept(stack, size_insertions, stack', size_insertions')
    BY <1>1, <1>2, <1>6, CarriedKeeps
  <1>8. doc' = Append(doc, tok)
    BY DEF Read
  <1>9. QED
    BY <1>1, <1>3, <1>4, <1>5, <1>7, <1>8, TokenStep

\* At the end of a container what is above it waits for no value.
LEMMA EndedWaitsNot ==
    ASSUME IInv, Len(stack) > 0, pc \in {"loop", "object"}, reader' = Pop(reader)
    PROVE  WaitingNow' = FALSE
  <1>1. /\ stack \in Seq(Entries) /\ reader \in Seq(Contexts) /\ Len(reader) = Len(stack)
        /\ Levels(stack, reader, Len(size_insertions)) /\ Len(size_insertions) \in Nat
    BY TurnFacts
  <1>2. /\ \A i \in 1 .. Len(Pop(stack)) : Pop(reader)[i] # "value"
        /\ Len(Pop(stack)) = Len(Pop(reader)) /\ Pop(reader) \in Seq(Contexts)
    BY <1>1, PopLevels, PopFacts
  <1>3. reader' # << >> => Len(reader') \in 1 .. Len(Pop(stack))
    BY <1>2
  <1>4. reader' # << >> => Waiting(reader') # "value"
    BY <1>2, <1>3 DEF Waiting
  <1>5. QED
    BY <1>4 DEF WaitingNow

\* The innermost value stays open and moves on.
LEMMA TopMoved ==
    ASSUME WInv, Len(stack) > 0, pc \in {"loop", "object"}, NEW p \in Int, p >= Top.position
    PROVE  /\ WithPosition(p) \in Seq(LevelSet)
           /\ Carried(stack, WithPosition(p), Len(size_insertions))
  <1>1. /\ stack \in Seq(Entries) /\ stack \in Seq(LevelSet) /\ Len(stack) \in Nat
        /\ Top.position \in Int
    BY TurnFacts, Same DEF WInv
  <1>2. PICK e \in Entries :
             /\ WithPosition(p) = [stack EXCEPT ![Len(stack)] = e]
             /\ e.type = Top.type /\ e.position = p
             /\ e.size_insertion_index = Top.size_insertion_index
    BY <1>1, Moved
  <1> DEFINE st2 == WithPosition(p)
  <1>3. /\ st2 \in Seq(Entries) /\ Len(st2) = Len(stack) /\ st2[Len(stack)] = e
        /\ \A i \in 1 .. Len(stack) - 1 : st2[i] = stack[i]
    BY <1>1, <1>2
  <1> HIDE DEF st2
  <1>4. st2 \in Seq(LevelSet)
    BY <1>3, Same
  <1>5. Carried(stack, st2, Len(size_insertions))
    <2>1. /\ st2[Len(stack)].type = stack[Len(stack)].type
          /\ st2[Len(stack)].size_insertion_index = stack[Len(stack)].size_insertion_index
          /\ stack[Len(stack)].position <= st2[Len(stack)].position
      BY <1>1, <1>2, <1>3 DEF Top
    <2>2. QED
      BY <2>1, <1>1, <1>3, <1>4, CarriedMoved
  <1>6. QED
    BY <1>4, <1>5 DEF st2

LEMMA ObjectKeeps == WInv /\ IInv' /\ [Next]_vars /\ Object => WInv'
  <1> SUFFICES ASSUME WInv, IInv', Object PROVE WInv'
    OBVIOUS
  <1> DEFINE next == Top.position + 1
             n == Len(Fields[Top.type])
  <1>1. PICK tok \in Tokens(Strings) :
          Read(tok) /\ (EndObject(tok) \/ FieldKey(tok) \/ FieldValue(tok))
    BY DEF Object
  <1>2. /\ pc \in {"loop", "object"} /\ root' = root /\ IInv
        /\ Len(stack) > 0 /\ Kind[Top.type] = "struct"
    BY DEF Object, Turn, WInv, IInv, TypeOK
  <1>3. /\ TypeOK /\ Top \in Entries /\ Top.type \in Types /\ Top.position \in Int
        /\ Top.allow_extensions \in BOOLEAN /\ n \in Nat
        /\ stack \in Seq(Entries) /\ Len(stack) \in Nat
        /\ reader \in Seq(Contexts) /\ Len(reader) = Len(stack)
        /\ AtTop(Top, Waiting(reader), Len(size_insertions))
        /\ ~Complete(reader) /\ skipped_extension \in BOOLEAN
    BY <1>2, TurnFacts DEF TypeOK
  <1>4. reader' = After(reader, tok.type) /\ tok.type \in Expected(reader)
    BY <1>1, <1>3, ReadFacts
  <1>5. /\ Waiting(reader) \in {"name", "value"}
        /\ Top.position \in -1 .. n - 1
        /\ Waiting(reader) = "value" => Top.position >= 0
    BY <1>2, <1>3 DEF AtTop, ArrayKinds
  <1>6. /\ Waiting(reader) = "name" => tok.type \in {"key", "end_object"}
        /\ Waiting(reader) = "value" => tok.type \in ValueTokens
    BY <1>3, <1>4 DEF Expected
  <1>7. /\ Here.stack = stack /\ Here.waiting = (Waiting(reader) = "value")
        /\ Here.bytes = Len(out) /\ Here.sizes = Len(size_insertions)
        /\ Innermost(Here) = Top /\ stack # << >>
        /\ MovedTo(Here, next) = WithPosition(next)
        /\ doc # << >> /\ stack \in Seq(LevelSet)
    BY <1>2, HereFacts
  <1> HIDE DEF next, n
  <1>8. CASE pc' = "failed"
    BY <1>8, FailKeeps
  <1>9. CASE EndObject(tok) /\ pc' # "failed"
    <2>1. /\ tok.type = "end_object" /\ (next = n \/ MayEndBefore(next))
          /\ pc' = "loop" /\ stack' = Pop(stack)
          /\ skipped_extension' = (skipped_extension \/ next # n)
          /\ UNCHANGED <<out, size_insertions>>
      BY <1>9 DEF EndObject, Return, Fail, next, n
    <2>2. tok = Token("end_object")
      BY <2>1 DEF Tokens, TokenTypes, ValueTokens, Token
    <2>3. Waiting(reader) = "name"
      BY <2>1, <1>5, <1>6 DEF ValueTokens
    <2>4. WaitingNow' = FALSE
      BY <2>1, <1>2, <1>4, EndedWaitsNot DEF After
    <2>5. Here' = Closed(Here)
      BY <2>1, <2>4, <1>7 DEF Here, Closed
    <2>6. next = n \/ (LeavesOut(Here) /\ AtTheEnd(Here, out, size_insertions))
      <3>1. AtTheEnd(Here, out, size_insertions)
        BY <1>7 DEF AtTheEnd
      <3>2. next # n => next < n
        BY <1>3, <1>5 DEF next
      <3>3. next # n => LeavesOut(Here)
        BY <2>1, <2>3, <3>2, <1>2, <1>7 DEF LeavesOut, MayEndBefore, next, n
      <3>4. QED
        BY <3>1, <3>3
    <2>7. Move(Here, tok, Here', out, size_insertions)
      <3>1. ObjectEndMove(Here, tok, Here', out, size_insertions)
        BY <2>2, <2>3, <2>5, <2>6, <1>2, <1>7 DEF ObjectEndMove, next, n
      <3>2. QED
        BY <3>1, <1>7 DEF Move
    <2>8. tok.type = "end_object" /\ LeavesOut(Here) => skipped_extension'
      <3>1. LeavesOut(Here) => next < n
        BY <1>7 DEF LeavesOut, next, n
      <3>2. LeavesOut(Here) => next # n
        BY <3>1, <1>3
      <3>3. QED
        BY <3>2, <2>1
    <2>9. Carried(stack, stack', Len(size_insertions))
      <3>1. Kind[stack[Len(stack)].type] # "array"
        BY <1>2 DEF Top
      <3>2. QED
        BY <3>1, <2>1, <1>2, <1>7, CarriedPopped
    <2>10. skipped_extension => skipped_extension'
      BY <2>1
    <2>11. tok.type # "end_array"
      BY <2>1
    <2>12. QED
      BY <2>1, <2>7, <2>8, <2>9, <2>10, <2>11, <1>1, <1>2, WritesNothing
  <1>10. CASE FieldKey(tok) /\ pc' # "failed"
    <2>1. /\ tok.type = "key" /\ ~(next >= n) /\ tok.text = Field(Top.type, next).name
          /\ pc' = "loop" /\ stack' = WithPosition(next)
          /\ UNCHANGED <<out, size_insertions, skipped_extension>>
      BY <1>10 DEF FieldKey, Return, Fail, next, n
    <2>2. tok = [type |-> "key", text |-> Field(Top.type, next).name]
      BY <2>1 DEF Tokens
    <2>3. Waiting(reader) = "name"
      BY <2>1, <1>5, <1>6 DEF ValueTokens
    <2>4. WaitingNow' = TRUE
      <3>1. Waiting(After(reader, "key")) = "value" /\ Len(After(reader, "key")) = Len(reader)
        BY <2>3, <1>2, <1>3, KeyFacts
      <3>2. reader' # << >>
        BY <3>1, <2>1, <1>2, <1>3, <1>4
      <3>3. QED
        BY <3>1, <3>2, <2>1, <1>4 DEF WaitingNow
    <2>5. Here' = Point(MovedTo(Here, next), TRUE, Here.bytes, Here.sizes)
      BY <2>1, <2>4, <1>7 DEF Here
    <2>6. next < n /\ next \in Int /\ next >= Top.position
      BY <2>1, <1>3 DEF next
    <2>7. Move(Here, tok, Here', out, size_insertions)
      <3>1. KeyMove(Here, tok, Here')
        BY <2>2, <2>3, <2>5, <2>6, <1>2, <1>7 DEF KeyMove, next, n
      <3>2. QED
        BY <3>1, <1>7 DEF Move
    <2>8. Carried(stack, stack', Len(size_insertions))
      BY <2>1, <2>6, <1>2, TopMoved
    <2>9. tok.type # "end_array" /\ tok.type # "end_object"
      BY <2>1
    <2>10. skipped_extension => skipped_extension'
      BY <2>1
    <2>11. QED
      BY <2>1, <2>7, <2>8, <2>9, <2>10, <1>1, <1>2, WritesNothing
  <1>11. CASE FieldValue(tok)
    <2> DEFINE t == Field(Top.type, Top.position).type
               allow == AllowIn(Top.type, Top.position, Top.allow_extensions)
    <2>1. tok.type \notin {"end_object", "key"} /\ StartValue(t, allow, tok, stack)
      BY <1>11 DEF FieldValue
    <2>2. Waiting(reader) = "value"
      BY <2>1, <1>5, <1>6
    <2>3. Top.position \in 0 .. n - 1
      BY <2>2, <1>3, <1>5
    <2>4. t \in Types /\ allow \in BOOLEAN
      <3>1. t \in Types
        BY <2>3, <1>3, FieldFacts DEF n
      <3>2. allow \in BOOLEAN
        BY <1>3 DEF AllowIn
      <3>3. QED
        BY <3>1, <3>2
    <2>5. ~skipped_extension
      <3>1. Len(stack) \in 1 .. Len(stack) /\ reader[Len(stack)] = "value"
        BY <2>2, <1>2, <1>3 DEF Waiting
      <3>2. QED
        BY <3>1, <1>2 DEF IInv, SkippedAtEnd
    <2> HIDE DEF t, allow
    <2>6. Carried(stack, stack, Len(size_insertions))
      <3>1. stack[Len(stack)].position \in Int
        BY <1>3 DEF Top
      <3>2. QED
        BY <3>1, <1>7, CarriedMoved
    <2>7. ASSUME ValueMove(t, allow, stack, Here, tok, Here', out', size_insertions')
          PROVE  LeadsOn(root, doc, Here, tok, Here', out', size_insertions')
      <3>1. FieldMove(Here, tok, Here', out', size_insertions')
        BY <2>2, <2>3, <2>7, <1>2, <1>7 DEF FieldMove, t, allow, n
      <3>2. QED
        BY <3>1, <1>7 DEF LeadsOn, Move
    <2>8. QED
      BY <2>1, <2>4, <2>5, <2>6, <2>7, <1>1, <1>2, <1>7, StartKeeps
  <1>12. QED
    BY <1>1, <1>8, <1>9, <1>10, <1>11

\* An element of an array.
LEMMA ElemKeeps ==
    ASSUME WInv, IInv', Len(stack) > 0, pc = "loop", root' = root,
           Kind[Top.type] \in ArrayKinds,
           NEW tok \in Tokens(Strings), Read(tok), tok.type # "end_array", Elem(tok)
    PROVE  WInv'
  <1> DEFINE next == Top.position + 1
             below == WithPosition(next)
             t == Element[Top.type]
  <1>1. IInv /\ pc \in {"loop", "object"}
    BY DEF WInv
  <1>2. ~skipped_extension
    BY <1>1, ItemFacts
  <1>3. Top.type \in Types /\ Top.position \in Int
    BY <1>1, TurnFacts
  <1>4. t \in Types /\ FALSE \in BOOLEAN
    BY <1>3, TableAssumption
  <1>5. next \in Int /\ next >= Top.position
    BY <1>3
  <1>6. /\ Innermost(Here) = Top /\ doc # << >> /\ Here.stack = stack /\ stack # << >>
        /\ MovedTo(Here, next) = below
    BY <1>1, HereFacts
  <1>7. StartValue(t, FALSE, tok, below)
    BY DEF Elem
  <1>8. below \in Seq(LevelSet) /\ Carried(stack, below, Len(size_insertions))
    BY <1>1, <1>5, TopMoved
  <1>9. ASSUME ValueMove(t, FALSE, below, Here, tok, Here', out', size_insertions')
        PROVE  LeadsOn(root, doc, Here, tok, Here', out', size_insertions')
    <2>1. ElementMove(Here, tok, Here', out', size_insertions')
      BY <1>6, <1>9 DEF ElementMove, ArrayKinds
    <2>2. QED
      BY <2>1, <1>6 DEF LeadsOn, Move
  <1> HIDE DEF below, t
  <1>10. QED
    BY <1>1, <1>2, <1>4, <1>7, <1>8, <1>9, StartKeeps

\* The end of a fixed array or of a variant.
LEMMA ClosesKeeps ==
    ASSUME WInv, IInv', Len(stack) > 0, pc = "loop", root' = root,
           \/ Kind[Top.type] = "fixed_array" /\ Top.position + 1 = Size[Top.type]
           \/ Kind[Top.type] = "variant" /\ Top.position = 1,
           NEW tok \in Tokens(Strings), Read(tok), tok.type = "end_array",
           Return(Pop(stack)), UNCHANGED <<out, size_insertions, skipped_extension>>
    PROVE  WInv'
  <1>1. IInv /\ pc \in {"loop", "object"} /\ Kind[Top.type] \in ArrayKinds \cup {"variant"}
    BY DEF WInv, ArrayKinds
  <1>2. reader' = Pop(reader)
    BY <1>1, ItemFacts
  <1>3. WaitingNow' = FALSE
    BY <1>1, <1>2, EndedWaitsNot
  <1>4. /\ Here.stack = stack /\ Here.bytes = Len(out) /\ Here.sizes = Len(size_insertions)
        /\ Innermost(Here) = Top /\ stack # << >> /\ stack \in Seq(LevelSet)
    BY <1>1, HereFacts
  <1>5. stack' = Pop(stack) /\ pc' = "loop"
    BY DEF Return
  <1>6. Here' = Closed(Here)
    BY <1>3, <1>4, <1>5 DEF Here, Closed
  <1>7. tok = Token("end_array")
    BY DEF Tokens, TokenTypes, ValueTokens, Token
  <1>8. ArrayEndMove(Here, tok, Here', size_insertions)
    BY <1>4, <1>6, <1>7 DEF ArrayEndMove
  <1>9. Move(Here, tok, Here', out, size_insertions)
    BY <1>4, <1>8 DEF Move
  <1>10. Carried(stack, stack', Len(size_insertions))
    <2>1. Kind[stack[Len(stack)].type] # "array"
      BY DEF Top
    <2>2. QED
      BY <2>1, <1>4, <1>5, CarriedPopped
  <1>11. Kind[Top.type] # "array" /\ tok.type # "end_object"
    OBVIOUS
  <1>12. skipped_extension => skipped_extension'
    OBVIOUS
  <1>13. QED
    BY <1>1, <1>5, <1>9, <1>10, <1>11, <1>12, WritesNothing

LEMMA ArrayKeeps == WInv /\ IInv' /\ [Next]_vars /\ Array => WInv'
  <1> SUFFICES ASSUME WInv, IInv', [Next]_vars, Array PROVE WInv'
    OBVIOUS
  <1>1. PICK tok \in Tokens(Strings) :
          Read(tok) /\ IF tok.type = "end_array" THEN EndArray(tok) ELSE Elem(tok)
    BY DEF Array
  <1>2. /\ root' = root /\ pc = "loop" /\ Kind[Top.type] = "array" /\ Len(stack) > 0
        /\ pc \in {"loop", "object"} /\ IInv
    BY DEF Array, Turn, WInv, IInv, TypeOK
  <1>3. CASE tok.type = "end_array"
    <2> DEFINE q == Top.size_insertion_index
               n == Top.position + 1
    <2>1. /\ size_insertions' = [size_insertions EXCEPT ![q].size = n]
          /\ pc' = "loop" /\ stack' = Pop(stack) /\ UNCHANGED <<out, skipped_extension>>
      BY <1>1, <1>3 DEF EndArray, Return
    <2>2. /\ TypeOK /\ out \in Seq(Nat) /\ size_insertions \in Seq(Insertions)
          /\ AtTop(Top, Waiting(reader), Len(size_insertions)) /\ Top.position \in Int
      BY <1>2, TurnFacts DEF TypeOK
    <2>3. q \in 1 .. Len(size_insertions) /\ n \in Nat
      BY <2>2, <1>2 DEF AtTop, OwnsSize, ArrayKinds
    <2>4. /\ Innermost(Here) = Top /\ doc # << >> /\ Here.stack = stack /\ stack # << >>
          /\ Here.bytes = Len(out) /\ Here.sizes = Len(size_insertions)
          /\ stack \in Seq(LevelSet) /\ OwnSizes(stack)
      BY <1>2, HereFacts
    <2> HIDE DEF q, n
    <2>5. /\ size_insertions' \in Seq(Insertions)
          /\ Len(size_insertions') = Len(size_insertions)
          /\ \A i \in 1 .. Len(size_insertions) :
                /\ size_insertions'[i].position = size_insertions[i].position
                /\ size_insertions'[i].size = IF i = q THEN n ELSE size_insertions[i].size
      <3>1. size_insertions[q] \in Insertions
        BY <2>2, <2>3
      <3>2. PICK new \in Insertions :
               new = [position |-> size_insertions[q].position, size |-> n]
        BY <2>3, <3>1 DEF Insertions
      <3>3. [size_insertions[q] EXCEPT !.size = n] = new
        BY <3>1, <3>2 DEF Insertions
      <3>4. size_insertions' = [size_insertions EXCEPT ![q] = new]
        BY <2>1, <3>3
      <3>5. new.position = size_insertions[q].position /\ new.size = n
        BY <3>2
      <3>6. QED
        BY <2>2, <2>3, <3>4, <3>5
    <2>6. Longer(out, out')
      BY <2>1, <2>2 DEF Longer
    <2>7. SizesGrown(size_insertions, size_insertions', out)
      BY <2>2, <2>5, Same DEF SizesGrown
    <2>8. tok = Token("end_array")
      BY <1>3 DEF Tokens, TokenTypes, ValueTokens, Token
    <2>9. Here' = Closed(Here)
      <3>1. reader' = Pop(reader)
        BY <1>1, <1>2, <1>3, ItemFacts DEF ArrayKinds
      <3>2. WaitingNow' = FALSE
        BY <3>1, <1>2, EndedWaitsNot
      <3>3. QED
        BY <3>2, <2>1, <2>4, <2>5 DEF Here, Closed
    <2>10. LeadsOn(root, doc, Here, tok, Here', out', size_insertions')
      <3>1. size_insertions'[q].size = Top.position + 1
        BY <2>3, <2>5 DEF n
      <3>2. ArrayEndMove(Here, tok, Here', size_insertions')
        BY <3>1, <2>4, <2>8, <2>9, <1>2 DEF ArrayEndMove, q
      <3>3. QED
        BY <3>2, <2>4 DEF LeadsOn, Move
    <2>11. /\ ~Opened(stack', q)
           /\ ArraysKept(stack, size_insertions, stack', size_insertions')
      <3>1. HoldsSize(stack[Len(stack)], q)
        BY <1>2 DEF HoldsSize, Top, q
      <3>2. \A i \in 1 .. Len(size_insertions) :
               size_insertions'[i].size =
                   IF i = q THEN stack[Len(stack)].position + 1 ELSE size_insertions[i].size
        BY <2>5 DEF n, Top
      <3>3. size_insertions \in Seq(Sizes)
        BY <2>2, Same
      <3>4. ~Opened(Pop(stack), q) /\ ArraysKept(stack, size_insertions, Pop(stack), size_insertions')
        BY <3>1, <3>2, <3>3, <2>3, <2>4, <1>2, ClosedKeeps
      <3>5. QED
        BY <3>4, <2>1
    <2>12. skipped_extension => out' = out /\ size_insertions' = size_insertions
      BY <1>2, NothingMore
    <2>13. /\ tok.type # "end_object" /\ (skipped_extension => skipped_extension')
           /\ doc' = Append(doc, tok) /\ pc' \in {"loop", "object"}
           /\ pc \in {"begin", "loop", "object"}
      BY <2>1, <1>1, <1>2, <1>3 DEF Read
    <2>14. Top.size_insertion_index \in 1 .. Len(size_insertions)
           /\ ~Opened(stack', Top.size_insertion_index)
      BY <2>3, <2>11 DEF q
    <2>15. QED
      BY <2>6, <2>7, <2>10, <2>11, <2>12, <2>13, <2>14, <1>2, TokenStep
  <1>4. CASE tok.type # "end_array"
    BY <1>1, <1>2, <1>4, ElemKeeps DEF ArrayKinds
  <1>5. QED
    BY <1>3, <1>4

LEMMA FixedArrayKeeps == WInv /\ IInv' /\ [Next]_vars /\ FixedArray => WInv'
  <1> SUFFICES ASSUME WInv, IInv', FixedArray PROVE WInv'
    OBVIOUS
  <1>1. PICK tok \in Tokens(Strings) :
          Read(tok) /\ IF tok.type = "end_array" THEN EndFixedArray(tok) ELSE Elem(tok)
    BY DEF FixedArray
  <1>2. /\ root' = root /\ pc = "loop" /\ Kind[Top.type] = "fixed_array" /\ Len(stack) > 0
    BY DEF FixedArray, Turn, WInv, IInv, TypeOK
  <1>3. CASE pc' = "failed"
    BY <1>3, FailKeeps
  <1>4. CASE tok.type = "end_array" /\ pc' # "failed"
    <2>1. /\ Top.position + 1 = Size[Top.type] /\ Return(Pop(stack))
          /\ UNCHANGED <<out, size_insertions, skipped_extension>>
      BY <1>1, <1>4 DEF EndFixedArray, Fail
    <2>2. QED
      BY <2>1, <1>1, <1>2, <1>4, ClosesKeeps
  <1>5. CASE tok.type # "end_array"
    BY <1>1, <1>2, <1>5, ElemKeeps DEF ArrayKinds
  <1>6. QED
    BY <1>3, <1>4, <1>5

\* The name of the alternative of a variant.
LEMMA NameKeeps ==
    ASSUME WInv, IInv', [Next]_vars, Len(stack) > 0, pc = "loop", pc' # "failed", root' = root,
           Kind[Top.type] = "variant", Top.position = -1,
           NEW tok \in Tokens(Strings), Read(tok), tok.type # "end_array", VariantType(tok)
    PROVE  WInv'
  <1>1. /\ IInv /\ pc \in {"loop", "object"} /\ Kind[Top.type] \in ArrayKinds \cup {"variant"}
    BY DEF WInv
  <1>2. /\ tok.type = "string"
        /\ \E i \in Alternatives(Top.type, tok.text) :
               /\ out' = Append(out, i - 1)
               /\ Return([stack EXCEPT ![Len(stack)].position = 0,
                                       ![Len(stack)].variant_type_index = i - 1])
               /\ UNCHANGED <<size_insertions, skipped_extension>>
    BY DEF VariantType, Fail
  <1>3. PICK i \in DOMAIN Fields[Top.type] :
          /\ Fields[Top.type][i].name = tok.text
          /\ out' = Append(out, i - 1)
          /\ Return([stack EXCEPT ![Len(stack)].position = 0,
                                  ![Len(stack)].variant_type_index = i - 1])
          /\ UNCHANGED <<size_insertions, skipped_extension>>
    BY <1>2 DEF Alternatives
  <1>4. /\ Fields[Top.type] \in Seq([name : Strings, type : Types])
        /\ Top \in Entries /\ stack \in Seq(Entries) /\ Len(stack) \in Nat
        /\ size_insertions \in Seq(Insertions) /\ TypeOK /\ out \in Seq(Nat)
    BY <1>1, TurnFacts DEF TypeOK
  <1>5. PICK v \in Nat : v = i - 1 /\ v + 1 = i /\ v < Len(Fields[Top.type])
    BY <1>4
  <1>6. /\ Here.stack = stack /\ ~Here.waiting /\ Here.bytes = Len(out)
        /\ Here.sizes = Len(size_insertions)
        /\ Innermost(Here) = Top /\ doc # << >> /\ stack # << >>
        /\ stack \in Seq(LevelSet) /\ OwnSizes(stack) /\ size_insertions \in Seq(Sizes)
    <2>1. Waiting(reader) = "item"
      BY <1>1, ItemFacts
    <2>2. QED
      BY <2>1, <1>1, HereFacts
  <1>7. /\ reader' = reader /\ ~skipped_extension
    <2>1. /\ Waiting(reader) = "item" /\ reader' = After(reader, tok.type)
          /\ PastValue(reader) = reader
          /\ (Kind[Top.type] = "variant" /\ skipped_extension => Top.position = 1)
      BY <1>1, ItemFacts
    <2>2. QED
      BY <2>1, <1>2 DEF After
  <1>8. WaitingNow' = FALSE
    <2>1. Waiting(reader) = "item"
      BY <1>1, ItemFacts
    <2>2. QED
      BY <2>1, <1>7 DEF WaitingNow
  <1> DEFINE st2 == [stack EXCEPT ![Len(stack)].position = 0,
                                  ![Len(stack)].variant_type_index = v]
  <1>9. stack' = st2 /\ pc' = "loop" /\ out' = Append(out, v)
    BY <1>3, <1>5 DEF Return
  <1> HIDE DEF st2
  <1>10. /\ Len(out') = Len(out) + 1 /\ out'[Len(out) + 1] = v /\ Longer(out, out')
    <2>1. /\ out' \in Seq(Nat) /\ Len(out') = Len(out) + 1 /\ out'[Len(out) + 1] = v
          /\ \A k \in 1 .. Len(out) : out'[k] = out[k]
      BY <1>4, <1>9, AppendFacts
    <2>2. QED
      BY <2>1, <1>4, SMTT(60) DEF Longer
  <1>11. Here' = Point(st2, FALSE, Here.bytes + 1, Here.sizes)
    BY <1>3, <1>6, <1>8, <1>9, <1>10 DEF Here
  <1>12. tok = [type |-> "string", text |-> Field(Top.type, v).name]
    BY <1>2, <1>3, <1>5 DEF Tokens, Field
  <1>13. LeadsOn(root, doc, Here, tok, Here', out', size_insertions')
    <2>1. Here.bytes < Len(out') /\ out'[Here.bytes + 1] = v
      BY <1>4, <1>6, <1>10
    <2>2. NameMove(Here, tok, Here', out')
      BY <2>1, <1>5, <1>6, <1>11, <1>12, Zenon DEF NameMove, st2
    <2>3. QED
      BY <2>2, <1>6 DEF LeadsOn, Move
  <1>14. SizesGrown(size_insertions, size_insertions', out)
    BY <1>3, <1>4, SameSizes
  <1>15. ArraysKept(stack, size_insertions, stack', size_insertions')
    <2>1. PICK e : e = [Top EXCEPT !.position = 0, !.variant_type_index = v]
      OBVIOUS
    <2>2. /\ e \in Entries /\ e.type = Top.type
          /\ e.size_insertion_index = Top.size_insertion_index
      <3>1. Top \in Entries /\ 0 \in Int /\ v \in Nat
        BY <1>4
      <3>2. e.type = Top.type /\ e.size_insertion_index = Top.size_insertion_index
        BY <3>1, <2>1 DEF Entries
      <3>3. e \in Entries
        BY <3>1, <2>1 DEF Entries
      <3>4. QED
        BY <3>2, <3>3
    <2>3. st2 = [stack EXCEPT ![Len(stack)] = e]
      BY <2>1, <1>4 DEF Top, st2
    <2>4. /\ st2 \in Seq(Entries) /\ Len(st2) = Len(stack) /\ st2[Len(stack)] = e
          /\ \A k \in 1 .. Len(stack) - 1 : st2[k] = stack[k]
      BY <2>2, <2>3, <1>4
    <2>5. /\ st2 \in Seq(LevelSet) /\ st2[Len(stack)].type = stack[Len(stack)].type
          /\ st2[Len(stack)].size_insertion_index = stack[Len(stack)].size_insertion_index
          /\ Kind[stack[Len(stack)].type] # "array"
      BY <2>2, <2>4, Same DEF Top
    <2>6. Carried(stack, st2, Len(size_insertions))
      BY <2>4, <2>5, <1>6, CarriedMoved
    <2>7. \A k \in 1 .. Len(size_insertions) : size_insertions'[k].size = size_insertions[k].size
      BY <1>3
    <2>8. QED
      BY <2>5, <2>6, <2>7, <1>6, <1>9, CarriedKeeps
  <1>16. doc' = Append(doc, tok) /\ tok.type # "end_object"
    BY <1>2 DEF Read
  <1>17. pc \in {"begin", "loop", "object"} /\ pc' \in {"loop", "object"}
    BY <1>9
  <1>18. QED
    BY <1>7, <1>10, <1>13, <1>14, <1>15, <1>16, <1>17, TokenStep

LEMMA VariantKeeps == WInv /\ IInv' /\ [Next]_vars /\ Variant => WInv'
  <1> SUFFICES ASSUME WInv, IInv', [Next]_vars, Variant PROVE WInv'
    OBVIOUS
  <1>1. PICK tok \in Tokens(Strings) :
           /\ Read(tok)
           /\ \/ tok.type = "end_array" /\ EndVariant(tok)
              \/ tok.type # "end_array" /\ Top.position = -1 /\ VariantType(tok)
              \/ /\ tok.type # "end_array" /\ Top.position = 0
                 /\ StartValue(Field(Top.type, Top.variant_type_index).type,
                               Top.allow_extensions, tok, WithPosition(1))
              \/ Fail("expected_variant")
    BY DEF Variant
  <1>2. /\ root' = root /\ pc = "loop" /\ Kind[Top.type] = "variant" /\ Len(stack) > 0
        /\ IInv /\ pc \in {"loop", "object"}
    BY DEF Variant, Turn, WInv, IInv, TypeOK
  <1>3. CASE pc' = "failed"
    BY <1>3, FailKeeps
  <1>4. CASE tok.type = "end_array" /\ EndVariant(tok) /\ pc' # "failed"
    <2>1. Top.position \in Int
      BY <1>2, TurnFacts
    <2>2. /\ Top.position = 1 /\ Return(Pop(stack))
          /\ UNCHANGED <<out, size_insertions, skipped_extension>>
      BY <2>1, <1>4 DEF EndVariant, Fail
    <2>3. QED
      BY <2>2, <1>1, <1>2, <1>4, ClosesKeeps
  <1>5. CASE tok.type # "end_array" /\ Top.position = -1 /\ VariantType(tok) /\ pc' # "failed"
    BY <1>1, <1>2, <1>5, NameKeeps
  <1>6. CASE /\ tok.type # "end_array" /\ Top.position = 0
             /\ StartValue(Field(Top.type, Top.variant_type_index).type,
                           Top.allow_extensions, tok, WithPosition(1))
    <2> DEFINE t == Field(Top.type, Top.variant_type_index).type
               allow == Top.allow_extensions
               below == WithPosition(1)
    <2>1. /\ Top.type \in Types /\ Top.allow_extensions \in BOOLEAN
          /\ Top.variant_type_index \in Nat /\ AtTop(Top, Waiting(reader), Len(size_insertions))
          /\ Len(Fields[Top.type]) \in Nat
      BY <1>2, TurnFacts
    <2>2. Top.variant_type_index \in 0 .. Len(Fields[Top.type]) - 1
      BY <2>1, <1>2, <1>6 DEF AtTop, ArrayKinds
    <2>3. t \in Types /\ allow \in BOOLEAN
      BY <2>1, <2>2, FieldFacts
    <2>4. ~skipped_extension
      BY <1>1, <1>2, <1>6, ItemFacts
    <2>5. below \in Seq(LevelSet) /\ Carried(stack, below, Len(size_insertions))
      BY <1>2, <1>6, TopMoved
    <2>6. /\ Innermost(Here) = Top /\ doc # << >> /\ Here.stack = stack /\ stack # << >>
          /\ MovedTo(Here, 1) = below
      BY <1>2, HereFacts
    <2>7. StartValue(t, allow, tok, below)
      BY <1>6
    <2>8. ASSUME ValueMove(t, allow, below, Here, tok, Here', out', size_insertions')
          PROVE  LeadsOn(root, doc, Here, tok, Here', out', size_insertions')
      <3>1. AlternativeMove(Here, tok, Here', out', size_insertions')
        BY <2>6, <2>8, <1>2, <1>6 DEF AlternativeMove
      <3>2. QED
        BY <3>1, <2>6 DEF LeadsOn, Move
    <2> HIDE DEF t, allow, below
    <2>9. pc \in {"begin", "loop", "object"} /\ Read(tok) /\ root' = root
      BY <1>1, <1>2
    <2>10. QED
      BY <2>3, <2>4, <2>5, <2>7, <2>8, <2>9, StartKeeps
  <1>7. QED
    BY <1>1, <1>3, <1>4, <1>5, <1>6 DEF Fail

LEMMA FinishKeeps == WInv /\ IInv' /\ Finish => WInv'
  <1> SUFFICES ASSUME WInv, IInv', Finish PROVE WInv'
    OBVIOUS
  <1>1. CASE pc' = "failed"
    BY <1>1, FailKeeps
  <1>2. CASE pc' # "failed"
    <2>1. /\ pc = "loop" /\ stack = << >> /\ Complete(reader) /\ pc' = "done" /\ bin' = Splice
          /\ UNCHANGED <<stack, out, size_insertions, skipped_extension, error, root, doc, reader>>
      BY <1>2 DEF Finish, Fail
    <2>2. Splice' = Splice
      BY <2>1 DEF Splice, Piece, Start
    <2>3. WaitingNow' = WaitingNow
      BY <2>1 DEF WaitingNow
    <2>4. PICK at : Walk(root, doc, at, out, size_insertions, stack, WaitingNow, skipped_extension)
      BY <2>1 DEF WInv
    <2>5. Walk(root', doc', at, out', size_insertions', stack', WaitingNow', skipped_extension')
      BY <2>1, <2>3, <2>4
    <2>6. doc # << >> /\ reader = << >>
      BY <2>1 DEF WInv, Complete
    <2>7. QED
      BY <2>1, <2>2, <2>5, <2>6 DEF WInv
  <1>3. QED
    BY <1>1, <1>2

\* Every step keeps the way.
LEMMA WayStep == WInv /\ [Next]_vars => WInv'
  <1> SUFFICES ASSUME WInv, [Next]_vars PROVE WInv'
    OBVIOUS
  <1>1. IInv'
    BY StepInv DEF WInv
  <1>2. CASE RecursionLimit \/ SyntaxError
    BY <1>1, <1>2, FailKeeps DEF RecursionLimit, SyntaxError, Fail
  <1>3. CASE UNCHANGED vars
    <2>1. UNCHANGED <<root, doc, reader, pc, stack, out, size_insertions,
                      skipped_extension, bin>>
      BY <1>3 DEF vars
    <2>2. Splice' = Splice
      BY <2>1 DEF Splice, Piece, Start
    <2>3. WaitingNow' = WaitingNow
      BY <2>1 DEF WaitingNow
    <2>4. ASSUME pc' # "failed"
          PROVE  \E at : Walk(root', doc', at, out', size_insertions', stack', WaitingNow',
                              skipped_extension')
      <3>1. PICK at : Walk(root, doc, at, out, size_insertions, stack, WaitingNow,
                           skipped_extension)
        BY <2>1, <2>4 DEF WInv
      <3>2. QED
        BY <3>1, <2>1, <2>3
    <2>5. QED
      BY <1>1, <2>1, <2>2, <2>4 DEF WInv
  <1>4. QED
    BY <1>1, <1>2, <1>3, BeginKeeps, ObjectKeeps, ArrayKeeps, FixedArrayKeeps, VariantKeeps,
       FinishKeeps DEF Next, Step, Terminated

(***************************************************************************)
(* What json_to_bin writes is the binary form of the text it read          *)
(* (abieos.hpp:763-954): token by token, the sizes of its arrays included. *)
(***************************************************************************)
THEOREM BinaryOfTheText == Spec => [](pc = "done" => Codes(root, doc, bin))
  <1>1. ASSUME WInv, pc = "done"
        PROVE  Codes(root, doc, bin)
    <2>1. /\ stack = << >> /\ reader = << >> /\ bin = Splice /\ doc # << >>
          /\ TypeOK /\ InsertionsOrdered
      BY <1>1 DEF WInv, IInv
    <2>2. PICK at : Walk(root, doc, at, out, size_insertions, stack, WaitingNow,
                         skipped_extension)
      BY <1>1 DEF WInv
    <2>3. /\ out \in Seq(Nat) /\ size_insertions \in Seq(Sizes)
          /\ Joined(bin, out, size_insertions)
      BY <2>1, SpliceJoins, Same DEF TypeOK
    <2>4. WaitingNow = FALSE
      BY <2>1 DEF WaitingNow
    <2>5. at[Len(doc)] = Point(<< >>, FALSE, Len(out), Len(size_insertions))
      BY <2>1, <2>2, <2>4 DEF Walk
    <2>6. \A n : ~Opened(stack, n)
      BY <2>1 DEF Opened
    <2>7. \A i \in 0 .. Len(doc) : \A j \in 1 .. Len(at[i].stack) :
              WithinSize(at[i].stack[j], size_insertions)
      BY <2>2, <2>6, Zenon DEF Walk, AllCounted, Counted, WithinSize
    <2>8. QED
      BY <2>1, <2>2, <2>3, <2>5, <2>7, Zenon DEF Codes, Walk
  <1>2. WInv => (pc = "done" => Codes(root, doc, bin))
    BY <1>1
  <1>3. QED
    BY <1>2, WInit, WayStep, PTL DEF Spec
==============================================================================
