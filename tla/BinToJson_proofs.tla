--------------------------- MODULE BinToJson_proofs ---------------------------
(***************************************************************************)
(* Proofs about BinToJson, for every type table, stack limit and input.    *)
(***************************************************************************)
EXTENDS BinToJson, AbiSchema_proofs

----------------------------------------------------------------------------
(***************************************************************************)
(* The stack.  Below the top, every entry is past the value above it.      *)
(***************************************************************************)
EntryOK(e) ==
    /\ Kind[e.type] \in {"struct", "variant"} \cup ArrayKinds
    /\ e.position >= -1
    /\ Kind[e.type] \in ArrayKinds => ~e.allow_extensions

\* Nothing can follow the current field or alternative of e.
AtEnd(e) ==
    /\ e.allow_extensions
    /\ \/ Kind[e.type] = "struct" /\ e.position + 1 = Len(Fields[e.type])
       \/ Kind[e.type] = "variant" /\ e.position # -1

\* An entry allows extensions only if every level below it is at its end.
AllowTrail(st) ==
    \A i, j \in 1 .. Len(st) : i < j /\ st[j].allow_extensions => AtEnd(st[i])

Levels(st) ==
    /\ \A i \in 1 .. Len(st) : EntryOK(st[i])
    /\ \A i \in 1 .. Len(st) : i < Len(st) => st[i].position # -1
    /\ AllowTrail(st)

\* Every level is past its current value: where the start of a value begins.
AllInside(st) ==
    /\ \A i \in 1 .. Len(st) : EntryOK(st[i]) /\ st[i].position # -1
    /\ AllowTrail(st)

\* Only extensions can follow in e.
Trailing(e) ==
    /\ e.allow_extensions
    /\ \/ /\ Kind[e.type] = "struct"
          /\ \A j \in DOMAIN Fields[e.type] :
                j > e.position + 1 => Extension(Fields[e.type][j].type)
       \/ Kind[e.type] = "variant" /\ e.position # -1

Omitted ==
    skipped_extension =>
        /\ pc # "begin" /\ Left = 0
        /\ pc = "loop" => \A i \in 1 .. Len(stack) : Trailing(stack[i])

----------------------------------------------------------------------------
(***************************************************************************)
(* The text.  Written(t, rd, last): up to here t is well formed, a reader  *)
(* has reached rd, and the last lexeme is of type last.  A reading of t is *)
(* any function that satisfies the definition of Readings.                 *)
(***************************************************************************)
FirstReading == [valid |-> TRUE, reader |-> FreshReader]

IsReading(r, t) ==
    r = [i \in 0 .. Len(t) |-> IF i = 0 THEN FirstReading ELSE ReadOn(r[i - 1], t[i].type)]

ReadsAs(t, rd) ==
    /\ \E r : IsReading(r, t)
    /\ \A r : IsReading(r, t) => r[Len(t)] = [valid |-> TRUE, reader |-> rd]

\* b may come right after a, or first in a text where a is "none".
Follows(a, b) ==
    IF a = "comma" THEN b \in Starts
    ELSE IF b = "comma" THEN a \in Ends
    ELSE ~(a \in Ends /\ b \in Starts)

Chained(t) ==
    \A i \in 1 .. Len(t) : Follows(IF i = 1 THEN "none" ELSE t[i - 1].type, t[i].type)

LastIs(t, last) == last = IF Len(t) = 0 THEN "none" ELSE t[Len(t)].type

Written(t, rd, last) ==
    /\ t \in Seq(Lexemes)
    /\ Chained(t)
    /\ LastIs(t, last)
    /\ ReadsAs(t, rd)

\* The reader of a text is inside of the containers the stack writes.
Opens(e) == IF Kind[e.type] = "struct" THEN "name" ELSE "item"
OpenIn(st) == [i \in 1 .. Len(st) |-> Opens(st[i])]

\* Between two serializer calls.
Wrote(t, st, skipped) ==
    \E last \in Ends \cup {"start_object", "start_array"} :
        /\ Written(t, OpenIn(st), last)
        /\ ~skipped /\ Len(st) > 0 => (last \in Ends <=> st[Len(st)].position # -1)

IInv ==
    /\ TypeOK
    /\ pc = "begin" => stack = << >> /\ text = << >> /\ ~skipped_extension
    /\ pc = "loop" => Levels(stack)
    /\ ExtensionsLast =>
         /\ Omitted
         /\ pc = "loop" => Wrote(text, stack, skipped_extension)
         /\ pc = "done" => Wrote(text, << >>, skipped_extension)

----------------------------------------------------------------------------
(***************************************************************************)
(* Writing one lexeme.                                                     *)
(***************************************************************************)

\* A longer text has a reading, and each one continues one of the shorter.
LEMMA ReadMore ==
    ASSUME NEW t \in Seq(Lexemes), NEW x \in Lexemes, NEW rd, NEW rd2, ReadsAs(t, rd),
           ReadOn([valid |-> TRUE, reader |-> rd], x.type) = [valid |-> TRUE, reader |-> rd2]
    PROVE  ReadsAs(Append(t, x), rd2)
  <1> DEFINE n == Len(t)
             t2 == Append(t, x)
  <1>1. /\ n \in Nat /\ Len(t2) = n + 1 /\ t2[n + 1] = x
        /\ \A i \in 1 .. n : t2[i] = t[i]
    BY AppendFacts
  <1> HIDE DEF n, t2
  <1>2. \E r : IsReading(r, t2)
    <2>1. PICK r : r = [i \in 0 .. n |-> IF i = 0 THEN FirstReading
                                                   ELSE ReadOn(r[i - 1], t[i].type)]
      BY DEF ReadsAs, IsReading, n
    <2> DEFINE r2 == [i \in 0 .. n + 1 |-> IF i = n + 1 THEN ReadOn(r[n], x.type) ELSE r[i]]
    <2>2. ASSUME NEW i \in 0 .. n + 1
          PROVE  r2[i] = IF i = 0 THEN FirstReading ELSE ReadOn(r2[i - 1], t2[i].type)
      <3>1. CASE i = 0
        BY <3>1, <2>1, <1>1
      <3>2. CASE i \in 1 .. n
        <4>1. r[i] = ReadOn(r[i - 1], t[i].type)
          BY <3>2, <2>1, <1>1
        <4>2. r2[i] = r[i] /\ r2[i - 1] = r[i - 1]
          BY <3>2, <1>1
        <4>3. QED
          BY <3>2, <4>1, <4>2, <1>1
      <3>3. CASE i = n + 1
        <4>1. r2[i] = ReadOn(r[n], x.type) /\ r2[i - 1] = r[n]
          BY <3>3, <1>1
        <4>2. QED
          BY <3>3, <4>1, <1>1
      <3>4. QED
        BY <3>1, <3>2, <3>3, <1>1
    <2>3. r2 = [i \in 0 .. n + 1 |-> r2[i]]
      OBVIOUS
    <2> HIDE DEF r2
    <2>4. IsReading(r2, t2)
      BY <2>2, <2>3, <1>1 DEF IsReading
    <2>5. QED
      BY <2>4
  <1>3. ASSUME NEW r2, IsReading(r2, t2)
        PROVE  r2[n + 1] = [valid |-> TRUE, reader |-> rd2]
    <2> DEFINE r == [i \in 0 .. n |-> r2[i]]
    <2>1. \A i \in 0 .. n + 1 :
             r2[i] = IF i = 0 THEN FirstReading ELSE ReadOn(r2[i - 1], t2[i].type)
      BY <1>3, <1>1 DEF IsReading
    <2>2. ASSUME NEW i \in 0 .. n
          PROVE  r[i] = IF i = 0 THEN FirstReading ELSE ReadOn(r[i - 1], t[i].type)
      <3>1. CASE i = 0
        BY <3>1, <2>1, <1>1
      <3>2. CASE i \in 1 .. n
        <4>1. r2[i] = ReadOn(r2[i - 1], t2[i].type)
          BY <3>2, <2>1, <1>1
        <4>2. r[i] = r2[i] /\ r[i - 1] = r2[i - 1] /\ t2[i] = t[i]
          BY <3>2, <1>1
        <4>3. QED
          BY <3>2, <4>1, <4>2
      <3>3. QED
        BY <3>1, <3>2, <1>1
    <2>3. r = [i \in 0 .. n |-> r[i]] /\ r[n] = r2[n]
      BY <1>1
    <2> HIDE DEF r
    <2>4. IsReading(r, t)
      BY <2>2, <2>3 DEF IsReading, n
    <2>5. r2[n] = [valid |-> TRUE, reader |-> rd]
      BY <2>3, <2>4 DEF ReadsAs, n
    <2>6. r2[n + 1] = ReadOn(r2[n], x.type)
      BY <2>1, <1>1
    <2>7. QED
      BY <2>5, <2>6
  <1>4. QED
    BY <1>1, <1>2, <1>3 DEF ReadsAs, t2

\* The next lexeme may come after the last.
LEMMA ChainMore ==
    ASSUME NEW t \in Seq(Lexemes), NEW last, Chained(t), LastIs(t, last),
           NEW x \in Lexemes, Follows(last, x.type)
    PROVE  Chained(Append(t, x)) /\ LastIs(Append(t, x), x.type)
  <1> DEFINE n == Len(t)
             t2 == Append(t, x)
  <1>1. /\ n \in Nat /\ Len(t2) = n + 1 /\ t2[n + 1] = x
        /\ \A i \in 1 .. n : t2[i] = t[i]
    BY AppendFacts
  <1> HIDE DEF n, t2
  <1>2. ASSUME NEW i \in 1 .. n + 1
        PROVE  Follows(IF i = 1 THEN "none" ELSE t2[i - 1].type, t2[i].type)
    <2>1. CASE i \in 1 .. n
      <3>1. Follows(IF i = 1 THEN "none" ELSE t[i - 1].type, t[i].type)
        BY <2>1 DEF Chained, n
      <3>2. t2[i] = t[i] /\ (i # 1 => t2[i - 1] = t[i - 1])
        BY <2>1, <1>1
      <3>3. QED
        BY <3>1, <3>2
    <2>2. CASE i = n + 1
      <3>1. last = IF i = 1 THEN "none" ELSE t2[i - 1].type
        BY <2>2, <1>1 DEF LastIs, n
      <3>2. QED
        BY <2>2, <3>1, <1>1
    <2>3. QED
      BY <2>1, <2>2, <1>1
  <1>3. QED
    BY <1>1, <1>2 DEF Chained, LastIs, t2

\* A comma after a value or an end.
LEMMA WriteComma ==
    ASSUME NEW t, NEW rd, NEW last \in Ends, Written(t, rd, last)
    PROVE  Written(Append(t, Token("comma")), rd, "comma")
  <1> DEFINE x == Token("comma")
  <1>1. t \in Seq(Lexemes) /\ x \in Lexemes /\ x.type = "comma"
    BY DEF Written, Lexemes, Token
  <1>2. Follows(last, "comma")
    BY DEF Follows, Ends
  <1> HIDE DEF x
  <1>3. Append(t, x) \in Seq(Lexemes)
    BY <1>1
  <1>4. ReadsAs(Append(t, x), rd)
    BY <1>1, ReadMore DEF Written, ReadOn
  <1>5. Chained(Append(t, x)) /\ LastIs(Append(t, x), "comma")
    BY <1>1, <1>2, ChainMore DEF Written
  <1>6. QED
    BY <1>3, <1>4, <1>5 DEF Written, x

\* A token the reader expects.
LEMMA WriteToken ==
    ASSUME NEW t, NEW rd, NEW last, Written(t, rd, last),
           NEW x \in Lexemes, x.type # "comma", x.type \in Expected(rd), Follows(last, x.type)
    PROVE  Written(Append(t, x), After(rd, x.type), x.type)
  <1>1. t \in Seq(Lexemes) /\ Append(t, x) \in Seq(Lexemes)
    BY DEF Written
  <1>2. ReadsAs(Append(t, x), After(rd, x.type))
    BY <1>1, ReadMore DEF Written, ReadOn
  <1>3. Chained(Append(t, x)) /\ LastIs(Append(t, x), x.type)
    BY <1>1, ChainMore DEF Written
  <1>4. QED
    BY <1>1, <1>2, <1>3 DEF Written

----------------------------------------------------------------------------
(***************************************************************************)
(* Facts about the operators.                                              *)
(***************************************************************************)

\* The containers of a stack grow and shrink with it.
LEMMA OpenFacts ==
    ASSUME NEW st \in Seq(Entries)
    PROVE  /\ OpenIn(st) \in Seq(Contexts) /\ Len(OpenIn(st)) = Len(st)
           /\ \A i \in 1 .. Len(st) : OpenIn(st)[i] = Opens(st[i])
           /\ \A e \in Entries : OpenIn(Append(st, e)) = Append(OpenIn(st), Opens(e))
           /\ Len(st) > 0 => OpenIn(Pop(st)) = Pop(OpenIn(st))
  <1> DEFINE o == OpenIn(st)
             n == Len(st)
  <1>1. n \in Nat /\ \A e : Opens(e) \in Contexts
    BY DEF Opens, Contexts
  <1>2. o = [i \in 1 .. n |-> Opens(st[i])]
    BY DEF OpenIn
  <1>3. o \in Seq(Contexts) /\ Len(o) = n /\ \A i \in 1 .. n : o[i] = Opens(st[i])
    BY <1>1, <1>2
  <1> HIDE DEF o
  <1>4. ASSUME NEW e \in Entries
        PROVE  OpenIn(Append(st, e)) = Append(o, Opens(e))
    <2> DEFINE s2 == Append(st, e)
               a  == Append(o, Opens(e))
    <2>1. s2 \in Seq(Entries) /\ Len(s2) = n + 1 /\ s2[n + 1] = e /\ \A i \in 1 .. n : s2[i] = st[i]
      BY AppendFacts
    <2>2. a \in Seq(Contexts) /\ Len(a) = n + 1 /\ a[n + 1] = Opens(e) /\ \A i \in 1 .. n : a[i] = o[i]
      BY <1>1, <1>3, AppendFacts
    <2> HIDE DEF s2, a
    <2>3. OpenIn(s2) = [i \in 1 .. n + 1 |-> Opens(s2[i])]
      BY <2>1 DEF OpenIn
    <2>4. OpenIn(s2) \in Seq(Contexts) /\ Len(OpenIn(s2)) = n + 1
      BY <2>3, <1>1
    <2>5. ASSUME NEW i \in 1 .. n + 1
          PROVE  OpenIn(s2)[i] = a[i]
      BY <2>1, <2>2, <2>3, <1>1, <1>3
    <2>6. OpenIn(s2) = a
      BY <2>2, <2>4, <2>5, SeqEqual
    <2>7. QED
      BY <2>6 DEF s2, a
  <1>5. ASSUME n > 0
        PROVE  OpenIn(Pop(st)) = Pop(o)
    <2> DEFINE s2 == Pop(st)
               q  == Pop(o)
    <2>1. s2 \in Seq(Entries) /\ Len(s2) = n - 1 /\ \A i \in 1 .. n - 1 : s2[i] = st[i]
      BY <1>5, PopFacts
    <2>2. q \in Seq(Contexts) /\ Len(q) = n - 1 /\ \A i \in 1 .. n - 1 : q[i] = o[i]
      BY <1>5, <1>3, PopFacts
    <2> HIDE DEF s2, q
    <2>3. OpenIn(s2) = [i \in 1 .. n - 1 |-> Opens(s2[i])]
      BY <2>1 DEF OpenIn
    <2>4. OpenIn(s2) \in Seq(Contexts) /\ Len(OpenIn(s2)) = n - 1
      BY <2>3, <1>1, <1>5
    <2>5. ASSUME NEW i \in 1 .. n - 1
          PROVE  OpenIn(s2)[i] = q[i]
      BY <2>1, <2>2, <2>3, <1>1, <1>3
    <2>6. OpenIn(s2) = q
      BY <2>2, <2>4, <2>5, SeqEqual
    <2>7. QED
      BY <2>6 DEF s2, q
  <1>6. QED
    BY <1>3, <1>4, <1>5 DEF o, n

\* A stack with the same types has the same containers.
LEMMA SameOpen ==
    ASSUME NEW st \in Seq(Entries), NEW st2 \in Seq(Entries), Len(st2) = Len(st),
           \A i \in 1 .. Len(st) : st2[i].type = st[i].type
    PROVE  OpenIn(st2) = OpenIn(st)
  BY DEF OpenIn, Opens

\* What the serializers write are lexemes.
LEMMA LexemeFacts ==
    /\ \A type \in {"null", "start_object", "start_array", "end_object", "end_array", "comma"} :
          Token(type) \in Lexemes /\ Token(type).type = type
    /\ \A type \in {"string", "key"}, s \in Strings :
          Text(type, s) \in Lexemes /\ Text(type, s).type = type
    /\ \A x \in Lexemes : x.type \in TokenTypes \cup {"comma"}
  <1>1. /\ Lexemes = [type : {"string", "key"}, text : Strings]
                     \cup [type : TokenTypes \ {"string", "key"}, text : {""}]
                     \cup {[type |-> "comma", text |-> ""]}
        /\ TokenTypes = {"null", "string", "start_object", "start_array",
                         "key", "end_object", "end_array"}
    BY DEF Lexemes, Tokens, Token, TokenTypes, ValueTokens
  <1>2. ASSUME NEW type \in {"null", "start_object", "start_array", "end_object", "end_array", "comma"}
        PROVE  Token(type) \in Lexemes /\ Token(type).type = type
    BY <1>1 DEF Token
  <1>3. ASSUME NEW type \in {"string", "key"}, NEW s \in Strings
        PROVE  Text(type, s) \in Lexemes /\ Text(type, s).type = type
    BY <1>1 DEF Text
  <1>4. ASSUME NEW x \in Lexemes
        PROVE  x.type \in TokenTypes \cup {"comma"}
    <2>1. CASE x \in [type : {"string", "key"}, text : Strings]
      BY <2>1, <1>1
    <2>2. CASE x \in [type : TokenTypes \ {"string", "key"}, text : {""}]
      BY <2>2
    <2>3. CASE x = [type |-> "comma", text |-> ""]
      BY <2>3
    <2>4. QED
      BY <1>1, <2>1, <2>2, <2>3
  <1>5. QED
    BY <1>2, <1>3, <1>4

\* Any byte that is left can be read.
LEMMA ByteFacts ==
    ASSUME TypeOK, NEW i \in Nat, 0 < i, i <= Left
    PROVE  ByteAt(i) \in Byte /\ ByteAt(i) \in Nat /\ TextOf[ByteAt(i)] \in Strings
  <1>1. input \in Seq(Byte) /\ pos \in 0 .. Len(input) /\ pos + i \in 1 .. Len(input)
    BY DEF TypeOK, Left
  <1>2. ByteAt(i) \in Byte
    BY <1>1 DEF ByteAt
  <1>3. QED
    BY <1>2, ByteAssumption DEF Byte

\* Fields and alternatives are named by strings and have types.
LEMMA FieldFacts ==
    ASSUME NEW t \in Types, NEW next \in Nat
    PROVE  /\ Len(Fields[t]) \in Nat /\ DOMAIN Fields[t] = 1 .. Len(Fields[t])
           /\ next < Len(Fields[t]) => Field(t, next).type \in Types /\ Field(t, next).name \in Strings
  <1>1. Fields[t] \in Seq([name : Strings, type : Types])
    BY TableAssumption
  <1>2. Len(Fields[t]) \in Nat /\ DOMAIN Fields[t] = 1 .. Len(Fields[t])
    BY <1>1
  <1>3. ASSUME next < Len(Fields[t])
        PROVE  Field(t, next) \in [name : Strings, type : Types]
    <2>1. next + 1 \in 1 .. Len(Fields[t])
      BY <1>2, <1>3
    <2> DEFINE f == Fields[t]
    <2>2. f[next + 1] \in [name : Strings, type : Types]
      <3> HIDE DEF f
      <3>1. f \in Seq([name : Strings, type : Types]) /\ next + 1 \in 1 .. Len(f)
        BY <1>1, <2>1 DEF f
      <3>2. QED
        BY <3>1, ElementOfSeq
    <2>3. QED
      BY <2>2 DEF Field
  <1>4. QED
    BY <1>2, <1>3

----------------------------------------------------------------------------
(***************************************************************************)
(* What a serializer call can do: fail, or return to the loop.             *)
(***************************************************************************)
Returned(n, lexemes, st) ==
    /\ pos' = pos + n
    /\ text' = text \o lexemes
    /\ stack' = st
    /\ pc' = "loop"
    /\ UNCHANGED <<skipped_extension, error>>

Failed == \E e \in Errors : Fail(e)

NewEntry(e, allow) == EntryOK(e) /\ e.position = -1 /\ (e.allow_extensions => allow)

Opening(e) == Token(IF Kind[e.type] = "struct" THEN "start_object" ELSE "start_array")

\* The start of a value reads bytes there are and writes one lexeme more.
LEMMA StartSummary ==
    ASSUME TypeOK, NEW t \in Types, NEW allow \in BOOLEAN, NEW read \in Nat, read <= Left,
           NEW lexemes, NEW below, StartValue(t, allow, read, lexemes, below)
    PROVE  \/ Failed
           \/ \E n \in Nat, x \in Lexemes :
                 /\ n <= Left /\ x.type \in {"null", "string"}
                 /\ Returned(n, Append(lexemes, x), below)
           \/ \E n \in Nat, e \in Entries :
                 /\ n <= Left /\ NewEntry(e, allow)
                 /\ Returned(n, Append(lexemes, Opening(e)), Append(below, e))
  <1> DEFINE at == read + Prefix(t)
  <1>1. Left \in Nat
    BY DEF TypeOK, Left
  <1>2. "overrun" \in Errors /\ "recursion_limit_reached" \in Errors
    BY DEF Errors
  <1>3. \A n, l, st : Return(n, l, st) => Failed \/ Returned(n, l, st)
    BY <1>2 DEF Return, Failed, Returned
  <1>4. CASE Optional(t) /\ Left <= read /\ Fail("overrun")
    BY <1>2, <1>4 DEF Failed
  <1>5. CASE AbsentOptional(t, read, lexemes, below)
    <2>1. /\ read + 1 \in Nat /\ read + 1 <= Left
          /\ Return(read + 1, Append(lexemes, Token("null")), below)
      BY <1>5, <1>1 DEF AbsentOptional
    <2>2. Token("null") \in Lexemes /\ Token("null").type = "null"
      BY LexemeFacts
    <2>3. QED
      BY <2>1, <2>2, <1>3
  <1>6. ASSUME Present(t, read)
        PROVE  at \in Nat /\ at <= Left
    <2>1. CASE Optional(t)
      BY <1>1, <1>6, <2>1 DEF Present, Prefix
    <2>2. CASE ~Optional(t)
      BY <1>1, <2>2 DEF Prefix
    <2>3. QED
      BY <2>1, <2>2
  <1>7. Base(t) \in Types /\ Kind[Base(t)] \in {"builtin", "struct", "variant"} \cup ArrayKinds
    BY BaseFacts
  <1>8. CASE Present(t, read) /\ StartBuiltin(t, read, lexemes, below)
    <2>1. CASE Left < at + 1
      BY <1>2, <1>8, <2>1 DEF StartBuiltin, Failed
    <2>2. CASE ~(Left < at + 1)
      <3> DEFINE x == Text("string", TextOf[ByteAt(at + 1)])
      <3>1. Return(at + 1, Append(lexemes, x), below)
        BY <1>8, <2>2 DEF StartBuiltin
      <3>2. at + 1 \in Nat /\ 0 < at + 1 /\ at + 1 <= Left
        BY <1>1, <1>6, <1>8, <2>2
      <3>3. x \in Lexemes /\ x.type = "string"
        BY <3>2, ByteFacts, LexemeFacts
      <3> HIDE DEF x, at
      <3>4. QED
        BY <3>1, <3>2, <3>3, <1>3
    <2>3. QED
      BY <2>1, <2>2
  <1>9. ASSUME Present(t, read), NEW size \in Nat, NEW a \in BOOLEAN, NEW n \in Nat, n <= Left,
               NEW x, x = Token(IF Kind[Base(t)] = "struct" THEN "start_object" ELSE "start_array"),
               Kind[Base(t)] # "builtin", Kind[Base(t)] \in ArrayKinds => ~a, a => allow,
               Return(n, Append(lexemes, x), Append(below, Entry(Base(t), a, size)))
        PROVE  \/ Failed
               \/ \E k \in Nat, e \in Entries :
                     /\ k <= Left /\ NewEntry(e, allow)
                     /\ Returned(k, Append(lexemes, Opening(e)), Append(below, e))
    <2> DEFINE e == Entry(Base(t), a, size)
    <2>1. e \in Entries /\ NewEntry(e, allow) /\ x = Opening(e)
      BY <1>7, <1>9 DEF Entry, Entries, NewEntry, EntryOK, Opening
    <2> HIDE DEF e
    <2>2. QED
      BY <1>3, <1>9, <2>1 DEF e
  <1>10. CASE Present(t, read) /\ StartStruct(t, allow, read, lexemes, below)
    <2>1. /\ Kind[Base(t)] = "struct"
          /\ Return(at, Append(lexemes, Token("start_object")), Append(below, Entry(Base(t), allow, 0)))
      BY <1>10 DEF StartStruct
    <2> HIDE DEF at
    <2>2. QED
      BY <1>6, <1>9, <1>10, <2>1 DEF ArrayKinds
  <1>11. CASE Present(t, read) /\ StartArray(t, read, lexemes, below)
    <2>1. CASE Left < at + 1
      BY <1>2, <1>11, <2>1 DEF StartArray, Failed
    <2>2. CASE ~(Left < at + 1)
      <3>1. /\ Kind[Base(t)] = "array"
            /\ Return(at + 1, Append(lexemes, Token("start_array")),
                      Append(below, Entry(Base(t), FALSE, ByteAt(at + 1))))
        BY <1>11, <2>2 DEF StartArray
      <3>2. at + 1 \in Nat /\ 0 < at + 1 /\ at + 1 <= Left
        BY <1>1, <1>6, <1>11, <2>2
      <3>3. ByteAt(at + 1) \in Nat
        BY <3>2, ByteFacts
      <3> HIDE DEF at
      <3>4. QED
        BY <1>9, <1>11, <3>1, <3>2, <3>3
    <2>3. QED
      BY <2>1, <2>2
  <1>12. CASE Present(t, read) /\ StartFixedArray(t, read, lexemes, below)
    <2>1. /\ Kind[Base(t)] = "fixed_array"
          /\ Return(at, Append(lexemes, Token("start_array")), Append(below, Entry(Base(t), FALSE, 0)))
      BY <1>12 DEF StartFixedArray
    <2> HIDE DEF at
    <2>2. QED
      BY <1>6, <1>9, <1>12, <2>1
  <1>13. CASE Present(t, read) /\ StartVariant(t, allow, read, lexemes, below)
    <2>1. /\ Kind[Base(t)] = "variant"
          /\ Return(at, Append(lexemes, Token("start_array")), Append(below, Entry(Base(t), allow, 0)))
      BY <1>13 DEF StartVariant
    <2> HIDE DEF at
    <2>2. QED
      BY <1>6, <1>9, <1>13, <2>1 DEF ArrayKinds
  <1>14. QED
    BY <1>4, <1>5, <1>8, <1>10, <1>11, <1>12, <1>13 DEF StartValue

----------------------------------------------------------------------------
(***************************************************************************)
(* The ends of a serializer call preserve the invariant.                   *)
(***************************************************************************)

\* A failed conversion satisfies the invariant.
LEMMA FailStep ==
    ASSUME IInv, Failed, UNCHANGED <<root, input>>
    PROVE  IInv'
  <1>1. PICK e \in Errors : Fail(e)
    BY DEF Failed
  <1>2. TypeOK'
    BY <1>1 DEF IInv, TypeOK, Fail
  <1>3. Omitted => Omitted'
    BY <1>1 DEF Omitted, Fail, Left
  <1>4. QED
    BY <1>1, <1>2, <1>3 DEF IInv, Fail

\* So does one that is back in the loop.
LEMMA ReturnStep ==
    ASSUME TypeOK, UNCHANGED <<root, input>>,
           NEW n \in Nat, n <= Left, NEW lexemes \in Seq(Lexemes), NEW st \in Seq(Entries),
           Returned(n, lexemes, st), Levels(st),
           ExtensionsLast =>
              /\ Wrote(text \o lexemes, st, skipped_extension)
              /\ skipped_extension => Left = 0 /\ \A i \in 1 .. Len(st) : Trailing(st[i])
    PROVE  IInv'
  <1>1. /\ pos' = pos + n /\ text' = text \o lexemes /\ stack' = st /\ pc' = "loop"
        /\ skipped_extension' = skipped_extension /\ error' = error
        /\ root' = root /\ input' = input
    BY DEF Returned
  <1>2. pos' \in 0 .. Len(input)
    BY <1>1 DEF TypeOK, Left
  <1>3. text' \in Seq(Lexemes)
    BY <1>1 DEF TypeOK
  <1>4. TypeOK'
    BY <1>1, <1>2, <1>3 DEF TypeOK
  <1>5. Levels(stack)'
    BY <1>1 DEF Levels, AllowTrail, AtEnd, EntryOK
  <1>6. ASSUME ExtensionsLast
        PROVE  Omitted' /\ Wrote(text', stack', skipped_extension')
    <2>1. Wrote(text', stack', skipped_extension')
      BY <1>1, <1>6
    <2>2. ASSUME skipped_extension'
          PROVE  Left' = 0 /\ \A i \in 1 .. Len(stack') : Trailing(stack'[i])
      <3>1. n = 0 /\ Left = 0 /\ \A i \in 1 .. Len(st) : Trailing(st[i])
        BY <1>1, <1>6, <2>2
      <3>2. Left' = Left
        BY <1>1, <3>1 DEF Left, TypeOK
      <3>3. QED
        BY <1>1, <3>1, <3>2
    <2>3. Omitted'
      BY <1>1, <2>2 DEF Omitted, Trailing
    <2>4. QED
      BY <2>1, <2>3
  <1>7. QED
    BY <1>1, <1>4, <1>5, <1>6 DEF IInv

\* A new entry on top of levels that are all inside a value.
LEMMA PushLevels ==
    ASSUME NEW st \in Seq(Entries), AllInside(st), NEW allow \in BOOLEAN,
           allow => \A i \in 1 .. Len(st) : AtEnd(st[i]),
           NEW e \in Entries, NewEntry(e, allow)
    PROVE  Levels(Append(st, e))
  <1> DEFINE s2 == Append(st, e)
             n  == Len(st)
  <1>1. n \in Nat /\ Len(s2) = n + 1 /\ s2[n + 1] = e /\ \A i \in 1 .. n : s2[i] = st[i]
    BY AppendFacts
  <1> HIDE DEF s2, n
  <1>2. \A i \in 1 .. n : EntryOK(st[i]) /\ st[i].position # -1
    BY DEF AllInside, n
  <1>3. EntryOK(e) /\ (e.allow_extensions => \A i \in 1 .. n : AtEnd(st[i]))
    BY DEF NewEntry, n
  <1>4. AllowTrail(s2)
    <2>1. SUFFICES ASSUME NEW i \in 1 .. n + 1, NEW j \in 1 .. n + 1,
                          i < j, s2[j].allow_extensions
                   PROVE  AtEnd(s2[i])
      BY <1>1 DEF AllowTrail
    <2>2. i \in 1 .. n /\ s2[i] = st[i]
      BY <2>1, <1>1
    <2>3. CASE j \in 1 .. n
      BY <2>1, <2>2, <2>3, <1>1 DEF AllInside, AllowTrail, n
    <2>4. CASE j = n + 1
      BY <2>1, <2>2, <2>4, <1>1, <1>3
    <2>5. QED
      BY <2>3, <2>4, <1>1
  <1>5. QED
    BY <1>1, <1>2, <1>3, <1>4 DEF Levels, s2

\* Where a value may start: the text ends with nothing a value cannot follow,
\* and past the value the reader is inside of what the stack has open.
Ready(t, below) ==
    \E rd \in Seq(Contexts) : \E last :
        /\ last \notin Ends /\ Written(t, rd, last)
        /\ Len(rd) > 0 /\ Waiting(rd) # "name" /\ PastValue(rd) = OpenIn(below)

\* Starting a value preserves the invariant.
LEMMA StartStep ==
    ASSUME IInv, UNCHANGED <<root, input>>,
           NEW t \in Types, NEW allow \in BOOLEAN, NEW read \in Nat, read <= Left,
           NEW lexemes \in Seq(Lexemes), NEW below \in Seq(Entries),
           AllInside(below), allow => \A i \in 1 .. Len(below) : AtEnd(below[i]),
           ExtensionsLast => ~skipped_extension /\ Ready(text \o lexemes, below),
           StartValue(t, allow, read, lexemes, below)
    PROVE  IInv'
  <1>1. TypeOK /\ text \in Seq(Lexemes)
    BY DEF IInv, TypeOK
  <1>2. ASSUME NEW x \in Lexemes
        PROVE  /\ Append(lexemes, x) \in Seq(Lexemes)
               /\ text \o Append(lexemes, x) = Append(text \o lexemes, x)
    BY <1>1
  <1>3. ASSUME NEW x \in Lexemes, x.type \in ValueTokens, ExtensionsLast
        PROVE  \E rd \in Seq(Contexts) :
                  /\ PastValue(rd) = OpenIn(below)
                  /\ Written(text \o Append(lexemes, x), After(rd, x.type), x.type)
    <2>0. PICK rd \in Seq(Contexts) : \E last :
             /\ last \notin Ends /\ Written(text \o lexemes, rd, last)
             /\ Len(rd) > 0 /\ Waiting(rd) # "name" /\ PastValue(rd) = OpenIn(below)
      BY <1>3 DEF Ready
    <2>1. PICK last :
             /\ last \notin Ends /\ Written(text \o lexemes, rd, last)
             /\ Len(rd) > 0 /\ Waiting(rd) # "name" /\ PastValue(rd) = OpenIn(below)
      BY <2>0
    <2>2. x.type \in Expected(rd)
      BY <2>1, <1>3 DEF Expected, Complete, Waiting, Contexts
    <2>3. x.type # "comma" /\ Follows(last, x.type)
      BY <2>1, <1>3 DEF Follows, Starts, ValueTokens
    <2>4. Written(Append(text \o lexemes, x), After(rd, x.type), x.type)
      BY <2>1, <2>2, <2>3, <1>3, WriteToken
    <2>5. QED
      BY <2>1, <2>4, <1>2
  <1>4. CASE Failed
    BY <1>4, FailStep
  <1>5. ASSUME NEW n \in Nat, NEW x \in Lexemes, n <= Left, x.type \in {"null", "string"},
               Returned(n, Append(lexemes, x), below)
        PROVE  IInv'
    <2>1. Levels(below)
      BY DEF AllInside, Levels
    <2>2. ASSUME ExtensionsLast
          PROVE  Wrote(text \o Append(lexemes, x), below, skipped_extension)
      <3>1. PICK rd \in Seq(Contexts) :
               /\ PastValue(rd) = OpenIn(below)
               /\ Written(text \o Append(lexemes, x), After(rd, x.type), x.type)
        BY <1>3, <1>5, <2>2 DEF ValueTokens
      <3>2. After(rd, x.type) = OpenIn(below)
        BY <3>1, <1>5 DEF After
      <3>3. x.type \in Ends
        BY <1>5 DEF Ends
      <3>4. Len(below) > 0 => below[Len(below)].position # -1
        BY DEF AllInside
      <3>5. QED
        BY <3>1, <3>2, <3>3, <3>4 DEF Wrote
    <2>3. QED
      BY <2>1, <2>2, <1>1, <1>2, <1>5, ReturnStep
  <1>6. ASSUME NEW n \in Nat, NEW e \in Entries, n <= Left, NewEntry(e, allow),
               Returned(n, Append(lexemes, Opening(e)), Append(below, e))
        PROVE  IInv'
    <2> DEFINE x  == Opening(e)
               st == Append(below, e)
    <2>1. /\ x \in Lexemes /\ x.type \in ValueTokens
          /\ x.type = IF Kind[e.type] = "struct" THEN "start_object" ELSE "start_array"
      BY LexemeFacts DEF Opening, ValueTokens
    <2>2. Levels(st)
      BY <1>6, PushLevels
    <2>3. st \in Seq(Entries) /\ Len(st) = Len(below) + 1 /\ st[Len(st)] = e
      BY AppendFacts
    <2>4. OpenIn(st) = Append(OpenIn(below), Opens(e))
      BY OpenFacts
    <2> HIDE DEF x, st
    <2>5. ASSUME ExtensionsLast
          PROVE  Wrote(text \o Append(lexemes, x), st, skipped_extension)
      <3>1. PICK rd \in Seq(Contexts) :
               /\ PastValue(rd) = OpenIn(below)
               /\ Written(text \o Append(lexemes, x), After(rd, x.type), x.type)
        BY <1>3, <2>1, <2>5
      <3>2. After(rd, x.type) = OpenIn(st)
        BY <3>1, <2>1, <2>4 DEF After, Opens
      <3>3. x.type \in {"start_object", "start_array"} /\ x.type \notin Ends
        BY <2>1 DEF Ends
      <3>4. e.position = -1
        BY <1>6 DEF NewEntry
      <3>5. QED
        BY <3>1, <3>2, <3>3, <3>4, <2>3 DEF Wrote
    <2>6. Returned(n, Append(lexemes, x), st)
      BY <1>6 DEF x, st
    <2>7. QED
      BY <2>1, <2>2, <2>3, <2>5, <2>6, <1>1, <1>2, <1>6, ReturnStep
  <1>7. QED
    BY <1>1, <1>4, <1>5, <1>6, StartSummary

----------------------------------------------------------------------------
(***************************************************************************)
(* Changing and popping the top entry.                                     *)
(***************************************************************************)

\* What a turn of the loop finds.
LEMMA TurnFacts ==
    ASSUME IInv, NEW kind, Turn(kind)
    PROVE  /\ TypeOK /\ UNCHANGED <<root, input>> /\ pc = "loop"
           /\ stack \in Seq(Entries) /\ text \in Seq(Lexemes)
           /\ Len(stack) \in Nat /\ Len(stack) > 0
           /\ Top \in Entries /\ Top = stack[Len(stack)] /\ EntryOK(Top)
           /\ Kind[Top.type] = kind /\ Top.type \in Types
           /\ Top.position \in Int /\ Top.position >= -1
           /\ Levels(stack) /\ Left \in Nat
  <1>1. TypeOK /\ UNCHANGED <<root, input>> /\ pc = "loop" /\ stack # << >> /\ Kind[Top.type] = kind
    BY DEF IInv, Turn
  <1>2. stack \in Seq(Entries) /\ text \in Seq(Lexemes) /\ Left \in Nat
    BY <1>1 DEF TypeOK, Left
  <1>3. Len(stack) \in Nat /\ Len(stack) > 0
    BY <1>1, <1>2
  <1>4. Top \in Entries /\ Top = stack[Len(stack)]
    BY <1>2, <1>3 DEF Top
  <1>5. Levels(stack) /\ EntryOK(Top)
    BY <1>1, <1>3, <1>4 DEF IInv, Levels
  <1>6. QED
    BY <1>1, <1>2, <1>3, <1>4, <1>5 DEF Entries, EntryOK

\* Only the position changes.
LEMMA MovedEntry ==
    ASSUME NEW e \in Entries, NEW next \in Nat
    PROVE  LET f == [e EXCEPT !.position = next]
           IN  /\ f \in Entries /\ f.type = e.type /\ f.position = next
               /\ f.allow_extensions = e.allow_extensions
  BY DEF Entries

\* What a turn that goes on leaves of the stack.
LEMMA TurnMoves ==
    ASSUME IInv, NEW kind, Turn(kind), NEW next \in Nat, NEW st, st = WithPosition(next)
    PROVE  /\ st \in Seq(Entries) /\ Len(st) = Len(stack)
           /\ \A i \in 1 .. Len(stack) - 1 : st[i] = stack[i]
           /\ st[Len(stack)].type = Top.type /\ st[Len(stack)].position = next
           /\ st[Len(stack)].allow_extensions = Top.allow_extensions
           /\ AllInside(st) /\ Levels(st)
           /\ OpenIn(st) = OpenIn(stack)
           /\ Top.allow_extensions => \A i \in 1 .. Len(stack) - 1 : AtEnd(st[i])
  <1> DEFINE n == Len(stack)
             e == Top
             f == [e EXCEPT !.position = next]
  <1>1. /\ n \in Nat /\ n > 0 /\ e \in Entries /\ e = stack[n]
        /\ stack \in Seq(Entries) /\ n = Len(stack) /\ Levels(stack)
    BY TurnFacts
  <1>2. /\ f \in Entries /\ f.type = e.type /\ f.position = next
        /\ f.allow_extensions = e.allow_extensions
    BY <1>1, MovedEntry
  <1>3. st = [stack EXCEPT ![n] = f]
    BY <1>1 DEF WithPosition
  <1> HIDE DEF n, e, f
  <1>4. /\ st \in Seq(Entries) /\ Len(st) = n /\ st[n] = f
        /\ \A i \in 1 .. n - 1 : st[i] = stack[i]
    BY <1>1, <1>2, <1>3, ExceptSeq DEF n
  <1>5. ASSUME NEW i \in 1 .. n
        PROVE  EntryOK(st[i]) /\ st[i].position # -1
    <2>1. EntryOK(stack[i]) /\ (i < n => stack[i].position # -1)
      BY <1>1 DEF Levels
    <2>2. CASE i < n
      BY <2>1, <2>2, <1>1, <1>4
    <2>3. CASE i = n
      <3>1. EntryOK(e)
        BY <2>1, <2>3, <1>1
      <3>2. EntryOK(f) /\ f.position # -1
        BY <1>2, <3>1 DEF EntryOK
      <3>3. QED
        BY <2>3, <3>2, <1>4
    <2>4. QED
      BY <2>2, <2>3, <1>1
  <1>6. \A i \in 1 .. n : st[i].allow_extensions = stack[i].allow_extensions /\ st[i].type = stack[i].type
    BY <1>1, <1>2, <1>4
  <1>7. AllowTrail(st)
    <2>1. SUFFICES ASSUME NEW i \in 1 .. n, NEW j \in 1 .. n, i < j, st[j].allow_extensions
                   PROVE  AtEnd(st[i])
      BY <1>4 DEF AllowTrail
    <2>2. i \in 1 .. n - 1 /\ st[i] = stack[i] /\ stack[j].allow_extensions
      BY <2>1, <1>1, <1>4, <1>6
    <2>3. QED
      BY <2>1, <2>2, <1>1 DEF Levels, AllowTrail
  <1>8. OpenIn(st) = OpenIn(stack)
    BY <1>1, <1>4, <1>6, SameOpen
  <1>9. ASSUME e.allow_extensions, NEW i \in 1 .. n - 1
        PROVE  AtEnd(st[i])
    BY <1>1, <1>4, <1>9 DEF Levels, AllowTrail
  <1>10. QED
    BY <1>1, <1>2, <1>4, <1>5, <1>7, <1>8, <1>9 DEF AllInside, Levels, e

\* A struct, an array or a variant ends.
LEMMA LeaveStep ==
    ASSUME IInv, NEW kind, Turn(kind),
           NEW end, end = IF kind = "struct" THEN "end_object" ELSE "end_array",
           Leave(end)
    PROVE  IInv'
  <1> DEFINE st == Pop(stack)
             x  == Token(end)
             n  == Len(stack)
  <1>1. /\ TypeOK /\ UNCHANGED <<root, input>> /\ pc = "loop"
        /\ stack \in Seq(Entries) /\ text \in Seq(Lexemes) /\ n \in Nat /\ n > 0
        /\ Top = stack[n] /\ Kind[Top.type] = kind /\ Levels(stack) /\ Left \in Nat
    BY TurnFacts
  <1>2. x \in Lexemes /\ x.type = end
    BY LexemeFacts
  <1>3. st \in Seq(Entries) /\ Len(st) = n - 1 /\ \A i \in 1 .. n - 1 : st[i] = stack[i]
    BY <1>1, PopFacts
  <1>4. Return(0, <<x>>, st)
    BY DEF Leave
  <1>5. /\ OpenIn(st) = Pop(OpenIn(stack)) /\ OpenIn(stack) \in Seq(Contexts)
        /\ Len(OpenIn(stack)) = n /\ OpenIn(stack)[n] = Opens(stack[n])
    BY <1>1, OpenFacts
  <1> HIDE DEF st, x, n
  <1>6. CASE Fail("recursion_limit_reached")
    BY <1>1, <1>6, FailStep DEF Failed, Errors
  <1>7. CASE Returned(0, <<x>>, st)
    <2>1. <<x>> \in Seq(Lexemes) /\ text \o <<x>> = Append(text, x)
      BY <1>1, <1>2
    <2>2. Levels(st)
      <3>1. ASSUME NEW i \in 1 .. n - 1
            PROVE  EntryOK(st[i]) /\ st[i].position # -1
        <4>1. i \in 1 .. Len(stack) /\ i < Len(stack) /\ st[i] = stack[i]
          BY <1>1, <1>3 DEF n
        <4>2. EntryOK(stack[i]) /\ stack[i].position # -1
          BY <4>1, <1>1 DEF Levels
        <4>3. QED
          BY <4>1, <4>2
      <3>2. AllowTrail(st)
        BY <1>1, <1>3 DEF Levels, AllowTrail, n
      <3>3. QED
        BY <3>1, <3>2, <1>1, <1>3 DEF Levels
    <2>3. ASSUME ExtensionsLast
          PROVE  Wrote(text \o <<x>>, st, skipped_extension)
      <3>1. PICK last \in Ends \cup {"start_object", "start_array"} :
               Written(text, OpenIn(stack), last)
        BY <2>3, <1>1 DEF IInv, Wrote
      <3>2. x.type \in Expected(OpenIn(stack))
        BY <1>1, <1>2, <1>5 DEF Expected, Complete, Waiting, Opens
      <3>3. Follows(last, x.type) /\ x.type # "comma" /\ x.type \in Ends
        BY <1>2 DEF Follows, Ends, Starts, ValueTokens
      <3>4. Written(Append(text, x), After(OpenIn(stack), x.type), x.type)
        BY <3>1, <3>2, <3>3, <1>2, WriteToken
      <3>5. After(OpenIn(stack), x.type) = OpenIn(st)
        BY <1>2, <1>5 DEF After
      <3>6. Len(st) > 0 => st[Len(st)].position # -1
        BY <1>1, <1>3 DEF Levels, n
      <3>7. QED
        BY <3>3, <3>4, <3>5, <3>6, <2>1 DEF Wrote
    <2>4. ASSUME ExtensionsLast, skipped_extension
          PROVE  Left = 0 /\ \A i \in 1 .. Len(st) : Trailing(st[i])
      <3>1. Left = 0 /\ \A i \in 1 .. n : Trailing(stack[i])
        BY <2>4, <1>1 DEF IInv, Omitted, n
      <3>2. QED
        BY <3>1, <1>1, <1>3
    <2>5. 0 \in Nat /\ 0 <= Left
      BY <1>1
    <2>6. QED
      BY <1>1, <1>3, <1>7, <2>1, <2>2, <2>3, <2>4, <2>5, ReturnStep
  <1>8. QED
    BY <1>4, <1>6, <1>7 DEF Return, Returned

\* A field, an element or an alternative starts after what the code writes
\* in front of it: the comma it needs.
LEMMA ItemReady ==
    ASSUME IInv, NEW kind, Turn(kind), ExtensionsLast, ~skipped_extension,
           NEW next \in Nat, next = Top.position + 1
    PROVE  /\ Comma(next) \in Seq(Lexemes)
           /\ \E last : /\ last \notin Ends
                        /\ Written(text \o Comma(next), OpenIn(stack), last)
  <1>1. /\ text \in Seq(Lexemes) /\ Len(stack) > 0 /\ Top = stack[Len(stack)]
        /\ pc = "loop" /\ Top.position \in Int
    BY TurnFacts
  <1>2. PICK last \in Ends \cup {"start_object", "start_array"} :
           /\ Written(text, OpenIn(stack), last)
           /\ last \in Ends <=> Top.position # -1
    BY <1>1 DEF IInv, Wrote
  <1>3. CASE next = 0
    <2>1. Comma(next) = << >> /\ text \o << >> = text /\ << >> \in Seq(Lexemes)
      BY <1>1, <1>3 DEF Comma
    <2>2. last \notin Ends
      BY <1>1, <1>2, <1>3
    <2>3. Comma(next) \in Seq(Lexemes) /\ text \o Comma(next) = text
      BY <2>1
    <2>4. QED
      BY <2>2, <2>3, <1>2
  <1>4. CASE next # 0
    <2> DEFINE x == Token("comma")
    <2>1. x \in Lexemes
      BY LexemeFacts
    <2>2. Comma(next) = <<x>>
      BY <1>4 DEF Comma
    <2>3. Written(Append(text, x), OpenIn(stack), "comma")
      BY <1>1, <1>2, <1>4, WriteComma
    <2> HIDE DEF x
    <2>4. <<x>> \in Seq(Lexemes) /\ text \o <<x>> = Append(text, x)
      BY <1>1, <2>1
    <2>5. "comma" \notin Ends
      BY DEF Ends
    <2>6. QED
      BY <2>2, <2>3, <2>4, <2>5
  <1>5. QED
    BY <1>3, <1>4

----------------------------------------------------------------------------
(***************************************************************************)
(* One lemma per action.                                                   *)
(***************************************************************************)

LEMMA InitInv == Init => IInv
  <1> SUFFICES ASSUME Init PROVE IInv
    OBVIOUS
  <1>1. input \in Seq(Byte) /\ root \in Types
    BY BoundAssumption DEF Init
  <1>2. 0 \in 0 .. Len(input) /\ << >> \in Seq(Entries) /\ << >> \in Seq(Lexemes)
    BY <1>1
  <1>3. TypeOK
    BY <1>1, <1>2 DEF Init, TypeOK, Errors
  <1>4. QED
    BY <1>3 DEF Init, IInv, Omitted

\* The empty text.
LEMMA NothingWritten == Written(<< >>, FreshReader, "none")
  <1> DEFINE r0 == [i \in 0 .. 0 |-> FirstReading]
  <1>1. ASSUME NEW r
        PROVE  IsReading(r, << >>) <=> r = r0
    BY DEF IsReading
  <1>2. r0[0] = FirstReading
    OBVIOUS
  <1> HIDE DEF r0
  <1>3. ReadsAs(<< >>, FreshReader)
    BY <1>1, <1>2 DEF ReadsAs, FirstReading
  <1>4. QED
    BY <1>3 DEF Written, Chained, LastIs

LEMMA BeginStep == IInv /\ Begin => IInv'
  <1> SUFFICES ASSUME IInv, Begin PROVE IInv'
    OBVIOUS
  <1>1. /\ UNCHANGED <<root, input>> /\ root \in Types /\ TypeOK
        /\ text = << >> /\ ~skipped_extension
        /\ StartValue(root, TRUE, 0, << >>, << >>)
    BY DEF Begin, IInv, TypeOK
  <1>2. 0 \in Nat /\ 0 <= Left
    BY <1>1 DEF TypeOK, Left
  <1>3. << >> \in Seq(Lexemes) /\ << >> \in Seq(Entries) /\ text \o << >> = << >>
    BY <1>1
  <1>4. AllInside(<< >>) /\ \A i \in 1 .. Len(<< >>) : AtEnd(<< >>[i])
    BY DEF AllInside, AllowTrail
  <1>5. Ready(text \o << >>, << >>)
    <2>1. Written(text \o << >>, FreshReader, "none") /\ "none" \notin Ends
      BY <1>3, NothingWritten DEF Ends
    <2>2. /\ FreshReader \in Seq(Contexts) /\ Len(FreshReader) = 1
          /\ Waiting(FreshReader) = "root"
      BY DEF FreshReader, Contexts, Waiting
    <2>3. PastValue(FreshReader) = << >>
      BY <2>2, PastValueFacts
    <2>4. OpenIn(<< >>) = << >>
      BY DEF OpenIn
    <2>5. QED
      BY <2>1, <2>2, <2>3, <2>4 DEF Ready
  <1>6. QED
    BY <1>1, <1>2, <1>3, <1>4, <1>5, StartStep

\* A field is left out.
LEMMA LeaveOutStep ==
    ASSUME IInv, Turn("struct"), NEW next \in Nat, next = Top.position + 1,
           next < Len(Fields[Top.type]), MayLeaveOut(next), LeaveOut(next)
    PROVE  IInv'
  <1> DEFINE n == Len(stack)
             e == Top
  <1>1. /\ TypeOK /\ UNCHANGED <<root, input>> /\ pc = "loop"
        /\ stack \in Seq(Entries) /\ n \in Nat /\ n > 0
        /\ e = stack[n] /\ e \in Entries /\ Kind[e.type] = "struct" /\ e.type \in Types
        /\ Levels(stack)
    BY TurnFacts
  <1>2. /\ Left = 0 /\ Extension(Field(e.type, next).type) /\ e.allow_extensions
        /\ skipped_extension' /\ stack' = WithPosition(next)
        /\ UNCHANGED <<pos, pc, text, error>>
    BY DEF MayLeaveOut, LeaveOut
  <1>3. stack' = WithPosition(next)
    BY <1>2
  <1>4. /\ stack' \in Seq(Entries) /\ Len(stack') = n
        /\ \A i \in 1 .. n - 1 : stack'[i] = stack[i]
        /\ Levels(stack') /\ OpenIn(stack') = OpenIn(stack)
    BY <1>3, TurnMoves
  <1>5. /\ stack'[n].type = e.type /\ stack'[n].position = next
        /\ stack'[n].allow_extensions
        /\ \A i \in 1 .. n - 1 : AtEnd(stack'[i])
    BY <1>2, <1>3, TurnMoves, ZenonT(60)
  <1> HIDE DEF n, e
  <1>6. TypeOK'
    BY <1>1, <1>2, <1>4 DEF TypeOK
  <1>7. ASSUME ExtensionsLast
        PROVE  Omitted' /\ Wrote(text', stack', skipped_extension')
    <2>1. PICK last \in Ends \cup {"start_object", "start_array"} : Written(text, OpenIn(stack), last)
      BY <1>7, <1>1 DEF IInv, Wrote
    <2>2. Wrote(text', stack', skipped_extension')
      BY <2>1, <1>2, <1>4 DEF Wrote
    <2>3. ASSUME NEW i \in 1 .. n - 1
          PROVE  Trailing(stack'[i])
      <3> DEFINE f == stack'[i]
      <3>1. AtEnd(f) /\ f \in Entries
        BY <1>1, <1>4, <1>5
      <3> HIDE DEF f
      <3>2. DOMAIN Fields[f.type] = 1 .. Len(Fields[f.type]) /\ Len(Fields[f.type]) \in Nat
        BY <3>1, FieldFacts DEF Entries
      <3>3. f.position \in Int
        BY <3>1 DEF Entries
      <3>4. Trailing(f)
        BY <3>1, <3>2, <3>3 DEF AtEnd, Trailing
      <3>5. QED
        BY <3>4 DEF f
    <2>4. Trailing(stack'[n])
      <3>1. DOMAIN Fields[e.type] = 1 .. Len(Fields[e.type]) /\ Len(Fields[e.type]) \in Nat
        BY <1>1, FieldFacts
      <3>2. next + 1 \in DOMAIN Fields[e.type] /\ Extension(Fields[e.type][next + 1].type)
        BY <1>2, <3>1 DEF Field, e
      <3>3. \A j \in DOMAIN Fields[e.type] : j > next + 1 => Extension(Fields[e.type][j].type)
        BY <1>1, <1>7, <3>1, <3>2 DEF ExtensionsLast
      <3>4. QED
        BY <1>1, <1>5, <3>3 DEF Trailing
    <2>5. \A i \in 1 .. Len(stack') : Trailing(stack'[i])
      BY <2>3, <2>4, <1>1, <1>4
    <2>6. Left' = 0
      BY <1>1, <1>2 DEF Left
    <2>7. pc' = "loop"
      BY <1>1, <1>2
    <2>8. Omitted'
      BY <2>5, <2>6, <2>7 DEF Omitted, Trailing
    <2>9. QED
      BY <2>2, <2>8
  <1>8. pc' = "loop" /\ Levels(stack)'
    BY <1>1, <1>2, <1>4 DEF Levels, AllowTrail, AtEnd, EntryOK
  <1>9. QED
    BY <1>6, <1>7, <1>8 DEF IInv

\* A field is read.
LEMMA FieldStep ==
    ASSUME IInv, Turn("struct"), NEW next \in Nat, next = Top.position + 1,
           next < Len(Fields[Top.type]), ~MayLeaveOut(next),
           StartValue(Field(Top.type, next).type, AllowIn(Top.type, next, Top.allow_extensions), 0,
                      Append(Comma(next), Text("key", Field(Top.type, next).name)),
                      WithPosition(next))
    PROVE  IInv'
  <1> DEFINE n == Len(stack)
             e == Top
             field == Field(e.type, next)
             key == Text("key", field.name)
             st == WithPosition(next)
             allow == AllowIn(e.type, next, e.allow_extensions)
  <1>1. /\ TypeOK /\ UNCHANGED <<root, input>> /\ pc = "loop"
        /\ stack \in Seq(Entries) /\ text \in Seq(Lexemes) /\ n \in Nat /\ n > 0 /\ Left \in Nat
        /\ e = stack[n] /\ e \in Entries /\ Kind[e.type] = "struct" /\ e.type \in Types
        /\ e.allow_extensions \in BOOLEAN /\ Levels(stack)
    BY TurnFacts DEF Entries
  <1>2. field.type \in Types /\ field.name \in Strings
    BY <1>1, FieldFacts
  <1>3. key \in Lexemes /\ key.type = "key"
    BY <1>2, LexemeFacts
  <1>4. /\ st \in Seq(Entries) /\ Len(st) = n
        /\ AllInside(st) /\ OpenIn(st) = OpenIn(stack)
    BY TurnMoves
  <1>5. StartValue(field.type, allow, 0, Append(Comma(next), key), st)
    OBVIOUS
  <1>6. /\ st[n].type = e.type /\ st[n].position = next
        /\ st[n].allow_extensions = e.allow_extensions
        /\ e.allow_extensions => \A i \in 1 .. n - 1 : AtEnd(st[i])
    BY TurnMoves
  <1> HIDE DEF n, e, st
  <1>7. allow \in BOOLEAN /\ (allow => \A i \in 1 .. Len(st) : AtEnd(st[i]))
    <2>1. allow \in BOOLEAN
      BY <1>1 DEF AllowIn
    <2>2. ASSUME allow
          PROVE  AtEnd(st[n]) /\ e.allow_extensions
      BY <2>2, <1>1, <1>6 DEF AllowIn, AtEnd
    <2>3. QED
      BY <2>1, <2>2, <1>1, <1>4, <1>6
  <1>8. Comma(next) \in Seq(Lexemes)
    <2>1. Token("comma") \in Lexemes
      BY LexemeFacts
    <2>2. QED
      BY <2>1 DEF Comma
  <1>9. ASSUME ExtensionsLast
        PROVE  ~skipped_extension
    <2>1. SUFFICES ASSUME skipped_extension PROVE FALSE
      OBVIOUS
    <2>2. Left = 0 /\ Trailing(e)
      BY <2>1, <1>1, <1>9 DEF IInv, Omitted, n
    <2>3. DOMAIN Fields[e.type] = 1 .. Len(Fields[e.type]) /\ Len(Fields[e.type]) \in Nat
      BY <1>1, FieldFacts
    <2>4. next + 1 \in DOMAIN Fields[e.type] /\ next + 1 > e.position + 1 /\ e.position \in Int
      BY <1>1, <2>3 DEF e, Entries
    <2>5. Extension(field.type) /\ e.allow_extensions
      BY <2>2, <2>4, <1>1 DEF Trailing, Field
    <2>6. QED
      BY <2>2, <2>5 DEF MayLeaveOut, e
  <1>10. ASSUME ExtensionsLast
         PROVE  Ready(text \o Append(Comma(next), key), st)
    <2> DEFINE o  == OpenIn(stack)
               rd == After(o, "key")
               t  == text \o Comma(next)
    <2>1. PICK last : last \notin Ends /\ Written(t, o, last)
      BY <1>9, <1>10, ItemReady
    <2>0. o \in Seq(Contexts) /\ Len(o) = n /\ o[n] = "name"
      BY <1>1, OpenFacts DEF Opens, n
    <2>2. o \in Seq(Contexts) /\ Len(o) > 0 /\ Waiting(o) = "name"
      <3> HIDE DEF o
      <3>1. QED
        BY <2>0, <1>1 DEF Waiting
    <2> HIDE DEF o
    <2>3. "key" \in Expected(o)
      BY <2>2 DEF Expected, Complete
    <2>4. Follows(last, "key")
      BY <2>1 DEF Follows, Starts
    <2>5. Written(Append(t, key), rd, "key")
      BY <2>1, <2>3, <2>4, <1>3, WriteToken
    <2>6. rd \in Seq(Contexts) /\ Len(rd) > 0 /\ Waiting(rd) = "value" /\ PastValue(rd) = o
      BY <2>2, KeyFacts
    <2>7. text \o Append(Comma(next), key) = Append(t, key)
      BY <1>1, <1>3, <1>8
    <2>8. "key" \notin Ends
      BY DEF Ends
    <2> HIDE DEF rd, t
    <2>9. QED
      BY <2>5, <2>6, <2>7, <2>8, <1>4 DEF Ready, o
  <1>11. Append(Comma(next), key) \in Seq(Lexemes)
    BY <1>3, <1>8
  <1>12. 0 \in Nat /\ 0 <= Left
    BY <1>1
  <1> HIDE DEF field, key, allow
  <1>13. QED
    BY <1>1, <1>2, <1>4, <1>5, <1>7, <1>9, <1>10, <1>11, <1>12, StartStep

LEMMA ObjectStep == IInv /\ Object => IInv'
  <1> SUFFICES ASSUME IInv, Object PROVE IInv'
    OBVIOUS
  <1> DEFINE next == Top.position + 1
  <1>1. Turn("struct")
    BY DEF Object
  <1>2. next \in Nat /\ Len(Fields[Top.type]) \in Nat
    BY <1>1, TurnFacts, FieldFacts
  <1>3. CASE next >= Len(Fields[Top.type])
    <2>1. Leave("end_object")
      BY <1>3 DEF Object
    <2>2. QED
      BY <2>1, <1>1, LeaveStep
  <1>4. CASE next < Len(Fields[Top.type]) /\ MayLeaveOut(next)
    <2>1. LeaveOut(next)
      BY <1>2, <1>4 DEF Object
    <2>2. QED
      BY <2>1, <1>1, <1>2, <1>4, LeaveOutStep
  <1>5. CASE next < Len(Fields[Top.type]) /\ ~MayLeaveOut(next)
    <2>1. StartValue(Field(Top.type, next).type, AllowIn(Top.type, next, Top.allow_extensions), 0,
                     Append(Comma(next), Text("key", Field(Top.type, next).name)),
                     WithPosition(next))
      BY <1>2, <1>5 DEF Object
    <2>2. QED
      BY <2>1, <1>1, <1>2, <1>5, FieldStep
  <1>6. QED
    BY <1>2, <1>3, <1>4, <1>5

\* While nothing but extensions can follow, no turn starts an element.
LEMMA NotOmitted ==
    ASSUME IInv, NEW kind, Turn(kind), ExtensionsLast,
           kind \in ArrayKinds \/ (kind = "variant" /\ Top.position = -1)
    PROVE  ~skipped_extension
  <1>1. /\ pc = "loop" /\ Len(stack) > 0 /\ Top = stack[Len(stack)] /\ Len(stack) \in Nat
        /\ EntryOK(Top) /\ Kind[Top.type] = kind
    BY TurnFacts
  <1>2. skipped_extension => Trailing(Top)
    BY <1>1 DEF IInv, Omitted
  <1>3. QED
    BY <1>1, <1>2 DEF Trailing, EntryOK, ArrayKinds

LEMMA ElementsStep ==
    ASSUME IInv, NEW kind \in ArrayKinds, Turn(kind), NEW size, Elements(size)
    PROVE  IInv'
  <1> DEFINE n == Len(stack)
             next == Top.position + 1
             st == WithPosition(next)
  <1>1. /\ TypeOK /\ UNCHANGED <<root, input>> /\ pc = "loop"
        /\ stack \in Seq(Entries) /\ text \in Seq(Lexemes) /\ n \in Nat /\ n > 0 /\ Left \in Nat
        /\ Top = stack[n] /\ Kind[Top.type] = kind /\ Top.type \in Types /\ next \in Nat
    BY TurnFacts
  <1>2. CASE next >= size
    <2>1. Leave("end_array")
      BY <1>2 DEF Elements
    <2>2. QED
      BY <2>1, LeaveStep DEF ArrayKinds
  <1>3. CASE ~(next >= size)
    <2>1. StartValue(Element[Top.type], FALSE, 0, Comma(next), st)
      BY <1>3 DEF Elements
    <2>2. Element[Top.type] \in Types
      BY <1>1, TableAssumption
    <2>3. st \in Seq(Entries) /\ Len(st) = n /\ AllInside(st) /\ OpenIn(st) = OpenIn(stack)
      BY <1>1, TurnMoves
    <2> HIDE DEF st, n
    <2>4. Comma(next) \in Seq(Lexemes)
      <3>1. Token("comma") \in Lexemes
        BY LexemeFacts
      <3>2. QED
        BY <3>1 DEF Comma
    <2>5. ASSUME ExtensionsLast
          PROVE  ~skipped_extension /\ Ready(text \o Comma(next), st)
      <3>1. ~skipped_extension
        BY <2>5, NotOmitted
      <3> DEFINE o == OpenIn(stack)
      <3>2. PICK last : last \notin Ends /\ Written(text \o Comma(next), o, last)
        BY <3>1, <1>1, <2>5, ItemReady
      <3>a. Opens(stack[n]) = "item"
        BY <1>1 DEF Opens, ArrayKinds
      <3>b. /\ o \in Seq(Contexts) /\ Len(o) = Len(stack)
            /\ \A i \in 1 .. Len(stack) : o[i] = Opens(stack[i])
        BY <1>1, OpenFacts
      <3>3. o \in Seq(Contexts) /\ Len(o) = n /\ o[n] = "item"
        <4> HIDE DEF o
        <4>1. QED
          BY <3>a, <3>b, <1>1 DEF n
      <3>4. o = OpenIn(st)
        BY <2>3
      <3> HIDE DEF o
      <3>5. Len(o) > 0 /\ Waiting(o) = "item"
        BY <3>3, <1>1 DEF Waiting
      <3>6. PastValue(o) = o
        BY <3>5 DEF PastValue
      <3>7. QED
        BY <3>1, <3>2, <3>3, <3>4, <3>5, <3>6 DEF Ready
    <2>6. 0 \in Nat /\ 0 <= Left
      BY <1>1
    <2>7. QED
      BY <1>1, <2>1, <2>2, <2>3, <2>4, <2>5, <2>6, StartStep
  <1>4. QED
    BY <1>2, <1>3

LEMMA ArrayStep == IInv /\ (Array \/ FixedArray) => IInv'
  BY ElementsStep DEF Array, FixedArray, ArrayKinds

\* The name of an alternative and its value are written by the same call.
LEMMA AlternativeStep ==
    ASSUME IInv, Turn("variant"), Top.position = -1, Left > 0,
           NEW index \in Nat, index < Len(Fields[Top.type]),
           StartValue(Field(Top.type, index).type, Top.allow_extensions, 1,
                      <<Text("string", Field(Top.type, index).name), Token("comma")>>,
                      WithPosition(0))
    PROVE  IInv'
  <1> DEFINE n == Len(stack)
             e == Top
             name == Text("string", Field(e.type, index).name)
             comma == Token("comma")
             type == Field(e.type, index).type
             st == WithPosition(0)
  <1>1. /\ TypeOK /\ UNCHANGED <<root, input>> /\ pc = "loop"
        /\ stack \in Seq(Entries) /\ text \in Seq(Lexemes) /\ n \in Nat /\ n > 0 /\ Left \in Nat
        /\ e = stack[n] /\ e \in Entries /\ Kind[e.type] = "variant" /\ e.type \in Types
        /\ e.allow_extensions \in BOOLEAN
    BY TurnFacts DEF Entries
  <1>2. type \in Types /\ Field(e.type, index).name \in Strings
    BY <1>1, FieldFacts
  <1>3. name \in Lexemes /\ name.type = "string" /\ comma \in Lexemes /\ comma.type = "comma"
    BY <1>2, LexemeFacts
  <1>4. /\ st \in Seq(Entries) /\ Len(st) = n /\ AllInside(st) /\ OpenIn(st) = OpenIn(stack)
        /\ st[n].type = e.type /\ st[n].position = 0
        /\ st[n].allow_extensions = e.allow_extensions
        /\ e.allow_extensions => \A i \in 1 .. n - 1 : AtEnd(st[i])
    BY <1>1, TurnMoves
  <1>5. StartValue(type, e.allow_extensions, 1, <<name, comma>>, st)
    OBVIOUS
  <1> HIDE DEF n, e, st, type
  <1>6. e.allow_extensions => \A i \in 1 .. Len(st) : AtEnd(st[i])
    <2>1. e.allow_extensions => AtEnd(st[n])
      BY <1>1, <1>4 DEF AtEnd
    <2>2. QED
      BY <2>1, <1>1, <1>4
  <1>7. ASSUME ExtensionsLast
        PROVE  ~skipped_extension /\ Ready(Append(Append(text, name), comma), st)
    <2> DEFINE o == OpenIn(stack)
    <2>1. ~skipped_extension
      BY <1>7, NotOmitted
    <2>2. PICK last \in Ends \cup {"start_object", "start_array"} :
             /\ Written(text, o, last)
             /\ last \notin Ends
      BY <2>1, <1>1, <1>7 DEF IInv, Wrote, n, e
    <2>3. o \in Seq(Contexts) /\ Len(o) = n /\ o[n] = "item"
      BY <1>1, OpenFacts DEF Opens, n
    <2>4. o = OpenIn(st)
      BY <1>4
    <2> HIDE DEF o
    <2>5. Len(o) > 0 /\ Waiting(o) = "item"
      BY <2>3, <1>1 DEF Waiting
    <2>6. PastValue(o) = o /\ "string" \in Expected(o) /\ After(o, "string") = PastValue(o)
      BY <2>3, <2>5 DEF PastValue, Expected, Complete, ValueTokens, After
    <2>7. Follows(last, "string")
      BY <2>2 DEF Follows, Starts, ValueTokens
    <2> HIDE DEF name, comma
    <2>8. Written(Append(text, name), o, "string")
      BY <2>2, <2>6, <2>7, <1>3, WriteToken
    <2>9. Written(Append(Append(text, name), comma), o, "comma")
      BY <2>8, WriteComma DEF Ends, comma
    <2>10. "comma" \notin Ends
      BY DEF Ends
    <2>11. QED
      BY <2>1, <2>3, <2>4, <2>5, <2>6, <2>9, <2>10 DEF Ready
  <1> HIDE DEF name, comma
  <1>8. <<name, comma>> \in Seq(Lexemes) /\ text \o <<name, comma>> = Append(Append(text, name), comma)
    BY <1>1, <1>3
  <1>9. 1 \in Nat /\ 1 <= Left
    BY <1>1
  <1>10. QED
    BY <1>1, <1>2, <1>4, <1>5, <1>6, <1>7, <1>8, <1>9, StartStep

LEMMA VariantStep == IInv /\ Variant => IInv'
  <1> SUFFICES ASSUME IInv, Variant PROVE IInv'
    OBVIOUS
  <1>1. Turn("variant") /\ TypeOK /\ UNCHANGED <<root, input>> /\ Left \in Nat /\ Top.type \in Types
    BY TurnFacts DEF Variant
  <1>2. CASE Top.position # -1
    <2>1. Leave("end_array")
      BY <1>2 DEF Variant
    <2>2. QED
      BY <2>1, <1>1, LeaveStep
  <1>3. CASE Top.position = -1 /\ Left = 0
    <2>1. Fail("overrun")
      BY <1>3 DEF Variant
    <2>2. QED
      BY <2>1, <1>1, FailStep DEF Failed, Errors
  <1>4. CASE Top.position = -1 /\ Left # 0 /\ ByteAt(1) >= Len(Fields[Top.type])
    <2>1. Fail("bad_variant_index")
      BY <1>4 DEF Variant
    <2>2. QED
      BY <2>1, <1>1, FailStep DEF Failed, Errors
  <1>5. CASE Top.position = -1 /\ Left # 0 /\ ~(ByteAt(1) >= Len(Fields[Top.type]))
    <2>1. 1 \in Nat /\ 0 < 1 /\ 1 <= Left /\ Left > 0
      BY <1>1, <1>5
    <2>2. ByteAt(1) \in Nat
      BY <2>1, <1>1, ByteFacts
    <2>3. ByteAt(1) < Len(Fields[Top.type])
      BY <2>2, <1>1, <1>5, FieldFacts
    <2>4. StartValue(Field(Top.type, ByteAt(1)).type, Top.allow_extensions, 1,
                     <<Text("string", Field(Top.type, ByteAt(1)).name), Token("comma")>>,
                     WithPosition(0))
      BY <1>5 DEF Variant
    <2>5. QED
      BY <2>1, <2>2, <2>3, <2>4, <1>1, <1>5, AlternativeStep
  <1>6. QED
    BY <1>2, <1>3, <1>4, <1>5

LEMMA FinishStep == IInv /\ Finish => IInv'
  <1> SUFFICES ASSUME IInv, Finish PROVE IInv'
    OBVIOUS
  <1>1. /\ pc = "loop" /\ stack = << >> /\ pc' = "done"
        /\ UNCHANGED <<root, input, pos, stack, text, skipped_extension, error>>
    BY DEF Finish
  <1>2. TypeOK'
    BY <1>1 DEF IInv, TypeOK
  <1>3. ASSUME ExtensionsLast
        PROVE  Omitted' /\ Wrote(text', << >>, skipped_extension')
    BY <1>1, <1>3 DEF IInv, Omitted, Left
  <1>4. QED
    BY <1>1, <1>2, <1>3 DEF IInv

LEMMA StepInv == IInv /\ [Next]_vars => IInv'
  <1> SUFFICES ASSUME IInv, [Next]_vars PROVE IInv'
    OBVIOUS
  <1>1. CASE UNCHANGED vars
    <2>1. /\ UNCHANGED <<root, input, pos, pc>>
          /\ UNCHANGED <<stack, text, skipped_extension, error>>
      BY <1>1 DEF vars
    <2>2. TypeOK' /\ (Omitted => Omitted') /\ (Levels(stack) => Levels(stack)')
      BY <2>1 DEF IInv, TypeOK, Omitted, Left, Trailing, Levels, AllowTrail, AtEnd, EntryOK
    <2>3. QED
      BY <2>1, <2>2 DEF IInv
  <1>2. CASE Terminated
    BY <1>1, <1>2 DEF Terminated
  <1>3. CASE Step
    BY <1>3, BeginStep, ObjectStep, ArrayStep, VariantStep, FinishStep DEF Step
  <1>4. QED
    BY <1>1, <1>2, <1>3 DEF Next

----------------------------------------------------------------------------
(***************************************************************************)
(* The theorems.                                                           *)
(***************************************************************************)

\* The inductive invariant holds in every reachable state.
THEOREM Inductive == Spec => []IInv
  BY InitInv, StepInv, PTL DEF Spec

\* Types: no step reads past the end of the input, whatever it contains.
THEOREM TypeCorrect == Spec => []TypeOK
  <1>1. IInv => TypeOK
    BY DEF IInv
  <1>2. QED
    BY <1>1, Inductive, PTL

\* A text that is well formed up to its last lexeme has its commas in place.
LEMMA ChainedCommas ==
    ASSUME NEW rd, NEW last \in Ends \cup {"start_object", "start_array"}, Written(text, rd, last)
    PROVE  CommasInPlace
  <1> DEFINE n == Len(text)
  <1>1. /\ text \in Seq(Lexemes) /\ n \in Nat
        /\ \A i \in 1 .. n : Follows(IF i = 1 THEN "none" ELSE text[i - 1].type, text[i].type)
        /\ last = IF n = 0 THEN "none" ELSE text[n].type
    BY DEF Written, Chained, LastIs
  <1>2. last # "comma"
    BY DEF Ends
  <1>3. SUFFICES ASSUME NEW i \in 1 .. n
                 PROVE  IF text[i].type = "comma"
                          THEN /\ 1 < i /\ i < n
                               /\ text[i - 1].type \in Ends
                               /\ text[i + 1].type \in Starts
                          ELSE i < n => ~(text[i].type \in Ends /\ text[i + 1].type \in Starts)
    BY DEF CommasInPlace
  <1> HIDE DEF n
  <1>4. i < n => Follows(text[i].type, text[i + 1].type)
    <2>1. ASSUME i < n
          PROVE  i + 1 \in 1 .. n /\ i + 1 # 1 /\ (i + 1) - 1 = i
      BY <1>1, <2>1
    <2>2. QED
      BY <2>1, <1>1
  <1>5. CASE text[i].type = "comma"
    <2>1. i # n
      BY <1>1, <1>2, <1>5
    <2>2. Follows(IF i = 1 THEN "none" ELSE text[i - 1].type, "comma")
      BY <1>1, <1>5
    <2>3. i # 1 /\ text[i - 1].type \in Ends
      BY <2>2 DEF Follows, Starts, Ends, ValueTokens
    <2>4. QED
      BY <1>1, <1>4, <1>5, <2>1, <2>3 DEF Follows
  <1>6. CASE text[i].type # "comma"
    <2>1. "comma" \notin Starts
      BY DEF Starts, ValueTokens
    <2>2. QED
      BY <1>4, <1>6, <2>1 DEF Follows
  <1>7. QED
    BY <1>5, <1>6

\* The reading that WritesJson speaks of is one.
LEMMA ReadingFacts ==
    ASSUME NEW rd, ReadsAs(text, rd)
    PROVE  Reading = [valid |-> TRUE, reader |-> rd]
  <1>1. PICK r : IsReading(r, text)
    BY DEF ReadsAs
  <1>2. IsReading(Readings, text)
    BY <1>1 DEF IsReading, Readings, FirstReading
  <1>3. QED
    BY <1>2 DEF ReadsAs, Reading

\* The text is JSON: commas are in place and the tokens form one complete
\* document, for every table whose structs have their extensions last
\* (without that a field can follow a left-out one: abieos.hpp:998-1003).
THEOREM TextIsJson ==
    ASSUME ExtensionsLast
    PROVE  Spec => []WritesJson
  <1>1. IInv => WritesJson
    <2>1. SUFFICES ASSUME IInv, pc = "done"
                   PROVE  CommasInPlace /\ Reading.valid /\ Complete(Reading.reader)
      BY DEF WritesJson
    <2>2. PICK last \in Ends \cup {"start_object", "start_array"} :
             Written(text, OpenIn(<< >>), last)
      BY <2>1, ExtensionsLast DEF IInv, Wrote
    <2>3. CommasInPlace
      BY <2>2, ChainedCommas
    <2>4. Reading = [valid |-> TRUE, reader |-> OpenIn(<< >>)]
      BY <2>2, ReadingFacts DEF Written
    <2>5. OpenIn(<< >>) = << >>
      BY DEF OpenIn
    <2>6. QED
      BY <2>3, <2>4, <2>5 DEF Complete
  <1>2. QED
    BY <1>1, Inductive, PTL

----------------------------------------------------------------------------
\* Once a field has been left out, no step reads and only ends are written.
LEMMA OmissionStep ==
    ASSUME IInv, ExtensionsLast, skipped_extension, [Next]_vars
    PROVE  /\ Left = 0 /\ pos' = pos
           /\ \A i \in Len(text) + 1 .. Len(text') : text'[i].type \in {"end_object", "end_array"}
  <1>1. Left = 0 /\ TypeOK /\ text \in Seq(Lexemes) /\ pos \in Nat
    BY DEF IInv, Omitted, TypeOK
  <1>2. ASSUME UNCHANGED <<pos, text>>
        PROVE  /\ pos' = pos
               /\ \A i \in Len(text) + 1 .. Len(text') : text'[i].type \in {"end_object", "end_array"}
    BY <1>1, <1>2
  <1>3. ASSUME NEW end \in {"end_object", "end_array"}, Leave(end)
        PROVE  /\ pos' = pos
               /\ \A i \in Len(text) + 1 .. Len(text') : text'[i].type \in {"end_object", "end_array"}
    <2> DEFINE x == Token(end)
    <2>1. x \in Lexemes /\ x.type = end
      BY LexemeFacts
    <2>2. UNCHANGED <<pos, text>> \/ (pos' = pos + 0 /\ text' = text \o <<x>>)
      BY <1>3 DEF Leave, Return, Fail
    <2> HIDE DEF x
    <2>3. /\ text \o <<x>> = Append(text, x)
          /\ Len(Append(text, x)) = Len(text) + 1 /\ Append(text, x)[Len(text) + 1] = x
      BY <2>1, <1>1
    <2>4. CASE pos' = pos + 0 /\ text' = text \o <<x>>
      BY <2>1, <2>3, <2>4, <1>1
    <2>5. QED
      BY <1>2, <2>2, <2>4
  <1>4. CASE UNCHANGED vars
    BY <1>1, <1>2, <1>4 DEF vars
  <1>5. CASE Begin
    BY <1>5 DEF IInv, Begin
  <1>6. CASE Object
    <2> DEFINE next == Top.position + 1
    <2>1. Turn("struct")
      BY <1>6 DEF Object
    <2>2. /\ pc = "loop" /\ Len(stack) > 0 /\ Len(stack) \in Nat /\ Top = stack[Len(stack)]
          /\ Top.type \in Types /\ Kind[Top.type] = "struct" /\ next \in Nat /\ Top.position \in Int
      BY <2>1, TurnFacts
    <2>3. Trailing(Top)
      BY <2>2 DEF IInv, Omitted
    <2>4. Len(Fields[Top.type]) \in Nat /\ DOMAIN Fields[Top.type] = 1 .. Len(Fields[Top.type])
      BY <2>2, FieldFacts
    <2>5. CASE next >= Len(Fields[Top.type])
      <3>1. Leave("end_object")
        BY <1>6, <2>5 DEF Object
      <3>2. QED
        BY <3>1, <1>1, <1>3
    <2>6. CASE ~(next >= Len(Fields[Top.type]))
      <3>1. next + 1 \in DOMAIN Fields[Top.type] /\ next + 1 > Top.position + 1
        BY <2>2, <2>4, <2>6
      <3>2. MayLeaveOut(next)
        BY <2>2, <2>3, <3>1, <1>1 DEF Trailing, MayLeaveOut, Field
      <3>3. LeaveOut(next)
        BY <1>6, <2>6, <3>2 DEF Object
      <3>4. QED
        BY <3>3, <1>1, <1>2 DEF LeaveOut
    <2>7. QED
      BY <2>5, <2>6
  <1>7. CASE Array \/ FixedArray
    <2>1. PICK kind \in ArrayKinds : Turn(kind)
      BY <1>7 DEF Array, FixedArray, ArrayKinds
    <2>2. QED
      BY <2>1, NotOmitted
  <1>8. CASE Variant
    <2>1. Turn("variant")
      BY <1>8 DEF Variant
    <2>2. Top.position # -1
      BY <2>1, NotOmitted
    <2>3. Leave("end_array")
      BY <1>8, <2>2 DEF Variant
    <2>4. QED
      BY <2>3, <1>1, <1>3
  <1>9. CASE Finish
    BY <1>1, <1>2, <1>9 DEF Finish
  <1>10. CASE Terminated
    BY <1>4, <1>10 DEF Terminated
  <1>11. QED
    BY <1>4, <1>5, <1>6, <1>7, <1>8, <1>9, <1>10 DEF Next, Step

\* An extension is left out only where the input has ended, and from then on
\* nothing is read and only closing brackets are written, for every table
\* whose structs have their extensions last (abieos.hpp:998).
THEOREM OmissionIsFinal ==
    ASSUME ExtensionsLast
    PROVE  Spec => NothingAfterOmission
  <1>1. IInv /\ [Next]_vars =>
          [skipped_extension =>
             /\ Left = 0 /\ pos' = pos
             /\ \A i \in Len(text) + 1 .. Len(text') :
                   text'[i].type \in {"end_object", "end_array"}]_vars
    BY ExtensionsLast, OmissionStep
  <1>2. QED
    BY <1>1, Inductive, PTL DEF Spec, NothingAfterOmission
----------------------------------------------------------------------------
(***************************************************************************)
(* What comes back.  The way of a text through its binary (Wire), and what *)
(* it cannot do: come to an end from a point where bytes are missing.      *)
(***************************************************************************)
IsWay(t, tokens, bin, at, bytes, sizes) ==
    /\ tokens \in Seq(Tokens(Strings)) /\ tokens # << >>
    /\ bytes \in Seq(Nat) /\ sizes \in Seq(Sizes)
    /\ Joined(bin, bytes, sizes)
    /\ Way(t, tokens, at, bytes, sizes)
    /\ \A i \in 0 .. Len(tokens) : \A j \in 1 .. Len(at[i].stack) :
          WithinSize(at[i].stack[j], sizes)
    /\ at[Len(tokens)] = Point(<< >>, FALSE, Len(bytes), Len(sizes))

\* The innermost level.
LEMMA InnermostFacts ==
    ASSUME NEW a, a.stack \in Seq(LevelSet), a.stack # << >>
    PROVE  /\ Len(a.stack) \in Nat /\ Len(a.stack) > 0
           /\ Innermost(a) \in LevelSet /\ Innermost(a) = a.stack[Len(a.stack)]
           /\ Innermost(a).type \in Types /\ Innermost(a).position \in Int
           /\ Innermost(a).allow_extensions \in BOOLEAN
           /\ Innermost(a).size_insertion_index \in Nat /\ Innermost(a).variant_type_index \in Nat
  <1>1. Len(a.stack) \in Nat /\ Len(a.stack) > 0
    OBVIOUS
  <1>2. Innermost(a) \in LevelSet /\ Innermost(a) = a.stack[Len(a.stack)]
    BY <1>1, ElementOfSeq DEF Innermost
  <1>3. QED
    BY <1>1, <1>2 DEF LevelSet

\* The innermost level with another position.
Changed(s, a, p) ==
    /\ s \in Seq(LevelSet) /\ Len(s) = Len(a.stack)
    /\ \A i \in 1 .. Len(a.stack) - 1 : s[i] = a.stack[i]
    /\ s[Len(a.stack)] = [Innermost(a) EXCEPT !.position = p]
    /\ s[Len(a.stack)].type = Innermost(a).type
    /\ s[Len(a.stack)].position = p
    /\ s[Len(a.stack)].allow_extensions = Innermost(a).allow_extensions
    /\ s[Len(a.stack)].size_insertion_index = Innermost(a).size_insertion_index

LEMMA MovedFacts ==
    ASSUME NEW a, a.stack \in Seq(LevelSet), a.stack # << >>, NEW p \in Int
    PROVE  Changed(MovedTo(a, p), a, p)
  <1> DEFINE n == Len(a.stack)
             e == Innermost(a)
             f == [e EXCEPT !.position = p]
             s == MovedTo(a, p)
  <1>1. n \in Nat /\ n > 0 /\ n \in 1 .. n /\ e \in LevelSet /\ e = a.stack[n]
    BY InnermostFacts
  <1>2. f \in LevelSet
    BY <1>1 DEF LevelSet
  <1>3. /\ f.type = e.type /\ f.position = p /\ f.allow_extensions = e.allow_extensions
        /\ f.size_insertion_index = e.size_insertion_index
    BY <1>1 DEF LevelSet
  <1>4. s = [a.stack EXCEPT ![n] = f]
    BY <1>1 DEF MovedTo
  <1> HIDE DEF f
  <1>5. /\ s \in Seq(LevelSet) /\ Len(s) = n /\ s[n] = f
        /\ \A i \in 1 .. n - 1 : s[i] = a.stack[i]
    BY <1>1, <1>2, <1>4, ExceptSeq
  <1>6. QED
    BY <1>3, <1>5 DEF f, Changed

\* The first token of a value leaves the levels below it, and perhaps one more.
OneMore(s, below) == s = below \/ \E e : s = Append(below, e)

LEMMA ValueStack ==
    ASSUME NEW t, NEW allow, NEW below, NEW a, NEW tok, NEW b, NEW bytes, NEW sizes,
           ValueMove(t, allow, below, a, tok, b, bytes, sizes)
    PROVE  ~b.waiting /\ OneMore(b.stack, below)
  <1>1. CASE AbsentMove(t, below, a, tok, b, bytes)
    BY <1>1 DEF AbsentMove, Point, OneMore
  <1>2. CASE ScalarMove(t, below, a.bytes + Flag(t), a, tok, b, bytes)
    BY <1>2 DEF ScalarMove, Point, OneMore
  <1>3. CASE OpenMove(t, allow, below, a.bytes + Flag(t), a, tok, b)
    BY <1>3 DEF OpenMove, Point, OneMore
  <1>4. CASE ArrayMove(t, below, a.bytes + Flag(t), a, tok, b, sizes)
    BY <1>4 DEF ArrayMove, Point, OneMore
  <1>5. QED
    BY <1>1, <1>2, <1>3, <1>4 DEF ValueMove

\* A set that is not left on the way holds its end.
LEMMA NeverLeft ==
    ASSUME NEW N \in Nat, NEW D, NEW i \in 1 .. N, i \in D,
           \A j \in 1 .. N - 1 : j \in D => j + 1 \in D
    PROVE  N \in D
  <1> DEFINE S == {n \in Nat : i + n <= N => i + n \in D}
  <1>1. 0 \in S
    OBVIOUS
  <1>2. ASSUME NEW n \in Nat, n \in S
        PROVE  n + 1 \in S
    <2>1. SUFFICES ASSUME i + (n + 1) <= N PROVE i + (n + 1) \in D
      OBVIOUS
    <2>2. i + n \in 1 .. N - 1 /\ i + (n + 1) = (i + n) + 1
      BY <2>1
    <2>3. i + n \in D
      BY <2>2, <1>2
    <2>4. QED
      BY <2>2, <2>3
  <1>3. Nat \subseteq S
    <2> HIDE DEF S
    <2>1. QED
      BY <1>1, <1>2, SetInduction
  <1>4. N - i \in Nat /\ i + (N - i) = N
    OBVIOUS
  <1>5. N - i \in S
    BY <1>3, <1>4
  <1>6. QED
    BY <1>4, <1>5

\* The ends of the way.
LEMMA WayEnds ==
    ASSUME NEW t, NEW tokens, NEW bin, NEW at, NEW bytes, NEW sizes,
           IsWay(t, tokens, bin, at, bytes, sizes)
    PROVE  /\ Len(tokens) \in Nat /\ Len(tokens) > 0
           /\ at[0] = FirstPoint
           /\ at[Len(tokens)].stack = << >> /\ ~at[Len(tokens)].waiting
           /\ at[Len(tokens)].bytes = Len(bytes) /\ at[Len(tokens)].sizes = Len(sizes)
  <1>1. Len(tokens) \in Nat /\ Len(tokens) > 0
    BY DEF IsWay
  <1>2. at[0] = FirstPoint
    BY DEF IsWay, Way
  <1>3. at[Len(tokens)] = Point(<< >>, FALSE, Len(bytes), Len(sizes))
    BY DEF IsWay
  <1>4. QED
    BY <1>1, <1>2, <1>3 DEF Point

\* Its first step.
LEMMA WayStarts ==
    ASSUME NEW t, NEW tokens, NEW bin, NEW at, NEW bytes, NEW sizes,
           IsWay(t, tokens, bin, at, bytes, sizes)
    PROVE  ValueMove(t, TRUE, << >>, at[0], tokens[1], at[1], bytes, sizes)
  <1>1. Len(tokens) > 0
    BY WayEnds
  <1>2. QED
    BY <1>1 DEF IsWay, Way

\* Any point of it.
LEMMA WayPoint ==
    ASSUME NEW t, NEW tokens, NEW bin, NEW at, NEW bytes, NEW sizes,
           IsWay(t, tokens, bin, at, bytes, sizes), NEW i \in 0 .. Len(tokens)
    PROVE  /\ LiesIn(at[i], bytes, sizes)
           /\ \A j \in 1 .. Len(at[i].stack) : WithinSize(at[i].stack[j], sizes)
  BY DEF IsWay, Way

\* Any step between two.
LEMMA WayMove ==
    ASSUME NEW t, NEW tokens, NEW bin, NEW at, NEW bytes, NEW sizes,
           IsWay(t, tokens, bin, at, bytes, sizes), NEW i \in 1 .. Len(tokens) - 1
    PROVE  /\ LiesIn(at[i], bytes, sizes)
           /\ Move(at[i], tokens[i + 1], at[i + 1], bytes, sizes)
  <1>1. Len(tokens) \in Nat
    BY WayEnds
  <1>2. i \in 0 .. Len(tokens)
    BY <1>1
  <1>3. LiesIn(at[i], bytes, sizes)
    BY <1>2, WayPoint
  <1>4. QED
    BY <1>3 DEF IsWay, Way

\* The way goes on as long as something is open.
LEMMA GoesOn ==
    ASSUME NEW t, NEW tokens, NEW bin, NEW at, NEW bytes, NEW sizes,
           IsWay(t, tokens, bin, at, bytes, sizes), NEW i \in 1 .. Len(tokens),
           at[i].stack # << >> \/ at[i].waiting
    PROVE  /\ i \in 1 .. Len(tokens) - 1 /\ i + 1 \in 1 .. Len(tokens)
           /\ Move(at[i], tokens[i + 1], at[i + 1], bytes, sizes)
  <1>1. /\ Len(tokens) \in Nat /\ Len(tokens) > 0
        /\ at[Len(tokens)].stack = << >> /\ ~at[Len(tokens)].waiting
    BY WayEnds
  <1>2. i # Len(tokens)
    BY <1>1
  <1>3. i \in 1 .. Len(tokens) - 1 /\ i + 1 \in 1 .. Len(tokens)
    BY <1>1, <1>2
  <1>4. QED
    BY <1>3 DEF IsWay, Way

\* Of what is open only the innermost value changes.
LEMMA LowerStay ==
    ASSUME NEW a, NEW tok, NEW b, NEW bytes, NEW sizes,
           LiesIn(a, bytes, sizes), Move(a, tok, b, bytes, sizes),
           NEW j \in 1 .. Len(a.stack) - 1
    PROVE  j \in 1 .. Len(b.stack) /\ b.stack[j] = a.stack[j]
  <1> DEFINE n == Len(a.stack)
  <1>1. a.stack \in Seq(LevelSet) /\ a.stack # << >> /\ n \in Nat /\ n > 0
    BY DEF LiesIn, Move
  <1>2. Innermost(a) \in LevelSet /\ Innermost(a).position \in Int
    BY <1>1, InnermostFacts
  <1>3. ASSUME NEW s, s \in Seq(LevelSet), Len(s) = n, \A i \in 1 .. n - 1 : s[i] = a.stack[i],
               OneMore(b.stack, s)
        PROVE  j \in 1 .. Len(b.stack) /\ b.stack[j] = a.stack[j]
    <2>1. CASE b.stack = s
      BY <1>1, <1>3, <2>1
    <2>2. ASSUME NEW e, b.stack = Append(s, e)
          PROVE  j \in 1 .. Len(b.stack) /\ b.stack[j] = a.stack[j]
      <3>1. Len(b.stack) = n + 1 /\ \A i \in 1 .. n : b.stack[i] = s[i]
        BY <1>3, <2>2
      <3>2. QED
        BY <1>1, <1>3, <3>1
    <2>3. QED
      BY <1>3, <2>1, <2>2 DEF OneMore
  <1>4. ASSUME NEW p \in Int, OneMore(b.stack, MovedTo(a, p))
        PROVE  j \in 1 .. Len(b.stack) /\ b.stack[j] = a.stack[j]
    <2> DEFINE s == MovedTo(a, p)
    <2>1. s \in Seq(LevelSet) /\ Len(s) = n /\ \A i \in 1 .. n - 1 : s[i] = a.stack[i]
      <3>1. Changed(s, a, p)
        BY <1>1, MovedFacts
      <3>2. QED
        BY <3>1 DEF Changed
    <2> HIDE DEF s
    <2>2. QED
      BY <2>1, <1>3, <1>4 DEF s
  <1>5. ASSUME b.stack = Pop(a.stack)
        PROVE  j \in 1 .. Len(b.stack) /\ b.stack[j] = a.stack[j]
    BY <1>1, <1>5, PopFacts
  <1>6. CASE KeyMove(a, tok, b)
    <2>1. b.stack = MovedTo(a, Innermost(a).position + 1)
      BY <1>6 DEF KeyMove, Point
    <2>2. OneMore(b.stack, MovedTo(a, Innermost(a).position + 1))
      BY <2>1 DEF OneMore
    <2>3. QED
      BY <2>2, <1>2, <1>4
  <1>7. CASE ObjectEndMove(a, tok, b, bytes, sizes)
    BY <1>5, <1>7 DEF ObjectEndMove, Closed, Point
  <1>8. CASE FieldMove(a, tok, b, bytes, sizes)
    <2>1. \E t, allow : ValueMove(t, allow, a.stack, a, tok, b, bytes, sizes)
      BY <1>8 DEF FieldMove
    <2>2. OneMore(b.stack, a.stack)
      BY <2>1, ValueStack
    <2>3. QED
      BY <2>2, <1>1, <1>3
  <1>9. CASE ElementMove(a, tok, b, bytes, sizes)
    <2> DEFINE s == MovedTo(a, Innermost(a).position + 1)
    <2>1. \E t, allow : ValueMove(t, allow, s, a, tok, b, bytes, sizes)
      BY <1>9 DEF ElementMove
    <2>2. OneMore(b.stack, s)
      BY <2>1, ValueStack
    <2>3. QED
      BY <2>2, <1>2, <1>4
  <1>10. CASE ArrayEndMove(a, tok, b, sizes)
    BY <1>5, <1>10 DEF ArrayEndMove, Closed, Point
  <1>11. CASE NameMove(a, tok, b, bytes)
    <2> DEFINE e == Innermost(a)
               f == [e EXCEPT !.position = 0, !.variant_type_index = bytes[a.bytes + 1]]
    <2>1. b.stack = [a.stack EXCEPT ![n].position = 0,
                                    ![n].variant_type_index = bytes[a.bytes + 1]]
      BY <1>11 DEF NameMove, Point
    <2>2. Len(b.stack) = n /\ \A i \in 1 .. n - 1 : b.stack[i] = a.stack[i]
      BY <1>1, <2>1
    <2>3. QED
      BY <1>1, <2>2
  <1>12. CASE AlternativeMove(a, tok, b, bytes, sizes)
    <2>1. \E t, allow : ValueMove(t, allow, MovedTo(a, 1), a, tok, b, bytes, sizes)
      BY <1>12 DEF AlternativeMove
    <2>2. OneMore(b.stack, MovedTo(a, 1))
      BY <2>1, ValueStack
    <2>3. QED
      BY <2>2, <1>4
  <1>13. QED
    BY <1>6, <1>7, <1>8, <1>9, <1>10, <1>11, <1>12 DEF Move

\* The innermost value stays where it is under one more.
LEMMA TopStays ==
    ASSUME NEW s, NEW S, s \in Seq(S), s # << >>, NEW s2, OneMore(s2, s)
    PROVE  Len(s) \in 1 .. Len(s2) /\ s2[Len(s)] = s[Len(s)]
  <1>1. CASE s2 = s
    BY <1>1
  <1>2. ASSUME NEW e, s2 = Append(s, e)
        PROVE  Len(s) \in 1 .. Len(s2) /\ s2[Len(s)] = s[Len(s)]
    BY <1>2
  <1>3. QED
    BY <1>1, <1>2 DEF OneMore

(***************************************************************************)
(* A fixed array with too many elements is never closed.                   *)
(***************************************************************************)
TooFar(e) == Kind[e.type] = "fixed_array" /\ e.position >= Size[e.type]
Overfull(a) == \E j \in 1 .. Len(a.stack) : TooFar(a.stack[j])

LEMMA OverfullStays ==
    ASSUME NEW a, NEW tok, NEW b, NEW bytes, NEW sizes,
           LiesIn(a, bytes, sizes), Move(a, tok, b, bytes, sizes), Overfull(a)
    PROVE  Overfull(b)
  <1> DEFINE n == Len(a.stack)
             e == Innermost(a)
  <1>1. a.stack \in Seq(LevelSet) /\ a.stack # << >>
    BY DEF LiesIn, Move
  <1>2. n \in Nat /\ n > 0 /\ e = a.stack[n] /\ e.position \in Int /\ e.type \in Types
    BY <1>1, InnermostFacts
  <1>3. PICK j \in 1 .. n : TooFar(a.stack[j])
    BY DEF Overfull
  <1>4. CASE j \in 1 .. n - 1
    BY <1>3, <1>4, LowerStay DEF Overfull
  <1>5. CASE j = n
    <2>1. Kind[e.type] = "fixed_array" /\ e.position >= Size[e.type] /\ Size[e.type] \in Nat
      BY <1>2, <1>3, <1>5, TableAssumption DEF TooFar
    <2>2. CASE ElementMove(a, tok, b, bytes, sizes)
      <3> DEFINE s == MovedTo(a, e.position + 1)
      <3>1. ~b.waiting /\ OneMore(b.stack, s)
        <4>1. \E t, allow : ValueMove(t, allow, s, a, tok, b, bytes, sizes)
          BY <2>2 DEF ElementMove
        <4>2. QED
          BY <4>1, ValueStack
      <3>2. Changed(s, a, e.position + 1)
        <4>1. e.position + 1 \in Int
          BY <1>2
        <4>2. QED
          BY <4>1, <1>1, MovedFacts
      <3>3. /\ s \in Seq(LevelSet) /\ Len(s) = n /\ s # << >>
            /\ s[n].type = e.type /\ s[n].position = e.position + 1
        BY <3>2, <1>2 DEF Changed
      <3> HIDE DEF s
      <3>4. n \in 1 .. Len(b.stack) /\ b.stack[n] = s[n]
        BY <3>1, <3>3, TopStays
      <3>5. TooFar(b.stack[n])
        BY <3>3, <3>4, <2>1, <1>2 DEF TooFar
      <3>6. QED
        BY <3>4, <3>5 DEF Overfull
    <2>3. CASE ArrayEndMove(a, tok, b, sizes)
      BY <2>1, <2>3, <1>2 DEF ArrayEndMove
    <2>4. QED
      BY <2>1, <2>2, <2>3 DEF Move, KeyMove, ObjectEndMove, FieldMove, NameMove, AlternativeMove
  <1>6. QED
    BY <1>2, <1>4, <1>5

LEMMA NeverOverfull ==
    ASSUME NEW t, NEW tokens, NEW bin, NEW at, NEW bytes, NEW sizes,
           IsWay(t, tokens, bin, at, bytes, sizes), NEW i \in 1 .. Len(tokens)
    PROVE  ~Overfull(at[i])
  <1> DEFINE N == Len(tokens)
             D == {k \in 1 .. N : Overfull(at[k])}
  <1>1. N \in Nat /\ at[N].stack = << >>
    BY WayEnds
  <1>2. ASSUME NEW j \in 1 .. N - 1, j \in D
        PROVE  j + 1 \in D
    <2>1. LiesIn(at[j], bytes, sizes) /\ Move(at[j], tokens[j + 1], at[j + 1], bytes, sizes)
      BY <1>2, WayMove
    <2>2. Overfull(at[j + 1])
      BY <2>1, <1>2, OverfullStays
    <2>3. QED
      BY <2>2, <1>1
  <1>3. ~Overfull(at[N])
    BY <1>1 DEF Overfull
  <1>4. SUFFICES ASSUME i \in D PROVE FALSE
    OBVIOUS
  <1> HIDE DEF D
  <1>5. N \in D
    BY <1>1, <1>2, <1>4, NeverLeft
  <1>6. QED
    BY <1>3, <1>5 DEF D

(***************************************************************************)
(* Types whose values take bytes: those of a set whose structs have a      *)
(* field of the set that is always there.  An extension that takes none is *)
(* not seen by the way back, which looks for bytes (abieos.hpp:998).       *)
(***************************************************************************)
Required(W, t, k) ==
    LET f == Field(t, k).type IN k < Len(Fields[t]) /\ ~Extension(f) /\ f \in W

TakesBytes(W) ==
    \A t \in W : ~Optional(t) =>
        /\ Kind[Base(t)] = "struct" => \E k \in Nat : Required(W, Base(t), k)
        /\ Kind[Base(t)] = "fixed_array" => Element[Base(t)] \in W

ExtensionsTakeBytes ==
    \E W \in SUBSET Types :
        /\ TakesBytes(W)
        /\ \A t \in Types : Extension(t) => t \in W

(***************************************************************************)
(* With no byte left such a value has no end: it is still to come or one   *)
(* in it is (Owes), or an outer struct has a field to come (Misses).       *)
(***************************************************************************)
Misses(W, e) ==
    /\ Kind[e.type] = "struct" /\ e.position >= -1
    /\ \E k \in Nat : e.position < k /\ Required(W, e.type, k)

Owes(W, a) ==
    LET e == Innermost(a)
    IN  /\ a.stack # << >>
        /\ \/ Kind[e.type] = "struct" /\ a.waiting /\ Field(e.type, e.position).type \in W
           \/ Kind[e.type] = "fixed_array" /\ e.position = -1 /\ Element[e.type] \in W
           \/ Kind[e.type] = "variant" /\ e.position = -1

Endless(W, a, bytes, sizes) ==
    /\ AtTheEnd(a, bytes, sizes)
    /\ Owes(W, a) \/ \E j \in 1 .. Len(a.stack) : Misses(W, a.stack[j])

\* Without bytes only what has parts can start.
LEMMA NothingToRead ==
    ASSUME NEW t, NEW allow, NEW below, NEW a, NEW tok, NEW b, NEW bytes \in Seq(Nat),
           NEW sizes \in Seq(Sizes), AtTheEnd(a, bytes, sizes),
           ValueMove(t, allow, below, a, tok, b, bytes, sizes)
    PROVE  /\ ~Optional(t) /\ AtTheEnd(b, bytes, sizes) /\ ~b.waiting
           /\ Kind[Base(t)] \in {"struct", "variant", "fixed_array"}
           /\ b.stack = Append(below, Level(Base(t), allow /\ Kind[Base(t)] # "fixed_array", 0))
  <1>1. a.bytes = Len(bytes) /\ a.sizes = Len(sizes) /\ Len(bytes) \in Nat /\ Len(sizes) \in Nat
    BY DEF AtTheEnd
  <1>2. ~AbsentMove(t, below, a, tok, b, bytes)
    <2>1. AbsentMove(t, below, a, tok, b, bytes) => a.bytes < Len(bytes)
      BY DEF AbsentMove
    <2>2. QED
      BY <2>1, <1>1
  <1>3. ~Optional(t)
    BY <1>1, <1>2 DEF ValueMove
  <1>4. a.bytes + Flag(t) = Len(bytes)
    BY <1>1, <1>3 DEF Flag
  <1>5. ~ScalarMove(t, below, a.bytes + Flag(t), a, tok, b, bytes)
    <2>1. ScalarMove(t, below, a.bytes + Flag(t), a, tok, b, bytes) =>
             a.bytes + Flag(t) < Len(bytes)
      BY DEF ScalarMove
    <2>2. QED
      BY <2>1, <1>1, <1>4
  <1>6. ~ArrayMove(t, below, a.bytes + Flag(t), a, tok, b, sizes)
    <2>1. ArrayMove(t, below, a.bytes + Flag(t), a, tok, b, sizes) => a.sizes < Len(sizes)
      BY DEF ArrayMove
    <2>2. QED
      BY <2>1, <1>1
  <1>7. OpenMove(t, allow, below, a.bytes + Flag(t), a, tok, b)
    BY <1>2, <1>5, <1>6 DEF ValueMove
  <1>8. QED
    BY <1>1, <1>3, <1>4, <1>7 DEF OpenMove, Point, AtTheEnd

\* What is started in such a type owes bytes.
LEMMA OwesAtOnce ==
    ASSUME NEW W \in SUBSET Types, TakesBytes(W), NEW t \in W, NEW allow \in BOOLEAN,
           NEW below \in Seq(LevelSet), NEW a, NEW tok, NEW b,
           NEW bytes \in Seq(Nat), NEW sizes \in Seq(Sizes), AtTheEnd(a, bytes, sizes),
           ValueMove(t, allow, below, a, tok, b, bytes, sizes)
    PROVE  Endless(W, b, bytes, sizes)
  <1> DEFINE al == allow /\ Kind[Base(t)] # "fixed_array"
             e == Level(Base(t), al, 0)
             n == Len(below) + 1
  <1>1. /\ ~Optional(t) /\ AtTheEnd(b, bytes, sizes) /\ ~b.waiting
        /\ Kind[Base(t)] \in {"struct", "variant", "fixed_array"}
        /\ b.stack = Append(below, e)
    BY NothingToRead
  <1>2. Base(t) \in Types /\ al \in BOOLEAN
    BY BaseFacts
  <1>3. e \in LevelSet /\ e.type = Base(t) /\ e.position = -1
    BY <1>2 DEF Level, LevelSet
  <1> HIDE DEF e
  <1>4. b.stack \in Seq(LevelSet) /\ Len(b.stack) = n /\ n \in Nat /\ n > 0 /\ b.stack[n] = e
    BY <1>1, <1>3, AppendFacts
  <1>5. Innermost(b) = e /\ b.stack # << >>
    BY <1>4 DEF Innermost
  <1>6. CASE Kind[Base(t)] = "struct"
    <2>1. PICK k \in Nat : Required(W, Base(t), k)
      BY <1>1, <1>6 DEF TakesBytes
    <2>2. Misses(W, e)
      BY <1>3, <1>6, <2>1 DEF Misses
    <2>3. QED
      BY <1>1, <1>4, <2>2 DEF Endless
  <1>7. CASE Kind[Base(t)] = "fixed_array"
    <2>1. Element[Base(t)] \in W
      BY <1>1, <1>7 DEF TakesBytes
    <2>2. QED
      BY <1>1, <1>3, <1>5, <1>7, <2>1 DEF Endless, Owes
  <1>8. CASE Kind[Base(t)] = "variant"
    BY <1>1, <1>3, <1>5, <1>8 DEF Endless, Owes
  <1>9. QED
    BY <1>1, <1>6, <1>7, <1>8

\* No move pays what is owed.
LEMMA EndlessStays ==
    ASSUME ExtensionsLast, NEW W \in SUBSET Types, TakesBytes(W),
           NEW a, NEW tok, NEW b, NEW bytes \in Seq(Nat), NEW sizes \in Seq(Sizes),
           LiesIn(a, bytes, sizes), Move(a, tok, b, bytes, sizes), Endless(W, a, bytes, sizes)
    PROVE  Endless(W, b, bytes, sizes)
  <1> DEFINE n == Len(a.stack)
             e == Innermost(a)
  <1>1. a.stack \in Seq(LevelSet) /\ a.stack # << >> /\ AtTheEnd(a, bytes, sizes)
    BY DEF LiesIn, Move, Endless
  <1>2. /\ n \in Nat /\ n > 0 /\ e = a.stack[n] /\ e.position \in Int /\ e.type \in Types
        /\ e.allow_extensions \in BOOLEAN
    BY <1>1, InnermostFacts
  <1>3. ASSUME AtTheEnd(b, bytes, sizes), NEW j \in 1 .. n - 1, Misses(W, a.stack[j])
        PROVE  Endless(W, b, bytes, sizes)
    BY <1>3, LowerStay DEF Endless
  <1>4. Owes(W, a) \/ Misses(W, e) \/ \E j \in 1 .. n - 1 : Misses(W, a.stack[j])
    <2>1. Owes(W, a) \/ \E j \in 1 .. n : Misses(W, a.stack[j])
      BY DEF Endless
    <2>2. \A j \in 1 .. n : j = n \/ j \in 1 .. n - 1
      BY <1>2
    <2>3. QED
      BY <2>1, <2>2, <1>2
  <1>5. Misses(W, e) => Kind[e.type] = "struct"
    BY DEF Misses
  <1>6. CASE KeyMove(a, tok, b)
    <2> DEFINE next == e.position + 1
               s == MovedTo(a, next)
    <2>1. /\ Kind[e.type] = "struct" /\ ~a.waiting
          /\ b.stack = s /\ b.waiting /\ b.bytes = a.bytes /\ b.sizes = a.sizes
      BY <1>6 DEF KeyMove, Point
    <2>2. AtTheEnd(b, bytes, sizes)
      BY <1>1, <2>1 DEF AtTheEnd
    <2>3. ~Owes(W, a)
      BY <2>1 DEF Owes
    <2>4. Changed(s, a, next)
      BY <1>1, <1>2, MovedFacts
    <2>5. /\ s \in Seq(LevelSet) /\ s # << >> /\ Len(s) = n /\ s[n].type = e.type
          /\ s[n].position = next /\ Innermost(b) = s[n]
      BY <1>2, <2>1, <2>4 DEF Changed, Innermost
    <2>6. ASSUME Misses(W, e)
          PROVE  Endless(W, b, bytes, sizes)
      <3>1. PICK k \in Nat : e.position < k /\ Required(W, e.type, k)
        BY <2>6 DEF Misses
      <3>2. CASE k = next
        <4>1. Field(e.type, next).type \in W
          BY <3>1, <3>2 DEF Required
        <4>2. Owes(W, b)
          BY <4>1, <2>1, <2>5 DEF Owes
        <4>3. QED
          BY <4>2, <2>2 DEF Endless
      <3>3. CASE next < k
        <4>1. e.position >= -1 /\ next >= -1
          BY <2>6, <1>2 DEF Misses
        <4>2. Misses(W, s[n])
          BY <3>1, <3>3, <4>1, <2>1, <2>5 DEF Misses
        <4>3. n \in 1 .. Len(b.stack) /\ Misses(W, b.stack[n])
          BY <4>2, <2>1, <2>5, <1>2
        <4>4. QED
          BY <4>3, <2>2 DEF Endless
      <3>4. k = next \/ next < k
        <4>1. k \in Int /\ e.position \in Int /\ e.position < k
          BY <3>1, <1>2
        <4>2. QED
          BY ONLY <4>1
      <3>5. QED
        BY ONLY <3>2, <3>3, <3>4
    <2>7. QED
      BY <2>2, <2>3, <2>6, <1>3, <1>4
  <1>7. CASE ObjectEndMove(a, tok, b, bytes, sizes)
    <2>1. /\ Kind[e.type] = "struct" /\ ~a.waiting /\ b = Closed(a)
          /\ e.position + 1 = Len(Fields[e.type]) \/ LeavesOut(a)
      BY <1>7 DEF ObjectEndMove
    <2>2. AtTheEnd(b, bytes, sizes)
      BY <1>1, <2>1 DEF AtTheEnd, Closed, Point
    <2>3. ~Owes(W, a)
      BY <2>1 DEF Owes
    <2>4. ASSUME Misses(W, e)
          PROVE  FALSE
      <3>1. PICK k \in Nat : e.position < k /\ Required(W, e.type, k)
        BY <2>4 DEF Misses
      <3>2. k < Len(Fields[e.type]) /\ ~Extension(Field(e.type, k).type)
        BY <3>1 DEF Required
      <3>3. Len(Fields[e.type]) \in Nat /\ DOMAIN Fields[e.type] = 1 .. Len(Fields[e.type])
        BY <1>2, <3>1, FieldFacts
      <3>4. e.position + 1 < Len(Fields[e.type])
        BY <3>1, <3>2, <3>3, <1>2
      <3>5. LeavesOut(a)
        BY <2>1, <3>3, <3>4, <1>2
      <3>6. Extension(Field(e.type, e.position + 1).type)
        BY <3>5 DEF LeavesOut
      <3>7. k # e.position + 1
        BY <3>2, <3>6
      <3>8. e.position >= -1
        BY <2>4 DEF Misses
      <3>9. PICK i \in Int : i = e.position + 1 + 1
        BY <1>2
      <3>10. /\ i \in 1 .. Len(Fields[e.type]) /\ k + 1 \in 1 .. Len(Fields[e.type])
             /\ i < k + 1
        <4>1. PICK p \in Int : p = e.position
          BY <1>2
        <4>2. PICK len \in Nat : len = Len(Fields[e.type])
          BY <3>3
        <4>3. k < len /\ k # p + 1 /\ p + 1 < len /\ p >= -1 /\ p < k /\ i = p + 2
          BY <3>1, <3>2, <3>4, <3>7, <3>8, <3>9, <4>1, <4>2
        <4>4. i \in 1 .. len /\ k + 1 \in 1 .. len /\ i < k + 1
          BY ONLY <4>3, p \in Int, len \in Nat, k \in Nat, i \in Int
        <4>5. QED
          BY <4>2, <4>4
      <3>11. Extension(Fields[e.type][i].type)
        BY <3>6, <3>9 DEF Field
      <3>12. Extension(Fields[e.type][k + 1].type)
        BY <3>3, <3>10, <3>11, <2>1, <1>2 DEF ExtensionsLast
      <3>13. QED
        BY <3>12, <3>2 DEF Field
    <2>5. QED
      BY <2>2, <2>3, <2>4, <1>3, <1>4
  <1>8. CASE FieldMove(a, tok, b, bytes, sizes)
    <2> DEFINE t == Field(e.type, e.position).type
               allow == AllowIn(e.type, e.position, e.allow_extensions)
    <2>1. /\ Kind[e.type] = "struct"
          /\ ValueMove(t, allow, a.stack, a, tok, b, bytes, sizes)
      BY <1>8 DEF FieldMove
    <2> DEFINE top == Level(Base(t), allow /\ Kind[Base(t)] # "fixed_array", 0)
    <2>2. AtTheEnd(b, bytes, sizes) /\ b.stack = Append(a.stack, top)
      BY <2>1, <1>1, NothingToRead
    <2>3. CASE Owes(W, a)
      <3>1. t \in W
        BY <2>1, <2>3 DEF Owes
      <3>2. allow \in BOOLEAN
        BY <1>2 DEF AllowIn
      <3> HIDE DEF t, allow
      <3>3. QED
        BY <3>1, <3>2, <2>1, <1>1, OwesAtOnce
    <2>4. CASE Misses(W, e)
      <3> HIDE DEF top
      <3>2. n \in 1 .. Len(b.stack) /\ b.stack[n] = e
        BY <2>2, <1>1, <1>2
      <3>3. QED
        BY <3>2, <2>2, <2>4 DEF Endless
    <2>5. QED
      BY <2>2, <2>3, <2>4, <1>3, <1>4
  <1>9. CASE ElementMove(a, tok, b, bytes, sizes)
    <2> DEFINE s == MovedTo(a, e.position + 1)
               t == Element[e.type]
    <2>1. /\ Kind[e.type] \in {"array", "fixed_array"}
          /\ ValueMove(t, FALSE, s, a, tok, b, bytes, sizes)
      BY <1>9 DEF ElementMove
    <2>2. AtTheEnd(b, bytes, sizes)
      BY <2>1, <1>1, NothingToRead
    <2>3. CASE Owes(W, a)
      <3>1. t \in W
        BY <2>1, <2>3 DEF Owes
      <3>2. s \in Seq(LevelSet)
        <4>1. e.position + 1 \in Int
          BY <1>2
        <4>2. Changed(s, a, e.position + 1)
          BY <4>1, <1>1, MovedFacts
        <4>3. QED
          BY <4>2 DEF Changed
      <3> HIDE DEF t, s
      <3>3. QED
        BY <3>1, <3>2, <2>1, <1>1, OwesAtOnce
    <2>4. QED
      BY <2>1, <2>2, <2>3, <1>3, <1>4, <1>5
  <1>10. CASE ArrayEndMove(a, tok, b, sizes)
    <2>1. /\ b = Closed(a)
          /\ \/ Kind[e.type] = "array"
             \/ Kind[e.type] = "fixed_array" /\ Size[e.type] = e.position + 1
             \/ Kind[e.type] = "variant" /\ e.position = 1
      BY <1>10 DEF ArrayEndMove
    <2>2. AtTheEnd(b, bytes, sizes)
      BY <1>1, <2>1 DEF AtTheEnd, Closed, Point
    <2>3. ~Owes(W, a)
      BY <2>1, <1>2, TableAssumption DEF Owes
    <2>4. ~Misses(W, e)
      BY <2>1, <1>5
    <2>5. QED
      BY <2>2, <2>3, <2>4, <1>3, <1>4
  <1>11. CASE NameMove(a, tok, b, bytes)
    <2>1. a.bytes < Len(bytes)
      BY <1>11 DEF NameMove
    <2>2. QED
      BY <2>1, <1>1 DEF AtTheEnd
  <1>12. CASE AlternativeMove(a, tok, b, bytes, sizes)
    <2>1. /\ Kind[e.type] = "variant" /\ e.position = 0
          /\ ValueMove(Field(e.type, e.variant_type_index).type, e.allow_extensions,
                       MovedTo(a, 1), a, tok, b, bytes, sizes)
      BY <1>12 DEF AlternativeMove
    <2>2. AtTheEnd(b, bytes, sizes)
      BY <2>1, <1>1, NothingToRead
    <2>3. ~Owes(W, a)
      BY <2>1 DEF Owes
    <2>4. QED
      BY <2>1, <2>2, <2>3, <1>3, <1>4, <1>5
  <1>13. QED
    BY <1>6, <1>7, <1>8, <1>9, <1>10, <1>11, <1>12 DEF Move

\* An extension whose key was read has bytes of its own.
LEMMA BytesToCome ==
    ASSUME ExtensionsLast, ExtensionsTakeBytes,
           NEW t, NEW tokens, NEW bin, NEW at, NEW bytes, NEW sizes,
           IsWay(t, tokens, bin, at, bytes, sizes), NEW i \in 1 .. Len(tokens),
           at[i].stack # << >>, at[i].waiting, Kind[Innermost(at[i]).type] = "struct",
           Field(Innermost(at[i]).type, Innermost(at[i]).position).type \in Types,
           Extension(Field(Innermost(at[i]).type, Innermost(at[i]).position).type)
    PROVE  ~AtTheEnd(at[i], bytes, sizes)
  <1> SUFFICES ASSUME AtTheEnd(at[i], bytes, sizes) PROVE FALSE
    OBVIOUS
  <1>1. PICK W \in SUBSET Types : TakesBytes(W) /\ \A ty \in Types : Extension(ty) => ty \in W
    BY DEF ExtensionsTakeBytes
  <1> DEFINE N == Len(tokens)
             D == {k \in 1 .. N : Endless(W, at[k], bytes, sizes)}
  <1>2. N \in Nat /\ at[N].stack = << >>
    BY WayEnds
  <1>3. i \in D
    BY <1>1 DEF Endless, Owes
  <1>4. ASSUME NEW j \in 1 .. N - 1, j \in D
        PROVE  j + 1 \in D
    <2>1. /\ LiesIn(at[j], bytes, sizes) /\ Move(at[j], tokens[j + 1], at[j + 1], bytes, sizes)
      BY <1>4, WayMove
    <2>2. bytes \in Seq(Nat) /\ sizes \in Seq(Sizes)
      BY DEF IsWay
    <2>3. Endless(W, at[j + 1], bytes, sizes)
      BY <2>1, <2>2, <1>1, <1>4, EndlessStays
    <2>4. QED
      BY <2>3, <1>2
  <1>5. ~Endless(W, at[N], bytes, sizes)
    BY <1>2 DEF Endless, Owes
  <1> HIDE DEF D
  <1>6. N \in D
    BY <1>2, <1>3, <1>4, NeverLeft
  <1>7. QED
    BY <1>5, <1>6 DEF D

----------------------------------------------------------------------------
(***************************************************************************)
(* Reading what was written: the next byte of the way, or the next size,   *)
(* is the next one of the input.                                           *)
(***************************************************************************)
Known(bin, bytes, sizes) ==
    bytes \in Seq(Nat) /\ sizes \in Seq(Sizes) /\ Joined(bin, bytes, sizes)

LEMMA OneSize ==
    ASSUME NEW sizes \in Seq(Sizes), NEW k \in 1 .. Len(sizes)
    PROVE  sizes[k].position \in Nat /\ sizes[k].size \in Nat
  <1>1. sizes[k] \in Sizes
    BY ElementOfSeq
  <1>2. QED
    BY <1>1 DEF Sizes

LEMMA ReadsByte ==
    ASSUME NEW bin, NEW bytes, NEW sizes, Known(bin, bytes, sizes),
           NEW a, LiesIn(a, bytes, sizes), NEW m \in Nat, a.bytes < m, m <= Len(bytes),
           a.sizes < Len(sizes) => m <= sizes[a.sizes + 1].position
    PROVE  bin[m + a.sizes] = bytes[m] /\ m + a.sizes <= Len(bin)
  <1>1. PICK K \in Nat : K = a.sizes
    BY DEF LiesIn
  <1>2. PICK L \in Nat : L = Len(sizes)
    BY DEF Known
  <1>3. PICK B \in Nat : B = Len(bytes)
    BY DEF Known
  <1>4. K <= L /\ a.bytes \in Nat
    BY <1>1, <1>2 DEF LiesIn
  <1>5. ASSUME K > 0
        PROVE  sizes[K].position < m
    <2>1. K \in 1 .. L
      BY <1>4, <1>5
    <2>2. sizes[K].position <= a.bytes
      BY <2>1, <1>1, <1>2 DEF LiesIn
    <2>3. sizes[K].position \in Nat
      BY <2>1, <1>2, OneSize DEF Known
    <2>4. QED
      BY <2>2, <2>3, <1>4
  <1>6. m \in 1 .. B /\ K \in 0 .. L
    BY <1>3, <1>4
  <1>7. /\ Len(bin) = B + L
        /\ \A k \in 0 .. L, i \in 1 .. B :
              /\ k > 0 => sizes[k].position < i
              /\ k < L => i <= sizes[k + 1].position
              => bin[i + k] = bytes[i]
    BY <1>2, <1>3 DEF Known, Joined
  <1>8. K < L => m <= sizes[K + 1].position
    BY <1>1, <1>2
  <1>9. bin[m + K] = bytes[m]
    BY <1>5, <1>6, <1>7, <1>8
  <1>10. QED
    BY <1>1, <1>4, <1>6, <1>7, <1>9

LEMMA ReadsSize ==
    ASSUME NEW bin, NEW bytes, NEW sizes, Known(bin, bytes, sizes),
           NEW a, LiesIn(a, bytes, sizes), a.sizes < Len(sizes),
           NEW m \in Nat, sizes[a.sizes + 1].position = m, m <= Len(bytes)
    PROVE  /\ bin[m + a.sizes + 1] = sizes[a.sizes + 1].size
           /\ m + a.sizes + 1 <= Len(bin) /\ sizes[a.sizes + 1].size \in Nat
  <1>1. PICK K \in Nat : K = a.sizes
    BY DEF LiesIn
  <1>2. PICK L \in Nat : L = Len(sizes)
    BY DEF Known
  <1>3. PICK B \in Nat : B = Len(bytes)
    BY DEF Known
  <1>4. K + 1 \in 1 .. L
    BY <1>1, <1>2
  <1>5. Len(bin) = B + L /\ bin[sizes[K + 1].position + (K + 1)] = sizes[K + 1].size
    BY <1>2, <1>3, <1>4 DEF Known, Joined
  <1>6. sizes[K + 1].size \in Nat /\ sizes[K + 1].position = m
    BY <1>1, <1>2, <1>4, OneSize DEF Known
  <1>7. bin[m + (K + 1)] = sizes[K + 1].size /\ m + (K + 1) <= Len(bin)
    BY <1>3, <1>4, <1>5, <1>6
  <1>8. m + (K + 1) = m + K + 1
    OBVIOUS
  <1>9. QED
    BY <1>1, <1>6, <1>7, <1>8

\* A size that was not yet met lies behind.
LEMMA SizeBehind ==
    ASSUME NEW bytes \in Seq(Nat), NEW sizes \in Seq(Sizes), NEW b, LiesIn(b, bytes, sizes),
           NEW m, m <= b.bytes, m \in Nat, NEW k \in Nat, k = b.sizes, k < Len(sizes)
    PROVE  m <= sizes[k + 1].position
  <1>1. k + 1 \in 1 .. Len(sizes) /\ ~(k + 1 <= b.sizes)
    OBVIOUS
  <1>2. sizes[k + 1].position >= b.bytes
    BY <1>1 DEF LiesIn
  <1>3. sizes[k + 1].position \in Nat /\ b.bytes \in Nat
    BY <1>1, OneSize DEF LiesIn
  <1>4. QED
    BY <1>2, <1>3

----------------------------------------------------------------------------
(***************************************************************************)
(* The stack of the way back is that of the way, level by level.           *)
(***************************************************************************)
AlikeLevel(e, w, sizes) ==
    /\ e.type = w.type /\ e.allow_extensions = w.allow_extensions
    /\ IF Kind[w.type] = "variant"
         THEN \/ e.position = -1 /\ w.position = -1
              \/ e.position = 0 /\ w.position = 1
         ELSE e.position = w.position
    /\ Kind[w.type] = "array" => e.array_size = sizes[w.size_insertion_index].size

Alike(st, ws, sizes) ==
    Len(st) = Len(ws) /\ \A i \in 1 .. Len(st) : AlikeLevel(st[i], ws[i], sizes)

LEMMA AlikeMore ==
    ASSUME NEW st \in Seq(Entries), NEW ws \in Seq(LevelSet), NEW sizes, Alike(st, ws, sizes),
           NEW e \in Entries, NEW w \in LevelSet, AlikeLevel(e, w, sizes)
    PROVE  Alike(Append(st, e), Append(ws, w), sizes)
  <1> DEFINE n == Len(st)
             s2 == Append(st, e)
             w2 == Append(ws, w)
  <1>1. n \in Nat /\ Len(s2) = n + 1 /\ s2[n + 1] = e /\ \A i \in 1 .. n : s2[i] = st[i]
    BY AppendFacts
  <1>2. Len(ws) = n
    BY DEF Alike
  <1>3. Len(w2) = n + 1 /\ w2[n + 1] = w /\ \A i \in 1 .. n : w2[i] = ws[i]
    BY <1>2, AppendFacts
  <1> HIDE DEF s2, w2
  <1>4. ASSUME NEW i \in 1 .. n + 1
        PROVE  AlikeLevel(s2[i], w2[i], sizes)
    <2>1. CASE i \in 1 .. n
      <3>1. AlikeLevel(st[i], ws[i], sizes)
        BY <2>1 DEF Alike
      <3>2. QED
        BY <2>1, <3>1, <1>1, <1>3
    <2>2. CASE i = n + 1
      BY <2>2, <1>1, <1>3
    <2>3. QED
      BY <2>1, <2>2, <1>1
  <1>5. QED
    BY <1>1, <1>3, <1>4 DEF Alike, s2, w2

(***************************************************************************)
(* The way is at a where the input has been read up to read bytes from     *)
(* here, and a value of type t starts there.                               *)
(***************************************************************************)
Starting(t, allow, read, belowW, a, tok, b, bytes, sizes) ==
    /\ TypeOK /\ Known(input, bytes, sizes)
    /\ LiesIn(a, bytes, sizes) /\ LiesIn(b, bytes, sizes)
    /\ t \in Types /\ allow \in BOOLEAN /\ read \in Nat
    /\ pos + read = a.bytes + a.sizes
    /\ belowW \in Seq(LevelSet)
    /\ ValueMove(t, allow, belowW, a, tok, b, bytes, sizes)

LEMMA StartingFacts ==
    ASSUME NEW t, NEW allow, NEW read, NEW belowW, NEW a, NEW tok, NEW b, NEW bytes, NEW sizes,
           Starting(t, allow, read, belowW, a, tok, b, bytes, sizes)
    PROVE  /\ pos \in Nat /\ read \in Nat /\ Len(input) \in Nat /\ Left = Len(input) - pos
           /\ Left \in Nat
           /\ a.bytes \in Nat /\ a.sizes \in Nat /\ b.bytes \in Nat /\ b.sizes \in Nat
           /\ Len(bytes) \in Nat /\ Len(sizes) \in Nat
           /\ bytes \in Seq(Nat) /\ sizes \in Seq(Sizes)
           /\ Flag(t) \in {0, 1} /\ Prefix(t) = Flag(t) /\ Base(t) \in Types
  <1>1. bytes \in Seq(Nat) /\ sizes \in Seq(Sizes) /\ input \in Seq(Byte) /\ pos \in 0 .. Len(input)
    BY DEF Starting, Known, TypeOK
  <1>2. LiesIn(a, bytes, sizes) /\ LiesIn(b, bytes, sizes) /\ read \in Nat /\ t \in Types
    BY DEF Starting
  <1>3. Len(bytes) \in Nat /\ Len(sizes) \in Nat /\ Len(input) \in Nat
    BY <1>1
  <1>4. a.bytes \in Nat /\ a.sizes \in Nat /\ b.bytes \in Nat /\ b.sizes \in Nat
    BY <1>2, <1>3 DEF LiesIn
  <1>5. Flag(t) \in {0, 1} /\ Prefix(t) = Flag(t)
    BY DEF Flag, Prefix
  <1>6. Base(t) \in Types
    BY <1>2, BaseFacts
  <1>7. Left = Len(input) - pos /\ pos \in Nat /\ Left \in Nat
    BY <1>1, <1>3 DEF Left
  <1>8. QED
    BY <1>1, <1>2, <1>3, <1>4, <1>5, <1>6, <1>7

\* A byte of the way is where the way back looks for it.
LEMMA ByteThere ==
    ASSUME NEW t, NEW allow, NEW read, NEW belowW, NEW a, NEW tok, NEW b, NEW bytes, NEW sizes,
           Starting(t, allow, read, belowW, a, tok, b, bytes, sizes),
           NEW i \in Nat, i > 0, a.bytes + i <= Len(bytes),
           \/ a.sizes = b.sizes /\ a.bytes + i <= b.bytes
           \/ sizes[a.sizes + 1].position >= a.bytes + i /\ sizes[a.sizes + 1].position \in Nat
    PROVE  read + i <= Left /\ ByteAt(read + i) = bytes[a.bytes + i]
  <1>1. /\ pos \in Nat /\ read \in Nat /\ Len(input) \in Nat /\ Left = Len(input) - pos
        /\ a.bytes \in Nat /\ a.sizes \in Nat /\ bytes \in Seq(Nat) /\ sizes \in Seq(Sizes)
    BY StartingFacts
  <1>2. /\ Known(input, bytes, sizes) /\ LiesIn(a, bytes, sizes) /\ LiesIn(b, bytes, sizes)
        /\ pos + read = a.bytes + a.sizes
    BY DEF Starting
  <1>3. PICK m \in Nat : m = a.bytes + i
    BY <1>1
  <1>4. a.sizes < Len(sizes) => m <= sizes[a.sizes + 1].position
    <2>1. CASE a.sizes = b.sizes /\ a.bytes + i <= b.bytes
      BY <2>1, <1>1, <1>2, <1>3, SizeBehind
    <2>2. CASE sizes[a.sizes + 1].position >= a.bytes + i /\ sizes[a.sizes + 1].position \in Nat
      BY <2>2, <1>3
    <2>3. QED
      BY <2>1, <2>2
  <1>5. input[m + a.sizes] = bytes[m] /\ m + a.sizes <= Len(input)
    <2>1. a.bytes < m /\ m <= Len(bytes)
      BY <1>1, <1>3
    <2>2. QED
      BY <2>1, <1>2, <1>4, ReadsByte
  <1>6. m + a.sizes = pos + (read + i)
    <2>1. PICK k \in Nat : k = a.sizes
      BY <1>1
    <2>2. PICK n \in Nat : n = a.bytes
      BY <1>1
    <2>3. pos + read = n + k /\ m = n + i
      BY <2>1, <2>2, <1>2, <1>3
    <2>4. m + k = pos + (read + i)
      BY ONLY <2>3, <1>1, <1>3, k \in Nat, n \in Nat, i \in Nat
    <2>5. QED
      BY <2>1, <2>4
  <1>7. ByteAt(read + i) = bytes[m]
    BY <1>5, <1>6 DEF ByteAt
  <1>8. read + i <= Left
    BY <1>1, <1>5, <1>6
  <1>9. QED
    BY <1>3, <1>7, <1>8

(***************************************************************************)
(* A serializer call that starts a value goes where the way goes, unless   *)
(* the stack grows too high.                                               *)
(***************************************************************************)
Met(lexemes, tok, b, sizes) ==
    \/ Fail("recursion_limit_reached")
    \/ \E n \in Nat, st \in Seq(Entries) :
          /\ Returned(n, Append(lexemes, tok), st)
          /\ pos + n = b.bytes + b.sizes
          /\ Alike(st, b.stack, sizes)

LEMMA MetByReturn ==
    ASSUME NEW lexemes, NEW tok, NEW b, NEW sizes, NEW n \in Nat, NEW st \in Seq(Entries),
           Return(n, Append(lexemes, tok), st), pos + n = b.bytes + b.sizes,
           Alike(st, b.stack, sizes)
    PROVE  Met(lexemes, tok, b, sizes)
  <1>1. CASE Len(st) > MaxStack
    BY <1>1 DEF Return, Met
  <1>2. CASE ~(Len(st) > MaxStack)
    <2>1. Returned(n, Append(lexemes, tok), st)
      BY <1>2 DEF Return, Returned
    <2>2. QED
      BY <2>1 DEF Met
  <1>3. QED
    BY <1>1, <1>2

LEMMA MetAbsent ==
    ASSUME NEW t, NEW allow, NEW read, NEW belowW, NEW a, NEW tok, NEW b, NEW bytes, NEW sizes,
           Starting(t, allow, read, belowW, a, tok, b, bytes, sizes),
           AbsentMove(t, belowW, a, tok, b, bytes),
           NEW lexemes, NEW below \in Seq(Entries), Alike(below, belowW, sizes),
           StartValue(t, allow, read, lexemes, below)
    PROVE  Met(lexemes, tok, b, sizes)
  <1>1. /\ pos \in Nat /\ read \in Nat /\ Left \in Nat
        /\ a.bytes \in Nat /\ a.sizes \in Nat /\ Len(bytes) \in Nat
    BY StartingFacts
  <1>2. /\ Optional(t) /\ tok = Token("null")
        /\ a.bytes < Len(bytes) /\ bytes[a.bytes + 1] = 0
        /\ b.stack = belowW /\ b.bytes = a.bytes + 1 /\ b.sizes = a.sizes
    BY DEF AbsentMove, Point
  <1>3. read + 1 <= Left /\ ByteAt(read + 1) = 0
    <2>1. a.bytes + 1 <= Len(bytes) /\ a.sizes = b.sizes /\ a.bytes + 1 <= b.bytes
      BY <1>1, <1>2
    <2>2. QED
      BY <2>1, <1>2, ByteThere
  <1>4. TRUE \notin Presences(ByteAt(read + 1))
    <2>1. (0 = 1) = FALSE
      OBVIOUS
    <2>2. Presences(0) = {0 = 1}
      BY DEF Presences
    <2>3. Presences(0) = {FALSE}
      BY <2>1, <2>2, Zenon
    <2>4. QED
      BY <2>3, <1>3
  <1>5. ~Present(t, read)
    BY <1>2, <1>4 DEF Present
  <1>6. ~(Left <= read)
    BY <1>1, <1>3
  <1>7. AbsentOptional(t, read, lexemes, below)
    BY <1>5, <1>6 DEF StartValue
  <1>8. Return(read + 1, Append(lexemes, tok), below)
    BY <1>2, <1>7 DEF AbsentOptional
  <1>9. pos + (read + 1) = b.bytes + b.sizes
    <2>1. pos + read = a.bytes + a.sizes
      BY DEF Starting
    <2>2. QED
      BY <2>1, <1>1, <1>2, SMTT(60)
  <1>10. read + 1 \in Nat
    BY <1>1
  <1>11. QED
    BY <1>2, <1>8, <1>9, <1>10, MetByReturn

\* The presence byte is 1: the value itself follows.
LEMMA ValueFollows ==
    ASSUME NEW t, NEW allow, NEW read \in Nat, NEW lexemes, NEW below,
           Left \in Nat, Optional(t) => read + 1 <= Left /\ ByteAt(read + 1) = 1,
           StartValue(t, allow, read, lexemes, below)
    PROVE  \/ StartBuiltin(t, read, lexemes, below)
           \/ StartStruct(t, allow, read, lexemes, below)
           \/ StartArray(t, read, lexemes, below)
           \/ StartFixedArray(t, read, lexemes, below)
           \/ StartVariant(t, allow, read, lexemes, below)
  <1>1. Optional(t) => ~(Left <= read)
    OBVIOUS
  <1>2. Optional(t) => Presences(ByteAt(read + 1)) = {TRUE}
    BY DEF Presences
  <1>3. ~AbsentOptional(t, read, lexemes, below)
    BY <1>2 DEF AbsentOptional
  <1>4. QED
    BY <1>1, <1>3 DEF StartValue

LEMMA MetScalar ==
    ASSUME NEW t, NEW allow, NEW read, NEW belowW, NEW a, NEW tok, NEW b, NEW bytes, NEW sizes,
           Starting(t, allow, read, belowW, a, tok, b, bytes, sizes),
           Optional(t) => a.bytes < Len(bytes) /\ bytes[a.bytes + 1] = 1,
           ScalarMove(t, belowW, a.bytes + Flag(t), a, tok, b, bytes),
           NEW lexemes, NEW below \in Seq(Entries), Alike(below, belowW, sizes),
           StartValue(t, allow, read, lexemes, below)
    PROVE  Met(lexemes, tok, b, sizes)
  <1>1. /\ pos \in Nat /\ read \in Nat /\ Left \in Nat
        /\ a.bytes \in Nat /\ a.sizes \in Nat /\ Len(bytes) \in Nat
        /\ Flag(t) \in {0, 1} /\ Prefix(t) = Flag(t)
    BY StartingFacts
  <1> DEFINE at == a.bytes + Flag(t)
  <1>2. /\ Kind[Base(t)] = "builtin" /\ at < Len(bytes)
        /\ tok = Text("string", TextOf[bytes[at + 1]])
        /\ b.stack = belowW /\ b.bytes = at + 1 /\ b.sizes = a.sizes
    BY DEF ScalarMove, Point, Text
  <1>3. Optional(t) => read + 1 <= Left /\ ByteAt(read + 1) = 1
    <2>1. SUFFICES ASSUME Optional(t) PROVE read + 1 <= Left /\ ByteAt(read + 1) = 1
      OBVIOUS
    <2>2. a.bytes + 1 <= Len(bytes) /\ a.sizes = b.sizes /\ a.bytes + 1 <= b.bytes
      BY <1>1, <1>2
    <2>3. QED
      BY <2>1, <2>2, ByteThere
  <1>4. PICK i \in Nat : i = Flag(t) + 1
    BY <1>1
  <1>5. read + i <= Left /\ ByteAt(read + i) = bytes[a.bytes + i]
    <2>1. i > 0 /\ a.bytes + i <= Len(bytes) /\ a.sizes = b.sizes /\ a.bytes + i <= b.bytes
      BY <1>1, <1>2, <1>4
    <2>2. QED
      BY <2>1, ByteThere
  <1>6. StartBuiltin(t, read, lexemes, below)
    BY <1>1, <1>2, <1>3, ValueFollows DEF StartStruct, StartArray, StartFixedArray, StartVariant
  <1>7. /\ read + Prefix(t) + 1 = read + i /\ a.bytes + i = at + 1
        /\ ~(Left < read + i) /\ read + i \in Nat
    BY <1>1, <1>4, <1>5
  <1>8. Return(read + i, Append(lexemes, tok), below)
    BY <1>2, <1>5, <1>6, <1>7 DEF StartBuiltin
  <1>9. pos + (read + i) = b.bytes + b.sizes
    <2>1. pos + read = a.bytes + a.sizes
      BY DEF Starting
    <2>2. b.bytes = a.bytes + i /\ b.sizes = a.sizes
      BY <1>2, <1>7
    <2>3. QED
      BY <2>1, <2>2, <1>1, SMTT(60)
  <1>10. QED
    BY <1>2, <1>7, <1>8, <1>9, MetByReturn

\* A new entry on top, as on the way.
LEMMA MetByPush ==
    ASSUME NEW lexemes, NEW tok, NEW b, NEW sizes, NEW n \in Nat, pos + n = b.bytes + b.sizes,
           NEW below \in Seq(Entries), NEW belowW \in Seq(LevelSet), Alike(below, belowW, sizes),
           NEW t \in Types, NEW allow \in BOOLEAN, NEW size \in Nat, NEW number \in Nat,
           Kind[t] = "array" => size = sizes[number].size,
           b.stack = Append(belowW, Level(t, allow, number)),
           Return(n, Append(lexemes, tok), Append(below, Entry(t, allow, size)))
    PROVE  Met(lexemes, tok, b, sizes)
  <1> DEFINE e == Entry(t, allow, size)
             w == Level(t, allow, number)
  <1>1. e \in Entries /\ w \in LevelSet
    BY DEF Entry, Entries, Level, LevelSet
  <1>2. AlikeLevel(e, w, sizes)
    BY DEF AlikeLevel, Entry, Level
  <1> HIDE DEF e, w
  <1>3. Alike(Append(below, e), b.stack, sizes)
    BY <1>1, <1>2, AlikeMore DEF w
  <1>4. Append(below, e) \in Seq(Entries)
    BY <1>1
  <1>5. QED
    BY <1>3, <1>4, MetByReturn DEF e

LEMMA MetOpen ==
    ASSUME NEW t, NEW allow, NEW read, NEW belowW, NEW a, NEW tok, NEW b, NEW bytes, NEW sizes,
           Starting(t, allow, read, belowW, a, tok, b, bytes, sizes),
           Optional(t) => a.bytes < Len(bytes) /\ bytes[a.bytes + 1] = 1,
           OpenMove(t, allow, belowW, a.bytes + Flag(t), a, tok, b),
           NEW lexemes, NEW below \in Seq(Entries), Alike(below, belowW, sizes),
           StartValue(t, allow, read, lexemes, below)
    PROVE  Met(lexemes, tok, b, sizes)
  <1>1. /\ pos \in Nat /\ read \in Nat /\ Left \in Nat
        /\ a.bytes \in Nat /\ a.sizes \in Nat /\ Len(bytes) \in Nat
        /\ Flag(t) \in {0, 1} /\ Prefix(t) = Flag(t) /\ Base(t) \in Types
    BY StartingFacts
  <1> DEFINE al == allow /\ Kind[Base(t)] # "fixed_array"
  <1>2. /\ Kind[Base(t)] \in {"struct", "variant", "fixed_array"}
        /\ tok = Token(IF Kind[Base(t)] = "struct" THEN "start_object" ELSE "start_array")
        /\ b.stack = Append(belowW, Level(Base(t), al, 0))
        /\ b.bytes = a.bytes + Flag(t) /\ b.sizes = a.sizes
    BY DEF OpenMove, Point
  <1>3. Optional(t) => read + 1 <= Left /\ ByteAt(read + 1) = 1
    <2>1. SUFFICES ASSUME Optional(t) PROVE read + 1 <= Left /\ ByteAt(read + 1) = 1
      OBVIOUS
    <2>2. a.bytes + 1 <= Len(bytes) /\ a.sizes = b.sizes /\ a.bytes + 1 <= b.bytes
      BY <1>1, <1>2, <2>1 DEF Flag
    <2>3. QED
      BY <2>1, <2>2, ByteThere
  <1>4. PICK n \in Nat : n = read + Flag(t)
    BY <1>1
  <1>5. Return(n, Append(lexemes, tok), Append(below, Entry(Base(t), al, 0)))
    <2>1. \/ StartStruct(t, allow, read, lexemes, below)
          \/ StartFixedArray(t, read, lexemes, below)
          \/ StartVariant(t, allow, read, lexemes, below)
      BY <1>1, <1>2, <1>3, ValueFollows DEF StartBuiltin, StartArray
    <2>2. n = read + Prefix(t)
      BY <1>1, <1>4
    <2>3. allow \in BOOLEAN
      BY DEF Starting
    <2>4. CASE StartStruct(t, allow, read, lexemes, below)
      <3>1. /\ Kind[Base(t)] = "struct"
            /\ Return(n, Append(lexemes, Token("start_object")),
                      Append(below, Entry(Base(t), allow, 0)))
        BY <2>2, <2>4 DEF StartStruct
      <3>2. al = allow /\ tok = Token("start_object")
        BY <3>1, <2>3, <1>2
      <3> HIDE DEF al
      <3>3. QED
        BY <3>1, <3>2
    <2>5. CASE StartFixedArray(t, read, lexemes, below)
      <3>1. /\ Kind[Base(t)] = "fixed_array"
            /\ Return(n, Append(lexemes, Token("start_array")),
                      Append(below, Entry(Base(t), FALSE, 0)))
        BY <2>2, <2>5 DEF StartFixedArray
      <3>2. al = FALSE /\ tok = Token("start_array")
        BY <3>1, <1>2
      <3> HIDE DEF al
      <3>3. QED
        BY <3>1, <3>2
    <2>6. CASE StartVariant(t, allow, read, lexemes, below)
      <3>1. /\ Kind[Base(t)] = "variant"
            /\ Return(n, Append(lexemes, Token("start_array")),
                      Append(below, Entry(Base(t), allow, 0)))
        BY <2>2, <2>6 DEF StartVariant
      <3>2. al = allow /\ tok = Token("start_array")
        BY <3>1, <2>3, <1>2
      <3> HIDE DEF al
      <3>3. QED
        BY <3>1, <3>2
    <2>7. QED
      BY <2>1, <2>4, <2>5, <2>6
  <1>6. pos + n = b.bytes + b.sizes
    <2>1. pos + read = a.bytes + a.sizes
      BY DEF Starting
    <2>2. PICK A, K, F \in Nat : A = a.bytes /\ K = a.sizes /\ F = Flag(t)
      BY <1>1
    <2>3. pos + read = A + K /\ b.bytes = A + F /\ b.sizes = K /\ n = read + F
      BY <2>1, <2>2, <1>2, <1>4
    <2>4. QED
      <3>1. pos + n = (A + F) + K
        BY ONLY <2>3, <1>1, A \in Nat, K \in Nat, F \in Nat, n \in Nat
      <3>2. QED
        BY ONLY <2>3, <3>1
  <1>7. al \in BOOLEAN /\ belowW \in Seq(LevelSet)
    BY DEF Starting
  <1>8. Kind[Base(t)] # "array"
    BY <1>2
  <1> HIDE DEF al
  <1>9. QED
    BY <1>1, <1>2, <1>5, <1>6, <1>7, <1>8, MetByPush

LEMMA MetArray ==
    ASSUME NEW t, NEW allow, NEW read, NEW belowW, NEW a, NEW tok, NEW b, NEW bytes, NEW sizes,
           Starting(t, allow, read, belowW, a, tok, b, bytes, sizes),
           Optional(t) => a.bytes < Len(bytes) /\ bytes[a.bytes + 1] = 1,
           ArrayMove(t, belowW, a.bytes + Flag(t), a, tok, b, sizes),
           NEW lexemes, NEW below \in Seq(Entries), Alike(below, belowW, sizes),
           StartValue(t, allow, read, lexemes, below)
    PROVE  Met(lexemes, tok, b, sizes)
  <1>1. /\ pos \in Nat /\ read \in Nat /\ Left \in Nat /\ Len(input) \in Nat
        /\ Left = Len(input) - pos
        /\ a.bytes \in Nat /\ a.sizes \in Nat /\ Len(bytes) \in Nat /\ b.bytes \in Nat
        /\ Flag(t) \in {0, 1} /\ Prefix(t) = Flag(t) /\ Base(t) \in Types
    BY StartingFacts
  <1>2. PICK m \in Nat : m = a.bytes + Flag(t)
    BY <1>1
  <1>3. /\ Kind[Base(t)] = "array" /\ tok = Token("start_array")
        /\ a.sizes < Len(sizes) /\ sizes[a.sizes + 1].position = m
        /\ b.stack = Append(belowW, Level(Base(t), FALSE, a.sizes + 1))
        /\ b.bytes = m /\ b.sizes = a.sizes + 1
    BY <1>2 DEF ArrayMove, Point
  <1>4. Optional(t) => read + 1 <= Left /\ ByteAt(read + 1) = 1
    <2>1. SUFFICES ASSUME Optional(t) PROVE read + 1 <= Left /\ ByteAt(read + 1) = 1
      OBVIOUS
    <2>2. a.bytes + 1 <= Len(bytes) /\ m = a.bytes + 1
      BY <1>1, <1>2, <2>1 DEF Flag
    <2>3. sizes[a.sizes + 1].position >= a.bytes + 1 /\ sizes[a.sizes + 1].position \in Nat
      BY <2>2, <1>3
    <2>4. QED
      BY <2>1, <2>2, <2>3, ByteThere
  <1>5. m <= Len(bytes)
    BY <1>1, <1>3 DEF Starting, LiesIn
  <1>6. /\ input[m + a.sizes + 1] = sizes[a.sizes + 1].size
        /\ m + a.sizes + 1 <= Len(input) /\ sizes[a.sizes + 1].size \in Nat
    <2>1. Known(input, bytes, sizes) /\ LiesIn(a, bytes, sizes)
      BY DEF Starting
    <2>2. QED
      BY <2>1, <1>3, <1>5, ReadsSize
  <1>7. PICK n \in Nat : n = read + Prefix(t) + 1
    BY <1>1
  <1>8. PICK A, K, F \in Nat : A = a.bytes /\ K = a.sizes /\ F = Flag(t)
    BY <1>1
  <1>9. /\ pos + n = m + K + 1 /\ pos + n = b.bytes + b.sizes /\ K + 1 \in Nat
        /\ ByteAt(n) = sizes[a.sizes + 1].size /\ n <= Left
    <2>1. pos + read = a.bytes + a.sizes
      BY DEF Starting
    <2>2. pos + read = A + K /\ m = A + F /\ n = read + F + 1
      BY <2>1, <1>1, <1>2, <1>7, <1>8
    <2>3. pos + n = m + K + 1 /\ K + 1 \in Nat
      BY ONLY <2>2, <1>1, A \in Nat, K \in Nat, F \in Nat, n \in Nat, m \in Nat
    <2>4. b.bytes = m /\ b.sizes = K + 1
      BY <1>3, <1>8
    <2>5. pos + n = b.bytes + b.sizes
      BY <2>3, <2>4
    <2>6. input[pos + n] = sizes[a.sizes + 1].size /\ pos + n <= Len(input)
      BY <2>3, <1>6, <1>8
    <2>7. n <= Left
      BY ONLY <2>6, <1>1, n \in Nat
    <2>8. QED
      BY <2>3, <2>5, <2>6, <2>7 DEF ByteAt
  <1>10. StartArray(t, read, lexemes, below)
    BY <1>1, <1>3, <1>4, ValueFollows DEF StartStruct, StartBuiltin, StartFixedArray, StartVariant
  <1>11. Return(n, Append(lexemes, tok), Append(below, Entry(Base(t), FALSE, ByteAt(n))))
    <2>1. ~(Left < n)
      BY <1>1, <1>9
    <2>2. QED
      BY <2>1, <1>3, <1>7, <1>10 DEF StartArray
  <1>12. pos + n = b.bytes + b.sizes /\ a.sizes + 1 \in Nat
    BY <1>8, <1>9
  <1>13. belowW \in Seq(LevelSet)
    BY DEF Starting
  <1>14. QED
    BY <1>1, <1>3, <1>6, <1>9, <1>11, <1>12, <1>13, MetByPush

LEMMA StartMatches ==
    ASSUME NEW t, NEW allow, NEW read, NEW belowW, NEW a, NEW tok, NEW b, NEW bytes, NEW sizes,
           Starting(t, allow, read, belowW, a, tok, b, bytes, sizes),
           NEW lexemes, NEW below \in Seq(Entries), Alike(below, belowW, sizes),
           StartValue(t, allow, read, lexemes, below)
    PROVE  Met(lexemes, tok, b, sizes)
  <1>1. ValueMove(t, allow, belowW, a, tok, b, bytes, sizes)
    BY DEF Starting
  <1>2. CASE AbsentMove(t, belowW, a, tok, b, bytes)
    BY <1>2, MetAbsent
  <1>3. CASE ~AbsentMove(t, belowW, a, tok, b, bytes)
    <2>1. Optional(t) => a.bytes < Len(bytes) /\ bytes[a.bytes + 1] = 1
      BY <1>1, <1>3 DEF ValueMove
    <2>2. \/ ScalarMove(t, belowW, a.bytes + Flag(t), a, tok, b, bytes)
          \/ OpenMove(t, allow, belowW, a.bytes + Flag(t), a, tok, b)
          \/ ArrayMove(t, belowW, a.bytes + Flag(t), a, tok, b, sizes)
      BY <1>1, <1>3 DEF ValueMove
    <2>3. QED
      BY <2>1, <2>2, MetScalar, MetOpen, MetArray
  <1>4. QED
    BY <1>2, <1>3

----------------------------------------------------------------------------
(***************************************************************************)
(* The tokens of a text.  Says(t, s): a function that satisfies the        *)
(* definition of Spoken exists for t, and all end in s.                    *)
(***************************************************************************)
IsSpoken(r, t) ==
    r = [i \in 0 .. Len(t) |-> IF i = 0 THEN << >> ELSE SayOn(r[i - 1], t[i])]

Says(t, s) ==
    /\ \E r : IsSpoken(r, t)
    /\ \A r : IsSpoken(r, t) => r[Len(t)] = s

LEMMA SayMore ==
    ASSUME NEW t \in Seq(Lexemes), NEW x \in Lexemes, NEW s, Says(t, s)
    PROVE  Says(Append(t, x), SayOn(s, x))
  <1> DEFINE n == Len(t)
             t2 == Append(t, x)
  <1>1. /\ n \in Nat /\ Len(t2) = n + 1 /\ t2[n + 1] = x
        /\ \A i \in 1 .. n : t2[i] = t[i]
    BY AppendFacts
  <1> HIDE DEF n, t2
  <1>2. \E r : IsSpoken(r, t2)
    <2>1. PICK r : r = [i \in 0 .. n |-> IF i = 0 THEN << >> ELSE SayOn(r[i - 1], t[i])]
      BY DEF Says, IsSpoken, n
    <2> DEFINE r2 == [i \in 0 .. n + 1 |-> IF i = n + 1 THEN SayOn(r[n], x) ELSE r[i]]
    <2>2. ASSUME NEW i \in 0 .. n + 1
          PROVE  r2[i] = IF i = 0 THEN << >> ELSE SayOn(r2[i - 1], t2[i])
      <3>1. CASE i = 0
        BY <3>1, <2>1, <1>1
      <3>2. CASE i \in 1 .. n
        <4>1. r[i] = SayOn(r[i - 1], t[i])
          BY <3>2, <2>1, <1>1
        <4>2. r2[i] = r[i] /\ r2[i - 1] = r[i - 1]
          BY <3>2, <1>1
        <4>3. QED
          BY <3>2, <4>1, <4>2, <1>1
      <3>3. CASE i = n + 1
        <4>1. r2[i] = SayOn(r[n], x) /\ r2[i - 1] = r[n]
          BY <3>3, <1>1
        <4>2. QED
          BY <3>3, <4>1, <1>1
      <3>4. QED
        BY <3>1, <3>2, <3>3, <1>1
    <2>3. r2 = [i \in 0 .. n + 1 |-> r2[i]]
      OBVIOUS
    <2> HIDE DEF r2
    <2>4. IsSpoken(r2, t2)
      BY <2>2, <2>3, <1>1 DEF IsSpoken
    <2>5. QED
      BY <2>4
  <1>3. ASSUME NEW r2, IsSpoken(r2, t2)
        PROVE  r2[n + 1] = SayOn(s, x)
    <2> DEFINE r == [i \in 0 .. n |-> r2[i]]
    <2>1. \A i \in 0 .. n + 1 : r2[i] = IF i = 0 THEN << >> ELSE SayOn(r2[i - 1], t2[i])
      BY <1>3, <1>1 DEF IsSpoken
    <2>2. ASSUME NEW i \in 0 .. n
          PROVE  r[i] = IF i = 0 THEN << >> ELSE SayOn(r[i - 1], t[i])
      <3>1. CASE i = 0
        BY <3>1, <2>1, <1>1
      <3>2. CASE i \in 1 .. n
        <4>1. r2[i] = SayOn(r2[i - 1], t2[i])
          BY <3>2, <2>1, <1>1
        <4>2. r[i] = r2[i] /\ r[i - 1] = r2[i - 1] /\ t2[i] = t[i]
          BY <3>2, <1>1
        <4>3. QED
          BY <3>2, <4>1, <4>2
      <3>3. QED
        BY <3>1, <3>2, <1>1
    <2>3. r = [i \in 0 .. n |-> r[i]] /\ r[n] = r2[n]
      BY <1>1
    <2> HIDE DEF r
    <2>4. IsSpoken(r, t)
      BY <2>2, <2>3 DEF IsSpoken, n
    <2>5. r2[n] = s
      BY <2>3, <2>4 DEF Says, n
    <2>6. r2[n + 1] = SayOn(r2[n], x)
      BY <2>1, <1>1
    <2>7. QED
      BY <2>5, <2>6
  <1>4. QED
    BY <1>1, <1>2, <1>3 DEF Says, t2

\* The empty text says nothing.
LEMMA SaysNothing == Says(<< >>, << >>)
  <1> DEFINE r0 == [i \in 0 .. 0 |-> << >>]
  <1>1. ASSUME NEW r
        PROVE  IsSpoken(r, << >>) <=> r = r0
    BY DEF IsSpoken
  <1>2. r0[0] = << >>
    OBVIOUS
  <1> HIDE DEF r0
  <1>3. QED
    BY <1>1, <1>2 DEF Says

\* A comma says nothing, a token itself.
LEMMA SaysComma ==
    ASSUME NEW t \in Seq(Lexemes), NEW s, Says(t, s)
    PROVE  Says(Append(t, Token("comma")), s)
  <1>1. Token("comma") \in Lexemes /\ Token("comma").type = "comma"
    BY LexemeFacts
  <1>2. SayOn(s, Token("comma")) = s
    BY <1>1 DEF SayOn
  <1>3. QED
    BY <1>1, <1>2, SayMore

LEMMA CommaSays ==
    ASSUME NEW t \in Seq(Lexemes), NEW s, Says(t, s), NEW next
    PROVE  Comma(next) \in Seq(Lexemes) /\ Says(t \o Comma(next), s)
  <1>1. Token("comma") \in Lexemes
    BY LexemeFacts
  <1>2. CASE next = 0
    <2>1. Comma(next) = << >>
      BY <1>2 DEF Comma
    <2>2. Comma(next) \in Seq(Lexemes) /\ t \o Comma(next) = t
      BY <2>1
    <2>3. QED
      BY <2>2
  <1>3. CASE next # 0
    <2>1. Comma(next) = <<Token("comma")>>
      BY <1>3 DEF Comma
    <2>2. Comma(next) \in Seq(Lexemes) /\ t \o Comma(next) = Append(t, Token("comma"))
      BY <2>1, <1>1
    <2>3. QED
      BY <2>2, SaysComma
  <1>4. QED
    BY <1>2, <1>3

\* The first i tokens.
First(tokens, i) == SubSeq(tokens, 1, i)

LEMMA FirstFacts ==
    ASSUME NEW tokens \in Seq(Lexemes)
    PROVE  /\ First(tokens, 0) = << >> /\ First(tokens, Len(tokens)) = tokens
           /\ \A i \in 0 .. Len(tokens) - 1 :
                 First(tokens, i + 1) = Append(First(tokens, i), tokens[i + 1])
  BY DEF First

LEMMA SaysToken ==
    ASSUME NEW tokens \in Seq(Lexemes), NEW i \in 0 .. Len(tokens) - 1,
           tokens[i + 1].type # "comma",
           NEW t \in Seq(Lexemes), Says(t, First(tokens, i))
    PROVE  Says(Append(t, tokens[i + 1]), First(tokens, i + 1))
  <1>1. tokens[i + 1] \in Lexemes
    BY ElementOfSeq
  <1>2. SayOn(First(tokens, i), tokens[i + 1]) = First(tokens, i + 1)
    BY FirstFacts DEF SayOn
  <1>3. QED
    BY <1>1, <1>2, SayMore

----------------------------------------------------------------------------
(***************************************************************************)
(* The invariant: the way back is abreast of a point of the way, or has    *)
(* found the end of the input where the way leaves out extensions.         *)
(***************************************************************************)
Omitting(st, a, tok, bytes, sizes) ==
    LET n == Len(st)
        e == st[n]
        w == Innermost(a)
    IN  /\ Len(a.stack) = n /\ n > 0
        /\ \A j \in 1 .. n - 1 : AlikeLevel(st[j], a.stack[j], sizes)
        /\ e.type = w.type /\ e.allow_extensions = w.allow_extensions
        /\ -1 <= w.position /\ w.position < e.position
        /\ LeavesOut(a) /\ AtTheEnd(a, bytes, sizes) /\ tok = Token("end_object")

Abreast(tokens, at, bytes, sizes, i) ==
    /\ pos = at[i].bytes + at[i].sizes /\ ~at[i].waiting
    /\ Says(text, First(tokens, i))
    /\ \/ Alike(stack, at[i].stack, sizes)
       \/ Omitting(stack, at[i], tokens[i + 1], bytes, sizes)

Going(tokens, at, bytes, sizes) ==
    /\ pc = "begin" => pos = 0 /\ text = << >>
    /\ pc = "loop" => \E i \in 1 .. Len(tokens) : Abreast(tokens, at, bytes, sizes, i)
    /\ pc = "done" => pos = Len(input) /\ Says(text, tokens)
    /\ pc = "failed" => error = "recursion_limit_reached"

\* A call that met the way goes on abreast of it.
LEMMA GoingOn ==
    ASSUME NEW t, NEW tokens, NEW at, NEW bytes, NEW sizes,
           IsWay(t, tokens, input, at, bytes, sizes), NEW i \in 0 .. Len(tokens) - 1,
           TypeOK, NEW lexemes \in Seq(Lexemes), Says(text \o lexemes, First(tokens, i)),
           ~at[i + 1].waiting, Met(lexemes, tokens[i + 1], at[i + 1], sizes)
    PROVE  Going(tokens, at, bytes, sizes)'
  <1> DEFINE b == at[i + 1]
             tok == tokens[i + 1]
  <1>1. Len(tokens) \in Nat /\ i + 1 \in 1 .. Len(tokens)
    BY WayEnds
  <1>2. tok \in Tokens(Strings)
    BY <1>1, ElementOfSeq DEF IsWay
  <1>3. tok \in Lexemes /\ tok.type # "comma"
    BY <1>2 DEF Lexemes, Tokens, TokenTypes, ValueTokens
  <1>4. tokens \in Seq(Lexemes)
    BY DEF IsWay, Lexemes
  <1>5. CASE Fail("recursion_limit_reached")
    BY <1>5 DEF Fail, Going
  <1>6. ASSUME NEW n \in Nat, NEW st \in Seq(Entries), Returned(n, Append(lexemes, tok), st),
               pos + n = b.bytes + b.sizes, Alike(st, b.stack, sizes)
        PROVE  Going(tokens, at, bytes, sizes)'
    <2>1. /\ pos' = pos + n /\ text' = text \o Append(lexemes, tok) /\ stack' = st
          /\ pc' = "loop"
      BY <1>6 DEF Returned
    <2>2. text \in Seq(Lexemes) /\ text \o lexemes \in Seq(Lexemes)
      BY DEF TypeOK
    <2>3. text' = Append(text \o lexemes, tok)
      BY <2>1, <2>2, <1>3, SMTT(60)
    <2>4. Says(text', First(tokens, i + 1))
      BY <2>2, <2>3, <1>3, <1>4, SaysToken
    <2>5. Abreast(tokens, at, bytes, sizes, i + 1)'
      BY <2>1, <2>4, <1>6 DEF Abreast
    <2>6. QED
      BY <2>1, <2>5, <1>1 DEF Going
  <1>7. QED
    BY <1>5, <1>6 DEF Met

LEMMA BeginGoing ==
    ASSUME IInv, Begin, NEW tokens, NEW at, NEW bytes, NEW sizes,
           IsWay(root, tokens, input, at, bytes, sizes), Going(tokens, at, bytes, sizes)
    PROVE  Going(tokens, at, bytes, sizes)'
  <1>1. /\ TypeOK /\ pc = "begin" /\ text = << >> /\ pos = 0 /\ root \in Types
        /\ StartValue(root, TRUE, 0, << >>, << >>)
    BY DEF Begin, IInv, TypeOK, Going
  <1>2. /\ Len(tokens) \in Nat /\ Len(tokens) > 0 /\ at[0] = FirstPoint
        /\ ValueMove(root, TRUE, << >>, at[0], tokens[1], at[1], bytes, sizes)
    BY WayEnds, WayStarts
  <1>3. LiesIn(at[0], bytes, sizes) /\ LiesIn(at[1], bytes, sizes)
    BY <1>2, WayPoint
  <1>4. Known(input, bytes, sizes)
    BY DEF IsWay, Known
  <1>5. at[0].bytes = 0 /\ at[0].sizes = 0
    BY <1>2 DEF FirstPoint, Point
  <1>6. Starting(root, TRUE, 0, << >>, at[0], tokens[1], at[1], bytes, sizes)
    <2>1. pos + 0 = at[0].bytes + at[0].sizes
      BY <1>1, <1>5
    <2>2. << >> \in Seq(LevelSet) /\ 0 \in Nat /\ TRUE \in BOOLEAN
      OBVIOUS
    <2>3. QED
      BY <2>1, <2>2, <1>1, <1>2, <1>3, <1>4 DEF Starting
  <1>7. Alike(<< >>, << >>, sizes)
    BY DEF Alike
  <1>8. << >> \in Seq(Entries) /\ << >> \in Seq(Lexemes)
    OBVIOUS
  <1>9. Met(<< >>, tokens[1], at[1], sizes)
    BY <1>1, <1>6, <1>7, <1>8, StartMatches
  <1>10. ~at[1].waiting
    BY <1>2, ValueStack
  <1>11. Says(text \o << >>, First(tokens, 0))
    <2>1. text \o << >> = << >> /\ First(tokens, 0) = << >>
      BY <1>1 DEF First
    <2>2. QED
      BY <2>1, SaysNothing
  <1>12. 0 \in 0 .. Len(tokens) - 1 /\ 0 + 1 = 1
    BY <1>2
  <1>13. QED
    BY <1>1, <1>8, <1>9, <1>10, <1>11, <1>12, GoingOn

\* The input ends where the binary does.
LEMMA EndMeans ==
    ASSUME TypeOK, NEW bytes, NEW sizes, Known(input, bytes, sizes), NEW a,
           LiesIn(a, bytes, sizes), pos = a.bytes + a.sizes
    PROVE  Left = 0 <=> AtTheEnd(a, bytes, sizes)
  <1>1. PICK B, L \in Nat : B = Len(bytes) /\ L = Len(sizes)
    BY DEF Known
  <1>2. PICK A, K \in Nat : A = a.bytes /\ K = a.sizes
    BY <1>1 DEF LiesIn
  <1>3. A <= B /\ K <= L
    BY <1>1, <1>2 DEF LiesIn
  <1>4. Len(input) = B + L /\ pos = A + K
    BY <1>1, <1>2 DEF Known, Joined
  <1>5. Left = (B + L) - (A + K)
    BY <1>4 DEF Left
  <1>6. Left = 0 <=> A = B /\ K = L
    BY ONLY <1>3, <1>5, A \in Nat, B \in Nat, K \in Nat, L \in Nat
  <1>7. QED
    BY <1>1, <1>2, <1>6 DEF AtTheEnd

\* The top entry with another position.
LEMMA EntryMoved ==
    ASSUME IInv, NEW kind, Turn(kind), NEW next \in Nat
    PROVE  /\ WithPosition(next) \in Seq(Entries) /\ Len(WithPosition(next)) = Len(stack)
           /\ \A i \in 1 .. Len(stack) - 1 : WithPosition(next)[i] = stack[i]
           /\ WithPosition(next)[Len(stack)].type = Top.type
           /\ WithPosition(next)[Len(stack)].position = next
           /\ WithPosition(next)[Len(stack)].allow_extensions = Top.allow_extensions
           /\ WithPosition(next)[Len(stack)].array_size = Top.array_size
  <1> DEFINE n == Len(stack)
             e == Top
             f == [e EXCEPT !.position = next]
             st == WithPosition(next)
  <1>1. /\ n \in Nat /\ n > 0 /\ e \in Entries /\ e = stack[n] /\ stack \in Seq(Entries)
    BY TurnFacts
  <1>2. f \in Entries
    BY <1>1 DEF Entries
  <1>3. /\ f.type = e.type /\ f.position = next /\ f.array_size = e.array_size
        /\ f.allow_extensions = e.allow_extensions
    BY <1>1 DEF Entries
  <1>4. st = [stack EXCEPT ![n] = f]
    BY <1>1 DEF WithPosition
  <1> HIDE DEF n, e, f
  <1>5. /\ st \in Seq(Entries) /\ Len(st) = n /\ st[n] = f
        /\ \A i \in 1 .. n - 1 : st[i] = stack[i]
    BY <1>1, <1>2, <1>4, ExceptSeq DEF n
  <1>6. QED
    BY <1>3, <1>5 DEF n, e

\* What is below the innermost level agrees.
LowerAlike(st, ws, sizes) ==
    Len(st) = Len(ws) /\ \A j \in 1 .. Len(st) - 1 : AlikeLevel(st[j], ws[j], sizes)

\* Both go to their next field, element or alternative.
LEMMA MoveAlike ==
    ASSUME IInv, NEW kind, Turn(kind), NEW sizes, NEW a, a.stack \in Seq(LevelSet),
           a.stack # << >>, LowerAlike(stack, a.stack, sizes),
           Top.type = Innermost(a).type, Top.allow_extensions = Innermost(a).allow_extensions,
           kind = "array" => Top.array_size = sizes[Innermost(a).size_insertion_index].size,
           NEW next \in Nat, NEW p \in Int,
           IF kind = "variant" THEN next = 0 /\ p = 1 ELSE next = p
    PROVE  Alike(WithPosition(next), MovedTo(a, p), sizes)
  <1> DEFINE n == Len(stack)
             st == WithPosition(next)
             ws == MovedTo(a, p)
  <1>1. n \in Nat /\ n > 0 /\ Kind[Top.type] = kind /\ Len(a.stack) = n
    BY TurnFacts DEF LowerAlike
  <1>2. /\ st \in Seq(Entries) /\ Len(st) = n
        /\ \A i \in 1 .. n - 1 : st[i] = stack[i]
        /\ st[n].type = Top.type /\ st[n].position = next
        /\ st[n].allow_extensions = Top.allow_extensions
        /\ st[n].array_size = Top.array_size
    BY EntryMoved
  <1>3. Changed(ws, a, p)
    BY MovedFacts
  <1>4. /\ Len(ws) = n /\ \A i \in 1 .. n - 1 : ws[i] = a.stack[i]
        /\ ws[n].type = Innermost(a).type /\ ws[n].position = p
        /\ ws[n].allow_extensions = Innermost(a).allow_extensions
        /\ ws[n].size_insertion_index = Innermost(a).size_insertion_index
    BY <1>1, <1>3 DEF Changed
  <1> HIDE DEF st, ws
  <1>5. AlikeLevel(st[n], ws[n], sizes)
    BY <1>1, <1>2, <1>4 DEF AlikeLevel
  <1>6. ASSUME NEW i \in 1 .. n - 1
        PROVE  AlikeLevel(st[i], ws[i], sizes)
    <2>1. AlikeLevel(stack[i], a.stack[i], sizes)
      BY <1>6 DEF LowerAlike
    <2>2. QED
      BY <2>1, <1>2, <1>4
  <1>7. \A i \in 1 .. n : AlikeLevel(st[i], ws[i], sizes)
    <2>1. \A i \in 1 .. n : i = n \/ i \in 1 .. n - 1
      BY <1>1
    <2>2. QED
      BY <2>1, <1>5, <1>6
  <1>8. QED
    BY <1>2, <1>4, <1>7 DEF Alike, st, ws

\* A value is closed on both ways.
LEMMA LeaveGoing ==
    ASSUME IInv, NEW kind, Turn(kind), NEW tokens, NEW at, NEW bytes, NEW sizes,
           IsWay(root, tokens, input, at, bytes, sizes), NEW i \in 1 .. Len(tokens) - 1,
           Abreast(tokens, at, bytes, sizes, i), LowerAlike(stack, at[i].stack, sizes),
           NEW end, tokens[i + 1] = Token(end), at[i + 1] = Closed(at[i]), Leave(end)
    PROVE  Going(tokens, at, bytes, sizes)'
  <1> DEFINE n == Len(stack)
             a == at[i]
  <1>1. /\ TypeOK /\ stack \in Seq(Entries) /\ text \in Seq(Lexemes) /\ n \in Nat /\ n > 0
        /\ pos \in Nat
    BY TurnFacts DEF TypeOK
  <1>2. Len(tokens) \in Nat /\ i \in 0 .. Len(tokens) - 1 /\ i \in 0 .. Len(tokens)
    BY WayEnds
  <1>3. a.stack \in Seq(LevelSet) /\ Len(a.stack) = n
    BY <1>2, WayPoint DEF LiesIn, LowerAlike
  <1>4. /\ at[i + 1].stack = Pop(a.stack) /\ ~at[i + 1].waiting
        /\ at[i + 1].bytes = a.bytes /\ at[i + 1].sizes = a.sizes
    BY DEF Closed, Point
  <1>5. Pop(stack) \in Seq(Entries) /\ Len(Pop(stack)) = n - 1
        /\ \A j \in 1 .. n - 1 : Pop(stack)[j] = stack[j]
    BY <1>1, PopFacts
  <1>6. Len(Pop(a.stack)) = n - 1 /\ \A j \in 1 .. n - 1 : Pop(a.stack)[j] = a.stack[j]
    BY <1>1, <1>3, PopFacts
  <1>7. Alike(Pop(stack), at[i + 1].stack, sizes)
    BY <1>4, <1>5, <1>6 DEF Alike, LowerAlike
  <1>8. pos + 0 = at[i + 1].bytes + at[i + 1].sizes
    BY <1>1, <1>4 DEF Abreast
  <1>9. Append(<< >>, Token(end)) = <<Token(end)>>
    OBVIOUS
  <1>10. Met(<< >>, tokens[i + 1], at[i + 1], sizes)
    <2>1. Return(0, Append(<< >>, tokens[i + 1]), Pop(stack))
      BY <1>9 DEF Leave
    <2>2. 0 \in Nat
      OBVIOUS
    <2>3. QED
      BY <2>1, <2>2, <1>5, <1>7, <1>8, MetByReturn
  <1>11. << >> \in Seq(Lexemes) /\ text \o << >> = text
    BY <1>1
  <1>12. Says(text \o << >>, First(tokens, i))
    BY <1>11 DEF Abreast
  <1>13. QED
    BY <1>1, <1>2, <1>4, <1>10, <1>11, <1>12, GoingOn

\* Where the way is at a turn of the loop, and that it goes on.
LEMMA TurnWay ==
    ASSUME IInv, NEW kind, Turn(kind), NEW tokens, NEW at, NEW bytes, NEW sizes,
           IsWay(root, tokens, input, at, bytes, sizes), NEW i \in 1 .. Len(tokens),
           Abreast(tokens, at, bytes, sizes, i)
    PROVE  /\ i \in 1 .. Len(tokens) - 1 /\ i + 1 \in 1 .. Len(tokens)
           /\ Move(at[i], tokens[i + 1], at[i + 1], bytes, sizes)
           /\ LiesIn(at[i], bytes, sizes) /\ Known(input, bytes, sizes)
           /\ at[i].stack \in Seq(LevelSet) /\ at[i].stack # << >> /\ ~at[i].waiting
           /\ LowerAlike(stack, at[i].stack, sizes)
           /\ Innermost(at[i]).type = Top.type /\ Kind[Innermost(at[i]).type] = kind
           /\ Innermost(at[i]).allow_extensions = Top.allow_extensions
           /\ Alike(stack, at[i].stack, sizes) => AlikeLevel(Top, Innermost(at[i]), sizes)
           /\ ~Alike(stack, at[i].stack, sizes) =>
                 Omitting(stack, at[i], tokens[i + 1], bytes, sizes)
  <1> DEFINE n == Len(stack)
             a == at[i]
  <1>1. n \in Nat /\ n > 0 /\ Top = stack[n] /\ Kind[Top.type] = kind
    BY TurnFacts
  <1>2. Len(tokens) \in Nat /\ i \in 0 .. Len(tokens)
    BY WayEnds
  <1>3. LiesIn(a, bytes, sizes) /\ a.stack \in Seq(LevelSet)
    BY <1>2, WayPoint DEF LiesIn
  <1>4. Known(input, bytes, sizes)
    BY DEF IsWay, Known
  <1>5. Len(a.stack) = n
    BY DEF Abreast, Alike, Omitting
  <1>6. a.stack # << >>
    BY <1>1, <1>5
  <1>7. /\ i \in 1 .. Len(tokens) - 1 /\ i + 1 \in 1 .. Len(tokens)
        /\ Move(a, tokens[i + 1], at[i + 1], bytes, sizes)
    BY <1>6, GoesOn
  <1>8. ~a.waiting
    BY DEF Abreast
  <1>9. Innermost(a) = a.stack[n]
    BY <1>5 DEF Innermost
  <1>10. CASE Alike(stack, a.stack, sizes)
    <2>1. \A j \in 1 .. n : AlikeLevel(stack[j], a.stack[j], sizes)
      BY <1>10 DEF Alike
    <2>2. LowerAlike(stack, a.stack, sizes) /\ AlikeLevel(Top, Innermost(a), sizes)
      BY <2>1, <1>1, <1>5, <1>9 DEF LowerAlike
    <2>3. QED
      BY <2>2, <1>1, <1>3, <1>4, <1>6, <1>7, <1>8, <1>10 DEF AlikeLevel
  <1>11. CASE ~Alike(stack, a.stack, sizes)
    <2>1. Omitting(stack, a, tokens[i + 1], bytes, sizes)
      BY <1>11 DEF Abreast
    <2>2. LowerAlike(stack, a.stack, sizes)
      BY <2>1, <1>5 DEF Omitting, LowerAlike
    <2>3. Innermost(a).type = Top.type /\ Innermost(a).allow_extensions = Top.allow_extensions
      BY <2>1, <1>1 DEF Omitting
    <2>4. QED
      BY <2>1, <2>2, <2>3, <1>1, <1>3, <1>4, <1>6, <1>7, <1>8, <1>11
  <1>12. QED
    BY <1>10, <1>11

\* A turn of an array goes on with an element or closes it.
LEMMA ElementsGoing ==
    ASSUME IInv, NEW kind \in ArrayKinds, Turn(kind), NEW tokens, NEW at, NEW bytes, NEW sizes,
           IsWay(root, tokens, input, at, bytes, sizes), Going(tokens, at, bytes, sizes),
           Elements(IF kind = "array" THEN Top.array_size ELSE Size[Top.type])
    PROVE  Going(tokens, at, bytes, sizes)'
  <1> DEFINE n == Len(stack)
             size == IF kind = "array" THEN Top.array_size ELSE Size[Top.type]
  <1>1. /\ TypeOK /\ pc = "loop" /\ stack \in Seq(Entries) /\ text \in Seq(Lexemes)
        /\ n \in Nat /\ n > 0 /\ Top \in Entries /\ Top.type \in Types
        /\ Top.position \in Int /\ Top.position >= -1 /\ Kind[Top.type] = kind
    BY TurnFacts
  <1>2. PICK i \in 1 .. Len(tokens) : Abreast(tokens, at, bytes, sizes, i)
    BY <1>1 DEF Going
  <1> DEFINE a == at[i]
             b == at[i + 1]
             tok == tokens[i + 1]
             w == Innermost(a)
  <1>3. /\ i \in 1 .. Len(tokens) - 1 /\ i + 1 \in 1 .. Len(tokens)
        /\ Move(a, tok, b, bytes, sizes)
        /\ LiesIn(a, bytes, sizes) /\ Known(input, bytes, sizes)
        /\ a.stack \in Seq(LevelSet) /\ a.stack # << >>
        /\ LowerAlike(stack, a.stack, sizes)
        /\ w.type = Top.type /\ w.allow_extensions = Top.allow_extensions
        /\ Alike(stack, a.stack, sizes) => AlikeLevel(Top, w, sizes)
        /\ ~Alike(stack, a.stack, sizes) => Omitting(stack, a, tok, bytes, sizes)
    BY <1>2, TurnWay
  <1>4. Alike(stack, a.stack, sizes)
    <2>1. Kind[w.type] # "struct"
      BY <1>1, <1>3 DEF ArrayKinds
    <2>2. QED
      BY <2>1, <1>3 DEF Omitting, LeavesOut
  <1>5. /\ w.position = Top.position
        /\ kind = "array" => Top.array_size = sizes[w.size_insertion_index].size
    BY <1>1, <1>3, <1>4 DEF AlikeLevel, ArrayKinds
  <1>6. ElementMove(a, tok, b, bytes, sizes) \/ ArrayEndMove(a, tok, b, sizes)
    BY <1>1, <1>3 DEF Move, KeyMove, ObjectEndMove, FieldMove, NameMove, AlternativeMove, ArrayKinds
  <1>7. size \in Nat
    BY <1>1, TableAssumption DEF Entries
  <1>8. Len(tokens) \in Nat /\ Len(a.stack) = n
    BY <1>3, WayEnds DEF LowerAlike
  <1>9. PICK next \in Nat : next = Top.position + 1
    BY <1>1
  <1> HIDE DEF size
  <1>10. ASSUME ElementMove(a, tok, b, bytes, sizes)
         PROVE  next < size
    <2> DEFINE s == MovedTo(a, next)
    <2>1. \E t, allow : ValueMove(t, allow, s, a, tok, b, bytes, sizes)
      BY <1>5, <1>9, <1>10 DEF ElementMove
    <2>2. OneMore(b.stack, s)
      BY <2>1, ValueStack
    <2>3. Changed(s, a, next)
      BY <1>3, MovedFacts
    <2>4. /\ s \in Seq(LevelSet) /\ Len(s) = n /\ s # << >>
          /\ s[n].type = w.type /\ s[n].position = next
          /\ s[n].size_insertion_index = w.size_insertion_index
      <3> HIDE DEF s
      <3>1. /\ s \in Seq(LevelSet) /\ Len(s) = Len(a.stack)
            /\ s[Len(a.stack)].type = w.type /\ s[Len(a.stack)].position = next
            /\ s[Len(a.stack)].size_insertion_index = w.size_insertion_index
        BY <2>3 DEF Changed
      <3>2. QED
        BY <3>1, <1>1, <1>8
    <2> HIDE DEF s
    <2>5. n \in 1 .. Len(b.stack) /\ b.stack[n] = s[n]
      BY <2>2, <2>4, TopStays
    <2>6. CASE kind = "array"
      <3>1. WithinSize(b.stack[n], sizes)
        <4>1. i + 1 \in 0 .. Len(tokens)
          BY <1>3, <1>8
        <4>2. QED
          BY <4>1, <2>5, WayPoint
      <3>2. next < sizes[w.size_insertion_index].size
        BY <3>1, <2>4, <2>5, <2>6, <1>1, <1>3 DEF WithinSize
      <3>3. QED
        BY <3>2, <2>6, <1>5 DEF size
    <2>7. CASE kind = "fixed_array"
      <3>1. ~Overfull(b)
        BY <1>3, NeverOverfull
      <3>2. ~TooFar(b.stack[n])
        BY <3>1, <2>5 DEF Overfull
      <3>3. ~(next >= Size[Top.type])
        BY <3>2, <2>4, <2>5, <2>7, <1>1, <1>3 DEF TooFar
      <3>4. size = Size[Top.type]
        BY <2>7 DEF size
      <3>5. QED
        BY <3>3, <3>4, <1>7
    <2>8. QED
      BY <2>6, <2>7 DEF ArrayKinds
  <1>11. ASSUME ArrayEndMove(a, tok, b, sizes)
         PROVE  next = size /\ tok = Token("end_array") /\ b = Closed(a)
    <2>1. /\ tok = Token("end_array") /\ b = Closed(a)
          /\ IF kind = "array" THEN sizes[w.size_insertion_index].size = w.position + 1
             ELSE Size[w.type] = w.position + 1
      BY <1>1, <1>3, <1>11 DEF ArrayEndMove, ArrayKinds
    <2>2. QED
      BY <2>1, <1>3, <1>5, <1>9 DEF size
  <1>12. CASE next >= size
    <2>1. ArrayEndMove(a, tok, b, sizes)
      BY <1>6, <1>7, <1>10, <1>12
    <2>2. Leave("end_array")
      BY <1>9, <1>12 DEF Elements, size
    <2>3. QED
      BY <2>1, <2>2, <1>2, <1>3, <1>11, LeaveGoing
  <1>13. CASE ~(next >= size)
    <2>1. ElementMove(a, tok, b, bytes, sizes)
      BY <1>6, <1>7, <1>11, <1>13
    <2>2. ValueMove(Element[w.type], FALSE, MovedTo(a, next), a, tok, b, bytes, sizes)
      BY <2>1, <1>5, <1>9 DEF ElementMove
    <2>3. StartValue(Element[Top.type], FALSE, 0, Comma(next), WithPosition(next))
      BY <1>9, <1>13 DEF Elements, size
    <2>4. Alike(WithPosition(next), MovedTo(a, next), sizes)
      <3>1. kind # "variant" /\ next \in Int
        BY DEF ArrayKinds
      <3>2. IF kind = "variant" THEN next = 0 /\ next = 1 ELSE next = next
        BY <3>1
      <3>3. kind = "array" => Top.array_size = sizes[w.size_insertion_index].size
        BY <1>5
      <3>4. QED
        BY <3>1, <3>2, <3>3, <1>3, MoveAlike
    <2>5. Starting(Element[w.type], FALSE, 0, MovedTo(a, next), a, tok, b, bytes, sizes)
      <3>1. LiesIn(b, bytes, sizes)
        BY <1>3, <1>8, WayPoint
      <3>2. pos + 0 = a.bytes + a.sizes
        BY <1>1, <1>2 DEF Abreast, TypeOK
      <3>3. Changed(MovedTo(a, next), a, next)
        BY <1>3, MovedFacts
      <3>4. MovedTo(a, next) \in Seq(LevelSet) /\ 0 \in Nat /\ FALSE \in BOOLEAN
        BY <3>3 DEF Changed
      <3>5. Element[w.type] \in Types
        BY <1>1, <1>3, TableAssumption
      <3>6. QED
        BY <3>1, <3>2, <3>4, <3>5, <2>2, <1>1, <1>3 DEF Starting
    <2>6. WithPosition(next) \in Seq(Entries)
      BY EntryMoved
    <2>7. Met(Comma(next), tok, b, sizes)
      BY <2>3, <2>4, <2>5, <2>6, <1>3, StartMatches
    <2>8. ~b.waiting
      BY <2>2, ValueStack
    <2>9. Comma(next) \in Seq(Lexemes) /\ Says(text \o Comma(next), First(tokens, i))
      BY <1>1, <1>2, CommaSays DEF Abreast
    <2>10. i \in 0 .. Len(tokens) - 1
      BY <1>3, <1>8
    <2>11. QED
      BY <2>7, <2>8, <2>9, <2>10, <1>1, GoingOn
  <1>14. QED
    BY <1>12, <1>13

\* The name of an alternative on the way.
Named(a, c, tok, v, bytes) ==
    /\ a.bytes < Len(bytes) /\ bytes[a.bytes + 1] = v /\ v < Len(Fields[Innermost(a).type])
    /\ tok = Text("string", Field(Innermost(a).type, v).name)
    /\ c.bytes = a.bytes + 1 /\ c.sizes = a.sizes /\ ~c.waiting
    /\ c.stack \in Seq(LevelSet) /\ Len(c.stack) = Len(a.stack)
    /\ \A j \in 1 .. Len(a.stack) - 1 : c.stack[j] = a.stack[j]
    /\ Innermost(c).type = Innermost(a).type /\ Innermost(c).position = 0
    /\ Innermost(c).allow_extensions = Innermost(a).allow_extensions
    /\ Innermost(c).variant_type_index = v

LEMMA NameFacts ==
    ASSUME NEW a, NEW tok, NEW c, NEW bytes, NEW sizes, bytes \in Seq(Nat),
           a.stack \in Seq(LevelSet), a.stack # << >>,
           LiesIn(a, bytes, sizes), NameMove(a, tok, c, bytes)
    PROVE  \E v \in Nat : Named(a, c, tok, v, bytes)
  <1> DEFINE n == Len(a.stack)
             e == Innermost(a)
  <1>1. /\ n \in Nat /\ n > 0 /\ e \in LevelSet /\ e = a.stack[n]
    BY InnermostFacts
  <1>2. a.bytes < Len(bytes)
    BY DEF NameMove
  <1>3. PICK v \in Nat : v = bytes[a.bytes + 1]
    <2>1. a.bytes + 1 \in 1 .. Len(bytes)
      BY <1>2 DEF LiesIn
    <2>2. bytes[a.bytes + 1] \in Nat
      BY <2>1, ElementOfSeq
    <2>3. QED
      BY <2>2
  <1>4. /\ v < Len(Fields[e.type])
        /\ tok = Text("string", Field(e.type, v).name)
        /\ c.bytes = a.bytes + 1 /\ c.sizes = a.sizes /\ ~c.waiting
        /\ c.stack = [a.stack EXCEPT ![n].position = 0, ![n].variant_type_index = v]
    BY <1>3 DEF NameMove, Point, Text
  <1> HIDE DEF e
  <1>5. PICK p \in Int : p = 0
    OBVIOUS
  <1>6. PICK g : g = [e EXCEPT !.position = p]
    OBVIOUS
  <1>7. PICK f : f = [g EXCEPT !.variant_type_index = v]
    OBVIOUS
  <1>8. /\ g \in LevelSet
        /\ g.type = e.type /\ g.position = p /\ g.allow_extensions = e.allow_extensions
    <2>1. g \in LevelSet
      BY <1>1, <1>6 DEF LevelSet
    <2>2. QED
      BY <2>1, <1>1, <1>6 DEF LevelSet
  <1>9. /\ f \in LevelSet
        /\ f.type = g.type /\ f.position = g.position /\ f.variant_type_index = v
        /\ f.allow_extensions = g.allow_extensions
    <2>1. f \in LevelSet
      BY <1>3, <1>7, <1>8 DEF LevelSet
    <2>2. QED
      BY <2>1, <1>7, <1>8 DEF LevelSet
  <1>10. c.stack = [a.stack EXCEPT ![n] = f]
    BY <1>1, <1>4, <1>5, <1>6, <1>7
  <1>11. /\ c.stack \in Seq(LevelSet) /\ Len(c.stack) = n /\ c.stack[n] = f
         /\ \A j \in 1 .. n - 1 : c.stack[j] = a.stack[j]
    BY <1>1, <1>9, <1>10, ExceptSeq
  <1>12. Innermost(c) = f
    BY <1>11 DEF Innermost
  <1>13. QED
    BY <1>2, <1>3, <1>4, <1>5, <1>8, <1>9, <1>11, <1>12 DEF e, Named

LEMMA FinishGoing ==
    ASSUME IInv, Finish, NEW tokens, NEW at, NEW bytes, NEW sizes,
           IsWay(root, tokens, input, at, bytes, sizes), Going(tokens, at, bytes, sizes)
    PROVE  Going(tokens, at, bytes, sizes)'
  <1>1. /\ pc = "loop" /\ stack = << >> /\ pc' = "done"
        /\ UNCHANGED <<root, input, pos, text>>
    BY DEF Finish
  <1>2. PICK i \in 1 .. Len(tokens) : Abreast(tokens, at, bytes, sizes, i)
    BY <1>1 DEF Going
  <1>3. /\ Len(tokens) \in Nat /\ Len(tokens) > 0
        /\ at[Len(tokens)].bytes = Len(bytes) /\ at[Len(tokens)].sizes = Len(sizes)
    BY WayEnds
  <1>4. at[i].stack = << >>
    <2>1. i \in 0 .. Len(tokens)
      BY <1>3
    <2>2. at[i].stack \in Seq(LevelSet)
      BY <2>1, WayPoint DEF LiesIn
    <2>3. Len(at[i].stack) = 0
      BY <1>1, <1>2 DEF Abreast, Alike, Omitting
    <2>4. QED
      BY <2>2, <2>3
  <1>5. i = Len(tokens)
    <2>1. SUFFICES ASSUME i # Len(tokens) PROVE FALSE
      OBVIOUS
    <2>2. i \in 1 .. Len(tokens) - 1
      BY <2>1, <1>3
    <2>3. Move(at[i], tokens[i + 1], at[i + 1], bytes, sizes)
      BY <2>2, WayMove
    <2>4. QED
      BY <2>3, <1>4 DEF Move
  <1>6. pos = Len(bytes) + Len(sizes)
    BY <1>2, <1>3, <1>5 DEF Abreast
  <1>7. Len(input) = Len(bytes) + Len(sizes)
    BY DEF IsWay, Joined
  <1>8. Says(text, tokens)
    <2>1. tokens \in Seq(Lexemes)
      BY DEF IsWay, Lexemes
    <2>2. First(tokens, Len(tokens)) = tokens
      BY <2>1, FirstFacts
    <2>3. QED
      BY <2>2, <1>2, <1>5 DEF Abreast
  <1>9. QED
    BY <1>1, <1>6, <1>7, <1>8 DEF Going

\* A turn of a variant goes on with its alternative or closes it.
LEMMA VariantGoing ==
    ASSUME IInv, Variant, NEW tokens, NEW at, NEW bytes, NEW sizes,
           IsWay(root, tokens, input, at, bytes, sizes), Going(tokens, at, bytes, sizes)
    PROVE  Going(tokens, at, bytes, sizes)'
  <1> DEFINE n == Len(stack)
  <1>1. Turn("variant")
    BY DEF Variant
  <1>2. /\ TypeOK /\ pc = "loop" /\ stack \in Seq(Entries) /\ text \in Seq(Lexemes)
        /\ n \in Nat /\ n > 0 /\ Top \in Entries /\ Top.type \in Types
        /\ Top.position \in Int /\ Top.position >= -1 /\ Kind[Top.type] = "variant"
    BY <1>1, TurnFacts
  <1>3. PICK i \in 1 .. Len(tokens) : Abreast(tokens, at, bytes, sizes, i)
    BY <1>2 DEF Going
  <1> DEFINE a == at[i]
             c == at[i + 1]
             tok == tokens[i + 1]
             w == Innermost(a)
  <1>4. /\ i \in 1 .. Len(tokens) - 1 /\ i + 1 \in 1 .. Len(tokens)
        /\ Move(a, tok, c, bytes, sizes)
        /\ LiesIn(a, bytes, sizes) /\ Known(input, bytes, sizes)
        /\ a.stack \in Seq(LevelSet) /\ a.stack # << >>
        /\ LowerAlike(stack, a.stack, sizes)
        /\ w.type = Top.type /\ w.allow_extensions = Top.allow_extensions
        /\ Alike(stack, a.stack, sizes) => AlikeLevel(Top, w, sizes)
        /\ ~Alike(stack, a.stack, sizes) => Omitting(stack, a, tok, bytes, sizes)
    BY <1>1, <1>3, TurnWay
  <1>5. Alike(stack, a.stack, sizes)
    BY <1>2, <1>4 DEF Omitting, LeavesOut
  <1>6. \/ Top.position = -1 /\ w.position = -1
        \/ Top.position = 0 /\ w.position = 1
    BY <1>2, <1>4, <1>5 DEF AlikeLevel
  <1>7. \/ ArrayEndMove(a, tok, c, sizes)
        \/ NameMove(a, tok, c, bytes)
        \/ AlternativeMove(a, tok, c, bytes, sizes)
    BY <1>2, <1>4 DEF Move, KeyMove, ObjectEndMove, FieldMove, ElementMove
  <1>8. CASE Top.position # -1
    <2>1. w.position = 1
      BY <1>6, <1>8
    <2>2. ~NameMove(a, tok, c, bytes) /\ ~AlternativeMove(a, tok, c, bytes, sizes)
      BY <2>1 DEF NameMove, AlternativeMove
    <2>3. tok = Token("end_array") /\ c = Closed(a)
      BY <2>2, <1>7 DEF ArrayEndMove
    <2>4. Leave("end_array")
      BY <1>8 DEF Variant
    <2>5. QED
      BY <2>3, <2>4, <1>1, <1>3, <1>4, LeaveGoing
  <1>9. CASE Top.position = -1
    <2>1. w.position = -1
      BY <1>6, <1>9
    <2>2. ~ArrayEndMove(a, tok, c, sizes) /\ ~AlternativeMove(a, tok, c, bytes, sizes)
      BY <2>1, <1>2, <1>4 DEF ArrayEndMove, AlternativeMove
    <2>3. bytes \in Seq(Nat) /\ sizes \in Seq(Sizes)
      BY <1>4 DEF Known
    <2>4. PICK v \in Nat : Named(a, c, tok, v, bytes)
      BY <2>2, <2>3, <1>4, <1>7, NameFacts
    <2>5. /\ Len(tokens) \in Nat /\ i + 1 \in 0 .. Len(tokens)
      BY <1>4, WayEnds
    <2>6. LiesIn(c, bytes, sizes)
      BY <2>5, WayPoint
    <2>7. PICK A, K \in Nat : A = a.bytes /\ K = a.sizes
      BY <2>3, <1>4 DEF LiesIn
    <2>8. /\ c.bytes = A + 1 /\ c.sizes = K /\ A < Len(bytes) /\ bytes[A + 1] = v
          /\ c.stack \in Seq(LevelSet) /\ Len(c.stack) = n
      BY <2>4, <2>7, <1>4 DEF Named, LowerAlike
    <2>9. pos = A + K /\ pos \in Nat
      BY <2>7, <1>2, <1>3 DEF Abreast, TypeOK
    <2>10. Left # 0
      <3>1. ~AtTheEnd(a, bytes, sizes)
        BY <2>7, <2>8 DEF AtTheEnd
      <3>2. pos = a.bytes + a.sizes
        BY <1>3 DEF Abreast
      <3>3. QED
        BY <3>1, <3>2, <1>2, <1>4, EndMeans
    <2>11. ByteAt(1) = v
      <3>1. PICK L \in Nat : L = Len(bytes)
        BY <2>3
      <3>2. PICK m \in Nat : m = A + 1
        BY <2>7
      <3>3. a.bytes < m /\ m <= Len(bytes) /\ m <= c.bytes
        <4>1. A < L
          BY <3>1, <2>8
        <4>2. A < m /\ m <= L /\ m <= m
          BY ONLY <4>1, <3>2, A \in Nat, L \in Nat
        <4>3. a.bytes = A /\ c.bytes = m
          BY <3>2, <2>7, <2>8
        <4>4. QED
          BY <4>2, <4>3, <3>1
      <3>4. a.sizes < Len(sizes) => m <= sizes[a.sizes + 1].position
        BY <3>3, <2>3, <2>6, <2>7, <2>8, SizeBehind
      <3>5. input[m + a.sizes] = bytes[m]
        BY <3>3, <3>4, <1>4, ReadsByte
      <3>6. m + a.sizes = pos + 1
        <4>1. m + K = (A + K) + 1
          BY ONLY <3>2, A \in Nat, K \in Nat
        <4>2. QED
          BY <4>1, <2>7, <2>9
      <3>7. QED
        BY <3>2, <3>5, <3>6, <2>8 DEF ByteAt
    <2>12. v < Len(Fields[Top.type])
      BY <2>4, <1>4 DEF Named
    <2> DEFINE field == Field(Top.type, v)
               name == Text("string", field.name)
               lexemes == <<name, Token("comma")>>
               p == tokens[i + 1 + 1]
               b == at[i + 1 + 1]
    <2>13. StartValue(field.type, Top.allow_extensions, 1, lexemes, WithPosition(0))
      <3>1. ~(ByteAt(1) >= Len(Fields[Top.type]))
        <4>1. Len(Fields[Top.type]) \in Nat
          BY <1>2, <2>4, FieldFacts
        <4>2. QED
          BY <4>1, <2>11, <2>12
      <3>2. ~(Top.position # -1)
        BY <1>9
      <3>3. StartValue(Field(Top.type, ByteAt(1)).type, Top.allow_extensions, 1,
                       <<Text("string", Field(Top.type, ByteAt(1)).name), Token("comma")>>,
                       WithPosition(0))
        BY <3>1, <3>2, <2>10 DEF Variant
      <3>4. QED
        BY <3>3, <2>11
    <2>14. c.stack # << >>
      <3>1. Len(c.stack) # 0
        BY <2>8, <1>2
      <3>2. QED
        BY <3>1
    <2>15. /\ i + 1 \in 1 .. Len(tokens) - 1 /\ i + 1 + 1 \in 1 .. Len(tokens)
           /\ Move(c, p, b, bytes, sizes)
      BY <2>14, <1>4, GoesOn
    <2>16. /\ Innermost(c).type = Top.type /\ Innermost(c).position = 0
           /\ Innermost(c).allow_extensions = Top.allow_extensions
           /\ Innermost(c).variant_type_index = v
      BY <2>4, <1>4 DEF Named
    <2>17. ValueMove(field.type, Top.allow_extensions, MovedTo(c, 1), c, p, b, bytes, sizes)
      <3>1. \/ ArrayEndMove(c, p, b, sizes)
            \/ NameMove(c, p, b, bytes)
            \/ AlternativeMove(c, p, b, bytes, sizes)
        BY <2>15, <2>16, <1>2 DEF Move, KeyMove, ObjectEndMove, FieldMove, ElementMove
      <3>2. ~ArrayEndMove(c, p, b, sizes) /\ ~NameMove(c, p, b, bytes)
        BY <2>16, <1>2 DEF ArrayEndMove, NameMove
      <3>3. QED
        BY <3>1, <3>2, <2>16 DEF AlternativeMove
    <2>18. LowerAlike(stack, c.stack, sizes)
      BY <2>4, <2>8, <1>4 DEF Named, LowerAlike
    <2>19. Alike(WithPosition(0), MovedTo(c, 1), sizes)
      <3>1. 0 \in Nat /\ 1 \in Int /\ IF "variant" = "variant" THEN 0 = 0 /\ 1 = 1 ELSE 0 = 1
        OBVIOUS
      <3>2. "variant" = "array" => Top.array_size = sizes[Innermost(c).size_insertion_index].size
        OBVIOUS
      <3>3. QED
        BY <3>1, <3>2, <2>8, <2>14, <2>16, <2>18, <1>1, MoveAlike
    <2>20. Starting(field.type, Top.allow_extensions, 1, MovedTo(c, 1), c, p, b, bytes, sizes)
      <3>1. i + 1 + 1 \in 0 .. Len(tokens)
        BY <2>5, <2>15
      <3>2. LiesIn(b, bytes, sizes)
        BY <3>1, WayPoint
      <3>3. pos + 1 = c.bytes + c.sizes
        <4>1. (A + K) + 1 = (A + 1) + K
          BY ONLY A \in Nat, K \in Nat
        <4>2. QED
          BY <4>1, <2>8, <2>9
      <3>4. Changed(MovedTo(c, 1), c, 1)
        <4>1. 1 \in Int
          OBVIOUS
        <4>2. QED
          BY <4>1, <2>8, <2>14, MovedFacts
      <3>5. MovedTo(c, 1) \in Seq(LevelSet) /\ 1 \in Nat /\ Top.allow_extensions \in BOOLEAN
        BY <3>4, <1>2 DEF Changed, Entries
      <3>6. field.type \in Types
        BY <1>2, <2>4, <2>12, FieldFacts
      <3>7. QED
        BY <3>2, <3>3, <3>5, <3>6, <2>6, <2>17, <1>2, <1>4 DEF Starting
    <2>21. WithPosition(0) \in Seq(Entries)
      <3>1. 0 \in Nat
        OBVIOUS
      <3>2. QED
        BY <3>1, <1>1, EntryMoved
    <2>22. Met(lexemes, p, b, sizes)
      BY <2>13, <2>19, <2>20, <2>21, StartMatches
    <2>23. ~b.waiting
      BY <2>17, ValueStack
    <2>24. lexemes \in Seq(Lexemes) /\ Says(text \o lexemes, First(tokens, i + 1))
      <3>1. field.name \in Strings
        BY <1>2, <2>4, <2>12, FieldFacts
      <3>2. tok = name /\ name \in Lexemes /\ name.type = "string" /\ Token("comma") \in Lexemes
        BY <3>1, <2>4, <1>4, LexemeFacts DEF Named
      <3> HIDE DEF name
      <3>3. lexemes \in Seq(Lexemes)
        BY <3>2
      <3>4. tokens \in Seq(Lexemes) /\ i \in 0 .. Len(tokens) - 1
        BY <1>4, <2>5 DEF IsWay, Lexemes
      <3>5. Says(text, First(tokens, i))
        BY <1>3 DEF Abreast
      <3>6. tok.type # "comma"
        BY <3>2
      <3>7. Says(Append(text, tok), First(tokens, i + 1))
        BY <3>4, <3>5, <3>6, <1>2, SaysToken
      <3>8. /\ Append(text, tok) \in Seq(Lexemes)
            /\ text \o lexemes = Append(Append(text, tok), Token("comma"))
        <4>1. PICK x, y \in Lexemes : x = name /\ y = Token("comma")
          BY <3>2
        <4>2. Append(text, x) \in Seq(Lexemes) /\ text \o <<x, y>> = Append(Append(text, x), y)
          BY <4>1, <1>2
        <4>3. QED
          BY <4>1, <4>2, <3>2
      <3>9. Says(text \o lexemes, First(tokens, i + 1))
        BY <3>7, <3>8, SaysComma
      <3>10. QED
        BY <3>3, <3>9
    <2>25. i + 1 \in 0 .. Len(tokens) - 1
      BY <2>15, <2>5
    <2> HIDE DEF lexemes
    <2>26. QED
      BY <2>22, <2>23, <2>24, <2>25, <1>2, GoingOn
  <1>10. QED
    BY <1>8, <1>9

(***************************************************************************)
(* Where the input has ended before an extension, the way closes the       *)
(* struct at once: a key would have bytes to come.                         *)
(***************************************************************************)
LEMMA OmissionGoing ==
    ASSUME ExtensionsLast, ExtensionsTakeBytes,
           IInv, Turn("struct"), NEW tokens, NEW at, NEW bytes, NEW sizes,
           IsWay(root, tokens, input, at, bytes, sizes), Going(tokens, at, bytes, sizes),
           NEW next \in Nat, next = Top.position + 1, next < Len(Fields[Top.type]),
           MayLeaveOut(next), LeaveOut(next)
    PROVE  Going(tokens, at, bytes, sizes)'
  <1> DEFINE n == Len(stack)
             st == WithPosition(next)
  <1>1. /\ TypeOK /\ UNCHANGED <<root, input>> /\ pc = "loop"
        /\ n \in Nat /\ n > 0 /\ Top \in Entries /\ Top = stack[n] /\ Top.type \in Types
        /\ Top.position \in Int /\ Top.position >= -1 /\ Kind[Top.type] = "struct"
    BY TurnFacts
  <1>2. PICK i \in 1 .. Len(tokens) : Abreast(tokens, at, bytes, sizes, i)
    BY <1>1 DEF Going
  <1> DEFINE a == at[i]
             c == at[i + 1]
             tok == tokens[i + 1]
             w == Innermost(a)
  <1>3. /\ i \in 1 .. Len(tokens) - 1 /\ i + 1 \in 1 .. Len(tokens)
        /\ Move(a, tok, c, bytes, sizes)
        /\ LiesIn(a, bytes, sizes) /\ Known(input, bytes, sizes)
        /\ a.stack \in Seq(LevelSet) /\ a.stack # << >> /\ ~a.waiting
        /\ LowerAlike(stack, a.stack, sizes)
        /\ w.type = Top.type /\ Kind[w.type] = "struct"
        /\ w.allow_extensions = Top.allow_extensions
        /\ Alike(stack, a.stack, sizes) => AlikeLevel(Top, w, sizes)
        /\ ~Alike(stack, a.stack, sizes) => Omitting(stack, a, tok, bytes, sizes)
    BY <1>2, TurnWay
  <1>4. Left = 0 /\ Extension(Field(Top.type, next).type) /\ Top.allow_extensions
    BY DEF MayLeaveOut
  <1>5. AtTheEnd(a, bytes, sizes)
    <2>1. pos = a.bytes + a.sizes
      BY <1>2 DEF Abreast
    <2>2. QED
      BY <2>1, <1>1, <1>3, <1>4, EndMeans
  <1>6. LeavesOut(a) /\ tok = Token("end_object") /\ -1 <= w.position /\ w.position < next
    <2>1. CASE Alike(stack, a.stack, sizes)
      <3>1. w.position = Top.position
        BY <2>1, <1>1, <1>3 DEF AlikeLevel
      <3>2. w.position + 1 = next /\ -1 <= w.position /\ w.position < next
        BY <3>1, <1>1
      <3>3. LeavesOut(a)
        BY <3>2, <1>3, <1>4 DEF LeavesOut
      <3>4. ~KeyMove(a, tok, c)
        <4>1. SUFFICES ASSUME KeyMove(a, tok, c) PROVE FALSE
          OBVIOUS
        <4>2. /\ c.stack = MovedTo(a, next) /\ c.waiting
              /\ c.bytes = a.bytes /\ c.sizes = a.sizes
          BY <4>1, <3>2 DEF KeyMove, Point
        <4>3. Changed(MovedTo(a, next), a, next)
          BY <1>3, MovedFacts
        <4>4. /\ c.stack # << >> /\ Innermost(c).type = Top.type
              /\ Innermost(c).position = next
          <5>1. PICK s : s = MovedTo(a, next)
            OBVIOUS
          <5>2. /\ s \in Seq(LevelSet) /\ Len(s) = Len(a.stack) /\ Len(a.stack) = n
                /\ s[Len(a.stack)].type = w.type /\ s[Len(a.stack)].position = next
            BY <5>1, <4>3, <1>3 DEF Changed, LowerAlike
          <5>3. s # << >> /\ Innermost(c) = s[n]
            BY <5>1, <5>2, <4>2, <1>1 DEF Innermost
          <5>4. QED
            BY <5>1, <5>2, <5>3, <4>2, <1>3
        <4>5. Field(Top.type, next).type \in Types
          BY <1>1, FieldFacts
        <4>6. ~AtTheEnd(c, bytes, sizes)
          BY <4>2, <4>4, <4>5, <1>1, <1>3, <1>4, BytesToCome
        <4>7. QED
          BY <4>2, <4>6, <1>5 DEF AtTheEnd
      <3>5. ObjectEndMove(a, tok, c, bytes, sizes)
        BY <3>4, <1>3 DEF Move, FieldMove, ElementMove, ArrayEndMove, NameMove, AlternativeMove
      <3>6. tok = Token("end_object")
        BY <3>5 DEF ObjectEndMove
      <3>7. QED
        BY <3>2, <3>3, <3>6
    <2>2. CASE ~Alike(stack, a.stack, sizes)
      <3>1. Omitting(stack, a, tok, bytes, sizes)
        BY <2>2, <1>3
      <3>2. /\ LeavesOut(a) /\ tok = Token("end_object")
            /\ -1 <= w.position /\ w.position < Top.position
        BY <3>1, <1>1 DEF Omitting
      <3>3. w.position \in Int
        BY <1>3, InnermostFacts
      <3>4. w.position < next
        <4>1. PICK k, m \in Int : k = w.position /\ m = Top.position
          BY <3>3, <1>1
        <4>2. k < m /\ next = m + 1
          BY <4>1, <3>2
        <4>3. k < next
          BY ONLY <4>1, <4>2
        <4>4. QED
          BY <4>1, <4>3
      <3>5. QED
        BY <3>2, <3>4
    <2>3. QED
      BY <2>1, <2>2
  <1>7. /\ Len(st) = n /\ \A j \in 1 .. n - 1 : st[j] = stack[j]
        /\ st[n].type = Top.type /\ st[n].position = next
        /\ st[n].allow_extensions = Top.allow_extensions
    BY EntryMoved
  <1> HIDE DEF st
  <1>8. Omitting(st, a, tok, bytes, sizes)
    <2>1. Len(a.stack) = n /\ \A j \in 1 .. n - 1 : AlikeLevel(st[j], a.stack[j], sizes)
      BY <1>3, <1>7 DEF LowerAlike
    <2>2. QED
      BY <2>1, <1>1, <1>3, <1>5, <1>6, <1>7 DEF Omitting
  <1>9. pos' = pos /\ text' = text /\ pc' = "loop" /\ stack' = st
    BY <1>1 DEF LeaveOut, st
  <1>10. Abreast(tokens, at, bytes, sizes, i)'
    BY <1>2, <1>8, <1>9 DEF Abreast
  <1>11. QED
    BY <1>9, <1>10 DEF Going

LEMMA KeySays ==
    ASSUME NEW t \in Seq(Lexemes), NEW tokens \in Seq(Lexemes), NEW i \in 0 .. Len(tokens) - 1,
           tokens[i + 1].type # "comma", Says(t, First(tokens, i)), NEW next
    PROVE  /\ Append(Comma(next), tokens[i + 1]) \in Seq(Lexemes)
           /\ Says(t \o Append(Comma(next), tokens[i + 1]), First(tokens, i + 1))
  <1>1. PICK x \in Lexemes : x = tokens[i + 1]
    BY ElementOfSeq
  <1>2. PICK u \in Seq(Lexemes) : u = Comma(next) /\ Says(t \o u, First(tokens, i))
    BY CommaSays
  <1>3. t \o u \in Seq(Lexemes)
    OBVIOUS
  <1>4. Says(Append(t \o u, x), First(tokens, i + 1))
    BY <1>1, <1>2, <1>3, SaysToken
  <1>5. Append(u, x) \in Seq(Lexemes) /\ t \o Append(u, x) = Append(t \o u, x)
    OBVIOUS
  <1>6. QED
    BY <1>1, <1>2, <1>4, <1>5

\* A field that starts is the one whose key comes next on the way.
LEMMA FieldGoing ==
    ASSUME ExtensionsLast,
           IInv, Turn("struct"), NEW tokens, NEW at, NEW bytes, NEW sizes,
           IsWay(root, tokens, input, at, bytes, sizes), Going(tokens, at, bytes, sizes),
           NEW next \in Nat, next = Top.position + 1, next < Len(Fields[Top.type]),
           ~MayLeaveOut(next),
           StartValue(Field(Top.type, next).type, AllowIn(Top.type, next, Top.allow_extensions), 0,
                      Append(Comma(next), Text("key", Field(Top.type, next).name)),
                      WithPosition(next))
    PROVE  Going(tokens, at, bytes, sizes)'
  <1> DEFINE n == Len(stack)
             type == Field(Top.type, next).type
             allow == AllowIn(Top.type, next, Top.allow_extensions)
             key == Text("key", Field(Top.type, next).name)
             lexemes == Append(Comma(next), key)
  <1>1. /\ TypeOK /\ pc = "loop" /\ stack \in Seq(Entries) /\ text \in Seq(Lexemes)
        /\ n \in Nat /\ n > 0 /\ Top \in Entries /\ Top.type \in Types
        /\ Top.position \in Int /\ Top.position >= -1 /\ Kind[Top.type] = "struct"
    BY TurnFacts
  <1>2. PICK i \in 1 .. Len(tokens) : Abreast(tokens, at, bytes, sizes, i)
    BY <1>1 DEF Going
  <1> DEFINE a == at[i]
             c == at[i + 1]
             tok == tokens[i + 1]
             w == Innermost(a)
  <1>3. /\ i \in 1 .. Len(tokens) - 1 /\ i + 1 \in 1 .. Len(tokens)
        /\ Move(a, tok, c, bytes, sizes)
        /\ LiesIn(a, bytes, sizes) /\ Known(input, bytes, sizes)
        /\ a.stack \in Seq(LevelSet) /\ a.stack # << >> /\ ~a.waiting
        /\ LowerAlike(stack, a.stack, sizes)
        /\ w.type = Top.type /\ Kind[w.type] = "struct"
        /\ w.allow_extensions = Top.allow_extensions
        /\ Alike(stack, a.stack, sizes) => AlikeLevel(Top, w, sizes)
        /\ ~Alike(stack, a.stack, sizes) => Omitting(stack, a, tok, bytes, sizes)
    BY <1>2, TurnWay
  <1>4. pos = a.bytes + a.sizes
    BY <1>2 DEF Abreast
  <1>5. AtTheEnd(a, bytes, sizes) => Left = 0
    BY <1>1, <1>3, <1>4, EndMeans
  <1>6. /\ type \in Types /\ Field(Top.type, next).name \in Strings
        /\ Len(Fields[Top.type]) \in Nat /\ DOMAIN Fields[Top.type] = 1 .. Len(Fields[Top.type])
    BY <1>1, FieldFacts
  <1>7. Alike(stack, a.stack, sizes)
    <2>1. SUFFICES ASSUME Omitting(stack, a, tok, bytes, sizes) PROVE FALSE
      BY <1>3
    <2>2. /\ Left = 0 /\ Top.allow_extensions
          /\ Extension(Field(Top.type, w.position + 1).type)
          /\ -1 <= w.position /\ w.position < stack[n].position
      BY <2>1, <1>3, <1>5 DEF Omitting, LeavesOut
    <2>3. PICK k, m \in Int : k = w.position /\ m = Top.position
      BY <1>1, <1>3, InnermostFacts
    <2>4. Top = stack[n]
      BY TurnFacts
    <2>5. PICK len \in Nat : len = Len(Fields[Top.type])
      BY <1>6
    <2>6. PICK j \in Int : j = k + 1 + 1
      <3>1. k + 1 + 1 \in Int
        BY ONLY k \in Int
      <3>2. QED
        BY <3>1
    <2>7. k < m /\ -1 <= k /\ next = m + 1 /\ next < len
      BY <2>2, <2>3, <2>4, <2>5
    <2>8. j \in 1 .. len /\ next + 1 \in 1 .. len /\ j < next + 1
      BY ONLY <2>6, <2>7, next \in Nat, k \in Int, m \in Int, j \in Int, len \in Nat
    <2>9. Extension(Fields[Top.type][j].type)
      BY <2>2, <2>3, <2>6 DEF Field
    <2>10. Extension(Fields[Top.type][next + 1].type)
      BY <2>5, <2>8, <2>9, <1>1, <1>6 DEF ExtensionsLast
    <2>11. MayLeaveOut(next)
      BY <2>2, <2>10 DEF MayLeaveOut, Field
    <2>12. QED
      BY <2>11
  <1>8. w.position = Top.position
    BY <1>1, <1>3, <1>7 DEF AlikeLevel
  <1>9. ~ObjectEndMove(a, tok, c, bytes, sizes)
    <2>1. w.position + 1 = next /\ next # Len(Fields[Top.type])
      BY <1>6, <1>8
    <2>2. ~(LeavesOut(a) /\ AtTheEnd(a, bytes, sizes))
      BY <2>1, <1>3, <1>5 DEF LeavesOut, MayLeaveOut
    <2>3. QED
      BY <2>1, <2>2, <1>3 DEF ObjectEndMove
  <1>10. KeyMove(a, tok, c)
    BY <1>3, <1>9 DEF Move, FieldMove, ElementMove, ArrayEndMove, NameMove, AlternativeMove
  <1>11. /\ tok = key /\ c.stack = MovedTo(a, next) /\ c.waiting
         /\ c.bytes = a.bytes /\ c.sizes = a.sizes
    BY <1>3, <1>8, <1>10 DEF KeyMove, Point, Text
  <1>12. /\ c.stack \in Seq(LevelSet) /\ c.stack # << >> /\ Innermost(c).type = Top.type
         /\ Innermost(c).position = next /\ Innermost(c).allow_extensions = Top.allow_extensions
    <2>1. PICK s : s = MovedTo(a, next)
      OBVIOUS
    <2>2. Changed(s, a, next)
      BY <2>1, <1>3, MovedFacts
    <2>3. /\ s \in Seq(LevelSet) /\ Len(s) = Len(a.stack) /\ Len(a.stack) = n
          /\ s[Len(a.stack)].type = w.type /\ s[Len(a.stack)].position = next
          /\ s[Len(a.stack)].allow_extensions = w.allow_extensions
      BY <2>2, <1>3 DEF Changed, LowerAlike
    <2>4. s # << >>
      <3>1. Len(s) # 0
        BY <2>3, <1>1
      <3>2. QED
        BY <3>1
    <2>5. c.stack = s
      BY <2>1, <1>11
    <2>6. Innermost(c) = s[n]
      BY <2>3, <2>5 DEF Innermost
    <2>7. QED
      BY <2>3, <2>4, <2>5, <2>6, <1>3
  <1> DEFINE p == tokens[i + 1 + 1]
             b == at[i + 1 + 1]
  <1>13. /\ i + 1 \in 1 .. Len(tokens) - 1 /\ i + 1 + 1 \in 1 .. Len(tokens)
         /\ Move(c, p, b, bytes, sizes)
    BY <1>3, <1>11, GoesOn
  <1>14. ValueMove(type, allow, c.stack, c, p, b, bytes, sizes)
    <2>1. FieldMove(c, p, b, bytes, sizes)
      BY <1>1, <1>11, <1>12, <1>13
         DEF Move, KeyMove, ObjectEndMove, ElementMove, ArrayEndMove, NameMove, AlternativeMove
    <2>2. QED
      BY <2>1, <1>12 DEF FieldMove
  <1>15. Len(tokens) \in Nat
    BY WayEnds
  <1>16. Alike(WithPosition(next), c.stack, sizes)
    <2>1. /\ next \in Int /\ IF "struct" = "variant" THEN next = 0 /\ next = 1 ELSE next = next
          /\ "struct" = "array" => Top.array_size = sizes[w.size_insertion_index].size
      OBVIOUS
    <2>2. Alike(WithPosition(next), MovedTo(a, next), sizes)
      BY <2>1, <1>3, MoveAlike
    <2>3. QED
      BY <2>2, <1>11
  <1>17. Starting(type, allow, 0, c.stack, c, p, b, bytes, sizes)
    <2>1. i + 1 \in 0 .. Len(tokens) /\ i + 1 + 1 \in 0 .. Len(tokens)
      BY <1>13, <1>15
    <2>2. LiesIn(c, bytes, sizes) /\ LiesIn(b, bytes, sizes)
      BY <2>1, WayPoint
    <2>3. pos + 0 = c.bytes + c.sizes
      <3>1. pos \in Nat
        BY <1>1 DEF TypeOK
      <3>2. QED
        BY <3>1, <1>4, <1>11
    <2>4. allow \in BOOLEAN /\ 0 \in Nat
      BY <1>1 DEF AllowIn, Entries
    <2> HIDE DEF type, allow
    <2>5. QED
      BY <2>2, <2>3, <2>4, <1>1, <1>3, <1>6, <1>12, <1>14 DEF Starting
  <1>18. WithPosition(next) \in Seq(Entries)
    BY EntryMoved
  <1>19. Met(lexemes, p, b, sizes)
    <2> HIDE DEF type, allow, lexemes
    <2>1. StartValue(type, allow, 0, lexemes, WithPosition(next))
      BY DEF type, allow, lexemes
    <2>2. QED
      BY <2>1, <1>16, <1>17, <1>18, StartMatches
  <1>20. ~b.waiting
    BY <1>14, ValueStack
  <1>21. lexemes \in Seq(Lexemes) /\ Says(text \o lexemes, First(tokens, i + 1))
    <2>1. tok \in Lexemes /\ tok.type # "comma"
      BY <1>6, <1>11, LexemeFacts
    <2>2. Says(text, First(tokens, i))
      BY <1>2 DEF Abreast
    <2>3. tokens \in Seq(Lexemes) /\ i \in 0 .. Len(tokens) - 1
      BY <1>3, <1>15 DEF IsWay, Lexemes
    <2>4. /\ Append(Comma(next), tok) \in Seq(Lexemes)
          /\ Says(text \o Append(Comma(next), tok), First(tokens, i + 1))
      BY <2>1, <2>2, <2>3, <1>1, KeySays
    <2>5. QED
      BY <2>4, <1>11
  <1>22. i + 1 \in 0 .. Len(tokens) - 1
    BY <1>13, <1>15
  <1> HIDE DEF lexemes
  <1>23. QED
    BY <1>1, <1>19, <1>20, <1>21, <1>22, GoingOn

\* A turn of a struct goes on with its next field, leaves it out or closes it.
LEMMA ObjectGoing ==
    ASSUME ExtensionsLast, ExtensionsTakeBytes,
           IInv, Object, NEW tokens, NEW at, NEW bytes, NEW sizes,
           IsWay(root, tokens, input, at, bytes, sizes), Going(tokens, at, bytes, sizes)
    PROVE  Going(tokens, at, bytes, sizes)'
  <1>1. Turn("struct")
    BY DEF Object
  <1>2. /\ TypeOK /\ pc = "loop" /\ Top.type \in Types
        /\ Top.position \in Int /\ Top.position >= -1 /\ Kind[Top.type] = "struct"
    BY <1>1, TurnFacts
  <1>3. PICK next \in Nat : next = Top.position + 1
    BY <1>2
  <1>4. Len(Fields[Top.type]) \in Nat
    BY <1>2, <1>3, FieldFacts
  <1>5. CASE next >= Len(Fields[Top.type])
    <2>1. Leave("end_object")
      BY <1>3, <1>5 DEF Object
    <2>2. PICK i \in 1 .. Len(tokens) : Abreast(tokens, at, bytes, sizes, i)
      BY <1>2 DEF Going
    <2> DEFINE a == at[i]
               c == at[i + 1]
               tok == tokens[i + 1]
               w == Innermost(a)
    <2>3. /\ i \in 1 .. Len(tokens) - 1 /\ Move(a, tok, c, bytes, sizes)
          /\ a.stack \in Seq(LevelSet) /\ a.stack # << >> /\ ~a.waiting
          /\ LowerAlike(stack, a.stack, sizes)
          /\ w.type = Top.type /\ Kind[w.type] = "struct"
          /\ Alike(stack, a.stack, sizes) => AlikeLevel(Top, w, sizes)
          /\ ~Alike(stack, a.stack, sizes) => Omitting(stack, a, tok, bytes, sizes)
      BY <1>1, <2>2, TurnWay
    <2>4. KeyMove(a, tok, c) \/ ObjectEndMove(a, tok, c, bytes, sizes)
      BY <2>3 DEF Move, FieldMove, ElementMove, ArrayEndMove, NameMove, AlternativeMove
    <2>5. ~KeyMove(a, tok, c)
      <3>1. CASE Alike(stack, a.stack, sizes)
        <4>1. w.position = Top.position
          BY <3>1, <1>2, <2>3 DEF AlikeLevel
        <4>2. KeyMove(a, tok, c) => w.position + 1 < Len(Fields[w.type])
          BY DEF KeyMove
        <4>3. QED
          BY <4>1, <4>2, <1>3, <1>4, <1>5, <2>3
      <3>2. CASE ~Alike(stack, a.stack, sizes)
        <4>1. tok = Token("end_object")
          BY <3>2, <2>3 DEF Omitting
        <4>2. tok.type = "end_object"
          BY <4>1, LexemeFacts
        <4>3. KeyMove(a, tok, c) => tok.type = "key"
          BY DEF KeyMove
        <4>4. QED
          BY <4>2, <4>3
      <3>3. QED
        BY <3>1, <3>2
    <2>6. tok = Token("end_object") /\ c = Closed(a)
      BY <2>4, <2>5 DEF ObjectEndMove
    <2>7. QED
      BY <2>1, <2>2, <2>3, <2>6, <1>1, LeaveGoing
  <1>6. CASE ~(next >= Len(Fields[Top.type]))
    <2>1. next < Len(Fields[Top.type])
      BY <1>4, <1>6
    <2>2. CASE MayLeaveOut(next)
      <3>1. LeaveOut(next)
        BY <1>3, <1>6, <2>2 DEF Object
      <3>2. QED
        BY <3>1, <2>1, <2>2, <1>1, <1>3, OmissionGoing
    <2>3. CASE ~MayLeaveOut(next)
      <3>1. StartValue(Field(Top.type, next).type,
                       AllowIn(Top.type, next, Top.allow_extensions), 0,
                       Append(Comma(next), Text("key", Field(Top.type, next).name)),
                       WithPosition(next))
        BY <1>3, <1>6, <2>3 DEF Object
      <3>2. QED
        BY <3>1, <2>1, <2>3, <1>1, <1>3, FieldGoing
    <2>4. QED
      BY <2>2, <2>3
  <1>7. QED
    BY <1>5, <1>6

LEMMA StepGoing ==
    ASSUME ExtensionsLast, ExtensionsTakeBytes,
           IInv, [Next]_vars, NEW tokens, NEW at, NEW bytes, NEW sizes,
           IsWay(root, tokens, input, at, bytes, sizes), Going(tokens, at, bytes, sizes)
    PROVE  Going(tokens, at, bytes, sizes)'
  <1>1. CASE Begin
    BY <1>1, BeginGoing
  <1>2. CASE Object
    BY <1>2, ObjectGoing
  <1>3. CASE Array
    <2>1. Turn("array") /\ Elements(IF "array" = "array" THEN Top.array_size ELSE Size[Top.type])
      BY <1>3 DEF Array
    <2>2. "array" \in ArrayKinds
      BY DEF ArrayKinds
    <2>3. QED
      BY <2>1, <2>2, ElementsGoing
  <1>4. CASE FixedArray
    <2>1. /\ Turn("fixed_array")
          /\ Elements(IF "fixed_array" = "array" THEN Top.array_size ELSE Size[Top.type])
      BY <1>4 DEF FixedArray
    <2>2. "fixed_array" \in ArrayKinds
      BY DEF ArrayKinds
    <2>3. QED
      BY <2>1, <2>2, ElementsGoing
  <1>5. CASE Variant
    BY <1>5, VariantGoing
  <1>6. CASE Finish
    BY <1>6, FinishGoing
  <1>7. CASE UNCHANGED vars
    <2>1. UNCHANGED <<pos, pc, stack, text, error, input>>
      BY <1>7 DEF vars
    <2>2. QED
      BY <2>1 DEF Going, Abreast
  <1>8. QED
    BY <1>1, <1>2, <1>3, <1>4, <1>5, <1>6, <1>7 DEF Next, Step, Terminated

LEMMA SpokenFacts ==
    ASSUME NEW s, Says(text, s)
    PROVE  Spoken[Len(text)] = s
  <1>1. PICK r : IsSpoken(r, text)
    BY DEF Says
  <1>2. IsSpoken(Spoken, text)
    BY <1>1 DEF IsSpoken, Spoken
  <1>3. QED
    BY <1>2 DEF Says

(***************************************************************************)
(* bin_to_json gives back the text: from the binary of a text              *)
(* (Wire!Codes) it reads every byte and writes the tokens of the text, and *)
(* it fails at most at the stack limit.  For every table whose structs     *)
(* have their extensions last, and whose extensions take bytes: one that   *)
(* takes none is lost where the input ends with it (abieos.hpp:998).       *)
(***************************************************************************)
AlongEveryWay ==
    \A tokens, at, bytes, sizes :
        IsWay(root, tokens, input, at, bytes, sizes) => Going(tokens, at, bytes, sizes)

GivesBack(tokens) ==
    tokens \in Seq(Tokens(Strings)) /\ Codes(root, tokens, input) =>
        /\ pc = "done" => Spoken[Len(text)] = tokens /\ pos = Len(input)
        /\ pc = "failed" => error = "recursion_limit_reached"

THEOREM TextOfTheBinary ==
    ASSUME ExtensionsLast, ExtensionsTakeBytes
    PROVE  Spec => [](\A tokens : GivesBack(tokens))
  <1>1. Init => AlongEveryWay
    BY DEF Init, AlongEveryWay, Going
  <1>2. IInv /\ AlongEveryWay /\ [Next]_vars => AlongEveryWay'
    <2> SUFFICES ASSUME IInv, AlongEveryWay, [Next]_vars PROVE AlongEveryWay'
      OBVIOUS
    <2>1. UNCHANGED <<root, input>>
      BY DEF vars, Next, Step, Begin, Object, Array, FixedArray, Variant, Turn, Finish, Terminated
    <2>2. ASSUME NEW tokens, NEW at, NEW bytes, NEW sizes,
                 IsWay(root', tokens, input', at, bytes, sizes)
          PROVE  Going(tokens, at, bytes, sizes)'
      <3>1. IsWay(root, tokens, input, at, bytes, sizes)
        BY <2>1, <2>2
      <3>2. Going(tokens, at, bytes, sizes)
        BY <3>1 DEF AlongEveryWay
      <3>3. QED
        BY <3>1, <3>2, ExtensionsLast, ExtensionsTakeBytes, StepGoing
    <2>3. QED
      BY <2>2 DEF AlongEveryWay
  <1>3. AlongEveryWay => \A tokens : GivesBack(tokens)
    <2> SUFFICES ASSUME AlongEveryWay, NEW tokens, tokens \in Seq(Tokens(Strings)),
                        Codes(root, tokens, input)
                 PROVE  /\ pc = "done" => Spoken[Len(text)] = tokens /\ pos = Len(input)
                        /\ pc = "failed" => error = "recursion_limit_reached"
      BY DEF GivesBack
    <2>1. PICK at, bytes, sizes : IsWay(root, tokens, input, at, bytes, sizes)
      BY DEF Codes, IsWay
    <2>2. Going(tokens, at, bytes, sizes)
      BY <2>1 DEF AlongEveryWay
    <2>3. QED
      BY <2>2, SpokenFacts DEF Going
  <1>4. QED
    BY <1>1, <1>2, <1>3, Inductive, PTL DEF Spec

----------------------------------------------------------------------------
(***************************************************************************)
(* What is given.  Whatever the input, what has been written so far is     *)
(* the text of a way through what has been read so far, which grows with   *)
(* it: one byte, or one size, after the other.                             *)
(***************************************************************************)
Laid(bin, bytes, sizes) ==
    /\ Known(bin, bytes, sizes)
    /\ \A k \in 1 .. Len(sizes) : sizes[k].position <= Len(bytes)

\* The sizes of sizes are kept, new ones go behind the bytes.
SizesKept(sizes, sizes2, bytes) ==
    /\ sizes \in Seq(Sizes) /\ sizes2 \in Seq(Sizes) /\ Len(sizes) <= Len(sizes2)
    /\ \A i \in 1 .. Len(sizes) : sizes2[i] = sizes[i]
    /\ \A i \in Len(sizes) + 1 .. Len(sizes2) : sizes2[i].position >= Len(bytes)

LEMMA LaidByte ==
    ASSUME NEW bin, NEW bytes, NEW sizes, Laid(bin, bytes, sizes), NEW v \in Nat
    PROVE  /\ Laid(Append(bin, v), Append(bytes, v), sizes)
           /\ Longer(bytes, Append(bytes, v)) /\ SizesKept(sizes, sizes, bytes)
  <1>1. /\ bytes \in Seq(Nat) /\ sizes \in Seq(Sizes) /\ bin \in Seq(Nat)
    BY DEF Laid, Known, Joined
  <1>2. PICK B, L \in Nat : B = Len(bytes) /\ L = Len(sizes)
    BY <1>1
  <1>3. /\ Len(bin) = B + L
        /\ \A k \in 1 .. L : bin[sizes[k].position + k] = sizes[k].size
        /\ \A k \in 0 .. L, i \in 1 .. B :
              /\ k > 0 => sizes[k].position < i
              /\ k < L => i <= sizes[k + 1].position
              => bin[i + k] = bytes[i]
        /\ \A k \in 1 .. L : sizes[k].position <= B
    BY <1>2, Zenon DEF Laid, Known, Joined
  <1> DEFINE bin2 == Append(bin, v)
             bytes2 == Append(bytes, v)
  <1>4. /\ bin2 \in Seq(Nat) /\ Len(bin2) = B + L + 1 /\ bin2[B + L + 1] = v
        /\ \A i \in 1 .. B + L : bin2[i] = bin[i]
    BY <1>1, <1>3, AppendFacts
  <1>5. /\ bytes2 \in Seq(Nat) /\ Len(bytes2) = B + 1 /\ bytes2[B + 1] = v
        /\ \A i \in 1 .. B : bytes2[i] = bytes[i]
    BY <1>1, <1>2, AppendFacts
  <1> HIDE DEF bin2, bytes2
  <1>6. ASSUME NEW k \in 1 .. L
        PROVE  /\ bin2[sizes[k].position + k] = sizes[k].size
               /\ sizes[k].position \in Nat /\ sizes[k].position <= B
    <2>1. sizes[k].position \in Nat /\ sizes[k].position <= B
      BY <1>1, <1>2, <1>3, OneSize
    <2>2. sizes[k].position + k \in 1 .. B + L
      BY <2>1
    <2>3. QED
      BY <2>1, <2>2, <1>3, <1>4
  <1>7. ASSUME NEW k \in 0 .. L, NEW i \in 1 .. B + 1,
               k > 0 => sizes[k].position < i,
               k < L => i <= sizes[k + 1].position
        PROVE  bin2[i + k] = bytes2[i]
    <2>1. CASE i = B + 1
      <3>1. ~(k < L)
        <4>1. SUFFICES ASSUME k < L PROVE FALSE
          OBVIOUS
        <4>2. k + 1 \in 1 .. L
          BY <4>1
        <4>3. sizes[k + 1].position \in Nat /\ sizes[k + 1].position <= B
          BY <4>2, <1>6
        <4>4. QED
          BY <4>1, <4>3, <2>1, <1>7
      <3>2. i + k = B + L + 1
        BY <3>1, <2>1
      <3>3. QED
        BY <3>2, <2>1, <1>4, <1>5
    <2>2. CASE i # B + 1
      <3>1. i \in 1 .. B /\ i + k \in 1 .. B + L
        BY <2>2
      <3>2. bin[i + k] = bytes[i]
        BY <3>1, <1>3, <1>7
      <3>3. QED
        BY <3>1, <3>2, <1>4, <1>5
    <2>3. QED
      BY <2>1, <2>2
  <1>8. Joined(bin2, bytes2, sizes)
    <2>1. Len(bin2) = Len(bytes2) + Len(sizes)
      BY <1>2, <1>4, <1>5
    <2>2. QED
      BY <2>1, <1>2, <1>4, <1>5, <1>6, <1>7, Zenon DEF Joined
  <1>9. \A k \in 1 .. Len(sizes) : sizes[k].position <= Len(bytes2)
    BY <1>2, <1>5, <1>6
  <1>10. Laid(bin2, bytes2, sizes)
    BY <1>1, <1>5, <1>8, <1>9, Zenon DEF Laid, Known
  <1>11. Longer(bytes, bytes2)
    <2>1. B <= B + 1
      OBVIOUS
    <2>2. QED
      BY <2>1, <1>1, <1>2, <1>5, Zenon DEF Longer
  <1>12. SizesKept(sizes, sizes, bytes)
    BY <1>1, <1>2 DEF SizesKept
  <1>13. QED
    BY <1>10, <1>11, <1>12 DEF bin2, bytes2

LEMMA LaidSize ==
    ASSUME NEW bin, NEW bytes, NEW sizes, Laid(bin, bytes, sizes), NEW v \in Nat,
           NEW new, new = [position |-> Len(bytes), size |-> v]
    PROVE  /\ Laid(Append(bin, v), bytes, Append(sizes, new))
           /\ Longer(bytes, bytes) /\ SizesKept(sizes, Append(sizes, new), bytes)
  <1>1. /\ bytes \in Seq(Nat) /\ sizes \in Seq(Sizes) /\ bin \in Seq(Nat)
    BY DEF Laid, Known, Joined
  <1>2. PICK B, L \in Nat : B = Len(bytes) /\ L = Len(sizes)
    BY <1>1
  <1>3. /\ Len(bin) = B + L
        /\ \A k \in 1 .. L : bin[sizes[k].position + k] = sizes[k].size
        /\ \A k \in 0 .. L, i \in 1 .. B :
              /\ k > 0 => sizes[k].position < i
              /\ k < L => i <= sizes[k + 1].position
              => bin[i + k] = bytes[i]
        /\ \A k \in 1 .. L : sizes[k].position <= B
    BY <1>2, Zenon DEF Laid, Known, Joined
  <1> DEFINE bin2 == Append(bin, v)
             sizes2 == Append(sizes, new)
  <1>4. /\ bin2 \in Seq(Nat) /\ Len(bin2) = B + L + 1 /\ bin2[B + L + 1] = v
        /\ \A i \in 1 .. B + L : bin2[i] = bin[i]
    BY <1>1, <1>3, AppendFacts
  <1>5. new \in Sizes /\ new.position = B /\ new.size = v
    BY <1>2 DEF Sizes
  <1>6. /\ sizes2 \in Seq(Sizes) /\ Len(sizes2) = L + 1 /\ sizes2[L + 1] = new
        /\ \A i \in 1 .. L : sizes2[i] = sizes[i]
    BY <1>1, <1>2, <1>5, AppendFacts
  <1> HIDE DEF bin2, sizes2
  <1>7. ASSUME NEW k \in 1 .. L + 1
        PROVE  /\ bin2[sizes2[k].position + k] = sizes2[k].size
               /\ sizes2[k].position \in Nat /\ sizes2[k].position <= B
    <2>1. CASE k = L + 1
      <3>1. sizes2[k].position = B /\ sizes2[k].size = v /\ B + k = B + L + 1
        BY <2>1, <1>5, <1>6
      <3>2. QED
        BY <3>1, <1>4
    <2>2. CASE k # L + 1
      <3>1. k \in 1 .. L
        BY <2>2
      <3>2. sizes[k].position \in Nat /\ sizes[k].position <= B
        BY <3>1, <1>1, <1>2, <1>3, OneSize
      <3>3. sizes[k].position + k \in 1 .. B + L
        BY <3>1, <3>2
      <3>4. QED
        BY <3>1, <3>2, <3>3, <1>3, <1>4, <1>6
    <2>3. QED
      BY <2>1, <2>2
  <1>8. ASSUME NEW k \in 0 .. L + 1, NEW i \in 1 .. B,
               k > 0 => sizes2[k].position < i,
               k < L + 1 => i <= sizes2[k + 1].position
        PROVE  bin2[i + k] = bytes[i]
    <2>1. k # L + 1
      BY <1>5, <1>6, <1>8
    <2>2. k \in 0 .. L /\ i + k \in 1 .. B + L
      BY <2>1
    <2>3. k > 0 => sizes[k].position < i
      BY <2>2, <1>6, <1>8
    <2>4. k < L => i <= sizes[k + 1].position
      <3>1. SUFFICES ASSUME k < L PROVE i <= sizes[k + 1].position
        OBVIOUS
      <3>2. k + 1 \in 1 .. L /\ k < L + 1
        BY <3>1, <2>2
      <3>3. QED
        BY <3>2, <1>6, <1>8
    <2>5. bin[i + k] = bytes[i]
      BY <2>2, <2>3, <2>4, <1>3
    <2>6. QED
      BY <2>2, <2>5, <1>4
  <1>9. Joined(bin2, bytes, sizes2)
    <2>1. Len(bin2) = Len(bytes) + Len(sizes2)
      BY <1>2, <1>4, <1>6
    <2>2. QED
      BY <2>1, <1>2, <1>4, <1>6, <1>7, <1>8, Zenon DEF Joined
  <1>10. \A k \in 1 .. Len(sizes2) : sizes2[k].position <= Len(bytes)
    BY <1>2, <1>6, <1>7
  <1>11. Laid(bin2, bytes, sizes2)
    BY <1>1, <1>6, <1>9, <1>10, Zenon DEF Laid, Known
  <1>12. Longer(bytes, bytes)
    BY <1>1 DEF Longer
  <1>13. SizesKept(sizes, sizes2, bytes)
    <2>1. \A i \in L + 1 .. L + 1 : sizes2[i].position >= B
      BY <1>5, <1>6
    <2>2. L <= L + 1
      OBVIOUS
    <2>3. QED
      BY <2>1, <2>2, <1>1, <1>2, <1>6, Zenon DEF SizesKept
  <1>14. QED
    BY <1>11, <1>12, <1>13 DEF bin2, sizes2

----------------------------------------------------------------------------
(***************************************************************************)
(* What is read is the input, but for the bytes that say whether an        *)
(* optional is there (flags): any value but 0 and 1 may be taken for 0 or  *)
(* for 1 (abieos.hpp:971).                                                 *)
(***************************************************************************)
FromInput(bin, flags) ==
    /\ Len(bin) <= Len(input)
    /\ \A i \in 1 .. Len(bin) :
          \/ bin[i] = input[i]
          \/ i \in flags /\ bin[i] \in {0, 1} /\ input[i] \notin {0, 1}

Taken(bin, bytes, sizes, flags) == Laid(bin, bytes, sizes) /\ FromInput(bin, flags)

LEMMA TakenFacts ==
    ASSUME TypeOK, NEW bin, NEW bytes, NEW sizes, NEW flags, Taken(bin, bytes, sizes, flags)
    PROVE  /\ bin \in Seq(Nat) /\ bytes \in Seq(Nat) /\ sizes \in Seq(Sizes)
           /\ Len(bin) \in Nat /\ Len(bytes) \in Nat /\ Len(sizes) \in Nat
           /\ Len(bin) = Len(bytes) + Len(sizes) /\ Len(bin) <= Len(input)
           /\ Len(input) \in Nat
  <1>1. bin \in Seq(Nat) /\ bytes \in Seq(Nat) /\ sizes \in Seq(Sizes)
    BY DEF Taken, Laid, Known, Joined
  <1>2. Len(bin) = Len(bytes) + Len(sizes) /\ Len(bin) <= Len(input)
    BY DEF Taken, Laid, Known, Joined, FromInput
  <1>3. input \in Seq(Byte)
    BY DEF TypeOK
  <1>4. QED
    BY <1>1, <1>2, <1>3

\* One element more is read: the byte there is, or what an undefined bool is taken for.
LEMMA FromInputMore ==
    ASSUME TypeOK, NEW bin \in Seq(Nat), NEW flags, NEW more, FromInput(bin, flags),
           NEW v \in Nat, NEW m \in Nat, m = Len(bin) + 1, m <= Len(input),
           \/ v = input[m]
           \/ m \in more /\ v \in {0, 1} /\ input[m] \notin {0, 1}
    PROVE  FromInput(Append(bin, v), flags \cup more)
  <1> DEFINE bin2 == Append(bin, v)
  <1>1. PICK n \in Nat : n = Len(bin) /\ m = n + 1
    OBVIOUS
  <1>2. /\ Len(bin2) = n + 1 /\ bin2[n + 1] = v
        /\ \A i \in 1 .. n : bin2[i] = bin[i]
    BY <1>1, AppendFacts
  <1> HIDE DEF bin2
  <1>3. ASSUME NEW i \in 1 .. n + 1
        PROVE  \/ bin2[i] = input[i]
               \/ i \in flags \cup more /\ bin2[i] \in {0, 1} /\ input[i] \notin {0, 1}
    <2>1. CASE i = n + 1
      BY <2>1, <1>1, <1>2
    <2>2. CASE i # n + 1
      <3>1. i \in 1 .. n
        BY <2>2
      <3>2. \/ bin[i] = input[i]
            \/ i \in flags /\ bin[i] \in {0, 1} /\ input[i] \notin {0, 1}
        BY <3>1, <1>1 DEF FromInput
      <3>3. QED
        BY <3>1, <3>2, <1>2
    <2>3. QED
      BY <2>1, <2>2
  <1>4. QED
    BY <1>1, <1>2, <1>3 DEF FromInput, bin2

LEMMA FlagsMore ==
    ASSUME NEW bin, NEW bytes, NEW sizes, NEW flags, NEW flags2, flags \subseteq flags2,
           Taken(bin, bytes, sizes, flags)
    PROVE  Taken(bin, bytes, sizes, flags2)
  BY DEF Taken, FromInput

----------------------------------------------------------------------------
(***************************************************************************)
(* A level of the way has not gone past its end.                           *)
(***************************************************************************)
Fits(e, sizes) ==
    /\ WithinSize(e, sizes)
    /\ Kind[e.type] = "fixed_array" => e.position < Size[e.type]
    /\ Kind[e.type] = "struct" => e.position < Len(Fields[e.type])

Fitting(ws, sizes) == \A j \in 1 .. Len(ws) : Fits(ws[j], sizes)

LEMMA KeptGrown ==
    ASSUME NEW sizes, NEW sizes2, NEW bytes, SizesKept(sizes, sizes2, bytes)
    PROVE  SizesGrown(sizes, sizes2, bytes)
  BY DEF SizesKept, SizesGrown

LEMMA FitsKept ==
    ASSUME NEW sizes, NEW sizes2, NEW bytes, SizesKept(sizes, sizes2, bytes),
           NEW ws, Fitting(ws, sizes)
    PROVE  Fitting(ws, sizes2)
  <1>1. PICK m, m2 \in Nat : m = Len(sizes) /\ m2 = Len(sizes2) /\ m <= m2
    BY DEF SizesKept
  <1>2. ASSUME NEW j \in 1 .. Len(ws)
        PROVE  Fits(ws[j], sizes2)
    <2>1. Fits(ws[j], sizes)
      BY DEF Fitting
    <2>2. PICK k : k = ws[j].size_insertion_index
      OBVIOUS
    <2>3. k \in 1 .. m => k \in 1 .. m2 /\ sizes2[k] = sizes[k]
      BY <1>1 DEF SizesKept
    <2>4. WithinSize(ws[j], sizes2)
      BY <2>1, <2>2, <2>3, <1>1, Zenon DEF Fits, WithinSize
    <2>5. QED
      BY <2>1, <2>4 DEF Fits
  <1>3. QED
    BY <1>2 DEF Fitting

LEMMA AlikeKept ==
    ASSUME NEW sizes, NEW sizes2, NEW bytes, SizesKept(sizes, sizes2, bytes),
           NEW ws, Fitting(ws, sizes), NEW st, Alike(st, ws, sizes)
    PROVE  Alike(st, ws, sizes2)
  <1>1. PICK m, m2 \in Nat : m = Len(sizes) /\ m2 = Len(sizes2) /\ m <= m2
    BY DEF SizesKept
  <1>2. ASSUME NEW j \in 1 .. Len(st)
        PROVE  AlikeLevel(st[j], ws[j], sizes2)
    <2>1. AlikeLevel(st[j], ws[j], sizes) /\ Fits(ws[j], sizes)
      BY DEF Fitting, Alike
    <2>2. PICK k : k = ws[j].size_insertion_index
      OBVIOUS
    <2>3. k \in 1 .. m => sizes2[k] = sizes[k]
      BY <1>1 DEF SizesKept
    <2>4. Kind[ws[j].type] = "array" => k \in 1 .. m
      BY <2>1, <2>2, <1>1, Zenon DEF Fits, WithinSize
    <2>5. QED
      BY <2>1, <2>2, <2>3, <2>4, Zenon DEF AlikeLevel
  <1>3. QED
    BY <1>2 DEF Alike

----------------------------------------------------------------------------
(***************************************************************************)
(* The type of the value that a token starts at a point of the way, and    *)
(* the places of the bytes that say whether an optional is there.          *)
(***************************************************************************)
Comes(start, a) ==
    IF a.stack = << >> THEN start
    ELSE LET e == Innermost(a)
         IN  IF Kind[e.type] = "struct" THEN Field(e.type, e.position).type
             ELSE IF Kind[e.type] = "variant" THEN Field(e.type, e.variant_type_index).type
             ELSE Element[e.type]

\* The first string inside a variant is the name of its alternative.
OptionalAt(start, a, tok) ==
    /\ tok.type \in ValueTokens /\ Optional(Comes(start, a))
    /\ a.stack # << >> /\ Kind[Innermost(a).type] = "variant" => Innermost(a).position = 0

Flags(start, tokens, at) ==
    {at[i].bytes + at[i].sizes + 1 :
        i \in {k \in 0 .. Len(tokens) - 1 : OptionalAt(start, at[k], tokens[k + 1])}}

(***************************************************************************)
(* What has been written is the text of a way through what has been read.  *)
(***************************************************************************)
Came(start, tokens, at, bin, bytes, sizes) ==
    /\ tokens \in Seq(Tokens(Strings))
    /\ Way(start, tokens, at, bytes, sizes)
    /\ \A i \in 0 .. Len(tokens) : Fitting(at[i].stack, sizes)
    /\ Taken(bin, bytes, sizes, Flags(start, tokens, at))
    /\ LET a == at[Len(tokens)]
       IN  a = Point(a.stack, a.waiting, Len(bytes), Len(sizes))

\* One token more, and perhaps some bytes.
Grown(start, tokens, a, bytes, sizes, flags, tok, b, bin2, bytes2, sizes2) ==
    /\ tok \in Tokens(Strings)
    /\ LeadsOn(start, tokens, a, tok, b, bytes2, sizes2)
    /\ \E more : /\ more \subseteq {m \in {a.bytes + a.sizes + 1} : OptionalAt(start, a, tok)}
                 /\ Taken(bin2, bytes2, sizes2, flags \cup more)
    /\ Longer(bytes, bytes2) /\ SizesKept(sizes, sizes2, bytes)
    /\ b = Point(b.stack, b.waiting, Len(bytes2), Len(sizes2))
    /\ b.waiting \in BOOLEAN /\ b.stack \in Seq(LevelSet) /\ Fitting(b.stack, sizes2)

\* The way at2 is the way at with the point b behind it.
Further(start, tokens, at, tok, b, bin2, bytes2, sizes2, at2) ==
    /\ Came(start, Append(tokens, tok), at2, bin2, bytes2, sizes2)
    /\ at2[Len(Append(tokens, tok))] = b
    /\ LeftOut(Append(tokens, tok), at2) =>
          \/ LeftOut(tokens, at)
          \/ tok.type = "end_object" /\ tokens # << >> /\ LeavesOut(at[Len(tokens)])

LEMMA CameOn ==
    ASSUME NEW start, NEW tokens, NEW at, NEW bin, NEW bytes, NEW sizes,
           Came(start, tokens, at, bin, bytes, sizes),
           NEW tok, NEW b, NEW bin2, NEW bytes2, NEW sizes2,
           Grown(start, tokens, at[Len(tokens)], bytes, sizes, Flags(start, tokens, at),
                 tok, b, bin2, bytes2, sizes2),
           LeftOut(tokens, at) => bytes2 = bytes /\ sizes2 = sizes
    PROVE  \E at2 : Further(start, tokens, at, tok, b, bin2, bytes2, sizes2, at2)
  <1>1. PICK n \in Nat : n = Len(tokens)
    BY DEF Came
  <1>2. PICK p : p = at[n]
    OBVIOUS
  <1>3. /\ tok \in Tokens(Strings)
        /\ LeadsOn(start, tokens, p, tok, b, bytes2, sizes2)
        /\ Longer(bytes, bytes2) /\ SizesKept(sizes, sizes2, bytes)
        /\ b = Point(b.stack, b.waiting, Len(bytes2), Len(sizes2))
        /\ b.waiting \in BOOLEAN /\ b.stack \in Seq(LevelSet) /\ Fitting(b.stack, sizes2)
    BY <1>1, <1>2, Zenon DEF Grown
  <1>4. PICK more : /\ more \subseteq {m \in {p.bytes + p.sizes + 1} : OptionalAt(start, p, tok)}
                    /\ Taken(bin2, bytes2, sizes2, Flags(start, tokens, at) \cup more)
    BY <1>1, <1>2, Zenon DEF Grown
  <1>5. /\ tokens \in Seq(Tokens(Strings))
        /\ Way(start, tokens, at, bytes, sizes)
        /\ \A i \in 0 .. n : Fitting(at[i].stack, sizes)
    BY <1>1, Zenon DEF Came
  <1> DEFINE tokens2 == Append(tokens, tok)
             at2 == [i \in 0 .. n + 1 |-> IF i <= n THEN at[i] ELSE b]
  <1>6. \A i \in 0 .. n : at2[i] = at[i]
    OBVIOUS
  <1>7. at2[n + 1] = b
    OBVIOUS
  <1>8. /\ tokens2 \in Seq(Tokens(Strings)) /\ Len(tokens2) = n + 1 /\ tokens2[n + 1] = tok
        /\ \A i \in 1 .. n : tokens2[i] = tokens[i]
    BY <1>1, <1>3, <1>5, AppendFacts
  <1>9. n = 0 <=> tokens = << >>
    BY <1>1, <1>5
  <1> HIDE DEF tokens2, at2
  <1>10. SizesGrown(sizes, sizes2, bytes)
    BY <1>3, KeptGrown
  <1>11. \A i \in 0 .. n : LiesIn(at[i], bytes, sizes)
    BY <1>1, <1>5, Zenon DEF Way
  <1>12. \A i \in 0 .. n : LiesIn(at[i], bytes2, sizes2)
    BY <1>3, <1>10, <1>11, LiesInStays, Zenon
  <1>13. LiesIn(b, bytes2, sizes2)
    <2>1. PICK nb \in Nat : nb = Len(bytes2)
      BY <1>3 DEF Longer
    <2>2. PICK m \in Nat : m = Len(sizes2)
      BY <1>3 DEF SizesKept
    <2>3. b.bytes = nb /\ b.sizes = m
      BY <1>3, <2>1, <2>2 DEF Point
    <2>4. \A k \in 1 .. m : sizes2[k].position <= nb
      BY <1>4, <2>1, <2>2, Zenon DEF Taken, Laid
    <2>5. \A k \in 1 .. m : k <= b.sizes /\ sizes2[k].position <= b.bytes
      BY <2>3, <2>4
    <2>6. b.bytes \in 0 .. nb /\ b.sizes \in 0 .. m
      BY <2>3
    <2>7. QED
      BY <1>3, <2>1, <2>2, <2>5, <2>6, Zenon DEF LiesIn
  <1>14. \A i \in 0 .. n + 1 : LiesIn(at2[i], bytes2, sizes2)
    BY <1>6, <1>7, <1>12, <1>13
  <1>15. \A i \in 0 .. n + 1 : Fitting(at2[i].stack, sizes2)
    <2>1. \A i \in 0 .. n : Fitting(at[i].stack, sizes2)
      BY <1>3, <1>5, FitsKept, Zenon
    <2>2. QED
      BY <2>1, <1>3, <1>6, <1>7
  <1>16. at2[0] = FirstPoint
    BY <1>5, <1>6 DEF Way
  <1>17. ValueMove(start, TRUE, << >>, at2[0], tokens2[1], at2[1], bytes2, sizes2)
    <2>1. CASE n = 0
      <3>1. at2[0] = p /\ at2[1] = b /\ tokens2[1] = tok
        BY <2>1, <1>2, <1>6, <1>7, <1>8
      <3>2. QED
        BY <3>1, <2>1, <1>3, <1>9, Zenon DEF LeadsOn
    <2>2. CASE n # 0
      <3>1. 0 \in 0 .. n /\ 1 \in 0 .. n /\ 1 \in 1 .. n /\ n > 0
        BY <2>2
      <3>2. ValueMove(start, TRUE, << >>, at[0], tokens[1], at[1], bytes, sizes)
        BY <3>1, <1>1, <1>5, Zenon DEF Way
      <3>3. ValueMove(start, TRUE, << >>, at[0], tokens[1], at[1], bytes2, sizes2)
        BY <3>1, <3>2, <1>3, <1>10, <1>11, ValueMoveStays, Zenon
      <3>4. QED
        BY <3>1, <3>3, <1>6, <1>8, Zenon
    <2>3. QED
      BY <2>1, <2>2
  <1>18. ASSUME NEW i \in 1 .. n
         PROVE  Move(at2[i], tokens2[i + 1], at2[i + 1], bytes2, sizes2)
    <2>1. CASE i = n
      <3>1. at2[i] = p /\ tokens2[i + 1] = tok /\ at2[i + 1] = b /\ tokens # << >>
        BY <2>1, <1>2, <1>6, <1>7, <1>8, <1>9
      <3>2. QED
        BY <3>1, <1>3, Zenon DEF LeadsOn
    <2>2. CASE i # n
      <3>1. i \in 1 .. n - 1 /\ i \in 0 .. n /\ i + 1 \in 0 .. n /\ i + 1 \in 1 .. n
        BY <2>2
      <3>2. Move(at[i], tokens[i + 1], at[i + 1], bytes, sizes)
        BY <3>1, <1>1, <1>5, Zenon DEF Way
      <3> DEFINE q == Innermost(at[i]).size_insertion_index
      <3>3. Kind[Innermost(at[i]).type] = "array" => sizes2[q].size = sizes[q].size
        <4>1. at[i].stack \in Seq(LevelSet) /\ at[i].stack # << >>
          BY <3>1, <3>2, <1>11 DEF LiesIn, Move
        <4>2. Len(at[i].stack) \in 1 .. Len(at[i].stack)
          BY <4>1
        <4>3. Fits(Innermost(at[i]), sizes)
          BY <3>1, <4>2, <1>5, Zenon DEF Fitting, Innermost
        <4>4. Kind[Innermost(at[i]).type] = "array" => q \in 1 .. Len(sizes)
          BY <4>3, Zenon DEF Fits, WithinSize
        <4>5. q \in 1 .. Len(sizes) => sizes2[q] = sizes[q]
          BY <1>3, Zenon DEF SizesKept
        <4>6. QED
          BY <4>4, <4>5
      <3>4. tokens[i + 1].type = "end_object" /\ LeavesOut(at[i]) =>
               Len(bytes2) = Len(bytes) /\ Len(sizes2) = Len(sizes)
        <4>1. tokens[i + 1].type = "end_object" /\ LeavesOut(at[i]) => LeftOut(tokens, at)
          BY <3>1, <1>1, Zenon DEF LeftOut
        <4>2. QED
          BY <4>1
      <3>5. Settled(at[i], tokens[i + 1], bytes, bytes2, sizes, sizes2)
        BY <3>3, <3>4, Zenon DEF Settled
      <3>6. Move(at[i], tokens[i + 1], at[i + 1], bytes2, sizes2)
        BY <3>1, <3>2, <3>5, <1>3, <1>10, <1>11, MoveStays, Zenon
      <3>7. QED
        BY <3>1, <3>6, <1>6, <1>8, Zenon
    <2>3. QED
      BY <2>1, <2>2
  <1>19. Way(start, tokens2, at2, bytes2, sizes2)
    <2>1. 0 .. Len(tokens2) = 0 .. n + 1 /\ 1 .. Len(tokens2) - 1 = 1 .. n
      BY <1>8
    <2>2. /\ \A i \in 0 .. Len(tokens2) : LiesIn(at2[i], bytes2, sizes2)
          /\ \A i \in 1 .. Len(tokens2) - 1 :
                Move(at2[i], tokens2[i + 1], at2[i + 1], bytes2, sizes2)
      BY <2>1, <1>14, <1>18, Zenon
    <2>3. QED
      BY <2>2, <1>16, <1>17, Zenon DEF Way
  <1>20. Flags(start, tokens, at) \cup more \subseteq Flags(start, tokens2, at2)
    <2>1. ASSUME NEW k \in 0 .. n - 1
          PROVE  at2[k] = at[k] /\ tokens2[k + 1] = tokens[k + 1] /\ k \in 0 .. Len(tokens2) - 1
      BY <1>6, <1>8
    <2>2. Flags(start, tokens, at) \subseteq Flags(start, tokens2, at2)
      BY <2>1, <1>1, Zenon DEF Flags
    <2>3. n \in 0 .. Len(tokens2) - 1 /\ at2[n] = p /\ tokens2[n + 1] = tok
      BY <1>2, <1>6, <1>8
    <2>4. OptionalAt(start, p, tok) => p.bytes + p.sizes + 1 \in Flags(start, tokens2, at2)
      BY <2>3, Zenon DEF Flags
    <2>5. more \subseteq Flags(start, tokens2, at2)
      BY <2>4, <1>4
    <2>6. QED
      BY <2>2, <2>5
  <1>21. Taken(bin2, bytes2, sizes2, Flags(start, tokens2, at2))
    BY <1>4, <1>20, FlagsMore
  <1>22. at2[Len(tokens2)] = b
    BY <1>7, <1>8
  <1>23. Came(start, tokens2, at2, bin2, bytes2, sizes2)
    BY <1>3, <1>8, <1>15, <1>19, <1>21, <1>22, Zenon DEF Came
  <1>24. LeftOut(tokens2, at2) =>
            \/ LeftOut(tokens, at)
            \/ tok.type = "end_object" /\ tokens # << >> /\ LeavesOut(p)
    <2>1. SUFFICES ASSUME NEW i \in 1 .. n, tokens2[i + 1].type = "end_object", LeavesOut(at2[i])
                   PROVE  \/ LeftOut(tokens, at)
                          \/ tok.type = "end_object" /\ tokens # << >> /\ LeavesOut(p)
      <3>1. Len(tokens2) - 1 = n
        BY <1>8
      <3>2. QED
        BY <3>1, Zenon DEF LeftOut
    <2>2. CASE i = n
      BY <2>1, <2>2, <1>2, <1>6, <1>8, <1>9
    <2>3. CASE i # n
      <3>1. i \in 1 .. n - 1 /\ i \in 0 .. n /\ i + 1 \in 1 .. n
        BY <2>3
      <3>2. QED
        BY <3>1, <2>1, <1>1, <1>6, <1>8, Zenon DEF LeftOut
    <2>4. QED
      BY <2>2, <2>3
  <1>25. Further(start, tokens, at, tok, b, bin2, bytes2, sizes2, at2)
    BY <1>1, <1>2, <1>7, <1>8, <1>23, <1>24, Zenon DEF tokens2, Further
  <1>26. QED
    BY <1>25

----------------------------------------------------------------------------
(***************************************************************************)
(* A call that starts a value takes the bytes of a move of the way.        *)
(***************************************************************************)
LEMMA TakesByte ==
    ASSUME TypeOK, NEW bin, NEW bytes, NEW sizes, NEW flags, Taken(bin, bytes, sizes, flags),
           NEW v \in Nat, NEW m \in Nat, m = Len(bin) + 1, m <= Len(input), NEW more,
           \/ v = input[m]
           \/ m \in more /\ v \in {0, 1} /\ input[m] \notin {0, 1}
    PROVE  /\ Taken(Append(bin, v), Append(bytes, v), sizes, flags \cup more)
           /\ Longer(bytes, Append(bytes, v)) /\ SizesKept(sizes, sizes, bytes)
           /\ Len(Append(bin, v)) = Len(bin) + 1 /\ Len(Append(bytes, v)) = Len(bytes) + 1
           /\ Append(bytes, v)[Len(bytes) + 1] = v
  <1>1. bin \in Seq(Nat) /\ bytes \in Seq(Nat)
    BY TakenFacts
  <1>2. Laid(bin, bytes, sizes) /\ FromInput(bin, flags)
    BY DEF Taken
  <1>3. /\ Laid(Append(bin, v), Append(bytes, v), sizes)
        /\ Longer(bytes, Append(bytes, v)) /\ SizesKept(sizes, sizes, bytes)
    BY <1>2, LaidByte
  <1>4. FromInput(Append(bin, v), flags \cup more)
    BY <1>1, <1>2, FromInputMore
  <1>5. QED
    BY <1>1, <1>3, <1>4, AppendFacts DEF Taken

LEMMA TakesInput ==
    ASSUME TypeOK, NEW bin, NEW bytes, NEW sizes, NEW flags, Taken(bin, bytes, sizes, flags),
           NEW v \in Nat, NEW m \in Nat, m = Len(bin) + 1, m <= Len(input), v = input[m]
    PROVE  /\ Taken(Append(bin, v), Append(bytes, v), sizes, flags)
           /\ Longer(bytes, Append(bytes, v)) /\ SizesKept(sizes, sizes, bytes)
           /\ Len(Append(bin, v)) = Len(bin) + 1 /\ Len(Append(bytes, v)) = Len(bytes) + 1
           /\ Append(bytes, v)[Len(bytes) + 1] = v
  <1>1. bin \in Seq(Nat) /\ bytes \in Seq(Nat)
    BY TakenFacts
  <1>2. Laid(bin, bytes, sizes) /\ FromInput(bin, flags)
    BY DEF Taken
  <1>3. /\ Laid(Append(bin, v), Append(bytes, v), sizes)
        /\ Longer(bytes, Append(bytes, v)) /\ SizesKept(sizes, sizes, bytes)
    BY <1>2, LaidByte
  <1>4. FromInput(Append(bin, v), flags \cup {})
    BY <1>1, <1>2, FromInputMore
  <1>5. flags \cup {} = flags
    OBVIOUS
  <1>6. QED
    BY <1>1, <1>3, <1>4, <1>5, AppendFacts DEF Taken

LEMMA TakesSize ==
    ASSUME TypeOK, NEW bin, NEW bytes, NEW sizes, NEW flags, Taken(bin, bytes, sizes, flags),
           NEW v \in Nat, NEW m \in Nat, m = Len(bin) + 1, m <= Len(input), v = input[m],
           NEW new, new = [position |-> Len(bytes), size |-> v]
    PROVE  /\ Taken(Append(bin, v), bytes, Append(sizes, new), flags)
           /\ Longer(bytes, bytes) /\ SizesKept(sizes, Append(sizes, new), bytes)
           /\ Len(Append(bin, v)) = Len(bin) + 1 /\ Len(Append(sizes, new)) = Len(sizes) + 1
           /\ Append(sizes, new)[Len(sizes) + 1] = new
  <1>1. bin \in Seq(Nat) /\ sizes \in Seq(Sizes) /\ Len(bytes) \in Nat
    BY TakenFacts
  <1>2. Laid(bin, bytes, sizes) /\ FromInput(bin, flags)
    BY DEF Taken
  <1>3. /\ Laid(Append(bin, v), bytes, Append(sizes, new))
        /\ Longer(bytes, bytes) /\ SizesKept(sizes, Append(sizes, new), bytes)
    BY <1>2, LaidSize
  <1>4. FromInput(Append(bin, v), flags \cup {})
    BY <1>1, <1>2, FromInputMore
  <1>5. flags \cup {} = flags
    OBVIOUS
  <1>6. new \in Sizes
    BY <1>1 DEF Sizes
  <1>7. Len(Append(bin, v)) = Len(bin) + 1
    BY <1>1, AppendFacts
  <1>8. Len(Append(sizes, new)) = Len(sizes) + 1 /\ Append(sizes, new)[Len(sizes) + 1] = new
    BY <1>1, <1>6, AppendFacts
  <1>9. Taken(Append(bin, v), bytes, Append(sizes, new), flags)
    BY <1>3, <1>4, <1>5, Zenon DEF Taken
  <1>10. QED
    BY <1>3, <1>7, <1>8, <1>9, Zenon

LEMMA LongerStill ==
    ASSUME NEW bytes, NEW bytes1, NEW bytes2, Longer(bytes, bytes1), Longer(bytes1, bytes2),
           NEW sizes, NEW sizes2, SizesKept(sizes, sizes2, bytes1)
    PROVE  Longer(bytes, bytes2) /\ SizesKept(sizes, sizes2, bytes)
  <1>1. PICK n, n1, n2 \in Nat : /\ n = Len(bytes) /\ n1 = Len(bytes1) /\ n2 = Len(bytes2)
                                 /\ n <= n1 /\ n1 <= n2
    BY DEF Longer
  <1>2. n <= n2
    BY ONLY <1>1, n \in Nat, n1 \in Nat, n2 \in Nat
  <1>3. ASSUME NEW i \in 1 .. n PROVE bytes2[i] = bytes[i]
    <2>1. i \in 1 .. n1
      BY ONLY <1>1, n \in Nat, n1 \in Nat, i \in 1 .. n
    <2>2. QED
      BY <2>1, <1>1, Zenon DEF Longer
  <1>4. Longer(bytes, bytes2)
    BY <1>1, <1>2, <1>3, Zenon DEF Longer
  <1>5. ASSUME NEW i \in Len(sizes) + 1 .. Len(sizes2)
        PROVE  sizes2[i].position >= Len(bytes)
    <2>1. sizes2[i].position >= n1
      BY <1>1, Zenon DEF SizesKept
    <2>2. i \in 1 .. Len(sizes2) /\ sizes2 \in Seq(Sizes)
      BY DEF SizesKept
    <2>3. sizes2[i].position \in Nat
      BY <2>2, OneSize
    <2>4. QED
      BY <2>1, <2>3, <1>1
  <1>6. SizesKept(sizes, sizes2, bytes)
    BY <1>5, Zenon DEF SizesKept
  <1>7. QED
    BY <1>4, <1>6

\* The way is at a, and read bytes from here were already taken.
Standing(read, a, bin, bytes, sizes, flags) ==
    /\ TypeOK /\ read \in Nat
    /\ Taken(bin, bytes, sizes, flags) /\ Len(bin) = pos + read
    /\ a.bytes = Len(bytes) /\ a.sizes = Len(sizes)

LEMMA StandingFacts ==
    ASSUME NEW read, NEW a, NEW bin, NEW bytes, NEW sizes, NEW flags,
           Standing(read, a, bin, bytes, sizes, flags)
    PROVE  /\ pos \in Nat /\ read \in Nat /\ Len(input) \in Nat /\ Left = Len(input) - pos
           /\ a.bytes \in Nat /\ a.sizes \in Nat
           /\ a.bytes = Len(bytes) /\ a.sizes = Len(sizes)
           /\ bin \in Seq(Nat) /\ bytes \in Seq(Nat) /\ sizes \in Seq(Sizes)
           /\ Len(bin) = pos + read /\ a.bytes + a.sizes = pos + read
  <1>1. TypeOK /\ read \in Nat /\ Taken(bin, bytes, sizes, flags) /\ Len(bin) = pos + read
    BY DEF Standing
  <1>2. /\ bin \in Seq(Nat) /\ bytes \in Seq(Nat) /\ sizes \in Seq(Sizes)
        /\ Len(bytes) \in Nat /\ Len(sizes) \in Nat
        /\ Len(bin) = Len(bytes) + Len(sizes) /\ Len(input) \in Nat
    BY <1>1, TakenFacts
  <1>3. pos \in Nat /\ Left = Len(input) - pos
    BY <1>1 DEF TypeOK, Left
  <1>4. a.bytes = Len(bytes) /\ a.sizes = Len(sizes)
    BY DEF Standing
  <1>5. QED
    BY <1>1, <1>2, <1>3, <1>4

\* Where the byte of an optional may be another than that of the input.
Place(t, a) == {m \in {a.bytes + a.sizes + 1} : Optional(t)}

Flagged(t, p, read, a, bytes, sizes, flags, bin1, bytes1) ==
    /\ \E more \in SUBSET Place(t, a) : Taken(bin1, bytes1, sizes, flags \cup more)
    /\ Longer(bytes, bytes1) /\ SizesKept(sizes, sizes, bytes)
    /\ Len(bin1) = pos + read + Flag(t) /\ Len(bytes1) = a.bytes + Flag(t)
    /\ Optional(t) => bytes1[a.bytes + 1] = IF p THEN 1 ELSE 0

\* The byte of an optional is taken for what the code takes it for.
LEMMA FlagTaken ==
    ASSUME NEW read, NEW a, NEW bin, NEW bytes, NEW sizes, NEW flags,
           Standing(read, a, bin, bytes, sizes, flags), NEW t, NEW p \in BOOLEAN,
           Optional(t) => Left > read /\ p \in Presences(ByteAt(read + 1))
    PROVE  \E bin1, bytes1 : Flagged(t, p, read, a, bytes, sizes, flags, bin1, bytes1)
  <1>1. /\ pos \in Nat /\ read \in Nat /\ Len(input) \in Nat /\ Left = Len(input) - pos
        /\ a.bytes \in Nat /\ a.sizes \in Nat
        /\ a.bytes = Len(bytes) /\ a.sizes = Len(sizes)
        /\ bin \in Seq(Nat) /\ bytes \in Seq(Nat) /\ sizes \in Seq(Sizes)
        /\ Len(bin) = pos + read /\ a.bytes + a.sizes = pos + read
    BY StandingFacts
  <1>2. TypeOK /\ Taken(bin, bytes, sizes, flags)
    BY DEF Standing
  <1>3. CASE ~Optional(t)
    <2>1. Flag(t) = 0
      BY <1>3 DEF Flag
    <2>2. Longer(bytes, bytes)
      BY <1>1 DEF Longer
    <2>3. SizesKept(sizes, sizes, bytes)
      BY <1>1 DEF SizesKept
    <2>4. {} \in SUBSET Place(t, a) /\ flags \cup {} = flags
      OBVIOUS
    <2>5. Taken(bin, bytes, sizes, flags \cup {})
      BY <2>4, <1>2
    <2>6. pos + read + 0 = pos + read /\ a.bytes + 0 = a.bytes
      BY <1>1
    <2>7. Flagged(t, p, read, a, bytes, sizes, flags, bin, bytes)
      BY <2>1, <2>2, <2>3, <2>4, <2>5, <2>6, <1>1, <1>3, Zenon DEF Flagged
    <2>8. QED
      BY <2>7
  <1>4. CASE Optional(t)
    <2>1. Flag(t) = 1
      BY <1>4 DEF Flag
    <2>2. PICK v \in Nat : v = IF p THEN 1 ELSE 0
      OBVIOUS
    <2>3. PICK m \in Nat : m = pos + read + 1
      BY <1>1
    <2>4. m = Len(bin) + 1 /\ m <= Len(input) /\ m = a.bytes + a.sizes + 1
      BY <2>3, <1>1, <1>4
    <2>5. m \in Place(t, a) /\ Place(t, a) \in SUBSET Place(t, a)
      BY <2>4, <1>4 DEF Place
    <2>6. \/ v = input[m]
          \/ m \in Place(t, a) /\ v \in {0, 1} /\ input[m] \notin {0, 1}
      <3>1. ByteAt(read + 1) = input[m]
        <4>1. pos + (read + 1) = m
          BY <2>3, <1>1
        <4>2. QED
          BY <4>1 DEF ByteAt
      <3>2. PICK c : c = input[m]
        OBVIOUS
      <3>3. p \in Presences(c)
        BY <3>1, <3>2, <1>4
      <3>4. CASE c \in {0, 1}
        <4>1. p = (c = 1)
          BY <3>3, <3>4 DEF Presences
        <4>2. QED
          BY <4>1, <3>2, <3>4, <2>2
      <3>5. CASE c \notin {0, 1}
        BY <3>2, <3>5, <2>2, <2>5
      <3>6. QED
        BY <3>4, <3>5
    <2> DEFINE bin1 == Append(bin, v)
               bytes1 == Append(bytes, v)
    <2>7. /\ Taken(bin1, bytes1, sizes, flags \cup Place(t, a))
          /\ Longer(bytes, bytes1) /\ SizesKept(sizes, sizes, bytes)
          /\ Len(bin1) = Len(bin) + 1 /\ Len(bytes1) = Len(bytes) + 1
          /\ bytes1[Len(bytes) + 1] = v
      BY <2>4, <2>6, <1>2, TakesByte
    <2> HIDE DEF bin1, bytes1
    <2>8. Flagged(t, p, read, a, bytes, sizes, flags, bin1, bytes1)
      BY <2>1, <2>2, <2>5, <2>7, <1>1, Zenon DEF Flagged
    <2>9. QED
      BY <2>8
  <1>5. QED
    BY <1>3, <1>4

----------------------------------------------------------------------------
(***************************************************************************)
(* What a call that starts a value makes of the way, unless it fails.      *)
(***************************************************************************)
Onwards(t, allow, belowW, a, lexemes, bytes, sizes, flags,
        tok, b, bin2, bytes2, sizes2, n, st) ==
    /\ Returned(n, Append(lexemes, tok), st) /\ st \in Seq(Entries) /\ n \in Nat
    /\ tok \in Tokens(Strings) /\ tok.type \in ValueTokens
    /\ ValueMove(t, allow, belowW, a, tok, b, bytes2, sizes2)
    /\ \E more \in SUBSET Place(t, a) : Taken(bin2, bytes2, sizes2, flags \cup more)
    /\ Len(bin2) = pos + n
    /\ Longer(bytes, bytes2) /\ SizesKept(sizes, sizes2, bytes)
    /\ b = Point(b.stack, FALSE, Len(bytes2), Len(sizes2))
    /\ b.stack \in Seq(LevelSet) /\ Fitting(b.stack, sizes2)
    /\ Alike(st, b.stack, sizes2)

Gives(t, allow, belowW, a, lexemes, bytes, sizes, flags) ==
    \/ Failed
    \/ \E tok, b, bin2, bytes2, sizes2, n, st :
          Onwards(t, allow, belowW, a, lexemes, bytes, sizes, flags,
                  tok, b, bin2, bytes2, sizes2, n, st)

\* What a value is started upon.
Bearing(t, allow, read, below, belowW, a, bin, bytes, sizes, flags) ==
    /\ Standing(read, a, bin, bytes, sizes, flags)
    /\ t \in Types /\ allow \in BOOLEAN
    /\ below \in Seq(Entries) /\ belowW \in Seq(LevelSet)
    /\ Fitting(belowW, sizes) /\ Alike(below, belowW, sizes)

LEMMA GivesByReturn ==
    ASSUME NEW t, NEW allow, NEW belowW, NEW a, NEW lexemes, NEW bytes, NEW sizes, NEW flags,
           NEW n \in Nat, NEW st \in Seq(Entries), NEW tok \in Tokens(Strings),
           tok.type \in ValueTokens, NEW b, NEW bin2, NEW bytes2, NEW sizes2,
           Return(n, Append(lexemes, tok), st),
           ValueMove(t, allow, belowW, a, tok, b, bytes2, sizes2),
           \E more \in SUBSET Place(t, a) : Taken(bin2, bytes2, sizes2, flags \cup more),
           Len(bin2) = pos + n, Longer(bytes, bytes2), SizesKept(sizes, sizes2, bytes),
           b = Point(b.stack, FALSE, Len(bytes2), Len(sizes2)),
           b.stack \in Seq(LevelSet), Fitting(b.stack, sizes2), Alike(st, b.stack, sizes2)
    PROVE  Gives(t, allow, belowW, a, lexemes, bytes, sizes, flags)
  <1>1. CASE Len(st) > MaxStack
    <2>1. Fail("recursion_limit_reached")
      BY <1>1 DEF Return
    <2>2. "recursion_limit_reached" \in Errors
      BY DEF Errors
    <2>3. QED
      BY <2>1, <2>2, Zenon DEF Failed, Gives
  <1>2. CASE ~(Len(st) > MaxStack)
    <2>1. Returned(n, Append(lexemes, tok), st)
      BY <1>2 DEF Return, Returned
    <2>2. Onwards(t, allow, belowW, a, lexemes, bytes, sizes, flags,
                  tok, b, bin2, bytes2, sizes2, n, st)
      BY <2>1, Zenon DEF Onwards
    <2>3. QED
      BY <2>2, Zenon DEF Gives
  <1>3. QED
    BY <1>1, <1>2

\* The tokens a value can start with.
LEMMA TokenFacts ==
    /\ \A type \in {"null", "start_object", "start_array"} :
          /\ Token(type) \in Tokens(Strings) /\ Token(type).type = type
          /\ Token(type).type \in ValueTokens
    /\ \A type \in {"end_object", "end_array"} :
          /\ Token(type) \in Tokens(Strings) /\ Token(type).type = type
          /\ Token(type).type \notin ValueTokens
    /\ \A s \in Strings : /\ Text("string", s) \in Tokens(Strings)
                          /\ Text("string", s).type = "string"
                          /\ Text("string", s).type \in ValueTokens
                          /\ Text("key", s) \in Tokens(Strings)
                          /\ Text("key", s).type = "key"
                          /\ Text("key", s).type \notin ValueTokens
  BY DEF Token, Tokens, Text, TokenTypes, ValueTokens

LEMMA GivesAbsent ==
    ASSUME NEW t, NEW allow, NEW read, NEW below, NEW belowW, NEW a,
           NEW bin, NEW bytes, NEW sizes, NEW flags,
           Bearing(t, allow, read, below, belowW, a, bin, bytes, sizes, flags),
           NEW lexemes, AbsentOptional(t, read, lexemes, below)
    PROVE  Gives(t, allow, belowW, a, lexemes, bytes, sizes, flags)
  <1>1. Standing(read, a, bin, bytes, sizes, flags) /\ below \in Seq(Entries)
        /\ belowW \in Seq(LevelSet) /\ Fitting(belowW, sizes) /\ Alike(below, belowW, sizes)
    BY DEF Bearing
  <1>2. /\ pos \in Nat /\ read \in Nat /\ a.bytes \in Nat /\ a.sizes = Len(sizes)
    BY <1>1, StandingFacts
  <1>3. /\ Optional(t) /\ Left > read /\ FALSE \in Presences(ByteAt(read + 1))
        /\ Return(read + 1, Append(lexemes, Token("null")), below)
    BY DEF AbsentOptional
  <1>4. PICK bin1, bytes1 : Flagged(t, FALSE, read, a, bytes, sizes, flags, bin1, bytes1)
    BY <1>1, <1>3, FlagTaken
  <1>5. /\ \E more \in SUBSET Place(t, a) : Taken(bin1, bytes1, sizes, flags \cup more)
        /\ Longer(bytes, bytes1) /\ SizesKept(sizes, sizes, bytes)
        /\ Len(bin1) = pos + read + 1 /\ Len(bytes1) = a.bytes + 1 /\ bytes1[a.bytes + 1] = 0
    BY <1>3, <1>4 DEF Flagged, Flag
  <1> DEFINE b == Point(belowW, FALSE, a.bytes + 1, a.sizes)
  <1>6. ValueMove(t, allow, belowW, a, Token("null"), b, bytes1, sizes)
    <2>1. a.bytes < Len(bytes1)
      BY <1>2, <1>5
    <2>2. AbsentMove(t, belowW, a, Token("null"), b, bytes1)
      BY <2>1, <1>3, <1>5, Zenon DEF AbsentMove
    <2>3. QED
      BY <2>2, Zenon DEF ValueMove
  <1>7. b.stack = belowW /\ b = Point(b.stack, FALSE, Len(bytes1), Len(sizes))
    BY <1>2, <1>5 DEF Point
  <1>8. read + 1 \in Nat /\ Len(bin1) = pos + (read + 1)
    BY <1>2, <1>5
  <1> HIDE DEF b
  <1>9. Token("null") \in Tokens(Strings) /\ Token("null").type \in ValueTokens
    BY TokenFacts
  <1>10. QED
    BY <1>1, <1>3, <1>5, <1>6, <1>7, <1>8, <1>9, GivesByReturn

LEMMA GivesScalar ==
    ASSUME NEW t, NEW allow, NEW read, NEW below, NEW belowW, NEW a,
           NEW bin, NEW bytes, NEW sizes, NEW flags,
           Bearing(t, allow, read, below, belowW, a, bin, bytes, sizes, flags),
           NEW bin1, NEW bytes1, Flagged(t, TRUE, read, a, bytes, sizes, flags, bin1, bytes1),
           NEW lexemes, StartBuiltin(t, read, lexemes, below)
    PROVE  Gives(t, allow, belowW, a, lexemes, bytes, sizes, flags)
  <1>1. Standing(read, a, bin, bytes, sizes, flags) /\ below \in Seq(Entries)
        /\ belowW \in Seq(LevelSet) /\ Fitting(belowW, sizes) /\ Alike(below, belowW, sizes)
    BY DEF Bearing
  <1>2. /\ TypeOK /\ pos \in Nat /\ read \in Nat /\ a.bytes \in Nat /\ a.sizes = Len(sizes)
        /\ Len(input) \in Nat /\ Left = Len(input) - pos
    BY <1>1, StandingFacts DEF Standing
  <1>3. PICK f \in Nat : f = Flag(t) /\ f = Prefix(t)
    BY DEF Flag, Prefix
  <1>4. PICK more \in SUBSET Place(t, a) : Taken(bin1, bytes1, sizes, flags \cup more)
    BY DEF Flagged
  <1>5. /\ Longer(bytes, bytes1) /\ SizesKept(sizes, sizes, bytes)
        /\ Len(bin1) = pos + read + f /\ Len(bytes1) = a.bytes + f
        /\ Optional(t) => bytes1[a.bytes + 1] = 1
    BY <1>3 DEF Flagged
  <1>6. PICK at \in Nat : at = read + f + 1
    BY <1>2
  <1>7. /\ Kind[Base(t)] = "builtin"
        /\ IF Left < at THEN Fail("overrun")
           ELSE Return(at, Append(lexemes, Text("string", TextOf[ByteAt(at)])), below)
    BY <1>3, <1>6 DEF StartBuiltin
  <1>8. CASE Left < at
    <2>1. "overrun" \in Errors
      BY DEF Errors
    <2>2. QED
      BY <2>1, <1>7, <1>8, Zenon DEF Failed, Gives
  <1>9. CASE ~(Left < at)
    <2>1. PICK m \in Nat : m = pos + at
      BY <1>2
    <2>2. m = Len(bin1) + 1 /\ m <= Len(input) /\ 0 < at /\ at <= Left
      BY <2>1, <1>2, <1>5, <1>6, <1>9
    <2>3. PICK v \in Byte : v = ByteAt(at) /\ v = input[m] /\ v \in Nat /\ TextOf[v] \in Strings
      <3>1. ByteAt(at) \in Byte /\ ByteAt(at) \in Nat /\ TextOf[ByteAt(at)] \in Strings
        BY <2>2, <1>2, ByteFacts
      <3>2. ByteAt(at) = input[m]
        BY <2>1 DEF ByteAt
      <3>3. QED
        BY <3>1, <3>2
    <2> DEFINE bin2 == Append(bin1, v)
               bytes2 == Append(bytes1, v)
               tok == Text("string", TextOf[v])
               b == Point(belowW, FALSE, a.bytes + f + 1, a.sizes)
    <2>4. /\ Taken(bin2, bytes2, sizes, flags \cup more)
          /\ Longer(bytes1, bytes2) /\ SizesKept(sizes, sizes, bytes1)
          /\ Len(bin2) = Len(bin1) + 1 /\ Len(bytes2) = Len(bytes1) + 1
          /\ bytes2[Len(bytes1) + 1] = v
      BY <2>2, <2>3, <1>2, <1>4, TakesInput
    <2>5. Longer(bytes, bytes2)
      BY <2>4, <1>5, LongerStill
    <2> HIDE DEF bin2, bytes2
    <2>6. Len(bin2) = pos + at /\ Len(bytes2) = a.bytes + f + 1
      BY <2>1, <2>2, <2>4, <1>5
    <2>7. ValueMove(t, allow, belowW, a, tok, b, bytes2, sizes)
      <3>1. a.bytes + f < Len(bytes2) /\ bytes2[a.bytes + f + 1] = v
        BY <2>4, <2>6, <1>2, <1>5
      <3>2. ScalarMove(t, belowW, a.bytes + f, a, tok, b, bytes2)
        BY <3>1, <2>3, <1>7, Zenon DEF ScalarMove, Text
      <3>3. Optional(t) => a.bytes < Len(bytes2) /\ bytes2[a.bytes + 1] = 1
        <4>1. SUFFICES ASSUME Optional(t)
                       PROVE  a.bytes < Len(bytes2) /\ bytes2[a.bytes + 1] = 1
          OBVIOUS
        <4>2. f = 1
          BY <4>1, <1>3 DEF Flag
        <4>3. a.bytes + 1 \in 1 .. Len(bytes1) /\ a.bytes < Len(bytes2)
          BY <4>2, <2>6, <1>2, <1>5
        <4>4. bytes2[a.bytes + 1] = bytes1[a.bytes + 1]
          BY <4>3, <2>4, Zenon DEF Longer
        <4>5. QED
          BY <4>1, <4>3, <4>4, <1>5
      <3>4. QED
        BY <3>2, <3>3, <1>3, Zenon DEF ValueMove
    <2>8. b.stack = belowW /\ b = Point(b.stack, FALSE, Len(bytes2), Len(sizes))
      BY <2>6, <1>2 DEF Point
    <2>9. tok \in Tokens(Strings) /\ tok.type \in ValueTokens
      BY <2>3, TokenFacts
    <2>10. Return(at, Append(lexemes, tok), below)
      BY <2>3, <1>7, <1>9, Zenon
    <2> HIDE DEF b, tok
    <2>11. QED
      BY <2>4, <2>5, <2>6, <2>7, <2>8, <2>9, <2>10, <1>1, <1>5, GivesByReturn
  <1>10. QED
    BY <1>8, <1>9

\* A new level on top, as in the stack of the code.
LEMMA PushAlike ==
    ASSUME NEW below \in Seq(Entries), NEW belowW \in Seq(LevelSet), NEW sizes \in Seq(Sizes),
           Alike(below, belowW, sizes), Fitting(belowW, sizes),
           NEW t \in Types, NEW allow \in BOOLEAN, NEW size \in Nat, NEW number \in Nat,
           Kind[t] = "array" => number \in 1 .. Len(sizes) /\ size = sizes[number].size,
           NEW st, st = Append(below, Entry(t, allow, size)),
           NEW ws, ws = Append(belowW, Level(t, allow, number))
    PROVE  /\ st \in Seq(Entries) /\ ws \in Seq(LevelSet)
           /\ Alike(st, ws, sizes) /\ Fitting(ws, sizes)
  <1>1. PICK e \in Entries : e = Entry(t, allow, size)
    BY DEF Entry, Entries
  <1>2. PICK w \in LevelSet : w = Level(t, allow, number)
    BY DEF Level, LevelSet
  <1>3. AlikeLevel(e, w, sizes)
    BY <1>1, <1>2 DEF AlikeLevel, Entry, Level
  <1>4. Alike(st, ws, sizes)
    BY <1>1, <1>2, <1>3, AlikeMore
  <1>5. Fits(w, sizes)
    <2>1. w.type = t /\ w.position = -1 /\ w.size_insertion_index = number
      BY <1>2 DEF Level
    <2>2. Kind[t] = "array" => sizes[number].size \in Nat
      BY OneSize
    <2>3. Kind[t] = "fixed_array" => Size[t] \in Nat
      BY TableAssumption
    <2>4. Len(Fields[t]) \in Nat
      <3>1. 0 \in Nat
        OBVIOUS
      <3>2. QED
        BY <3>1, FieldFacts
    <2>5. \A k \in Nat : -1 < k
      OBVIOUS
    <2>6. QED
      BY <2>1, <2>2, <2>3, <2>4, <2>5, Zenon DEF Fits, WithinSize
  <1>6. Fitting(ws, sizes)
    <2>1. /\ Len(ws) = Len(belowW) + 1 /\ ws[Len(belowW) + 1] = w
          /\ \A i \in 1 .. Len(belowW) : ws[i] = belowW[i]
      BY <1>2, AppendFacts
    <2>2. \A i \in 1 .. Len(ws) : i = Len(belowW) + 1 \/ i \in 1 .. Len(belowW)
      BY <2>1
    <2>3. QED
      BY <2>1, <2>2, <1>5, Zenon DEF Fitting
  <1>7. QED
    BY <1>1, <1>2, <1>4, <1>6

LEMMA GivesOpen ==
    ASSUME NEW t, NEW allow, NEW read, NEW below, NEW belowW, NEW a,
           NEW bin, NEW bytes, NEW sizes, NEW flags,
           Bearing(t, allow, read, below, belowW, a, bin, bytes, sizes, flags),
           NEW bin1, NEW bytes1, Flagged(t, TRUE, read, a, bytes, sizes, flags, bin1, bytes1),
           NEW lexemes,
           \/ StartStruct(t, allow, read, lexemes, below)
           \/ StartFixedArray(t, read, lexemes, below)
           \/ StartVariant(t, allow, read, lexemes, below)
    PROVE  Gives(t, allow, belowW, a, lexemes, bytes, sizes, flags)
  <1>1. /\ Standing(read, a, bin, bytes, sizes, flags) /\ below \in Seq(Entries)
        /\ belowW \in Seq(LevelSet) /\ Fitting(belowW, sizes) /\ Alike(below, belowW, sizes)
        /\ t \in Types /\ allow \in BOOLEAN
    BY DEF Bearing
  <1>2. /\ TypeOK /\ pos \in Nat /\ read \in Nat /\ a.bytes \in Nat /\ a.sizes = Len(sizes)
        /\ sizes \in Seq(Sizes) /\ Base(t) \in Types
    BY <1>1, StandingFacts, BaseFacts DEF Standing
  <1>3. PICK f \in Nat : f = Flag(t) /\ f = Prefix(t)
    BY DEF Flag, Prefix
  <1>4. /\ \E more \in SUBSET Place(t, a) : Taken(bin1, bytes1, sizes, flags \cup more)
        /\ Longer(bytes, bytes1) /\ SizesKept(sizes, sizes, bytes)
        /\ Len(bin1) = pos + read + f /\ Len(bytes1) = a.bytes + f
        /\ Optional(t) => bytes1[a.bytes + 1] = 1
    BY <1>3 DEF Flagged
  <1>5. PICK n \in Nat : n = read + f
    BY <1>2
  <1> DEFINE al == allow /\ Kind[Base(t)] # "fixed_array"
             tok == Token(IF Kind[Base(t)] = "struct" THEN "start_object" ELSE "start_array")
             st == Append(below, Entry(Base(t), al, 0))
             ws == Append(belowW, Level(Base(t), al, 0))
             b == Point(ws, FALSE, a.bytes + f, a.sizes)
  <1>6. /\ Kind[Base(t)] \in {"struct", "variant", "fixed_array"}
        /\ Return(n, Append(lexemes, tok), st)
    <2>1. CASE StartStruct(t, allow, read, lexemes, below)
      <3>1. /\ Kind[Base(t)] = "struct"
            /\ Return(n, Append(lexemes, Token("start_object")),
                      Append(below, Entry(Base(t), allow, 0)))
        BY <2>1, <1>3, <1>5 DEF StartStruct
      <3>2. al = allow /\ tok = Token("start_object")
        BY <3>1, <1>1
      <3> HIDE DEF al, tok
      <3>3. QED
        BY <3>1, <3>2
    <2>2. CASE StartFixedArray(t, read, lexemes, below)
      <3>1. /\ Kind[Base(t)] = "fixed_array"
            /\ Return(n, Append(lexemes, Token("start_array")),
                      Append(below, Entry(Base(t), FALSE, 0)))
        BY <2>2, <1>3, <1>5 DEF StartFixedArray
      <3>2. al = FALSE /\ tok = Token("start_array")
        BY <3>1
      <3> HIDE DEF al, tok
      <3>3. QED
        BY <3>1, <3>2
    <2>3. CASE StartVariant(t, allow, read, lexemes, below)
      <3>1. /\ Kind[Base(t)] = "variant"
            /\ Return(n, Append(lexemes, Token("start_array")),
                      Append(below, Entry(Base(t), allow, 0)))
        BY <2>3, <1>3, <1>5 DEF StartVariant
      <3>2. al = allow /\ tok = Token("start_array")
        BY <3>1, <1>1
      <3> HIDE DEF al, tok
      <3>3. QED
        BY <3>1, <3>2
    <2>4. QED
      BY <2>1, <2>2, <2>3
  <1>7. tok \in Tokens(Strings) /\ tok.type \in ValueTokens
    BY TokenFacts
  <1>8. al \in BOOLEAN
    BY <1>1
  <1>9. Kind[Base(t)] # "array"
    BY <1>6
  <1>10. OpenMove(t, allow, belowW, a.bytes + f, a, tok, b)
    BY <1>6, Zenon DEF OpenMove
  <1> HIDE DEF al, tok
  <1>11. /\ st \in Seq(Entries) /\ ws \in Seq(LevelSet)
         /\ Alike(st, ws, sizes) /\ Fitting(ws, sizes)
    <2>1. PICK s, w, z : s = st /\ w = ws /\ z = 0
      OBVIOUS
    <2>2. /\ s = Append(below, Entry(Base(t), al, z)) /\ z \in Nat
          /\ w = Append(belowW, Level(Base(t), al, z))
      BY <2>1
    <2> HIDE DEF st, ws
    <2>3. /\ s \in Seq(Entries) /\ w \in Seq(LevelSet)
          /\ Alike(s, w, sizes) /\ Fitting(w, sizes)
      <3>1. PICK ty \in Types : ty = Base(t)
        BY <1>2
      <3>2. Kind[ty] = "array" => z \in 1 .. Len(sizes) /\ z = sizes[z].size
        BY <3>1, <1>9
      <3>3. s = Append(below, Entry(ty, al, z)) /\ w = Append(belowW, Level(ty, al, z))
        BY <3>1, <2>2
      <3>4. QED
        BY ONLY <3>2, <3>3, <2>2, <1>1, <1>2, <1>8, PushAlike
    <2>4. QED
      BY <2>1, <2>3
  <1>12. ValueMove(t, allow, belowW, a, tok, b, bytes1, sizes)
    <2>1. Optional(t) => a.bytes < Len(bytes1) /\ bytes1[a.bytes + 1] = 1
      BY <1>2, <1>3, <1>4 DEF Flag
    <2>2. QED
      BY <2>1, <1>3, <1>10, Zenon DEF ValueMove
  <1>13. b.stack = ws /\ b = Point(b.stack, FALSE, Len(bytes1), Len(sizes))
    BY <1>2, <1>4 DEF Point
  <1>14. Len(bin1) = pos + n
    BY <1>2, <1>4, <1>5
  <1> HIDE DEF b, st, ws
  <1>15. QED
    BY <1>4, <1>6, <1>7, <1>11, <1>12, <1>13, <1>14, GivesByReturn

LEMMA GivesArray ==
    ASSUME NEW t, NEW allow, NEW read, NEW below, NEW belowW, NEW a,
           NEW bin, NEW bytes, NEW sizes, NEW flags,
           Bearing(t, allow, read, below, belowW, a, bin, bytes, sizes, flags),
           NEW bin1, NEW bytes1, Flagged(t, TRUE, read, a, bytes, sizes, flags, bin1, bytes1),
           NEW lexemes, StartArray(t, read, lexemes, below)
    PROVE  Gives(t, allow, belowW, a, lexemes, bytes, sizes, flags)
  <1>1. /\ Standing(read, a, bin, bytes, sizes, flags) /\ below \in Seq(Entries)
        /\ belowW \in Seq(LevelSet) /\ Fitting(belowW, sizes) /\ Alike(below, belowW, sizes)
        /\ t \in Types /\ allow \in BOOLEAN
    BY DEF Bearing
  <1>2. /\ TypeOK /\ pos \in Nat /\ read \in Nat /\ a.bytes \in Nat
        /\ a.sizes = Len(sizes) /\ a.sizes \in Nat
        /\ Len(input) \in Nat /\ Left = Len(input) - pos
        /\ sizes \in Seq(Sizes) /\ Base(t) \in Types
    BY <1>1, StandingFacts, BaseFacts DEF Standing
  <1>3. PICK f \in Nat : f = Flag(t) /\ f = Prefix(t)
    BY DEF Flag, Prefix
  <1>4. PICK more \in SUBSET Place(t, a) : Taken(bin1, bytes1, sizes, flags \cup more)
    BY DEF Flagged
  <1>5. /\ Longer(bytes, bytes1) /\ SizesKept(sizes, sizes, bytes)
        /\ Len(bin1) = pos + read + f /\ Len(bytes1) = a.bytes + f
        /\ Optional(t) => bytes1[a.bytes + 1] = 1
    BY <1>3 DEF Flagged
  <1>6. PICK at \in Nat : at = read + f + 1
    BY <1>2
  <1>7. /\ Kind[Base(t)] = "array"
        /\ IF Left < at THEN Fail("overrun")
           ELSE Return(at, Append(lexemes, Token("start_array")),
                       Append(below, Entry(Base(t), FALSE, ByteAt(at))))
    BY <1>3, <1>6 DEF StartArray
  <1>8. CASE Left < at
    <2>1. "overrun" \in Errors
      BY DEF Errors
    <2>2. QED
      BY <2>1, <1>7, <1>8, Zenon DEF Failed, Gives
  <1>9. CASE ~(Left < at)
    <2>1. PICK m \in Nat : m = pos + at
      BY <1>2
    <2>2. m = Len(bin1) + 1 /\ m <= Len(input) /\ 0 < at /\ at <= Left
      BY <2>1, <1>2, <1>5, <1>6, <1>9
    <2>3. PICK v \in Nat : v = ByteAt(at) /\ v = input[m]
      <3>1. ByteAt(at) \in Nat
        BY <2>2, <1>2, ByteFacts
      <3>2. ByteAt(at) = input[m]
        BY <2>1 DEF ByteAt
      <3>3. QED
        BY <3>1, <3>2
    <2>4. PICK new : new = [position |-> Len(bytes1), size |-> v]
      OBVIOUS
    <2>5. PICK k \in Nat : k = a.sizes + 1
      BY <1>2
    <2> DEFINE bin2 == Append(bin1, v)
               sizes2 == Append(sizes, new)
               tok == Token("start_array")
               st == Append(below, Entry(Base(t), FALSE, v))
               ws == Append(belowW, Level(Base(t), FALSE, k))
               b == Point(ws, FALSE, a.bytes + f, k)
    <2>6. /\ Taken(bin2, bytes1, sizes2, flags \cup more)
          /\ Longer(bytes1, bytes1) /\ SizesKept(sizes, sizes2, bytes1)
          /\ Len(bin2) = Len(bin1) + 1 /\ Len(sizes2) = Len(sizes) + 1
          /\ sizes2[Len(sizes) + 1] = new
      BY <2>2, <2>3, <2>4, <1>2, <1>4, TakesSize
    <2> HIDE DEF bin2, sizes2
    <2>7. SizesKept(sizes, sizes2, bytes)
      BY <2>6, <1>5, LongerStill
    <2>8. Len(bin2) = pos + at /\ Len(sizes2) = k /\ sizes2[k] = new
      BY <2>1, <2>2, <2>5, <2>6, <1>2, <1>5
    <2>9. new.position = a.bytes + f /\ new.size = v
      BY <2>4, <1>5
    <2>10. /\ st \in Seq(Entries) /\ ws \in Seq(LevelSet)
           /\ Alike(st, ws, sizes2) /\ Fitting(ws, sizes2)
      <3>1. sizes2 \in Seq(Sizes)
        BY <2>7 DEF SizesKept
      <3>2. Alike(below, belowW, sizes2) /\ Fitting(belowW, sizes2)
        BY <2>7, <1>1, AlikeKept, FitsKept
      <3>3. k \in 1 .. Len(sizes2) /\ v = sizes2[k].size /\ FALSE \in BOOLEAN
        BY <2>5, <2>8, <2>9, <1>2
      <3>4. PICK s, w, no : s = st /\ w = ws /\ no = FALSE
        OBVIOUS
      <3>5. /\ s = Append(below, Entry(Base(t), no, v)) /\ no \in BOOLEAN
            /\ w = Append(belowW, Level(Base(t), no, k))
        BY <3>4
      <3> HIDE DEF st, ws
      <3>6. /\ s \in Seq(Entries) /\ w \in Seq(LevelSet)
            /\ Alike(s, w, sizes2) /\ Fitting(w, sizes2)
        <4>1. PICK ty \in Types : ty = Base(t)
          BY <1>2
        <4>2. Kind[ty] = "array" => k \in 1 .. Len(sizes2) /\ v = sizes2[k].size
          BY <3>3
        <4>3. s = Append(below, Entry(ty, no, v)) /\ w = Append(belowW, Level(ty, no, k))
          BY <4>1, <3>5
        <4>4. v \in Nat /\ k \in Nat
          OBVIOUS
        <4>5. QED
          BY ONLY <4>2, <4>3, <4>4, <3>1, <3>2, <3>5, <1>1, PushAlike
      <3>7. QED
        BY <3>4, <3>6
    <2>11. ValueMove(t, allow, belowW, a, tok, b, bytes1, sizes2)
      <3>1. a.sizes < Len(sizes2)
        BY <2>5, <2>8, <1>2
      <3>2. ArrayMove(t, belowW, a.bytes + f, a, tok, b, sizes2)
        BY <3>1, <2>5, <2>8, <2>9, <1>7, Zenon DEF ArrayMove
      <3>3. Optional(t) => a.bytes < Len(bytes1) /\ bytes1[a.bytes + 1] = 1
        BY <1>2, <1>3, <1>5 DEF Flag
      <3>4. QED
        BY <3>2, <3>3, <1>3, Zenon DEF ValueMove
    <2>12. b.stack = ws /\ b = Point(b.stack, FALSE, Len(bytes1), Len(sizes2))
      BY <2>8, <1>5 DEF Point
    <2>13. tok \in Tokens(Strings) /\ tok.type \in ValueTokens
      BY TokenFacts
    <2>14. Return(at, Append(lexemes, tok), st)
      BY <2>3, <1>7, <1>9, Zenon
    <2> HIDE DEF b, tok, st, ws
    <2>15. QED
      BY <2>6, <2>7, <2>8, <2>10, <2>11, <2>12, <2>13, <2>14, <1>5, GivesByReturn
  <1>10. QED
    BY <1>8, <1>9

LEMMA StartGives ==
    ASSUME NEW t, NEW allow, NEW read, NEW below, NEW belowW, NEW a,
           NEW bin, NEW bytes, NEW sizes, NEW flags,
           Bearing(t, allow, read, below, belowW, a, bin, bytes, sizes, flags),
           NEW lexemes, StartValue(t, allow, read, lexemes, below)
    PROVE  Gives(t, allow, belowW, a, lexemes, bytes, sizes, flags)
  <1>1. CASE Optional(t) /\ Left <= read /\ Fail("overrun")
    <2>1. "overrun" \in Errors
      BY DEF Errors
    <2>2. QED
      BY <2>1, <1>1, Zenon DEF Failed, Gives
  <1>2. CASE AbsentOptional(t, read, lexemes, below)
    BY <1>2, GivesAbsent
  <1>3. ASSUME Present(t, read)
        PROVE  \E bin1, bytes1 : Flagged(t, TRUE, read, a, bytes, sizes, flags, bin1, bytes1)
    <2>1. Standing(read, a, bin, bytes, sizes, flags)
      BY DEF Bearing
    <2>2. QED
      BY <2>1, <1>3, FlagTaken DEF Present
  <1>4. CASE /\ Present(t, read)
             /\ \/ StartBuiltin(t, read, lexemes, below)
                \/ StartStruct(t, allow, read, lexemes, below)
                \/ StartArray(t, read, lexemes, below)
                \/ StartFixedArray(t, read, lexemes, below)
                \/ StartVariant(t, allow, read, lexemes, below)
    BY <1>3, <1>4, GivesScalar, GivesOpen, GivesArray
  <1>5. QED
    BY <1>1, <1>2, <1>4 DEF StartValue

----------------------------------------------------------------------------
(***************************************************************************)
(* The invariant: the stack is that of the point where the way is, or      *)
(* passes by extensions that are left out there.                           *)
(***************************************************************************)
There(tokens, at, bin, bytes, sizes) ==
    /\ Came(root, tokens, at, bin, bytes, sizes) /\ Len(bin) = pos
    /\ ~at[Len(tokens)].waiting /\ Says(text, tokens)
    /\ LeftOut(tokens, at) => skipped_extension
    /\ tokens = << >> <=> pc = "begin"
    /\ pc = "loop" =>
          \/ Alike(stack, at[Len(tokens)].stack, sizes)
          \/ /\ skipped_extension
             /\ Omitting(stack, at[Len(tokens)], Token("end_object"), bytes, sizes)
    /\ pc = "done" => at[Len(tokens)].stack = << >>

SaysWhatItRead ==
    pc # "failed" => \E tokens, at, bin, bytes, sizes : There(tokens, at, bin, bytes, sizes)

LEMMA CameFacts ==
    ASSUME NEW start, NEW tokens, NEW at, NEW bin, NEW bytes, NEW sizes,
           Came(start, tokens, at, bin, bytes, sizes)
    PROVE  /\ tokens \in Seq(Tokens(Strings)) /\ tokens \in Seq(Lexemes) /\ Len(tokens) \in Nat
           /\ tokens = << >> <=> Len(tokens) = 0
           /\ LiesIn(at[Len(tokens)], bytes, sizes) /\ at[Len(tokens)].stack \in Seq(LevelSet)
           /\ Fitting(at[Len(tokens)].stack, sizes)
           /\ Taken(bin, bytes, sizes, Flags(start, tokens, at))
           /\ at[Len(tokens)].bytes = Len(bytes) /\ at[Len(tokens)].sizes = Len(sizes)
           /\ at[0] = FirstPoint
  <1>1. /\ tokens \in Seq(Tokens(Strings)) /\ Way(start, tokens, at, bytes, sizes)
        /\ \A i \in 0 .. Len(tokens) : Fitting(at[i].stack, sizes)
        /\ Taken(bin, bytes, sizes, Flags(start, tokens, at))
    BY DEF Came
  <1>6. at[Len(tokens)].bytes = Len(bytes) /\ at[Len(tokens)].sizes = Len(sizes)
    BY DEF Came, Point
  <1>2. tokens \in Seq(Lexemes) /\ Len(tokens) \in Nat /\ (tokens = << >> <=> Len(tokens) = 0)
    BY <1>1 DEF Lexemes
  <1>3. Len(tokens) \in 0 .. Len(tokens)
    BY <1>2
  <1>4. LiesIn(at[Len(tokens)], bytes, sizes) /\ at[0] = FirstPoint
    BY <1>1, <1>3, Zenon DEF Way
  <1>5. at[Len(tokens)].stack \in Seq(LevelSet)
    BY <1>4 DEF LiesIn
  <1>7. QED
    BY <1>1, <1>2, <1>3, <1>4, <1>5, <1>6

\* A way does not change with the stack or the text.
LEMMA CameStays ==
    ASSUME NEW tokens, NEW at, NEW bin, NEW bytes, NEW sizes, UNCHANGED <<root, input>>,
           Came(root, tokens, at, bin, bytes, sizes)
    PROVE  Came(root, tokens, at, bin, bytes, sizes)'
  BY DEF Came, Taken, FromInput

LEMMA InitThere ==
    ASSUME Init
    PROVE  SaysWhatItRead
  <1> DEFINE at == [i \in {0} |-> FirstPoint]
             e == << >>
  <1>1. Len(e) = 0 /\ at[0] = FirstPoint
    OBVIOUS
  <1>2. FirstPoint.stack = << >> /\ FirstPoint.waiting = FALSE /\ FirstPoint.bytes = 0
        /\ FirstPoint.sizes = 0
    BY DEF FirstPoint, Point
  <1>3. LiesIn(FirstPoint, e, e)
    <2>1. << >> \in Seq(LevelSet) /\ 0 \in 0 .. 0 /\ 1 .. 0 = {} /\ FALSE \in BOOLEAN
      OBVIOUS
    <2>2. QED
      BY <2>1, <1>1, <1>2, Zenon DEF LiesIn
  <1>4. Way(root, e, at, e, e)
    BY <1>1, <1>3 DEF Way
  <1>5. Taken(e, e, e, Flags(root, e, at))
    <2>1. Laid(e, e, e)
      BY <1>1 DEF Laid, Known, Joined
    <2>2. FromInput(e, Flags(root, e, at))
      <3>1. Len(input) \in Nat
        BY BoundAssumption DEF Init
      <3>2. QED
        BY <3>1, <1>1 DEF FromInput
    <2>3. QED
      BY <2>1, <2>2 DEF Taken
  <1>6. Fitting(FirstPoint.stack, e)
    BY <1>2 DEF Fitting
  <1>7. Came(root, e, at, e, e, e)
    <2>1. FirstPoint = Point(FirstPoint.stack, FirstPoint.waiting, Len(e), Len(e))
      BY <1>1, <1>2 DEF FirstPoint
    <2>2. QED
      BY <2>1, <1>1, <1>2, <1>4, <1>5, <1>6 DEF Came
  <1>8. ~LeftOut(e, at)
    BY <1>1 DEF LeftOut
  <1>9. Says(text, e) /\ pos = 0 /\ pc = "begin"
    BY SaysNothing DEF Init
  <1> HIDE DEF at
  <1>10. There(e, at, e, e, e)
    BY <1>1, <1>2, <1>7, <1>8, <1>9 DEF There
  <1> HIDE DEF e
  <1>11. QED
    BY <1>10, Zenon DEF SaysWhatItRead

\* A token was said that starts a value.
LEMMA ThereOn ==
    ASSUME TypeOK, UNCHANGED <<root, input>>,
           NEW tokens, NEW at, NEW bin, NEW bytes, NEW sizes,
           Came(root, tokens, at, bin, bytes, sizes), ~LeftOut(tokens, at),
           NEW a, a = at[Len(tokens)],
           NEW lexemes \in Seq(Lexemes), Says(text \o lexemes, tokens),
           NEW t, t = Comes(root, a),
           a.stack # << >> /\ Kind[Innermost(a).type] = "variant" => Innermost(a).position = 0,
           NEW allow, NEW belowW,
           Gives(t, allow, belowW, a, lexemes, bytes, sizes, Flags(root, tokens, at)),
           \A tok, b, bytes2, sizes2 :
              ValueMove(t, allow, belowW, a, tok, b, bytes2, sizes2) =>
                 LeadsOn(root, tokens, a, tok, b, bytes2, sizes2)
    PROVE  SaysWhatItRead'
  <1>1. CASE Failed
    BY <1>1 DEF Failed, Fail, SaysWhatItRead
  <1>2. ASSUME NEW tok, NEW b, NEW bin2, NEW bytes2, NEW sizes2, NEW n, NEW st,
               Onwards(t, allow, belowW, a, lexemes, bytes, sizes, Flags(root, tokens, at),
                       tok, b, bin2, bytes2, sizes2, n, st)
        PROVE  SaysWhatItRead'
    <2>1. /\ Returned(n, Append(lexemes, tok), st)
          /\ tok \in Tokens(Strings) /\ tok.type \in ValueTokens
          /\ ValueMove(t, allow, belowW, a, tok, b, bytes2, sizes2)
          /\ Len(bin2) = pos + n
          /\ Longer(bytes, bytes2) /\ SizesKept(sizes, sizes2, bytes)
          /\ b = Point(b.stack, FALSE, Len(bytes2), Len(sizes2))
          /\ b.stack \in Seq(LevelSet) /\ Fitting(b.stack, sizes2)
          /\ Alike(st, b.stack, sizes2)
      BY <1>2 DEF Onwards
    <2>2. PICK more \in SUBSET Place(t, a) :
             Taken(bin2, bytes2, sizes2, Flags(root, tokens, at) \cup more)
      BY <1>2 DEF Onwards
    <2>3. ~b.waiting /\ b.waiting = FALSE
      BY <2>1 DEF Point
    <2>4. more \subseteq {m \in {a.bytes + a.sizes + 1} : OptionalAt(root, a, tok)}
      <3>1. Optional(t) => OptionalAt(root, a, tok)
        BY <2>1 DEF OptionalAt
      <3>2. QED
        BY <3>1, <2>2 DEF Place
    <2>5. LeadsOn(root, tokens, a, tok, b, bytes2, sizes2)
      BY <2>1
    <2>6. Grown(root, tokens, at[Len(tokens)], bytes, sizes, Flags(root, tokens, at),
                tok, b, bin2, bytes2, sizes2)
      <3>1. b = Point(b.stack, b.waiting, Len(bytes2), Len(sizes2)) /\ b.waiting \in BOOLEAN
        BY <2>1, <2>3
      <3>2. QED
        BY <3>1, <2>1, <2>2, <2>4, <2>5, Zenon DEF Grown
    <2>7. PICK at2 : Further(root, tokens, at, tok, b, bin2, bytes2, sizes2, at2)
      <3>1. LeftOut(tokens, at) => bytes2 = bytes /\ sizes2 = sizes
        OBVIOUS
      <3>2. Came(root, tokens, at, bin, bytes, sizes)
        OBVIOUS
      <3>3. QED
        BY ONLY <3>1, <3>2, <2>6, CameOn
    <2>8. ~LeftOut(Append(tokens, tok), at2)
      BY <2>1, <2>7 DEF ValueTokens, Further
    <2>9. PICK tokens2 : tokens2 = Append(tokens, tok)
      OBVIOUS
    <2>10. /\ Came(root, tokens2, at2, bin2, bytes2, sizes2) /\ at2[Len(tokens2)] = b
           /\ ~LeftOut(tokens2, at2)
      BY <2>7, <2>8, <2>9 DEF Further
    <2>11. Came(root, tokens2, at2, bin2, bytes2, sizes2)'
      BY <2>10, CameStays
    <2>12. tokens2 # << >>
      <3>1. tokens \in Seq(Tokens(Strings))
        BY CameFacts
      <3>2. QED
        BY <3>1, <2>1, <2>9
    <2>13. /\ pos' = pos + n /\ text' = text \o Append(lexemes, tok) /\ stack' = st
           /\ pc' = "loop"
      BY <2>1 DEF Returned
    <2>14. Says(text', tokens2)
      <3>1. tok \in Lexemes /\ tok.type # "comma" /\ text \in Seq(Lexemes)
        BY <2>1 DEF Lexemes, ValueTokens, TypeOK
      <3>2. text \o lexemes \in Seq(Lexemes) /\ text' = Append(text \o lexemes, tok)
        BY <3>1, <2>13
      <3>3. SayOn(tokens, tok) = tokens2
        BY <3>1, <2>9 DEF SayOn
      <3>4. QED
        BY <3>1, <3>2, <3>3, SayMore
    <2>15. There(tokens2, at2, bin2, bytes2, sizes2)'
      BY <2>1, <2>3, <2>10, <2>11, <2>12, <2>13, <2>14, Zenon DEF There
    <2>16. QED
      BY <2>15, Zenon DEF SaysWhatItRead
  <1>3. QED
    BY <1>1, <1>2, Zenon DEF Gives

\* The first call.
LEMMA BeginThere ==
    ASSUME IInv, Begin, NEW tokens, NEW at, NEW bin, NEW bytes, NEW sizes,
           There(tokens, at, bin, bytes, sizes)
    PROVE  SaysWhatItRead'
  <1>1. /\ TypeOK /\ pc = "begin" /\ text = << >> /\ root \in Types /\ UNCHANGED <<root, input>>
        /\ StartValue(root, TRUE, 0, << >>, << >>)
    BY DEF Begin, IInv, TypeOK
  <1>2. /\ Came(root, tokens, at, bin, bytes, sizes) /\ Len(bin) = pos /\ tokens = << >>
        /\ Says(text, tokens)
    BY <1>1 DEF There
  <1>3. /\ Len(tokens) = 0 /\ at[0] = FirstPoint
        /\ Taken(bin, bytes, sizes, Flags(root, tokens, at))
        /\ at[0].bytes = Len(bytes) /\ at[0].sizes = Len(sizes)
    BY <1>2, CameFacts
  <1>4. PICK a : a = at[0]
    OBVIOUS
  <1>5. a.stack = << >>
    BY <1>3, <1>4 DEF FirstPoint, Point
  <1>6. Bearing(root, TRUE, 0, << >>, << >>, a, bin, bytes, sizes, Flags(root, tokens, at))
    <2>1. Len(bin) = pos + 0 /\ 0 \in Nat
      BY <1>1, <1>2 DEF TypeOK
    <2>2. Standing(0, a, bin, bytes, sizes, Flags(root, tokens, at))
      BY <2>1, <1>1, <1>3, <1>4 DEF Standing
    <2>3. /\ << >> \in Seq(Entries) /\ << >> \in Seq(LevelSet)
          /\ Fitting(<< >>, sizes) /\ Alike(<< >>, << >>, sizes) /\ TRUE \in BOOLEAN
      BY DEF Fitting, Alike
    <2>4. QED
      BY <2>2, <2>3, <1>1, Zenon DEF Bearing
  <1>7. Gives(root, TRUE, << >>, a, << >>, bytes, sizes, Flags(root, tokens, at))
    BY <1>1, <1>6, StartGives
  <1>8. ~LeftOut(tokens, at)
    BY <1>3 DEF LeftOut
  <1>9. << >> \in Seq(Lexemes) /\ Says(text \o << >>, tokens)
    BY <1>1, <1>2
  <1>10. root = Comes(root, a)
    BY <1>5 DEF Comes
  <1>11. \A tok, b, bytes2, sizes2 :
            ValueMove(root, TRUE, << >>, a, tok, b, bytes2, sizes2) =>
               LeadsOn(root, tokens, a, tok, b, bytes2, sizes2)
    BY <1>2, Zenon DEF LeadsOn
  <1>12. a = at[Len(tokens)]
    BY <1>3, <1>4
  <1>13. QED
    BY ONLY <1>1, <1>2, <1>5, <1>7, <1>8, <1>9, <1>10, <1>11, <1>12, ThereOn

\* Where the way is at a turn of the loop.
Turning(kind, tokens, at, a, bin, bytes, sizes) ==
    /\ Came(root, tokens, at, bin, bytes, sizes) /\ Says(text, tokens)
    /\ tokens # << >> /\ a = at[Len(tokens)] /\ Len(bin) = pos
    /\ LeftOut(tokens, at) => skipped_extension
    /\ Taken(bin, bytes, sizes, Flags(root, tokens, at))
    /\ Standing(0, a, bin, bytes, sizes, Flags(root, tokens, at))
    /\ a.stack \in Seq(LevelSet) /\ a.stack # << >> /\ ~a.waiting
    /\ Fitting(a.stack, sizes) /\ LowerAlike(stack, a.stack, sizes)
    /\ Innermost(a).type = Top.type /\ Kind[Innermost(a).type] = kind
    /\ Innermost(a).allow_extensions = Top.allow_extensions
    /\ Innermost(a).position \in Int /\ Fits(Innermost(a), sizes)
    /\ \/ Alike(stack, a.stack, sizes) /\ AlikeLevel(Top, Innermost(a), sizes)
       \/ /\ skipped_extension
          /\ Omitting(stack, a, Token("end_object"), bytes, sizes)

LEMMA TurnThere ==
    ASSUME IInv, NEW kind, Turn(kind), NEW tokens, NEW at, NEW bin, NEW bytes, NEW sizes,
           There(tokens, at, bin, bytes, sizes), NEW a, a = at[Len(tokens)]
    PROVE  Turning(kind, tokens, at, a, bin, bytes, sizes)
  <1>1. PICK n \in Nat : n = Len(stack) /\ n > 0
    BY TurnFacts
  <1>2. TypeOK /\ pc = "loop" /\ Top = stack[n] /\ Kind[Top.type] = kind
    BY <1>1, TurnFacts
  <1>3. /\ Came(root, tokens, at, bin, bytes, sizes) /\ Len(bin) = pos
        /\ ~a.waiting /\ Says(text, tokens) /\ tokens # << >>
        /\ LeftOut(tokens, at) => skipped_extension
    BY <1>2 DEF There
  <1>4. \/ Alike(stack, a.stack, sizes)
        \/ /\ skipped_extension
           /\ Omitting(stack, a, Token("end_object"), bytes, sizes)
    BY <1>2, Zenon DEF There
  <1>5. /\ a.stack \in Seq(LevelSet) /\ Fitting(a.stack, sizes)
        /\ Taken(bin, bytes, sizes, Flags(root, tokens, at))
        /\ a.bytes = Len(bytes) /\ a.sizes = Len(sizes)
    BY <1>3, CameFacts
  <1>6. Len(a.stack) = n
    BY <1>1, <1>4 DEF Alike, Omitting
  <1>7. a.stack # << >> /\ n \in 1 .. n /\ Innermost(a) = a.stack[n]
    BY <1>1, <1>6 DEF Innermost
  <1>8. Fits(Innermost(a), sizes)
    BY <1>5, <1>6, <1>7, Zenon DEF Fitting
  <1>9. Innermost(a).position \in Int
    BY <1>5, <1>7, InnermostFacts
  <1>10. Standing(0, a, bin, bytes, sizes, Flags(root, tokens, at))
    <2>1. Len(bin) = pos + 0 /\ 0 \in Nat
      BY <1>2, <1>3 DEF TypeOK
    <2>2. QED
      BY <2>1, <1>2, <1>5 DEF Standing
  <1>11. CASE Alike(stack, a.stack, sizes)
    <2>1. \A j \in 1 .. n : AlikeLevel(stack[j], a.stack[j], sizes)
      BY <1>1, <1>11 DEF Alike
    <2>2. LowerAlike(stack, a.stack, sizes) /\ AlikeLevel(Top, Innermost(a), sizes)
      BY <2>1, <1>1, <1>2, <1>6, <1>7 DEF LowerAlike
    <2>3. Innermost(a).type = Top.type /\ Innermost(a).allow_extensions = Top.allow_extensions
      BY <2>2 DEF AlikeLevel
    <2>4. QED
      BY <2>2, <2>3, <1>2, <1>3, <1>5, <1>7, <1>8, <1>9, <1>10, <1>11, Zenon DEF Turning
  <1>12. CASE skipped_extension /\ Omitting(stack, a, Token("end_object"), bytes, sizes)
    <2>1. LowerAlike(stack, a.stack, sizes)
      BY <1>1, <1>6, <1>12 DEF Omitting, LowerAlike
    <2>2. Innermost(a).type = Top.type /\ Innermost(a).allow_extensions = Top.allow_extensions
      BY <1>1, <1>2, <1>12 DEF Omitting
    <2>3. QED
      BY <2>1, <2>2, <1>2, <1>3, <1>5, <1>7, <1>8, <1>9, <1>10, <1>12, Zenon DEF Turning
  <1>13. QED
    BY <1>4, <1>11, <1>12

\* A level of the way that goes to its next position.
LEMMA MovedFits ==
    ASSUME NEW a, a.stack \in Seq(LevelSet), a.stack # << >>, NEW sizes, Fitting(a.stack, sizes),
           NEW w, w = Innermost(a), NEW p \in Int,
           Kind[w.type] = "array" => p < sizes[w.size_insertion_index].size,
           Kind[w.type] = "fixed_array" => p < Size[w.type],
           Kind[w.type] = "struct" => p < Len(Fields[w.type])
    PROVE  MovedTo(a, p) \in Seq(LevelSet) /\ Fitting(MovedTo(a, p), sizes)
  <1>1. PICK n \in Nat : n = Len(a.stack) /\ n > 0 /\ w = a.stack[n]
    BY InnermostFacts
  <1>2. PICK s : s = MovedTo(a, p)
    OBVIOUS
  <1>3. Changed(s, a, p)
    BY <1>2, MovedFacts
  <1>4. /\ s \in Seq(LevelSet) /\ Len(s) = n /\ \A i \in 1 .. n - 1 : s[i] = a.stack[i]
        /\ s[n].type = w.type /\ s[n].position = p
        /\ s[n].size_insertion_index = w.size_insertion_index
    BY <1>1, <1>3 DEF Changed
  <1>5. Fits(w, sizes)
    BY <1>1 DEF Fitting
  <1>6. Fits(s[n], sizes)
    BY <1>4, <1>5, Zenon DEF Fits, WithinSize
  <1>7. ASSUME NEW j \in 1 .. n
        PROVE  Fits(s[j], sizes)
    <2>1. CASE j = n
      BY <2>1, <1>6
    <2>2. CASE j # n
      <3>1. j \in 1 .. n - 1 /\ j \in 1 .. Len(a.stack)
        BY <2>2, <1>1
      <3>2. Fits(a.stack[j], sizes)
        BY <3>1, Zenon DEF Fitting
      <3>3. QED
        BY <3>1, <3>2, <1>4
    <2>3. QED
      BY <2>1, <2>2
  <1>8. QED
    BY <1>2, <1>4, <1>7, Zenon DEF Fitting

\* Whatever a token takes, nothing is taken back.
LEMMA NothingTaken ==
    ASSUME NEW bin, NEW bytes, NEW sizes, NEW flags, Taken(bin, bytes, sizes, flags)
    PROVE  Longer(bytes, bytes) /\ SizesKept(sizes, sizes, bytes)
  <1>1. bytes \in Seq(Nat) /\ sizes \in Seq(Sizes)
    BY DEF Taken, Laid, Known
  <1>2. QED
    BY <1>1 DEF Longer, SizesKept

\* A value is closed.
LEMMA LeaveThere ==
    ASSUME IInv, NEW kind, Turn(kind), NEW tokens, NEW at, NEW a, NEW bin, NEW bytes, NEW sizes,
           Turning(kind, tokens, at, a, bin, bytes, sizes),
           NEW end \in {"end_object", "end_array"}, Leave(end),
           Move(a, Token(end), Closed(a), bytes, sizes),
           end = "end_object" /\ LeavesOut(a) => skipped_extension
    PROVE  SaysWhatItRead'
  <1> DEFINE tok == Token(end)
             b == Closed(a)
  <1>1. PICK n \in Nat : n = Len(stack) /\ n > 0
    BY TurnFacts
  <1>2. /\ TypeOK /\ stack \in Seq(Entries) /\ text \in Seq(Lexemes) /\ UNCHANGED <<root, input>>
        /\ pos \in Nat
    BY TurnFacts DEF TypeOK
  <1>3. /\ Came(root, tokens, at, bin, bytes, sizes) /\ Says(text, tokens)
        /\ tokens # << >> /\ a = at[Len(tokens)] /\ Len(bin) = pos
        /\ LeftOut(tokens, at) => skipped_extension
        /\ Taken(bin, bytes, sizes, Flags(root, tokens, at))
        /\ a.stack \in Seq(LevelSet) /\ Fitting(a.stack, sizes)
        /\ LowerAlike(stack, a.stack, sizes)
    BY DEF Turning
  <1>4. tokens \in Seq(Tokens(Strings)) /\ a.bytes = Len(bytes) /\ a.sizes = Len(sizes)
    BY <1>3, CameFacts
  <1>5. /\ b.stack = Pop(a.stack) /\ b.waiting = FALSE
        /\ b = Point(b.stack, b.waiting, Len(bytes), Len(sizes))
    BY <1>4 DEF Closed, Point
  <1>6. /\ Pop(stack) \in Seq(Entries) /\ Len(Pop(stack)) = n - 1
        /\ \A j \in 1 .. n - 1 : Pop(stack)[j] = stack[j]
    BY <1>1, <1>2, PopFacts
  <1>7. /\ Len(a.stack) = n /\ Pop(a.stack) \in Seq(LevelSet) /\ Len(Pop(a.stack)) = n - 1
        /\ \A j \in 1 .. n - 1 : Pop(a.stack)[j] = a.stack[j]
    <2>1. Len(a.stack) = n
      BY <1>1, <1>3 DEF LowerAlike
    <2>2. QED
      BY <2>1, <1>1, <1>3, PopFacts
  <1>8. Alike(Pop(stack), b.stack, sizes)
    BY <1>1, <1>3, <1>5, <1>6, <1>7 DEF Alike, LowerAlike
  <1>9. Fitting(b.stack, sizes)
    <2>1. \A j \in 1 .. n - 1 : j \in 1 .. Len(a.stack)
      BY <1>7
    <2>2. \A j \in 1 .. n - 1 : Fits(Pop(a.stack)[j], sizes)
      BY <2>1, <1>3, <1>7, Zenon DEF Fitting
    <2>3. QED
      BY <2>2, <1>5, <1>7, Zenon DEF Fitting
  <1>10. tok \in Tokens(Strings) /\ tok.type = end /\ tok.type # "comma" /\ tok \in Lexemes
    BY TokenFacts DEF Lexemes
  <1>11. LeadsOn(root, tokens, a, tok, b, bytes, sizes)
    BY <1>3, Zenon DEF LeadsOn
  <1> HIDE DEF tok, b
  <1>12. Grown(root, tokens, at[Len(tokens)], bytes, sizes, Flags(root, tokens, at),
               tok, b, bin, bytes, sizes)
    <2>1. Longer(bytes, bytes) /\ SizesKept(sizes, sizes, bytes)
      BY <1>3, NothingTaken
    <2>2. \E more : /\ more \subseteq {m \in {a.bytes + a.sizes + 1} : OptionalAt(root, a, tok)}
                    /\ Taken(bin, bytes, sizes, Flags(root, tokens, at) \cup more)
      <3>1. Flags(root, tokens, at) \cup {} = Flags(root, tokens, at)
        OBVIOUS
      <3>2. {} \subseteq {m \in {a.bytes + a.sizes + 1} : OptionalAt(root, a, tok)}
        OBVIOUS
      <3>3. Taken(bin, bytes, sizes, Flags(root, tokens, at) \cup {})
        BY <3>1, <1>3
      <3>4. QED
        BY <3>2, <3>3
    <2>3. b.waiting \in BOOLEAN /\ b.stack \in Seq(LevelSet)
      BY <1>5, <1>7
    <2>4. QED
      BY <2>1, <2>2, <2>3, <1>3, <1>5, <1>9, <1>10, <1>11, Zenon DEF Grown
  <1>13. PICK at2 : Further(root, tokens, at, tok, b, bin, bytes, sizes, at2)
    <2>1. LeftOut(tokens, at) => bytes = bytes /\ sizes = sizes
      OBVIOUS
    <2>2. QED
      BY ONLY <2>1, <1>3, <1>12, CameOn
  <1>14. PICK tokens2 : tokens2 = Append(tokens, tok)
    OBVIOUS
  <1>15. /\ Came(root, tokens2, at2, bin, bytes, sizes) /\ at2[Len(tokens2)] = b
         /\ LeftOut(tokens2, at2) =>
               \/ LeftOut(tokens, at)
               \/ tok.type = "end_object" /\ tokens # << >> /\ LeavesOut(a)
    BY <1>3, <1>13, <1>14 DEF Further
  <1>16. LeftOut(tokens2, at2) => skipped_extension
    BY <1>3, <1>10, <1>15
  <1>17. Came(root, tokens2, at2, bin, bytes, sizes)'
    BY <1>2, <1>15, CameStays
  <1>18. tokens2 # << >>
    BY <1>4, <1>10, <1>14
  <1>19. Return(0, <<tok>>, Pop(stack))
    BY DEF Leave, tok
  <1>20. CASE Len(Pop(stack)) > MaxStack
    <2>1. Fail("recursion_limit_reached")
      BY <1>19, <1>20 DEF Return
    <2>2. QED
      BY <2>1 DEF Fail, SaysWhatItRead
  <1>21. CASE ~(Len(Pop(stack)) > MaxStack)
    <2>1. /\ pos' = pos + 0 /\ text' = text \o <<tok>> /\ stack' = Pop(stack) /\ pc' = "loop"
          /\ skipped_extension' = skipped_extension
      BY <1>19, <1>21 DEF Return
    <2>2. pos' = pos
      BY <2>1, <1>2
    <2>3. Says(text', tokens2)
      <3>1. text' = Append(text, tok)
        BY <2>1, <1>2, <1>10
      <3>2. SayOn(tokens, tok) = tokens2
        BY <1>10, <1>14 DEF SayOn
      <3>3. QED
        BY <3>1, <3>2, <1>2, <1>3, <1>10, SayMore
    <2>4. There(tokens2, at2, bin, bytes, sizes)'
      BY <2>1, <2>2, <2>3, <1>3, <1>5, <1>8, <1>15, <1>16, <1>17, <1>18, Zenon DEF There
    <2>5. QED
      BY <2>4, Zenon DEF SaysWhatItRead
  <1>22. QED
    BY <1>20, <1>21

\* A turn of an array goes on with an element or closes it.
LEMMA ElementsThere ==
    ASSUME ExtensionsLast, IInv, NEW kind \in ArrayKinds, Turn(kind),
           NEW tokens, NEW at, NEW bin, NEW bytes, NEW sizes, There(tokens, at, bin, bytes, sizes),
           Elements(IF kind = "array" THEN Top.array_size ELSE Size[Top.type])
    PROVE  SaysWhatItRead'
  <1> DEFINE size == IF kind = "array" THEN Top.array_size ELSE Size[Top.type]
  <1>1. /\ TypeOK /\ stack \in Seq(Entries) /\ text \in Seq(Lexemes) /\ UNCHANGED <<root, input>>
        /\ Top \in Entries /\ Top.type \in Types
        /\ Top.position \in Int /\ Top.position >= -1 /\ Kind[Top.type] = kind
    BY TurnFacts
  <1>2. PICK a : a = at[Len(tokens)]
    OBVIOUS
  <1>3. PICK w : w = Innermost(a)
    OBVIOUS
  <1>4. Turning(kind, tokens, at, a, bin, bytes, sizes)
    BY <1>2, TurnThere
  <1>5. /\ Came(root, tokens, at, bin, bytes, sizes) /\ Says(text, tokens) /\ tokens # << >>
        /\ LeftOut(tokens, at) => skipped_extension
        /\ Standing(0, a, bin, bytes, sizes, Flags(root, tokens, at))
        /\ a.stack \in Seq(LevelSet) /\ a.stack # << >>
        /\ Fitting(a.stack, sizes) /\ LowerAlike(stack, a.stack, sizes)
        /\ w.type = Top.type /\ Kind[w.type] = kind
        /\ w.allow_extensions = Top.allow_extensions
        /\ w.position \in Int /\ Fits(w, sizes)
        /\ (AlikeLevel(Top, w, sizes) \/ skipped_extension)
    BY <1>3, <1>4 DEF Turning
  <1>6. ~skipped_extension
    BY NotOmitted
  <1>7. /\ w.position = Top.position
        /\ kind = "array" => Top.array_size = sizes[w.size_insertion_index].size
    BY <1>5, <1>6 DEF AlikeLevel, ArrayKinds
  <1>8. PICK next \in Nat : next = Top.position + 1
    BY <1>1
  <1>9. PICK s \in Nat : s = size
    BY <1>1, TableAssumption DEF Entries
  <1>10. /\ kind = "array" => sizes[w.size_insertion_index].size = s
         /\ kind = "fixed_array" => Size[w.type] = s
    BY <1>5, <1>7, <1>9 DEF ArrayKinds
  <1>11. w.position < s
    BY <1>5, <1>10 DEF Fits, WithinSize, ArrayKinds
  <1>12. kind # "struct" /\ kind # "variant"
    BY DEF ArrayKinds
  <1>13. CASE next >= s
    <2>1. Leave("end_array")
      BY <1>8, <1>9, <1>13 DEF Elements
    <2>2. s = w.position + 1
      BY <1>5, <1>7, <1>8, <1>11, <1>13
    <2>3. ArrayEndMove(a, Token("end_array"), Closed(a), sizes)
      BY <2>2, <1>3, <1>5, <1>10 DEF ArrayEndMove, ArrayKinds
    <2>4. Move(a, Token("end_array"), Closed(a), bytes, sizes)
      BY <2>3, <1>5, Zenon DEF Move
    <2>5. ~("end_array" = "end_object")
      OBVIOUS
    <2>6. QED
      BY <2>1, <2>4, <2>5, <1>4, LeaveThere
  <1>14. CASE ~(next >= s)
    <2> DEFINE t == Element[Top.type]
               below == WithPosition(next)
               belowW == MovedTo(a, next)
    <2>1. StartValue(t, FALSE, 0, Comma(next), below)
      BY <1>8, <1>9, <1>14 DEF Elements
    <2>2. next \in Int /\ next < s
      BY <1>14
    <2>3. belowW \in Seq(LevelSet) /\ Fitting(belowW, sizes)
      BY <2>2, <1>3, <1>5, <1>10, <1>12, MovedFits
    <2>4. Alike(below, belowW, sizes)
      <3>1. IF kind = "variant" THEN next = 0 /\ next = 1 ELSE next = next
        BY <1>12
      <3>2. QED
        BY <3>1, <2>2, <1>3, <1>5, <1>7, MoveAlike
    <2>5. below \in Seq(Entries)
      BY EntryMoved
    <2>6. t \in Types /\ FALSE \in BOOLEAN
      BY <1>1, TableAssumption
    <2>7. \A tok, b, bytes2, sizes2 :
             ValueMove(t, FALSE, belowW, a, tok, b, bytes2, sizes2) =>
                LeadsOn(root, tokens, a, tok, b, bytes2, sizes2)
      <3>1. SUFFICES ASSUME NEW tok, NEW b, NEW bytes2, NEW sizes2,
                            ValueMove(t, FALSE, belowW, a, tok, b, bytes2, sizes2)
                     PROVE  LeadsOn(root, tokens, a, tok, b, bytes2, sizes2)
        BY Zenon
      <3>2. w.position + 1 = next /\ Kind[w.type] \in {"array", "fixed_array"}
        BY <1>5, <1>7, <1>8 DEF ArrayKinds
      <3>3. ElementMove(a, tok, b, bytes2, sizes2)
        BY <3>1, <3>2, <1>3, <1>5, Zenon DEF ElementMove
      <3>4. QED
        BY <3>3, <1>5, Zenon DEF LeadsOn, Move
    <2>8. t = Comes(root, a)
      BY <1>3, <1>5, <1>12 DEF Comes
    <2> HIDE DEF t, below, belowW
    <2>9. Bearing(t, FALSE, 0, below, belowW, a, bin, bytes, sizes, Flags(root, tokens, at))
      BY <2>3, <2>4, <2>5, <2>6, <1>5, Zenon DEF Bearing
    <2>10. Gives(t, FALSE, belowW, a, Comma(next), bytes, sizes, Flags(root, tokens, at))
      BY <2>1, <2>9, StartGives
    <2>11. Comma(next) \in Seq(Lexemes) /\ Says(text \o Comma(next), tokens)
      BY <1>1, <1>5, CommaSays
    <2>12. ~LeftOut(tokens, at)
      BY <1>5, <1>6
    <2>13. a.stack # << >> /\ Kind[Innermost(a).type] = "variant" => Innermost(a).position = 0
      BY <1>3, <1>5, <1>12
    <2>14. QED
      BY ONLY <2>7, <2>8, <2>10, <2>11, <2>12, <2>13, <1>1, <1>2, <1>5, ThereOn
  <1>15. QED
    BY <1>13, <1>14

\* A key, or the name of an alternative, is said before its value.
LEMMA WordSaid ==
    ASSUME NEW tokens, NEW at, NEW bin, NEW bytes, NEW sizes,
           Came(root, tokens, at, bin, bytes, sizes), tokens # << >>, ~LeftOut(tokens, at),
           NEW a, a = at[Len(tokens)], NEW tok \in Tokens(Strings), tok.type # "end_object",
           NEW c, NEW bin2, NEW bytes2, Move(a, tok, c, bytes2, sizes),
           Taken(bin2, bytes2, sizes, Flags(root, tokens, at)), Longer(bytes, bytes2),
           c = Point(c.stack, c.waiting, Len(bytes2), Len(sizes)), c.waiting \in BOOLEAN,
           c.stack \in Seq(LevelSet), Fitting(c.stack, sizes)
    PROVE  \E at2 : Further(root, tokens, at, tok, c, bin2, bytes2, sizes, at2)
  <1>1. LeadsOn(root, tokens, a, tok, c, bytes2, sizes)
    BY Zenon DEF LeadsOn
  <1>2. Taken(bin, bytes, sizes, Flags(root, tokens, at))
    BY CameFacts
  <1>3. SizesKept(sizes, sizes, bytes)
    BY <1>2, NothingTaken
  <1>4. \E more : /\ more \subseteq {m \in {a.bytes + a.sizes + 1} : OptionalAt(root, a, tok)}
                  /\ Taken(bin2, bytes2, sizes, Flags(root, tokens, at) \cup more)
    <2>1. Flags(root, tokens, at) \cup {} = Flags(root, tokens, at)
      OBVIOUS
    <2>2. {} \subseteq {m \in {a.bytes + a.sizes + 1} : OptionalAt(root, a, tok)}
      OBVIOUS
    <2>3. Taken(bin2, bytes2, sizes, Flags(root, tokens, at) \cup {})
      BY <2>1
    <2>4. QED
      BY <2>2, <2>3
  <1>5. Grown(root, tokens, at[Len(tokens)], bytes, sizes, Flags(root, tokens, at),
              tok, c, bin2, bytes2, sizes)
    BY <1>1, <1>3, <1>4, Zenon DEF Grown
  <1>6. LeftOut(tokens, at) => bytes2 = bytes /\ sizes = sizes
    OBVIOUS
  <1>7. Came(root, tokens, at, bin, bytes, sizes)
    OBVIOUS
  <1>8. QED
    BY ONLY <1>5, <1>6, <1>7, CameOn

\* What a key or a name leaves to the value behind it.
Said(tokens, tok, at2, c, bin2, bytes2, sizes) ==
    LET tokens2 == Append(tokens, tok)
    IN  /\ Came(root, tokens2, at2, bin2, bytes2, sizes) /\ c = at2[Len(tokens2)]
        /\ tokens2 # << >> /\ ~LeftOut(tokens2, at2)
        /\ Taken(bin2, bytes2, sizes, Flags(root, tokens2, at2))
        /\ c.bytes = Len(bytes2) /\ c.sizes = Len(sizes)

LEMMA SaidFacts ==
    ASSUME NEW tokens, NEW at, NEW bin, NEW bytes, NEW sizes,
           Came(root, tokens, at, bin, bytes, sizes), ~LeftOut(tokens, at),
           NEW tok \in Tokens(Strings), tok.type # "end_object",
           NEW c, NEW bin2, NEW bytes2, NEW at2,
           Further(root, tokens, at, tok, c, bin2, bytes2, sizes, at2)
    PROVE  Said(tokens, tok, at2, c, bin2, bytes2, sizes)
  <1>1. PICK tokens2 : tokens2 = Append(tokens, tok)
    OBVIOUS
  <1>2. /\ Came(root, tokens2, at2, bin2, bytes2, sizes) /\ at2[Len(tokens2)] = c
        /\ ~LeftOut(tokens2, at2)
    BY <1>1 DEF Further
  <1>3. tokens2 # << >>
    <2>1. tokens \in Seq(Tokens(Strings))
      BY CameFacts
    <2>2. QED
      BY <2>1, <1>1
  <1>4. /\ Taken(bin2, bytes2, sizes, Flags(root, tokens2, at2))
        /\ c.bytes = Len(bytes2) /\ c.sizes = Len(sizes)
    BY <1>2, CameFacts
  <1>5. QED
    BY <1>1, <1>2, <1>3, <1>4, Zenon DEF Said

\* An extension is left out.
LEMMA OmissionThere ==
    ASSUME IInv, Turn("struct"), NEW tokens, NEW at, NEW bin, NEW bytes, NEW sizes,
           There(tokens, at, bin, bytes, sizes),
           NEW next \in Nat, next = Top.position + 1, next < Len(Fields[Top.type]),
           MayLeaveOut(next), LeaveOut(next)
    PROVE  SaysWhatItRead'
  <1>1. PICK n \in Nat : n = Len(stack) /\ n > 0
    BY TurnFacts
  <1>2. /\ TypeOK /\ UNCHANGED <<root, input>> /\ pc = "loop" /\ Top = stack[n]
        /\ Top.position \in Int /\ Top.position >= -1 /\ Kind[Top.type] = "struct"
    BY <1>1, TurnFacts
  <1>3. PICK a : a = at[Len(tokens)]
    OBVIOUS
  <1>4. PICK w : w = Innermost(a)
    OBVIOUS
  <1>5. Turning("struct", tokens, at, a, bin, bytes, sizes)
    BY <1>3, TurnThere
  <1>6. /\ Came(root, tokens, at, bin, bytes, sizes) /\ Says(text, tokens) /\ tokens # << >>
        /\ Len(bin) = pos /\ Standing(0, a, bin, bytes, sizes, Flags(root, tokens, at))
        /\ ~a.waiting /\ LowerAlike(stack, a.stack, sizes)
        /\ w.type = Top.type /\ Kind[w.type] = "struct"
        /\ w.allow_extensions = Top.allow_extensions /\ w.position \in Int
        /\ \/ AlikeLevel(Top, w, sizes)
           \/ Omitting(stack, a, Token("end_object"), bytes, sizes)
    BY <1>4, <1>5 DEF Turning
  <1>7. Left = 0 /\ Extension(Field(Top.type, next).type) /\ Top.allow_extensions
    BY DEF MayLeaveOut
  <1>8. PICK st : st = WithPosition(next)
    OBVIOUS
  <1>9. /\ Len(st) = n /\ \A j \in 1 .. n - 1 : st[j] = stack[j]
        /\ st[n].type = Top.type /\ st[n].position = next
        /\ st[n].allow_extensions = Top.allow_extensions
    BY <1>1, <1>8, EntryMoved
  <1>10. LeavesOut(a) /\ -1 <= w.position /\ w.position < next
    <2>1. CASE AlikeLevel(Top, w, sizes)
      <3>1. w.position = Top.position
        BY <2>1, <1>6 DEF AlikeLevel
      <3>2. w.position + 1 = next /\ -1 <= w.position /\ w.position < next
        BY <3>1, <1>2
      <3>3. LeavesOut(a)
        BY <3>2, <1>4, <1>6, <1>7 DEF LeavesOut
      <3>4. QED
        BY <3>2, <3>3
    <2>2. CASE Omitting(stack, a, Token("end_object"), bytes, sizes)
      <3>1. LeavesOut(a) /\ -1 <= w.position /\ w.position < Top.position
        BY <2>2, <1>1, <1>2, <1>4 DEF Omitting
      <3>2. w.position < next
        <4>1. PICK k, m \in Int : k = w.position /\ m = Top.position
          BY <1>2, <1>6
        <4>2. k < m /\ next = m + 1
          BY <4>1, <3>1
        <4>3. k < next
          BY ONLY <4>1, <4>2
        <4>4. QED
          BY <4>1, <4>3
      <3>3. QED
        BY <3>1, <3>2
    <2>3. QED
      BY <2>1, <2>2, <1>6
  <1>11. Omitting(st, a, Token("end_object"), bytes, sizes)
    <2>1. Len(a.stack) = n /\ \A j \in 1 .. n - 1 : AlikeLevel(st[j], a.stack[j], sizes)
      BY <1>1, <1>6, <1>9 DEF LowerAlike
    <2>2. AtTheEnd(a, bytes, sizes)
      BY <1>6 DEF Standing, AtTheEnd
    <2>3. QED
      BY <2>1, <2>2, <1>1, <1>4, <1>6, <1>9, <1>10 DEF Omitting
  <1>12. /\ pos' = pos /\ text' = text /\ pc' = "loop" /\ stack' = st
         /\ skipped_extension' = TRUE
    BY <1>2, <1>8 DEF LeaveOut
  <1>13. Came(root, tokens, at, bin, bytes, sizes)'
    BY <1>2, <1>6, CameStays
  <1>14. There(tokens, at, bin, bytes, sizes)'
    BY <1>3, <1>6, <1>11, <1>12, <1>13, Zenon DEF There
  <1>15. QED
    BY <1>14, Zenon DEF SaysWhatItRead

\* A field follows its key.
LEMMA FieldThere ==
    ASSUME ExtensionsLast,
           IInv, Turn("struct"), NEW tokens, NEW at, NEW bin, NEW bytes, NEW sizes,
           There(tokens, at, bin, bytes, sizes),
           NEW next \in Nat, next = Top.position + 1, next < Len(Fields[Top.type]),
           ~MayLeaveOut(next),
           StartValue(Field(Top.type, next).type, AllowIn(Top.type, next, Top.allow_extensions), 0,
                      Append(Comma(next), Text("key", Field(Top.type, next).name)),
                      WithPosition(next))
    PROVE  SaysWhatItRead'
  <1> DEFINE t == Field(Top.type, next).type
             allow == AllowIn(Top.type, next, Top.allow_extensions)
             key == Text("key", Field(Top.type, next).name)
             lexemes == Append(Comma(next), key)
             below == WithPosition(next)
  <1>1. /\ TypeOK /\ stack \in Seq(Entries) /\ text \in Seq(Lexemes) /\ UNCHANGED <<root, input>>
        /\ Top \in Entries /\ Top.type \in Types /\ pc = "loop"
        /\ Top.position \in Int /\ Top.position >= -1 /\ Kind[Top.type] = "struct"
        /\ Len(stack) \in Nat /\ Len(stack) > 0 /\ Top = stack[Len(stack)]
    BY TurnFacts
  <1>2. PICK a : a = at[Len(tokens)]
    OBVIOUS
  <1>3. PICK w : w = Innermost(a)
    OBVIOUS
  <1>4. Turning("struct", tokens, at, a, bin, bytes, sizes)
    BY <1>2, TurnThere
  <1>5. /\ Came(root, tokens, at, bin, bytes, sizes) /\ Says(text, tokens) /\ tokens # << >>
        /\ LeftOut(tokens, at) => skipped_extension
        /\ Taken(bin, bytes, sizes, Flags(root, tokens, at))
        /\ a.stack \in Seq(LevelSet) /\ a.stack # << >> /\ ~a.waiting
        /\ Fitting(a.stack, sizes) /\ LowerAlike(stack, a.stack, sizes)
        /\ w.type = Top.type /\ Kind[w.type] = "struct"
        /\ w.allow_extensions = Top.allow_extensions
        /\ (AlikeLevel(Top, w, sizes) \/ skipped_extension)
    BY <1>3, <1>4 DEF Turning
  <1>6. /\ t \in Types /\ Field(Top.type, next).name \in Strings
        /\ Len(Fields[Top.type]) \in Nat /\ DOMAIN Fields[Top.type] = 1 .. Len(Fields[Top.type])
    BY <1>1, FieldFacts
  <1>7. ~skipped_extension
    <2>1. SUFFICES ASSUME skipped_extension PROVE FALSE
      OBVIOUS
    <2>2. Left = 0 /\ Trailing(Top)
      BY <2>1, <1>1 DEF IInv, Omitted
    <2>3. Top.allow_extensions /\ Extension(Fields[Top.type][next + 1].type)
      <3>1. next + 1 \in DOMAIN Fields[Top.type] /\ next + 1 > Top.position + 1
        BY <1>1, <1>6
      <3>2. QED
        BY <3>1, <2>2, <1>1 DEF Trailing
    <2>4. QED
      BY <2>2, <2>3 DEF MayLeaveOut, Field
  <1>8. w.position = Top.position
    BY <1>5, <1>7 DEF AlikeLevel
  <1>9. ~LeftOut(tokens, at) /\ a.bytes = Len(bytes) /\ a.sizes = Len(sizes)
    <2>1. ~LeftOut(tokens, at)
      BY <1>5, <1>7
    <2>2. a.bytes = Len(bytes) /\ a.sizes = Len(sizes)
      BY <1>4 DEF Turning, Standing
    <2>3. QED
      BY <2>1, <2>2
  <1>10. PICK s : s = MovedTo(a, next)
    OBVIOUS
  <1>11. s \in Seq(LevelSet) /\ Fitting(s, sizes)
    <2>1. next \in Int /\ Kind[w.type] # "array" /\ Kind[w.type] # "fixed_array"
      BY <1>5
    <2>2. QED
      BY <2>1, <1>3, <1>5, <1>10, MovedFits
  <1>12. PICK c : c = Point(s, TRUE, Len(bytes), Len(sizes))
    OBVIOUS
  <1>13. /\ c.stack = s /\ c.waiting = TRUE /\ c.bytes = Len(bytes) /\ c.sizes = Len(sizes)
    BY <1>12 DEF Point
  <1>14. /\ c.stack # << >> /\ Innermost(c).type = Top.type /\ Innermost(c).position = next
         /\ Innermost(c).allow_extensions = Top.allow_extensions
    <2>1. Changed(s, a, next)
      BY <1>5, <1>10, MovedFacts
    <2>2. PICK n \in Nat : n = Len(a.stack) /\ n > 0
      BY <1>5
    <2>3. /\ s \in Seq(LevelSet) /\ Len(s) = n
          /\ s[n].type = w.type /\ s[n].position = next
          /\ s[n].allow_extensions = w.allow_extensions
      BY <2>1, <2>2, <1>3 DEF Changed
    <2>4. s # << >> /\ Innermost(c) = s[n]
      BY <2>2, <2>3, <1>13 DEF Innermost
    <2>5. QED
      BY <2>3, <2>4, <1>5, <1>13
  <1>15. key \in Tokens(Strings) /\ key.type = "key" /\ key \in Lexemes
    BY <1>6, TokenFacts DEF Lexemes
  <1>16. KeyMove(a, key, c)
    <2>1. w.position + 1 = next
      BY <1>8
    <2>2. c = Point(MovedTo(a, next), TRUE, a.bytes, a.sizes)
      BY <1>9, <1>10, <1>12
    <2>3. QED
      BY <2>1, <2>2, <1>3, <1>5, Zenon DEF KeyMove, Text
  <1> HIDE DEF t, allow, key, lexemes, below
  <1>17. PICK at2 : Further(root, tokens, at, key, c, bin, bytes, sizes, at2)
    <2>1. Move(a, key, c, bytes, sizes)
      BY <1>5, <1>16, Zenon DEF Move
    <2>2. c = Point(c.stack, c.waiting, Len(bytes), Len(sizes)) /\ c.waiting \in BOOLEAN
      BY <1>12, <1>13
    <2>3. Longer(bytes, bytes)
      BY <1>5, NothingTaken
    <2>4. key.type # "end_object"
      BY <1>15
    <2>5. c.stack \in Seq(LevelSet) /\ Fitting(c.stack, sizes)
      BY <1>11, <1>13
    <2>6. QED
      BY <2>1, <2>2, <2>3, <2>4, <2>5, <1>2, <1>5, <1>9, <1>15, WordSaid
  <1>18. Said(tokens, key, at2, c, bin, bytes, sizes)
    <2>1. key.type # "end_object"
      BY <1>15
    <2>2. QED
      BY <2>1, <1>5, <1>9, <1>15, <1>17, SaidFacts
  <1>19. PICK tokens2 : tokens2 = Append(tokens, key)
    OBVIOUS
  <1>20. /\ Came(root, tokens2, at2, bin, bytes, sizes) /\ c = at2[Len(tokens2)]
         /\ tokens2 # << >> /\ ~LeftOut(tokens2, at2)
         /\ Taken(bin, bytes, sizes, Flags(root, tokens2, at2))
    BY <1>18, <1>19 DEF Said
  <1>21. lexemes \in Seq(Lexemes) /\ Says(text \o lexemes, tokens2)
    <2>1. PICK u \in Seq(Lexemes) : u = Comma(next) /\ Says(text \o u, tokens)
      BY <1>1, <1>5, CommaSays
    <2>2. text \o u \in Seq(Lexemes)
      BY <2>1, <1>1
    <2>3. SayOn(tokens, key) = tokens2
      BY <1>15, <1>19 DEF SayOn
    <2>4. Says(Append(text \o u, key), tokens2)
      BY <2>1, <2>2, <2>3, <1>15, SayMore
    <2>5. Append(u, key) \in Seq(Lexemes) /\ text \o Append(u, key) = Append(text \o u, key)
      BY <2>1, <1>1, <1>15, SMTT(60)
    <2>6. QED
      BY <2>1, <2>4, <2>5 DEF lexemes
  <1>22. Alike(below, c.stack, sizes)
    <2>1. /\ next \in Int /\ IF "struct" = "variant" THEN next = 0 /\ next = 1 ELSE next = next
          /\ "struct" = "array" => Top.array_size = sizes[w.size_insertion_index].size
      OBVIOUS
    <2>2. Alike(WithPosition(next), MovedTo(a, next), sizes)
      BY <2>1, <1>3, <1>5, MoveAlike
    <2>3. QED
      BY <2>2, <1>10, <1>13 DEF below
  <1>23. Bearing(t, allow, 0, below, c.stack, c, bin, bytes, sizes, Flags(root, tokens2, at2))
    <2>1. Len(bin) = pos + 0 /\ 0 \in Nat
      BY <1>4 DEF Turning, Standing
    <2>2. Standing(0, c, bin, bytes, sizes, Flags(root, tokens2, at2))
      BY <2>1, <1>1, <1>13, <1>20 DEF Standing
    <2>3. allow \in BOOLEAN
      BY <1>1 DEF allow, AllowIn, Entries
    <2>4. below \in Seq(Entries)
      BY EntryMoved DEF below
    <2>5. QED
      BY <2>2, <2>3, <2>4, <1>6, <1>11, <1>13, <1>22, Zenon DEF Bearing
  <1>24. Gives(t, allow, c.stack, c, lexemes, bytes, sizes, Flags(root, tokens2, at2))
    <2>1. StartValue(t, allow, 0, lexemes, below)
      BY DEF t, allow, lexemes, below, key
    <2>2. QED
      BY <2>1, <1>23, StartGives
  <1>25. \A tok, b, bytes2, sizes2 :
            ValueMove(t, allow, c.stack, c, tok, b, bytes2, sizes2) =>
               LeadsOn(root, tokens2, c, tok, b, bytes2, sizes2)
    <2>1. SUFFICES ASSUME NEW tok, NEW b, NEW bytes2, NEW sizes2,
                          ValueMove(t, allow, c.stack, c, tok, b, bytes2, sizes2)
                   PROVE  LeadsOn(root, tokens2, c, tok, b, bytes2, sizes2)
      BY Zenon
    <2>2. next \in 0 .. Len(Fields[Top.type]) - 1
      BY <1>6
    <2>3. FieldMove(c, tok, b, bytes2, sizes2)
      BY <2>1, <2>2, <1>1, <1>13, <1>14, Zenon DEF FieldMove, t, allow
    <2>4. QED
      BY <2>3, <1>14, <1>20, Zenon DEF LeadsOn, Move
  <1>26. t = Comes(root, c)
    BY <1>1, <1>14 DEF Comes, t
  <1>27. c.stack # << >> /\ Kind[Innermost(c).type] = "variant" => Innermost(c).position = 0
    BY <1>1, <1>14
  <1>28. QED
    BY ONLY <1>1, <1>20, <1>21, <1>24, <1>25, <1>26, <1>27, ThereOn

\* A turn of a struct goes on with its next field, leaves it out or closes it.
LEMMA ObjectThere ==
    ASSUME ExtensionsLast, IInv, Object, NEW tokens, NEW at, NEW bin, NEW bytes, NEW sizes,
           There(tokens, at, bin, bytes, sizes)
    PROVE  SaysWhatItRead'
  <1>1. Turn("struct")
    BY DEF Object
  <1>2. /\ Top.type \in Types /\ Top.position \in Int /\ Top.position >= -1
        /\ Kind[Top.type] = "struct"
    BY <1>1, TurnFacts
  <1>3. PICK next \in Nat : next = Top.position + 1
    BY <1>2
  <1>4. Len(Fields[Top.type]) \in Nat
    BY <1>2, <1>3, FieldFacts
  <1>5. CASE next >= Len(Fields[Top.type])
    <2>1. Leave("end_object")
      BY <1>3, <1>5 DEF Object
    <2>2. PICK a, w : a = at[Len(tokens)] /\ w = Innermost(a)
      OBVIOUS
    <2>3. Turning("struct", tokens, at, a, bin, bytes, sizes)
      BY <2>2, <1>1, TurnThere
    <2>4. /\ a.stack # << >> /\ ~a.waiting
          /\ w.type = Top.type /\ Kind[w.type] = "struct"
          /\ w.position \in Int /\ Fits(w, sizes)
          /\ \/ AlikeLevel(Top, w, sizes)
             \/ /\ skipped_extension
                /\ Omitting(stack, a, Token("end_object"), bytes, sizes)
      BY <2>2, <2>3 DEF Turning
    <2>5. /\ ObjectEndMove(a, Token("end_object"), Closed(a), bytes, sizes)
          /\ LeavesOut(a) => skipped_extension
      <3>1. CASE AlikeLevel(Top, w, sizes)
        <4>1. w.position = Top.position /\ w.position < Len(Fields[w.type])
          BY <3>1, <2>4 DEF AlikeLevel, Fits
        <4>2. w.position + 1 = Len(Fields[w.type])
          BY <4>1, <2>4, <1>2, <1>3, <1>4, <1>5
        <4>3. ObjectEndMove(a, Token("end_object"), Closed(a), bytes, sizes)
          BY <4>2, <2>2, <2>4, Zenon DEF ObjectEndMove
        <4>4. ~LeavesOut(a)
          BY <4>2, <2>2, <2>4, <1>4 DEF LeavesOut
        <4>5. QED
          BY <4>3, <4>4
      <3>2. CASE skipped_extension /\ Omitting(stack, a, Token("end_object"), bytes, sizes)
        <4>1. LeavesOut(a) /\ AtTheEnd(a, bytes, sizes)
          BY <3>2 DEF Omitting
        <4>2. ObjectEndMove(a, Token("end_object"), Closed(a), bytes, sizes)
          BY <4>1, <2>2, <2>4, Zenon DEF ObjectEndMove
        <4>3. QED
          BY <4>2, <3>2
      <3>3. QED
        BY <3>1, <3>2, <2>4
    <2>6. Move(a, Token("end_object"), Closed(a), bytes, sizes)
      BY <2>4, <2>5, Zenon DEF Move
    <2>7. QED
      BY <2>1, <2>3, <2>5, <2>6, <1>1, LeaveThere
  <1>6. CASE ~(next >= Len(Fields[Top.type]))
    <2>1. next < Len(Fields[Top.type])
      BY <1>4, <1>6
    <2>2. CASE MayLeaveOut(next)
      <3>1. LeaveOut(next)
        BY <1>3, <1>6, <2>2 DEF Object
      <3>2. QED
        BY <3>1, <2>1, <2>2, <1>1, <1>3, OmissionThere
    <2>3. CASE ~MayLeaveOut(next)
      <3>1. StartValue(Field(Top.type, next).type,
                       AllowIn(Top.type, next, Top.allow_extensions), 0,
                       Append(Comma(next), Text("key", Field(Top.type, next).name)),
                       WithPosition(next))
        BY <1>3, <1>6, <2>3 DEF Object
      <3>2. QED
        BY <3>1, <2>1, <2>3, <1>1, <1>3, FieldThere
    <2>4. QED
      BY <2>2, <2>3
  <1>7. QED
    BY <1>5, <1>6

\* The innermost variant with its alternative.
Chosen(a, s, v) ==
    /\ s = [a.stack EXCEPT ![Len(a.stack)].position = 0,
                           ![Len(a.stack)].variant_type_index = v]
    /\ s \in Seq(LevelSet) /\ Len(s) = Len(a.stack) /\ s # << >>
    /\ \A j \in 1 .. Len(a.stack) - 1 : s[j] = a.stack[j]
    /\ LET e == s[Len(a.stack)]
       IN  /\ e.type = Innermost(a).type /\ e.position = 0 /\ e.variant_type_index = v
           /\ e.allow_extensions = Innermost(a).allow_extensions

LEMMA ChosenFacts ==
    ASSUME NEW a, a.stack \in Seq(LevelSet), a.stack # << >>, NEW v \in Nat
    PROVE  \E s : Chosen(a, s, v)
  <1> DEFINE n == Len(a.stack)
             e == Innermost(a)
  <1>1. /\ n \in Nat /\ n > 0 /\ e \in LevelSet /\ e = a.stack[n]
    BY InnermostFacts
  <1> HIDE DEF e
  <1>2. PICK p \in Int : p = 0
    OBVIOUS
  <1>3. PICK g : g = [e EXCEPT !.position = p]
    OBVIOUS
  <1>4. PICK f : f = [g EXCEPT !.variant_type_index = v]
    OBVIOUS
  <1>5. /\ g \in LevelSet
        /\ g.type = e.type /\ g.position = p /\ g.allow_extensions = e.allow_extensions
    <2>1. g \in LevelSet
      BY <1>1, <1>3 DEF LevelSet
    <2>2. QED
      BY <2>1, <1>1, <1>3 DEF LevelSet
  <1>6. /\ f \in LevelSet
        /\ f.type = g.type /\ f.position = g.position /\ f.variant_type_index = v
        /\ f.allow_extensions = g.allow_extensions
    <2>1. f \in LevelSet
      BY <1>4, <1>5 DEF LevelSet
    <2>2. QED
      BY <2>1, <1>4, <1>5 DEF LevelSet
  <1>7. PICK s : s = [a.stack EXCEPT ![n].position = 0, ![n].variant_type_index = v]
    OBVIOUS
  <1>8. s = [a.stack EXCEPT ![n] = f]
    BY <1>1, <1>2, <1>3, <1>4, <1>7
  <1>9. /\ s \in Seq(LevelSet) /\ Len(s) = n /\ s[n] = f
        /\ \A j \in 1 .. n - 1 : s[j] = a.stack[j]
    BY <1>1, <1>6, <1>8, ExceptSeq
  <1>10. s # << >>
    BY <1>1, <1>9
  <1>11. Chosen(a, s, v)
    BY <1>2, <1>5, <1>6, <1>7, <1>9, <1>10, Zenon DEF Chosen, e
  <1>12. QED
    BY <1>11

\* A turn of a variant goes on with its alternative or closes it.
LEMMA VariantThere ==
    ASSUME ExtensionsLast, IInv, Variant, NEW tokens, NEW at, NEW bin, NEW bytes, NEW sizes,
           There(tokens, at, bin, bytes, sizes)
    PROVE  SaysWhatItRead'
  <1>1. Turn("variant")
    BY DEF Variant
  <1>2. PICK n \in Nat : n = Len(stack) /\ n > 0
    BY <1>1, TurnFacts
  <1>3. /\ TypeOK /\ stack \in Seq(Entries) /\ text \in Seq(Lexemes) /\ UNCHANGED <<root, input>>
        /\ Top \in Entries /\ Top.type \in Types /\ Top.allow_extensions \in BOOLEAN
        /\ Top.position \in Int /\ Top.position >= -1 /\ Kind[Top.type] = "variant"
    BY <1>1, TurnFacts DEF Entries
  <1>4. PICK a, w : a = at[Len(tokens)] /\ w = Innermost(a)
    OBVIOUS
  <1>5. Turning("variant", tokens, at, a, bin, bytes, sizes)
    BY <1>1, <1>4, TurnThere
  <1>6. /\ Came(root, tokens, at, bin, bytes, sizes) /\ Says(text, tokens) /\ tokens # << >>
        /\ LeftOut(tokens, at) => skipped_extension
        /\ Taken(bin, bytes, sizes, Flags(root, tokens, at))
        /\ a.stack \in Seq(LevelSet) /\ a.stack # << >> /\ ~a.waiting
        /\ Fitting(a.stack, sizes) /\ LowerAlike(stack, a.stack, sizes)
        /\ w.type = Top.type /\ Kind[w.type] = "variant"
        /\ w.allow_extensions = Top.allow_extensions
    BY <1>4, <1>5 DEF Turning
  <1>7. \/ Top.position = -1 /\ w.position = -1
        \/ Top.position = 0 /\ w.position = 1
    <2>1. ~LeavesOut(a)
      BY <1>4, <1>6 DEF LeavesOut
    <2>2. AlikeLevel(Top, w, sizes)
      BY <2>1, <1>4, <1>5 DEF Turning, Omitting
    <2>3. QED
      BY <2>2, <1>6 DEF AlikeLevel
  <1>8. CASE Top.position # -1
    <2>1. Leave("end_array")
      BY <1>8 DEF Variant
    <2>2. ArrayEndMove(a, Token("end_array"), Closed(a), sizes)
      BY <1>4, <1>6, <1>7, <1>8 DEF ArrayEndMove
    <2>3. Move(a, Token("end_array"), Closed(a), bytes, sizes)
      BY <2>2, <1>6, Zenon DEF Move
    <2>4. ~("end_array" = "end_object")
      OBVIOUS
    <2>5. QED
      BY <2>1, <2>3, <2>4, <1>1, <1>5, LeaveThere
  <1>9. CASE Top.position = -1
    <2>1. ~skipped_extension
      BY <1>1, <1>9, NotOmitted
    <2>2. ~LeftOut(tokens, at)
      BY <2>1, <1>6
    <2>3. w.position = -1
      BY <1>7, <1>9
    <2>4. CASE Left = 0
      <3>1. Fail("overrun")
        BY <2>4, <1>9 DEF Variant
      <3>2. QED
        BY <3>1 DEF Fail, SaysWhatItRead
    <2>5. CASE Left # 0 /\ ByteAt(1) >= Len(Fields[Top.type])
      <3>1. Fail("bad_variant_index")
        BY <2>5, <1>9 DEF Variant
      <3>2. QED
        BY <3>1 DEF Fail, SaysWhatItRead
    <2>6. CASE Left # 0 /\ ~(ByteAt(1) >= Len(Fields[Top.type]))
      <3>1. /\ pos \in Nat /\ Len(input) \in Nat /\ Left = Len(input) - pos
            /\ a.bytes \in Nat /\ a.sizes \in Nat
            /\ a.bytes = Len(bytes) /\ a.sizes = Len(sizes)
            /\ bin \in Seq(Nat) /\ bytes \in Seq(Nat) /\ sizes \in Seq(Sizes)
            /\ Len(bin) = pos + 0
        BY <1>5, StandingFacts DEF Turning
      <3>2. Left \in Nat /\ 1 <= Left /\ Len(bin) = pos
        BY <3>1, <2>6, <1>3 DEF TypeOK
      <3>3. PICK v \in Nat : v = ByteAt(1)
        BY <3>2, <1>3, ByteFacts
      <3>4. PICK m \in Nat : m = pos + 1
        BY <3>1
      <3>5. m = Len(bin) + 1 /\ m <= Len(input) /\ v = input[m]
        BY <3>1, <3>2, <3>3, <3>4 DEF ByteAt
      <3>6. v < Len(Fields[Top.type])
        BY <3>3, <2>6, <1>3, FieldFacts
      <3> DEFINE t == Field(Top.type, v).type
                 name == Text("string", Field(Top.type, v).name)
                 lexemes == <<name, Token("comma")>>
                 below == WithPosition(0)
      <3>7. StartValue(t, Top.allow_extensions, 1, lexemes, below)
        BY <3>3, <2>6, <1>9 DEF Variant
      <3>8. t \in Types /\ Field(Top.type, v).name \in Strings
        BY <3>6, <1>3, FieldFacts
      <3>9. /\ name \in Tokens(Strings) /\ name.type = "string" /\ name \in Lexemes
            /\ Token("comma") \in Lexemes
        BY <3>8, TokenFacts, LexemeFacts
      <3>10. PICK bin2, bytes2 : bin2 = Append(bin, v) /\ bytes2 = Append(bytes, v)
        OBVIOUS
      <3>11. /\ Taken(bin2, bytes2, sizes, Flags(root, tokens, at))
             /\ Longer(bytes, bytes2)
             /\ Len(bin2) = Len(bin) + 1 /\ Len(bytes2) = Len(bytes) + 1
             /\ bytes2[Len(bytes) + 1] = v
        BY <3>5, <3>10, <1>3, <1>6, TakesInput
      <3>12. PICK s : Chosen(a, s, v)
        BY <1>6, ChosenFacts
      <3>13. /\ s = [a.stack EXCEPT ![Len(a.stack)].position = 0,
                                    ![Len(a.stack)].variant_type_index = v]
             /\ s \in Seq(LevelSet) /\ Len(s) = n /\ Len(a.stack) = n /\ s # << >>
             /\ \A j \in 1 .. n - 1 : s[j] = a.stack[j]
             /\ s[n].type = w.type /\ s[n].position = 0 /\ s[n].variant_type_index = v
             /\ s[n].allow_extensions = w.allow_extensions
        BY <3>12, <1>2, <1>4, <1>6 DEF Chosen, LowerAlike
      <3>14. PICK c : c = Point(s, FALSE, Len(bytes2), Len(sizes))
        OBVIOUS
      <3>15. /\ c.stack = s /\ c.waiting = FALSE
             /\ c.bytes = Len(bytes2) /\ c.sizes = Len(sizes)
             /\ Innermost(c) = s[n]
        BY <3>13, <3>14 DEF Point, Innermost
      <3>16. NameMove(a, name, c, bytes2)
        <4>1. a.bytes < Len(bytes2) /\ bytes2[a.bytes + 1] = v /\ Len(bytes2) = a.bytes + 1
          BY <3>1, <3>11
        <4>2. c = Point(s, FALSE, a.bytes + 1, a.sizes)
          BY <4>1, <3>1, <3>14
        <4>3. QED
          BY <4>1, <4>2, <3>6, <3>13, <2>3, <1>4, <1>6, Zenon DEF NameMove, Text
      <3>17. Fitting(s, sizes)
        <4>1. Fits(s[n], sizes)
          BY <3>13, <1>6 DEF Fits, WithinSize
        <4>2. ASSUME NEW j \in 1 .. n
              PROVE  Fits(s[j], sizes)
          <5>1. CASE j = n
            BY <5>1, <4>1
          <5>2. CASE j # n
            <6>1. j \in 1 .. n - 1 /\ j \in 1 .. Len(a.stack)
              BY <5>2, <3>13
            <6>2. Fits(a.stack[j], sizes)
              BY <6>1, <1>6, Zenon DEF Fitting
            <6>3. QED
              BY <6>1, <6>2, <3>13
          <5>3. QED
            BY <5>1, <5>2
        <4>3. QED
          BY <4>2, <3>13, Zenon DEF Fitting
      <3> HIDE DEF t, name, lexemes, below
      <3>18. PICK at2 : Further(root, tokens, at, name, c, bin2, bytes2, sizes, at2)
        <4>1. Move(a, name, c, bytes2, sizes)
          BY <3>16, <1>6, Zenon DEF Move
        <4>2. /\ c = Point(c.stack, c.waiting, Len(bytes2), Len(sizes)) /\ c.waiting \in BOOLEAN
              /\ c.stack \in Seq(LevelSet) /\ Fitting(c.stack, sizes)
          BY <3>13, <3>14, <3>15, <3>17
        <4>3. name.type # "end_object"
          BY <3>9
        <4>4. QED
          BY <4>1, <4>2, <4>3, <3>9, <3>11, <2>2, <1>4, <1>6, WordSaid
      <3>19. Said(tokens, name, at2, c, bin2, bytes2, sizes)
        <4>1. name.type # "end_object"
          BY <3>9
        <4>2. QED
          BY <4>1, <3>9, <3>18, <2>2, <1>6, SaidFacts
      <3>20. PICK tokens2 : tokens2 = Append(tokens, name)
        OBVIOUS
      <3>21. /\ Came(root, tokens2, at2, bin2, bytes2, sizes) /\ c = at2[Len(tokens2)]
             /\ tokens2 # << >> /\ ~LeftOut(tokens2, at2)
             /\ Taken(bin2, bytes2, sizes, Flags(root, tokens2, at2))
        BY <3>19, <3>20 DEF Said
      <3>22. lexemes \in Seq(Lexemes) /\ Says(text \o lexemes, tokens2)
        <4>1. PICK x, y \in Lexemes : x = name /\ y = Token("comma")
          BY <3>9
        <4>2. SayOn(tokens, x) = tokens2
          BY <4>1, <3>9, <3>20 DEF SayOn
        <4>3. Says(Append(text, x), tokens2)
          BY <4>2, <1>3, <1>6, SayMore
        <4>4. Append(text, x) \in Seq(Lexemes)
          BY <1>3
        <4>5. Says(Append(Append(text, x), y), tokens2)
          BY <4>1, <4>3, <4>4, SaysComma
        <4>6. <<x, y>> \in Seq(Lexemes) /\ text \o <<x, y>> = Append(Append(text, x), y)
          BY <1>3
        <4>7. lexemes = <<x, y>>
          BY <4>1 DEF lexemes
        <4>8. QED
          BY <4>5, <4>6, <4>7
      <3>23. PICK belowW : belowW = MovedTo(c, 1)
        OBVIOUS
      <3>24. belowW \in Seq(LevelSet) /\ Fitting(belowW, sizes)
        <4>1. /\ 1 \in Int /\ Kind[Innermost(c).type] # "array"
              /\ Kind[Innermost(c).type] # "fixed_array" /\ Kind[Innermost(c).type] # "struct"
          BY <3>13, <3>15, <1>6
        <4>2. QED
          BY <4>1, <3>13, <3>15, <3>17, <3>23, MovedFits
      <3>25. Alike(below, belowW, sizes)
        <4>1. 0 \in Nat /\ 1 \in Int /\ IF "variant" = "variant" THEN 0 = 0 /\ 1 = 1 ELSE 0 = 1
          OBVIOUS
        <4>2. "variant" = "array" => Top.array_size = sizes[Innermost(c).size_insertion_index].size
          OBVIOUS
        <4>3. LowerAlike(stack, c.stack, sizes)
          BY <3>13, <3>15, <1>2, <1>6 DEF LowerAlike
        <4>4. /\ Top.type = Innermost(c).type
              /\ Top.allow_extensions = Innermost(c).allow_extensions
              /\ c.stack \in Seq(LevelSet) /\ c.stack # << >>
          BY <3>13, <3>15, <1>6
        <4>5. Alike(WithPosition(0), MovedTo(c, 1), sizes)
          BY <4>1, <4>2, <4>3, <4>4, <1>1, MoveAlike
        <4>6. QED
          BY <4>5, <3>23 DEF below
      <3>26. below \in Seq(Entries)
        <4>1. 0 \in Nat
          OBVIOUS
        <4>2. QED
          BY <4>1, <1>1, EntryMoved DEF below
      <3>27. Bearing(t, Top.allow_extensions, 1, below, belowW, c, bin2, bytes2, sizes,
                     Flags(root, tokens2, at2))
        <4>1. Len(bin2) = pos + 1 /\ 1 \in Nat
          BY <3>2, <3>11
        <4>2. Standing(1, c, bin2, bytes2, sizes, Flags(root, tokens2, at2))
          BY <4>1, <3>15, <3>21, <1>3 DEF Standing
        <4>3. QED
          BY <4>2, <3>8, <3>24, <3>25, <3>26, <1>3, Zenon DEF Bearing
      <3>28. Gives(t, Top.allow_extensions, belowW, c, lexemes, bytes2, sizes,
                   Flags(root, tokens2, at2))
        BY <3>7, <3>27, StartGives
      <3>29. \A tok, b, bytes3, sizes3 :
                ValueMove(t, Top.allow_extensions, belowW, c, tok, b, bytes3, sizes3) =>
                   LeadsOn(root, tokens2, c, tok, b, bytes3, sizes3)
        <4>1. SUFFICES ASSUME NEW tok, NEW b, NEW bytes3, NEW sizes3,
                              ValueMove(t, Top.allow_extensions, belowW, c, tok, b, bytes3, sizes3)
                       PROVE  LeadsOn(root, tokens2, c, tok, b, bytes3, sizes3)
          BY Zenon
        <4>2. /\ Innermost(c).type = Top.type /\ Innermost(c).position = 0
              /\ Innermost(c).allow_extensions = Top.allow_extensions
              /\ Innermost(c).variant_type_index = v
          BY <3>13, <3>15, <1>6
        <4>3. AlternativeMove(c, tok, b, bytes3, sizes3)
          BY <4>1, <4>2, <3>23, <1>3, Zenon DEF AlternativeMove, t
        <4>4. QED
          BY <4>3, <3>13, <3>15, <3>21, Zenon DEF LeadsOn, Move
      <3>30. t = Comes(root, c)
        <4>1. /\ c.stack # << >> /\ Kind[Innermost(c).type] = "variant"
              /\ Innermost(c).type = Top.type /\ Innermost(c).variant_type_index = v
          BY <3>13, <3>15, <1>6
        <4>2. QED
          BY <4>1 DEF Comes, t
      <3>31. c.stack # << >> /\ Kind[Innermost(c).type] = "variant" => Innermost(c).position = 0
        BY <3>13, <3>15
      <3>32. QED
        BY ONLY <3>21, <3>22, <3>28, <3>29, <3>30, <3>31, <1>3, ThereOn
    <2>7. QED
      BY <2>4, <2>5, <2>6
  <1>10. QED
    BY <1>8, <1>9

\* The conversion ends where nothing is open.
LEMMA FinishThere ==
    ASSUME Finish, NEW tokens, NEW at, NEW bin, NEW bytes, NEW sizes,
           There(tokens, at, bin, bytes, sizes)
    PROVE  SaysWhatItRead'
  <1>1. /\ pc = "loop" /\ stack = << >> /\ pc' = "done"
        /\ UNCHANGED <<root, input, pos, text, skipped_extension>>
    BY DEF Finish
  <1>2. PICK a : a = at[Len(tokens)]
    OBVIOUS
  <1>3. /\ Came(root, tokens, at, bin, bytes, sizes) /\ Len(bin) = pos
        /\ ~a.waiting /\ Says(text, tokens) /\ tokens # << >>
        /\ LeftOut(tokens, at) => skipped_extension
        /\ Alike(stack, a.stack, sizes) \/ Omitting(stack, a, Token("end_object"), bytes, sizes)
    BY <1>1, <1>2 DEF There
  <1>4. a.stack = << >>
    <2>1. a.stack \in Seq(LevelSet)
      BY <1>2, <1>3, CameFacts
    <2>2. Len(a.stack) = 0
      BY <1>1, <1>3 DEF Alike, Omitting
    <2>3. QED
      BY <2>1, <2>2
  <1>5. Came(root, tokens, at, bin, bytes, sizes)'
    BY <1>1, <1>3, CameStays
  <1>6. There(tokens, at, bin, bytes, sizes)'
    BY <1>1, <1>2, <1>3, <1>4, <1>5 DEF There
  <1>7. QED
    BY <1>6, Zenon DEF SaysWhatItRead

LEMMA StepThere ==
    ASSUME ExtensionsLast, IInv, SaysWhatItRead, [Next]_vars
    PROVE  SaysWhatItRead'
  <1>1. CASE UNCHANGED vars
    BY <1>1 DEF vars, SaysWhatItRead, There, Came, Taken, FromInput
  <1>2. CASE Step
    <2>1. pc # "failed"
      BY <1>2 DEF Step, Begin, Object, Array, FixedArray, Variant, Turn, Finish
    <2>2. PICK tokens, at, bin, bytes, sizes : There(tokens, at, bin, bytes, sizes)
      BY <2>1 DEF SaysWhatItRead
    <2>3. CASE Begin
      BY <2>2, <2>3, BeginThere
    <2>4. CASE Object
      BY <2>2, <2>4, ObjectThere
    <2>5. CASE Array
      <3>1. Turn("array") /\ Elements(IF "array" = "array" THEN Top.array_size ELSE Size[Top.type])
        BY <2>5 DEF Array
      <3>2. "array" \in ArrayKinds
        BY DEF ArrayKinds
      <3>3. QED
        BY <3>1, <3>2, <2>2, ElementsThere
    <2>6. CASE FixedArray
      <3>1. /\ Turn("fixed_array")
            /\ Elements(IF "fixed_array" = "array" THEN Top.array_size ELSE Size[Top.type])
        BY <2>6 DEF FixedArray
      <3>2. "fixed_array" \in ArrayKinds
        BY DEF ArrayKinds
      <3>3. QED
        BY <3>1, <3>2, <2>2, ElementsThere
    <2>7. CASE Variant
      BY <2>2, <2>7, VariantThere
    <2>8. CASE Finish
      BY <2>2, <2>8, FinishThere
    <2>9. QED
      BY <1>2, <2>3, <2>4, <2>5, <2>6, <2>7, <2>8 DEF Step
  <1>3. QED
    BY <1>1, <1>2 DEF Next, Terminated

(***************************************************************************)
(* bin_to_json writes what it read: whatever the input, a text it          *)
(* completes is a text of the bytes it took, token by token, along a way   *)
(* through both (Wire).  Only the byte of an optional need not be the one  *)
(* a binary of this text has: any but 0 and 1 is read into a bool whose    *)
(* value is undefined (abieos.hpp:971).  For every table whose structs     *)
(* have their extensions last.                                             *)
(***************************************************************************)
TextOfWhatWasRead ==
    pc = "done" =>
        LET tokens == Spoken[Len(text)]
        IN  \E bin, at, bytes, sizes :
               /\ IsWay(root, tokens, bin, at, bytes, sizes) /\ Len(bin) = pos
               /\ \A i \in 1 .. pos :
                     \/ bin[i] = input[i]
                     \/ /\ i \in Flags(root, tokens, at)
                        /\ bin[i] \in {0, 1} /\ input[i] \notin {0, 1}

THEOREM WritesWhatItRead ==
    ASSUME ExtensionsLast
    PROVE  Spec => []TextOfWhatWasRead
  <1>1. Init => SaysWhatItRead
    BY InitThere
  <1>2. IInv /\ SaysWhatItRead /\ [Next]_vars => SaysWhatItRead'
    BY ExtensionsLast, StepThere
  <1>3. SaysWhatItRead => TextOfWhatWasRead
    <2>1. SUFFICES ASSUME SaysWhatItRead, pc = "done" PROVE TextOfWhatWasRead
      BY DEF TextOfWhatWasRead
    <2>2. PICK tokens, at, bin, bytes, sizes : There(tokens, at, bin, bytes, sizes)
      BY <2>1 DEF SaysWhatItRead
    <2>3. /\ Came(root, tokens, at, bin, bytes, sizes) /\ Len(bin) = pos
          /\ ~at[Len(tokens)].waiting /\ Says(text, tokens) /\ tokens # << >>
          /\ at[Len(tokens)].stack = << >>
      BY <2>1, <2>2 DEF There
    <2>4. Spoken[Len(text)] = tokens
      BY <2>3, SpokenFacts
    <2>5. /\ tokens \in Seq(Tokens(Strings)) /\ Way(root, tokens, at, bytes, sizes)
          /\ \A i \in 0 .. Len(tokens) : Fitting(at[i].stack, sizes)
          /\ Taken(bin, bytes, sizes, Flags(root, tokens, at))
      BY <2>3 DEF Came
    <2>6. Known(bin, bytes, sizes) /\ FromInput(bin, Flags(root, tokens, at))
      BY <2>5 DEF Taken, Laid
    <2>7. \A i \in 0 .. Len(tokens) : \A j \in 1 .. Len(at[i].stack) :
             WithinSize(at[i].stack[j], sizes)
      BY <2>5, Zenon DEF Fitting, Fits
    <2>8. at[Len(tokens)] = Point(<< >>, FALSE, Len(bytes), Len(sizes))
      <3>1. ~(at[Len(tokens)].waiting) /\ at[Len(tokens)].waiting \in BOOLEAN
        BY <2>3, CameFacts DEF LiesIn
      <3>2. at[Len(tokens)].waiting = FALSE
        BY <3>1
      <3>3. QED
        BY <3>2, <2>3 DEF Came
    <2>9. IsWay(root, tokens, bin, at, bytes, sizes)
      BY <2>3, <2>5, <2>6, <2>7, <2>8, Zenon DEF IsWay, Known
    <2>10. QED
      BY <2>1, <2>3, <2>4, <2>6, <2>9 DEF TextOfWhatWasRead, FromInput
  <1>4. QED
    BY <1>1, <1>2, <1>3, Inductive, PTL DEF Spec
==============================================================================
