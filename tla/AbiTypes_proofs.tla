--------------------------- MODULE AbiTypes_proofs ---------------------------
(***************************************************************************)
(* Proofs about AbiTypes, for every ABI, every set of C++ types and every  *)
(* depth limit.                                                            *)
(***************************************************************************)
EXTENDS AbiTypes, SequenceTheorems, FiniteSetTheorems, WellFoundedInduction, TLAPS

----------------------------------------------------------------------------
(***************************************************************************)
(* The table.                                                              *)
(***************************************************************************)
ResolvedKinds == {"builtin", "alias", "struct", "variant"} \cup DerivedKinds

IsResolved(t, node) ==
    /\ node = Node(node.kind, node.element, node.fields)
    /\ node.kind \in ResolvedKinds
    /\ node.element \in DOMAIN t \cup {<< >>} /\ node.fields \in Seq(DOMAIN t)
    /\ node.kind \in DerivedKinds \cup {"alias"} => node.element \in DOMAIN t
    /\ node.kind \notin DerivedKinds \cup {"alias"} => node.element = << >>
    /\ node.kind = "alias" => node.fields = << >>

\* What an abi_def may define, and what comes of it.
NamedKinds == DefKinds \cup {"alias", "struct", "variant"}

IsTable(t) == t = [n \in DOMAIN t |-> t[n]]

Table(t) ==
    /\ IsTable(t) /\ DOMAIN t \subseteq Names
    /\ \A n \in DOMAIN t :
          /\ IsDefinition(t[n]) \/ IsResolved(t, t[n])
          /\ t[n].kind \in DefKinds => n \in Definable
          /\ t[n].kind \in NamedKinds => n \in Definable \cup {ExtendedAsset}

\* A name that stands for a derived type unless something else is defined by it.
Derivable(name) == Len(name) > 1 /\ name[Len(name)] \in Suffixes

\* Nodes come and are resolved, and nothing else happens to them.
Resolves(kind, kind2) ==
    \/ kind2 = kind
    \/ kind = "alias_def" /\ kind2 = "alias"
    \/ kind = "struct_def" /\ kind2 = "struct"
    \/ kind = "variant_def" /\ kind2 = "variant"

Evolves(t, t2) ==
    /\ DOMAIN t \subseteq DOMAIN t2
    /\ \A n \in DOMAIN t : Resolves(t[n].kind, t2[n].kind)
    /\ \A n \in DOMAIN t2 \ DOMAIN t :
          t2[n].kind \notin DefKinds /\ (Derivable(n) => t2[n].kind = KindOf(n))

----------------------------------------------------------------------------
(***************************************************************************)
(* The calls.                                                              *)
(***************************************************************************)
Getting   == {"get_type", "derived"}
Resolving == {"alias", "struct", "base", "fields", "types"}
Adding    == {"add_type", "element", "members", "alternatives"}

\* The kinds the node may have while call fn works on it.
WorkedOn(fn) ==
    CASE fn = "alias"                       -> {"alias_def", "alias"}
      [] fn \in {"struct", "base", "fields"} -> {"struct_def", "struct"}
      [] fn = "types"                       -> {"variant_def", "variant"}
      [] OTHER                              -> {"struct"}

Calls == [fn : Fns, name : Names, depth : Nat, fields : Seq(Names), rest : Seq(Names)]

FrameOK(t, f) ==
    /\ f.fields \in Seq(DOMAIN t)
    /\ f.fn \in Resolving \cup {"members"} =>
          f.name \in DOMAIN t /\ t[f.name].kind \in WorkedOn(f.fn)
    /\ f.fn = "derived" =>
          Derivable(f.name) /\ (f.name \in DOMAIN t => t[f.name].kind = KindOf(f.name))
    /\ f.fn \in Adding => f.name \in CppNames /\ f.rest \in Seq(CppNames)
    /\ f.fn = "element" => Len(f.name) > 1
    /\ f.fn = "alternatives" => Len(f.name) = 1 /\ f.name \in DOMAIN Reflected

\* What may be under way.
Modes == CASE pc = "fill"  -> Getting \cup Resolving
           [] pc = "ready" -> Getting \cup Adding
           [] OTHER        -> {}

CallsOK ==
    /\ calls \in Seq(Calls)
    /\ \A i \in DOMAIN calls : FrameOK(types, calls[i]) /\ calls[i].fn \in Modes
    /\ pc = "fill" /\ calls # << >> =>
          filled > 0 /\ calls[1].name = Order[filled] /\ calls[1].fn \in Resolving

\* What convert's last loop has passed is resolved.
Progress ==
    /\ pc = "fill" => \A i \in 1 .. filled :
          Order[i] \in DOMAIN types /\ types[Order[i]].kind \in DefKinds =>
             i = filled /\ calls # << >>
    /\ NothingUnresolved

IInv ==
    /\ pc \in {"enter", "fill", "ready", "failed"}
    /\ filled \in 0 .. Len(Order)
    /\ \A n \in DOMAIN abi : IsDefinition(abi[n])
    /\ DOMAIN abi \subseteq Definable \cup Predefined \cup {Nameless}
    /\ pc = "enter" => types = BuiltinTypes /\ filled = 0
    /\ Table(types)
    /\ CallsOK
    /\ returned \in DOMAIN types \cup {<< >>}
    /\ returned # << >> => calls # << >>
    /\ Progress

----------------------------------------------------------------------------
(***************************************************************************)
(* Where pointers lead, if no ABI has an alias by the name of a type of    *)
(* the program.                                                            *)
(***************************************************************************)
Proper(t, n) == t[n].kind \notin {"alias", "alias_def"}

AllProper(t, list) == \A i \in DOMAIN list : Proper(t, list[i])

NodeNests(t, node) ==
    /\ \A p \in Pointers(node) : Proper(t, p)
    /\ node.kind \in DerivedKinds => t[node.element].kind \notin Forbidden(node.kind)

Nested(t) ==
    \A n \in DOMAIN t :
        /\ t[n].kind \notin DefKinds => NodeNests(t, t[n])
        /\ n \in AddedNames => Proper(t, n)

FrameNests(t, f) ==
    /\ \A i \in DOMAIN f.fields : Proper(t, f.fields[i])
    /\ f.fn \in Adding =>
          f.name \in AddedNames /\ \A i \in DOMAIN f.rest : f.rest[i] \in AddedNames

NInv ==
    /\ \A n \in DOMAIN abi : abi[n].kind = "alias_def" => n \notin AddedNames \ Predefined
    /\ Nested(types)
    /\ \A i \in DOMAIN calls : FrameNests(types, calls[i])
    /\ returned # << >> => Proper(types, returned)

----------------------------------------------------------------------------
(***************************************************************************)
(* Names.                                                                  *)
(***************************************************************************)

\* What is left of a name without its last suffix is a name.
LEMMA NameFacts ==
    ASSUME NEW S, NEW n \in NamesWith(S)
    PROVE  /\ n \in Seq(STRING) /\ n # << >> /\ Len(n) \in Nat /\ Len(n) > 0
           /\ Len(n) > 1 => /\ SubSeq(n, 1, Len(n) - 1) \in NamesWith(S)
                            /\ n[Len(n)] \in S
  <1>1. n \in Seq(STRING) /\ n # << >> /\ \A i \in 2 .. Len(n) : n[i] \in S
    BY DEF NamesWith
  <1>2. Len(n) \in Nat /\ Len(n) > 0
    BY <1>1, EmptySeq, LenProperties
  <1>3. ASSUME Len(n) > 1
        PROVE  /\ SubSeq(n, 1, Len(n) - 1) \in NamesWith(S) /\ n[Len(n)] \in S
    <2> DEFINE m == SubSeq(n, 1, Len(n) - 1)
    <2>1. m \in Seq(STRING) /\ Len(m) = Len(n) - 1 /\ \A i \in 1 .. Len(n) - 1 : m[i] = n[i]
      BY <1>1, <1>2, <1>3
    <2>2. m # << >>
      <3> HIDE DEF m
      <3>1. Len(m) > 0
        BY <2>1, <1>2, <1>3
      <3>2. QED
        BY <3>1, EmptySeq
    <2>3. \A i \in 2 .. Len(m) : m[i] \in S
      BY <2>1, <1>1, <1>2
    <2>4. n[Len(n)] \in S
      BY <1>1, <1>2, <1>3
    <2> HIDE DEF m
    <2>5. QED
      BY <2>1, <2>2, <2>3, <2>4 DEF NamesWith, m
  <1>4. QED
    BY <1>1, <1>2, <1>3

LEMMA NameParts ==
    ASSUME NEW n \in Names
    PROVE  /\ Len(n) \in Nat /\ Len(n) > 0
           /\ Len(n) > 1 => /\ SubSeq(n, 1, Len(n) - 1) \in Names
                            /\ n[Len(n)] \in Suffixes \cup DOMAIN BadSizes
  <1> DEFINE S == Suffixes \cup DOMAIN BadSizes
  <1>1. n \in NamesWith(S) /\ NamesWith(S) = Names
    BY DEF Names
  <1> HIDE DEF S
  <1>2. Len(n) \in Nat /\ Len(n) > 0
    BY <1>1, NameFacts
  <1>3. Len(n) > 1 => SubSeq(n, 1, Len(n) - 1) \in NamesWith(S) /\ n[Len(n)] \in S
    BY <1>1, NameFacts
  <1>4. QED
    BY <1>1, <1>2, <1>3 DEF S

\* A name of a C++ type is a name.
LEMMA CppNameFacts ==
    CppNames \subseteq Names /\ Seq(CppNames) \subseteq Seq(Names) /\ << >> \notin Names
  <1>1. CppNames \subseteq Names
    BY DEF CppNames, Names, NamesWith
  <1>2. << >> \notin Names
    BY DEF Names, NamesWith
  <1>3. QED
    BY <1>1, <1>2

\* The kind a suffix stands for.
LEMMA KindFacts ==
    ASSUME NEW n, Derivable(n)
    PROVE  KindOf(n) \in DerivedKinds
  <1>1. \E kind \in DerivedKinds : SuffixOf[kind] = n[Len(n)]
    BY DEF Derivable, Suffixes, DerivedKinds, SuffixOf
  <1>2. QED
    BY <1>1 DEF KindOf

LEMMA OneFacts ==
    ASSUME NEW S, NEW x \in S
    PROVE  <<x>> \in Seq(S) /\ Len(<<x>>) = 1 /\ <<x>> # << >> /\ <<x>>[1] = x
  OBVIOUS

\* Plain names stand for no derived type.
LEMMA PlainNames == \A n \in Predefined : n \in Names /\ Len(n) = 1 /\ n[1] \in STRING
  <1>1. ASSUME NEW b \in STRING
        PROVE  <<b>> \in Names /\ Len(<<b>>) = 1 /\ <<b>>[1] \in STRING
    <2> DEFINE n == <<b>>
    <2>1. n \in Seq(STRING) /\ Len(n) = 1 /\ n # << >> /\ n[1] = b
      BY OneFacts
    <2> HIDE DEF n
    <2>2. n \in Names
      BY <2>1 DEF Names, NamesWith
    <2>3. n[1] \in STRING
      BY <2>1
    <2>4. QED
      BY <2>1, <2>2, <2>3 DEF n
  <1>2. ASSUME NEW n \in Predefined
        PROVE  \E b \in STRING : n = <<b>>
    <2>1. CASE n \in {<<b>> : b \in Builtins}
      BY <2>1, BuiltinAssumption
    <2>2. CASE n = ExtendedAsset
      BY <2>2, BuiltinAssumption DEF ExtendedAsset
    <2>3. QED
      BY <2>1, <2>2, <1>2 DEF Predefined
  <1>3. QED
    BY <1>1, <1>2

----------------------------------------------------------------------------
(***************************************************************************)
(* The table as it grows.                                                  *)
(***************************************************************************)
\* What a node refers to stays.
LEMMA ResolvedStays ==
    ASSUME NEW t, NEW t2, NEW node, DOMAIN t \subseteq DOMAIN t2, IsResolved(t, node)
    PROVE  IsResolved(t2, node)
  <1>1. node.fields \in Seq(DOMAIN t2)
    BY DEF IsResolved
  <1>2. QED
    BY <1>1 DEF IsResolved

LEMMA NodeParts ==
    ASSUME NEW kind, NEW element, NEW fields
    PROVE  /\ Node(kind, element, fields).kind = kind
           /\ Node(kind, element, fields).element = element
           /\ Node(kind, element, fields).fields = fields
           /\ Node(kind, element, fields) = Node(Node(kind, element, fields).kind,
                 Node(kind, element, fields).element, Node(kind, element, fields).fields)
  BY DEF Node

\* A table with a node that is new or resolves the one by its name.
LEMMA TableWith ==
    ASSUME NEW t, Table(t), NEW n \in Names, NEW node,
           IsResolved(With(t, n, node), node),
           node.kind \in NamedKinds => n \in Definable \cup {ExtendedAsset},
           IF n \in DOMAIN t THEN Resolves(t[n].kind, node.kind)
           ELSE Derivable(n) => node.kind = KindOf(n)
    PROVE  Table(With(t, n, node)) /\ Evolves(t, With(t, n, node))
  <1> DEFINE t2 == With(t, n, node)
  <1>1. /\ DOMAIN t2 = DOMAIN t \cup {n} /\ t2[n] = node
        /\ \A m \in DOMAIN t : m # n => t2[m] = t[m]
        /\ IsTable(t2)
    BY DEF With, IsTable
  <1>2. IsResolved(t2, node)
    OBVIOUS
  <1> HIDE DEF t2
  <1>3. node.kind \notin DefKinds
    BY <1>2 DEF IsResolved, ResolvedKinds, DefKinds, DerivedKinds
  <1>4. ASSUME NEW m \in DOMAIN t2
        PROVE  /\ IsDefinition(t2[m]) \/ IsResolved(t2, t2[m])
               /\ t2[m].kind \in DefKinds => m \in Definable
               /\ t2[m].kind \in NamedKinds => m \in Definable \cup {ExtendedAsset}
    <2>1. CASE m = n
      BY <2>1, <1>1, <1>2, <1>3
    <2>2. CASE m # n
      <3>1. m \in DOMAIN t /\ t2[m] = t[m]
        BY <2>2, <1>1
      <3>2. IsDefinition(t[m]) \/ IsResolved(t2, t[m])
        BY <3>1, <1>1, ResolvedStays DEF Table
      <3>3. QED
        BY <3>1, <3>2 DEF Table
    <2>3. QED
      BY <2>1, <2>2
  <1>5. Table(t2)
    BY <1>1, <1>4 DEF Table
  <1>6. Evolves(t, t2)
    <2>1. \A m \in DOMAIN t : Resolves(t[m].kind, t2[m].kind)
      BY <1>1 DEF Resolves
    <2>2. \A m \in DOMAIN t2 \ DOMAIN t :
             t2[m].kind \notin DefKinds /\ (Derivable(m) => t2[m].kind = KindOf(m))
      BY <1>1, <1>3
    <2>3. QED
      BY <1>1, <2>1, <2>2 DEF Evolves
  <1>7. QED
    BY <1>5, <1>6 DEF t2

LEMMA EvolvesSame ==
    ASSUME NEW t
    PROVE  Evolves(t, t)
  BY DEF Evolves, Resolves

\* Kinds that are not definitions stay.
LEMMA KindStays ==
    ASSUME NEW t, NEW t2, Evolves(t, t2), NEW n \in DOMAIN t
    PROVE  /\ n \in DOMAIN t2
           /\ t[n].kind \notin DefKinds => t2[n].kind = t[n].kind
           /\ t2[n].kind \in DefKinds => t[n].kind = t2[n].kind
  BY DEF Evolves, Resolves, DefKinds

LEMMA FrameStays ==
    ASSUME NEW t, NEW t2, Evolves(t, t2), NEW f, FrameOK(t, f)
    PROVE  FrameOK(t2, f)
  <1>1. f.fields \in Seq(DOMAIN t2)
    BY DEF FrameOK, Evolves
  <1>2. ASSUME f.fn \in Resolving \cup {"members"}
        PROVE  f.name \in DOMAIN t2 /\ t2[f.name].kind \in WorkedOn(f.fn)
    <2>1. f.name \in DOMAIN t /\ t[f.name].kind \in WorkedOn(f.fn)
      BY <1>2 DEF FrameOK
    <2>2. f.name \in DOMAIN t2 /\ Resolves(t[f.name].kind, t2[f.name].kind)
      BY <2>1 DEF Evolves
    <2>3. QED
      BY <2>1, <2>2, <1>2 DEF WorkedOn, Resolves, Resolving
  <1>3. ASSUME f.fn = "derived", f.name \in DOMAIN t2
        PROVE  t2[f.name].kind = KindOf(f.name)
    <2>1. Derivable(f.name)
      BY <1>3 DEF FrameOK
    <2>2. CASE f.name \in DOMAIN t
      <3>1. t[f.name].kind = KindOf(f.name)
        BY <2>2, <1>3 DEF FrameOK
      <3>2. t[f.name].kind \notin DefKinds
        BY <3>1, <2>1, KindFacts DEF DerivedKinds, DefKinds
      <3>3. QED
        BY <3>1, <3>2, <2>2, KindStays
    <2>3. CASE f.name \notin DOMAIN t
      BY <2>1, <2>3, <1>3 DEF Evolves
    <2>4. QED
      BY <2>2, <2>3
  <1>4. QED
    BY <1>1, <1>2, <1>3 DEF FrameOK

----------------------------------------------------------------------------
(***************************************************************************)
(* The stack of calls.                                                     *)
(***************************************************************************)
LEMMA CallFacts ==
    ASSUME calls \in Seq(Calls), calls # << >>
    PROVE  /\ Len(calls) \in Nat /\ Len(calls) > 0 /\ DOMAIN calls = 1 .. Len(calls)
           /\ Top \in Calls /\ Top = calls[Len(calls)]
           /\ Below \in Seq(Calls) /\ Len(Below) = Len(calls) - 1
           /\ \A i \in 1 .. Len(calls) - 1 : Below[i] = calls[i]
           /\ Below = << >> <=> Len(calls) = 1
  <1>1. Len(calls) \in Nat /\ Len(calls) > 0 /\ DOMAIN calls = 1 .. Len(calls)
    BY EmptySeq, LenProperties
  <1>2. Top \in Calls /\ Top = calls[Len(calls)]
    BY <1>1 DEF Top
  <1>3. /\ Below \in Seq(Calls) /\ Len(Below) = Len(calls) - 1
        /\ \A i \in 1 .. Len(calls) - 1 : Below[i] = calls[i]
    BY <1>1 DEF Below
  <1>4. Below = << >> <=> Len(calls) = 1
    BY <1>1, <1>3, EmptySeq
  <1>5. QED
    BY <1>1, <1>2, <1>3, <1>4

LEMMA JoinFacts ==
    ASSUME NEW S, NEW a \in Seq(S), NEW b \in Seq(S)
    PROVE  /\ a \o b \in Seq(S) /\ Len(a \o b) = Len(a) + Len(b) /\ Len(b) \in Nat
           /\ \A i \in 1 .. Len(a) : (a \o b)[i] = a[i]
           /\ \A i \in 1 .. Len(b) : (a \o b)[Len(a) + i] = b[i]
  OBVIOUS

\* A step of the innermost call, which leaves fr in its place.
LEMMA StackStep ==
    ASSUME IInv, calls # << >>, UNCHANGED <<abi, source, filled, pc, error>>,
           Table(types'), Evolves(types, types'),
           NEW fr \in Seq(Calls), calls' = Below \o fr,
           \A i \in 1 .. Len(fr) : FrameOK(types', fr[i]) /\ fr[i].fn \in Modes,
           returned' \in DOMAIN types' \cup {<< >>},
           returned' # << >> => calls' # << >>,
           pc = "fill" /\ Below = << >> /\ fr # << >> =>
              fr[1].name = Top.name /\ fr[1].fn \in Resolving,
           pc = "fill" /\ calls' = << >> => types'[Top.name].kind \notin DefKinds
    PROVE  IInv'
  <1>1. /\ calls \in Seq(Calls) /\ filled \in 0 .. Len(Order)
        /\ \A i \in 1 .. Len(calls) : FrameOK(types, calls[i]) /\ calls[i].fn \in Modes
        /\ pc = "fill" => filled > 0 /\ calls[1].name = Order[filled] /\ calls[1].fn \in Resolving
    BY LenProperties DEF IInv, CallsOK
  <1>2. /\ Len(calls) \in Nat /\ Len(calls) > 0
        /\ Below \in Seq(Calls) /\ Len(Below) = Len(calls) - 1
        /\ \A i \in 1 .. Len(calls) - 1 : Below[i] = calls[i]
        /\ Below = << >> <=> Len(calls) = 1
        /\ Top = calls[Len(calls)]
    BY <1>1, CallFacts
  <1>3. /\ calls' \in Seq(Calls) /\ Len(calls') = Len(Below) + Len(fr)
        /\ \A i \in 1 .. Len(Below) : calls'[i] = calls[i]
        /\ \A i \in 1 .. Len(fr) : calls'[Len(Below) + i] = fr[i]
        /\ Len(fr) \in Nat /\ DOMAIN calls' = 1 .. Len(calls')
    <2> DEFINE c == calls'
               b == Below
    <2>0. b \in Seq(Calls) /\ fr \in Seq(Calls) /\ c = b \o fr
      BY <1>2
    <2> HIDE DEF c, b
    <2>1. /\ c \in Seq(Calls) /\ Len(c) = Len(b) + Len(fr) /\ Len(fr) \in Nat
          /\ \A i \in 1 .. Len(b) : c[i] = b[i]
          /\ \A i \in 1 .. Len(fr) : c[Len(b) + i] = fr[i]
      BY ONLY <2>0, JoinFacts
    <2>2. DOMAIN c = 1 .. Len(c)
      BY <2>1, LenProperties
    <2>3. QED
      BY <2>1, <2>2, <1>2 DEF c, b
  <1>4. pc' = pc /\ filled' = filled /\ Modes' = Modes
    BY DEF Modes
  <1>5. ASSUME NEW i \in 1 .. Len(calls')
        PROVE  FrameOK(types', calls'[i]) /\ calls'[i].fn \in Modes'
    <2>1. CASE i <= Len(Below)
      <3>1. FrameOK(types, calls[i]) /\ calls[i].fn \in Modes
        BY <2>1, <1>1, <1>2
      <3>2. QED
        BY <3>1, <2>1, <1>2, <1>3, <1>4, FrameStays
    <2>2. CASE i > Len(Below)
      <3>1. i - Len(Below) \in 1 .. Len(fr) /\ calls'[i] = fr[i - Len(Below)]
        BY <2>2, <1>2, <1>3, SMTT(60)
      <3>2. QED
        BY <3>1, <1>4
    <2>3. QED
      BY <2>1, <2>2, <1>2
  <1>6. ASSUME pc = "fill", calls' # << >>
        PROVE  calls'[1].name = Order[filled] /\ calls'[1].fn \in Resolving
    <2>1. CASE Below # << >>
      <3>1. calls'[1] = calls[1]
        BY <2>1, <1>2, <1>3
      <3>2. QED
        BY <3>1, <1>1, <1>6
    <2>2. CASE Below = << >>
      <3>1. Len(calls) = 1 /\ Len(Below) = 0 /\ Top = calls[1]
        BY <2>2, <1>2
      <3>2. Len(calls') > 0
        BY <1>3, <1>6, EmptySeq
      <3>3. Len(fr) > 0 /\ calls'[1] = fr[1] /\ fr # << >>
        BY <3>1, <3>2, <1>3
      <3>4. QED
        BY <3>1, <3>3, <2>2, <1>1, <1>6
    <2>3. QED
      BY <2>1, <2>2
  <1>7. CallsOK'
    BY <1>1, <1>3, <1>4, <1>5, <1>6 DEF CallsOK
  <1>8. ASSUME pc = "fill", NEW i \in 1 .. filled,
               Order[i] \in DOMAIN types', types'[Order[i]].kind \in DefKinds
        PROVE  i = filled /\ calls' # << >>
    <2>0. Order[i] \in DOMAIN types
      BY <1>8 DEF Evolves
    <2>1. types[Order[i]].kind \in DefKinds
      BY <1>8, <2>0, KindStays
    <2>2. i = filled
      BY <2>0, <2>1, <1>8 DEF IInv, Progress
    <2>3. ASSUME calls' = << >>
          PROVE  FALSE
      <3>1. Len(calls') = 0
        BY <2>3
      <3>2. Len(calls) = 1 /\ Top.name = Order[filled]
        BY <3>1, <1>1, <1>2, <1>3, <1>8
      <3>3. QED
        BY <3>2, <2>2, <2>3, <1>8
    <2>4. QED
      BY <2>2, <2>3
  <1>9. ASSUME pc = "ready", NEW n \in DOMAIN types'
        PROVE  types'[n].kind \notin DefKinds
    <2>1. n \in DOMAIN types => types[n].kind \notin DefKinds
      BY <1>9 DEF IInv, Progress, NothingUnresolved
    <2>2. QED
      BY <2>1, KindStays DEF Evolves
  <1>10. Progress'
    BY <1>4, <1>8, <1>9 DEF Progress, NothingUnresolved
  <1>11. pc \in {"fill", "ready"}
    <2>1. calls[Len(calls)].fn \in Modes
      BY <1>1, <1>2
    <2>2. QED
      BY <2>1 DEF Modes
  <1>12. abi' = abi
    OBVIOUS
  <1>13. QED
    BY <1>4, <1>7, <1>10, <1>11, <1>12 DEF IInv

\* What is known of the innermost call.
LEMMA TopFacts ==
    ASSUME IInv, calls # << >>
    PROVE  /\ calls \in Seq(Calls) /\ Top \in Calls /\ FrameOK(types, Top) /\ Top.fn \in Modes
           /\ pc \in {"fill", "ready"} /\ Table(types)
           /\ pc = "fill" /\ Below = << >> => Top.fn \in Resolving
           /\ Top.name \in Names /\ Top.depth \in Nat
           /\ Top.fields \in Seq(DOMAIN types) /\ Top.rest \in Seq(Names)
           /\ returned \in DOMAIN types \cup {<< >>}
  <1>1. calls \in Seq(Calls) /\ Table(types) /\ returned \in DOMAIN types \cup {<< >>}
    BY DEF IInv, CallsOK
  <1>2. /\ Len(calls) \in Nat /\ Len(calls) > 0 /\ DOMAIN calls = 1 .. Len(calls)
        /\ Top \in Calls /\ Top = calls[Len(calls)]
        /\ Below = << >> <=> Len(calls) = 1
    BY <1>1, CallFacts
  <1>3. FrameOK(types, Top) /\ Top.fn \in Modes
    BY <1>1, <1>2 DEF IInv, CallsOK
  <1>4. pc = "fill" /\ Below = << >> => Top.fn \in Resolving
    BY <1>2 DEF IInv, CallsOK
  <1>5. pc \in {"fill", "ready"}
    BY <1>3 DEF Modes
  <1>6. Top.name \in Names /\ Top.depth \in Nat /\ Top.rest \in Seq(Names)
    BY <1>2 DEF Calls
  <1>7. Top.fields \in Seq(DOMAIN types)
    BY <1>3 DEF FrameOK
  <1>8. QED
    BY <1>1, <1>2, <1>3, <1>4, <1>5, <1>6, <1>7

LEMMA PairFacts ==
    ASSUME NEW S, NEW x \in S, NEW y \in S
    PROVE  /\ <<x, y>> \in Seq(S) /\ Len(<<x, y>>) = 2 /\ <<x, y>> # << >>
           /\ <<x, y>>[1] = x /\ <<x, y>>[2] = y
  OBVIOUS

\* The innermost call goes on as f.
LEMMA GoStep ==
    ASSUME IInv, calls # << >>, NEW f \in Calls, NEW t2, Continue(<<f>>, t2),
           Table(t2), Evolves(types, t2), FrameOK(t2, f), f.fn \in Modes,
           f.name = Top.name, Top.fn \in Resolving => f.fn \in Resolving
    PROVE  IInv'
  <1> DEFINE fr == <<f>>
  <1>1. fr \in Seq(Calls) /\ Len(fr) = 1 /\ fr # << >> /\ fr[1] = f
    BY OneFacts
  <1>2. /\ UNCHANGED <<abi, source, filled, pc, error>>
        /\ types' = t2 /\ calls' = Below \o fr /\ returned' = << >>
    BY DEF Continue
  <1>3. pc = "fill" /\ Below = << >> => Top.fn \in Resolving
    BY TopFacts
  <1>4. calls' # << >>
    <2>1. Below \in Seq(Calls)
      BY TopFacts, CallFacts
    <2> HIDE DEF fr
    <2>2. Len(Below \o fr) = Len(Below) + Len(fr) /\ Len(Below) \in Nat
      BY <1>1, <2>1, JoinFacts, LenProperties
    <2>3. QED
      BY <1>1, <1>2, <2>2, EmptySeq
  <1> HIDE DEF fr
  <1>5. \A i \in 1 .. Len(fr) : FrameOK(types', fr[i]) /\ fr[i].fn \in Modes
    BY <1>1, <1>2
  <1>6. QED
    BY <1>1, <1>2, <1>3, <1>4, <1>5, StackStep

\* The innermost call goes on as f and calls g.
LEMMA CallStep ==
    ASSUME IInv, calls # << >>, NEW f \in Calls, NEW g \in Calls, NEW t2, Continue(<<f, g>>, t2),
           Table(t2), Evolves(types, t2), FrameOK(t2, f), FrameOK(t2, g),
           f.fn \in Modes, g.fn \in Modes,
           f.name = Top.name, Top.fn \in Resolving => f.fn \in Resolving
    PROVE  IInv'
  <1> DEFINE fr == <<f, g>>
  <1>1. fr \in Seq(Calls) /\ Len(fr) = 2 /\ fr # << >> /\ fr[1] = f /\ fr[2] = g
    BY PairFacts
  <1>2. /\ UNCHANGED <<abi, source, filled, pc, error>>
        /\ types' = t2 /\ calls' = Below \o fr /\ returned' = << >>
    BY DEF Continue
  <1>3. pc = "fill" /\ Below = << >> => Top.fn \in Resolving
    BY TopFacts
  <1>4. calls' # << >>
    <2>1. Below \in Seq(Calls)
      BY TopFacts, CallFacts
    <2> HIDE DEF fr
    <2>2. Len(Below \o fr) = Len(Below) + Len(fr) /\ Len(Below) \in Nat
      BY <1>1, <2>1, JoinFacts, LenProperties
    <2>3. QED
      BY <1>1, <1>2, <2>2, EmptySeq
  <1> HIDE DEF fr
  <1>5. \A i \in 1 .. Len(fr) : FrameOK(types', fr[i]) /\ fr[i].fn \in Modes
    <2>1. \A i \in 1 .. Len(fr) : i = 1 \/ i = 2
      BY <1>1
    <2>2. QED
      BY <2>1, <1>1, <1>2
  <1>6. QED
    BY <1>1, <1>2, <1>3, <1>4, <1>5, StackStep

\* The innermost call returns.
LEMMA ReturnStep ==
    ASSUME IInv, calls # << >>, NEW type, NEW t2, Return(type, t2),
           Table(t2), Evolves(types, t2), type \in DOMAIN t2,
           pc = "fill" /\ Top.fn \in Resolving => t2[Top.name].kind \notin DefKinds
    PROVE  IInv'
  <1> DEFINE fr == SubSeq(calls, 2, 1)
  <1>1. /\ UNCHANGED <<abi, source, filled, pc, error>> /\ types' = t2 /\ calls' = Below
        /\ returned' = IF Below = << >> THEN << >> ELSE type
    BY DEF Return
  <1>2. calls \in Seq(Calls) /\ Below \in Seq(Calls) /\ Len(calls) \in Nat
    BY TopFacts, CallFacts
  <1>3. << >> \in Seq(Calls) /\ Len(<< >>) = 0 /\ Below \o << >> = Below
    BY <1>2, EmptySeq, ConcatEmptySeq
  <1>4. pc = "fill" /\ Below = << >> => Top.fn \in Resolving
    BY TopFacts
  <1>5. \A i \in 1 .. Len(<< >>) : FrameOK(types', << >>[i]) /\ << >>[i].fn \in Modes
    BY <1>3
  <1>6. QED
    BY <1>1, <1>3, <1>4, <1>5, StackStep

\* An error ends all calls.
LEMMA ThrowStep ==
    ASSUME IInv, calls # << >>, NEW e, Throw(e)
    PROVE  IInv'
  <1>1. /\ calls' = << >> /\ returned' = << >> /\ pc' \in {"ready", "failed"}
        /\ pc = "ready" => pc' = "ready"
        /\ pc' = "ready" => pc = "ready"
        /\ UNCHANGED <<abi, source, types, filled>>
    BY TopFacts DEF Throw
  <1>2. CallsOK'
    <2>1. << >> \in Seq(Calls) /\ DOMAIN << >> = {}
      BY EmptySeq
    <2>2. QED
      BY <2>1, <1>1 DEF CallsOK
  <1>3. Progress'
    BY <1>1 DEF IInv, Progress, NothingUnresolved
  <1>4. QED
    BY <1>1, <1>2, <1>3 DEF IInv

----------------------------------------------------------------------------
(***************************************************************************)
(* What the calls do to the table.                                         *)
(***************************************************************************)

\* A frame for a call that has just been made is one.
LEMMA FrameFacts ==
    ASSUME NEW fn \in Fns, NEW name \in Names, NEW depth \in Nat, NEW rest \in Seq(Names)
    PROVE  LET f == Frame(fn, name, depth, rest)
           IN  /\ f \in Calls /\ f.fn = fn /\ f.name = name /\ f.depth = depth
               /\ f.rest = rest /\ f.fields = << >>
  <1>1. << >> \in Seq(Names)
    BY EmptySeq
  <1>2. QED
    BY <1>1 DEF Frame, Calls

\* The call of get_type for any name, with room for the depth of the call.
LEMMA GetFrame ==
    ASSUME NEW name \in Names, NEW depth \in Nat, NEW t
    PROVE  LET g == Frame("get_type", name, depth, << >>)
           IN  g \in Calls /\ FrameOK(t, g) /\ g.fn = "get_type"
  <1> DEFINE g == Frame("get_type", name, depth, << >>)
  <1>1. << >> \in Seq(Names) /\ "get_type" \in Fns
    BY EmptySeq DEF Fns
  <1>2. g \in Calls /\ g.fn = "get_type" /\ g.fields = << >>
    BY <1>1 DEF Frame, Calls
  <1>0. g.fields \in Seq(DOMAIN t)
    BY <1>2, EmptySeq
  <1> HIDE DEF g
  <1>3. FrameOK(t, g)
    BY <1>2, <1>0 DEF FrameOK, Resolving, Adding
  <1>4. QED
    BY <1>2, <1>3 DEF g

\* try_emplace.
LEMMA TryEmplaceFacts ==
    ASSUME NEW t, Table(t), NEW n \in Names, NEW kind \in {"variant"} \cup DerivedKinds,
           NEW element \in DOMAIN t \cup {<< >>}, NEW fields \in Seq(DOMAIN t),
           element = << >> <=> kind = "variant",
           kind \in DerivedKinds => Derivable(n) /\ kind = KindOf(n),
           kind = "variant" => n \in Definable /\ Len(n) = 1
    PROVE  LET t2 == TryEmplace(t, n, Node(kind, element, fields))
           IN  Table(t2) /\ Evolves(t, t2) /\ n \in DOMAIN t2
  <1> DEFINE node == Node(kind, element, fields)
  <1>1. CASE n \in DOMAIN t
    BY <1>1, EvolvesSame DEF TryEmplace
  <1>2. CASE n \notin DOMAIN t
    <2> DEFINE t2 == With(t, n, node)
    <2>1. DOMAIN t2 = DOMAIN t \cup {n}
      BY DEF With
    <2>2. node.kind = kind /\ node.element = element /\ node.fields = fields
      BY DEF Node
    <2>3. IsResolved(t2, node)
      <3>1. fields \in Seq(DOMAIN t2)
        BY <2>1
      <3>2. /\ kind \in ResolvedKinds /\ kind # "alias"
            /\ kind = "variant" <=> kind \notin DerivedKinds \cup {"alias"}
        BY DEF ResolvedKinds, DerivedKinds
      <3>3. << >> \notin DOMAIN t
        BY CppNameFacts DEF Table
      <3> HIDE DEF t2
      <3>4. QED
        BY <2>1, <2>2, <3>1, <3>2, <3>3 DEF IsResolved
    <2>4. node.kind \in NamedKinds => n \in Definable \cup {ExtendedAsset}
      BY <2>2 DEF NamedKinds, DefKinds, DerivedKinds
    <2>5. Derivable(n) => node.kind = KindOf(n)
      BY <2>2 DEF Derivable
    <2> HIDE DEF node
    <2>6. Table(t2) /\ Evolves(t, t2)
      BY <1>2, <2>3, <2>4, <2>5, TableWith
    <2>7. QED
      BY <1>2, <2>1, <2>6 DEF TryEmplace, node
  <1>3. QED
    BY <1>1, <1>2

----------------------------------------------------------------------------
(***************************************************************************)
(* get_type and resolve.                                                   *)
(***************************************************************************)

\* Calling get_type from a call that goes on as f.
LEMMA CallsGetType ==
    ASSUME IInv, calls # << >>, NEW f \in Calls, NEW name \in Names,
           Continue(<<f, Frame("get_type", name, Top.depth + 1, << >>)>>, types),
           FrameOK(types, f), f.fn \in Modes, f.name = Top.name,
           Top.fn \in Resolving => f.fn \in Resolving
    PROVE  IInv'
  <1> DEFINE g == Frame("get_type", name, Top.depth + 1, << >>)
  <1>1. Table(types) /\ Top.depth + 1 \in Nat /\ pc \in {"fill", "ready"}
    BY TopFacts
  <1>2. g \in Calls /\ FrameOK(types, g) /\ g.fn = "get_type"
    BY <1>1, GetFrame
  <1>3. g.fn \in Modes
    BY <1>1, <1>2 DEF Modes, Getting
  <1> HIDE DEF g
  <1>4. Continue(<<f, g>>, types)
    BY DEF g
  <1>5. QED
    BY <1>1, <1>2, <1>3, <1>4, EvolvesSame, CallStep

\* What changes when a call goes on as fn.
LEMMA GoesOn ==
    ASSUME NEW f \in Calls, NEW fn \in Fns, NEW fields \in Seq(Names), NEW rest \in Seq(Names)
    PROVE  LET g == [f EXCEPT !.fn = fn, !.fields = fields, !.rest = rest]
           IN  /\ g \in Calls /\ g.fn = fn /\ g.name = f.name /\ g.depth = f.depth
               /\ g.fields = fields /\ g.rest = rest
  BY DEF Calls

LEMMA GetTypeStep ==
    ASSUME IInv, GetType
    PROVE  IInv'
  <1> DEFINE name == Top.name
             node == types[name]
  <1>1. calls # << >> /\ Top.fn = "get_type"
    BY DEF GetType, Entered
  <1>2. /\ Top \in Calls /\ FrameOK(types, Top) /\ Top.fn \in Modes
        /\ pc \in {"fill", "ready"} /\ Table(types)
        /\ name \in Names /\ Top.depth \in Nat /\ Top.fields \in Seq(DOMAIN types)
        /\ Top.rest \in Seq(Names)
    BY <1>1, TopFacts
  <1>3. CASE Top.depth >= MaxDepth
    <2>1. Throw("recursion_limit_reached")
      BY <1>3 DEF GetType
    <2>2. QED
      BY <2>1, <1>1, ThrowStep
  <1>4. CASE ~(Top.depth >= MaxDepth) /\ name \notin DOMAIN types
    <2>1. GetDerived(name)
      BY <1>4 DEF GetType
    <2>2. CASE Len(name) = 1
      BY <2>1, <2>2, <1>1, ThrowStep DEF GetDerived
    <2>3. CASE Len(name) # 1 /\ name[Len(name)] \in DOMAIN BadSizes
      BY <2>1, <2>3, <1>1, ThrowStep DEF GetDerived
    <2>4. CASE Len(name) # 1 /\ name[Len(name)] \notin DOMAIN BadSizes
      <3> DEFINE f == [Top EXCEPT !.fn = "derived"]
                 below == SubSeq(name, 1, Len(name) - 1)
      <3>1. Continue(<<f, Frame("get_type", below, Top.depth + 1, << >>)>>, types)
        BY <2>1, <2>4 DEF GetDerived
      <3>2. below \in Names /\ Len(name) > 1 /\ name[Len(name)] \in Suffixes \cup DOMAIN BadSizes
        <4>1. name \in Names
        BY <1>2
      <4> HIDE DEF name
      <4>0. Len(name) \in Nat /\ Len(name) > 0
        BY <4>1, NameParts
      <4>2. Len(name) \in Nat /\ Len(name) > 1
        BY <4>0, <2>4
      <4>3. below \in Names /\ name[Len(name)] \in Suffixes \cup DOMAIN BadSizes
        BY <4>1, <4>2, NameParts
      <4>4. QED
        BY <4>2, <4>3
      <3>3. Derivable(name)
        BY <3>2, <2>4 DEF Derivable
      <3>4. f \in Calls /\ f.fn = "derived" /\ f.name = name /\ f.fields = Top.fields
        BY <1>2 DEF Calls, Fns
      <3> HIDE DEF f, below
      <3>5. FrameOK(types, f)
        BY <3>3, <3>4, <1>2, <1>4 DEF FrameOK, Resolving, Adding
      <3>6. f.fn \in Modes /\ Top.fn \notin Resolving
        BY <1>1, <1>2, <3>4 DEF Modes, Getting, Resolving
      <3>7. QED
        BY <1>1, <3>1, <3>2, <3>4, <3>5, <3>6, CallsGetType
    <2>5. QED
      BY <2>2, <2>3, <2>4
  <1>5. CASE ~(Top.depth >= MaxDepth) /\ name \in DOMAIN types /\ node.kind = "alias"
    <2>1. Return(node.element, types)
      BY <1>5 DEF GetType
    <2>2. node.element \in DOMAIN types
      BY <1>2, <1>5 DEF Table, IsDefinition, DefKinds, IsResolved
    <2>3. Top.fn \notin Resolving
      BY <1>1 DEF Resolving
    <2>4. QED
      BY <1>1, <1>2, <2>1, <2>2, <2>3, EvolvesSame, ReturnStep
  <1>6. CASE ~(Top.depth >= MaxDepth) /\ name \in DOMAIN types /\ node.kind = "alias_def"
    <2> DEFINE f == [Top EXCEPT !.fn = "alias"]
               target == node.element
    <2>1. Continue(<<f, Frame("get_type", target, Top.depth + 1, << >>)>>, types)
      BY <1>6 DEF GetType
    <2>2. target \in Names
      BY <1>2, <1>6 DEF Table, IsDefinition, IsResolved, ResolvedKinds, DerivedKinds
    <2>3. f \in Calls /\ f.fn = "alias" /\ f.name = name /\ f.fields = Top.fields
      BY <1>2 DEF Calls, Fns
    <2>4. pc = "fill"
      BY <1>2, <1>6 DEF IInv, Progress, NothingUnresolved, DefKinds
    <2> HIDE DEF f, target
    <2>5. FrameOK(types, f)
      BY <2>3, <1>2, <1>6 DEF FrameOK, Resolving, Adding, WorkedOn
    <2>6. f.fn \in Modes /\ Top.fn \notin Resolving
      BY <1>1, <2>3, <2>4 DEF Modes, Resolving
    <2>7. QED
      BY <1>1, <2>1, <2>2, <2>3, <2>5, <2>6, CallsGetType
  <1>7. CASE ~(Top.depth >= MaxDepth) /\ name \in DOMAIN types
             /\ node.kind \notin {"alias", "alias_def"}
    <2>1. Return(name, types)
      BY <1>7 DEF GetType
    <2>2. Top.fn \notin Resolving
      BY <1>1 DEF Resolving
    <2>3. QED
      BY <1>1, <1>2, <1>7, <2>1, <2>2, EvolvesSame, ReturnStep
  <1>8. QED
    BY <1>3, <1>4, <1>5, <1>6, <1>7

LEMMA DerivedStep ==
    ASSUME IInv, Derived
    PROVE  IInv'
  <1> DEFINE name == Top.name
             kind == KindOf(name)
             t2   == TryEmplace(types, name, Node(kind, returned, << >>))
  <1>1. calls # << >> /\ Top.fn = "derived" /\ returned # << >>
    BY DEF Derived, Resumed
  <1>2. /\ FrameOK(types, Top) /\ Table(types) /\ name \in Names
        /\ returned \in DOMAIN types
    BY <1>1, TopFacts
  <1>3. CASE types[returned].kind \in Forbidden(kind)
    BY <1>1, <1>3, ThrowStep DEF Derived
  <1>4. CASE types[returned].kind \notin Forbidden(kind)
    <2>1. Return(name, t2)
      BY <1>4 DEF Derived
    <2>2. Derivable(name) /\ kind \in DerivedKinds
      BY <1>1, <1>2, KindFacts DEF FrameOK
    <2>3. << >> \in Seq(DOMAIN types) /\ kind # "variant"
      BY <2>2, EmptySeq DEF DerivedKinds
    <2>4. Table(t2) /\ Evolves(types, t2) /\ name \in DOMAIN t2
      BY <1>1, <1>2, <2>2, <2>3, TryEmplaceFacts
    <2>5. Top.fn \notin Resolving
      BY <1>1 DEF Resolving
    <2> HIDE DEF t2
    <2>6. QED
      BY <1>1, <2>1, <2>4, <2>5, ReturnStep
  <1>5. QED
    BY <1>3, <1>4

\* A definition that a call has worked on is replaced by what it stands for.
LEMMA ReplaceFacts ==
    ASSUME NEW t, Table(t), NEW n \in DOMAIN t, NEW kind \in {"alias", "struct", "variant"},
           NEW element \in DOMAIN t \cup {<< >>}, NEW fields \in Seq(DOMAIN t),
           element = << >> <=> kind # "alias", kind = "alias" => fields = << >>,
           Resolves(t[n].kind, kind)
    PROVE  LET t2 == With(t, n, Node(kind, element, fields))
           IN  Table(t2) /\ Evolves(t, t2)
  <1> DEFINE node == Node(kind, element, fields)
             t2   == With(t, n, node)
  <1>1. DOMAIN t2 = DOMAIN t /\ t2[n] = node
    BY DEF With
  <1>2. node.kind = kind /\ node.element = element /\ node.fields = fields
    BY DEF Node
  <1>3. n \in Names /\ << >> \notin DOMAIN t
    BY CppNameFacts DEF Table
  <1>4. IsResolved(t2, node)
    <2>1. kind \in ResolvedKinds /\ (kind = "alias" <=> kind \in DerivedKinds \cup {"alias"})
      BY DEF ResolvedKinds, DerivedKinds
    <2> HIDE DEF t2
    <2>2. QED
      BY <1>1, <1>2, <1>3, <2>1 DEF IsResolved
  <1>5. n \in Definable \cup {ExtendedAsset}
    <2>1. t[n].kind \in NamedKinds
      BY DEF Resolves, NamedKinds, DefKinds
    <2>2. QED
      BY <2>1 DEF Table
  <1>6. Resolves(t[n].kind, node.kind)
    BY <1>2
  <1> HIDE DEF node
  <1>7. Table(t2) /\ Evolves(t, t2)
    BY <1>3, <1>4, <1>5, <1>6, TableWith
  <1>8. QED
    BY <1>1, <1>2, <1>7 DEF node

LEMMA ResolveAliasStep ==
    ASSUME IInv, ResolveAlias
    PROVE  IInv'
  <1> DEFINE t2 == With(types, Top.name, Node("alias", returned, << >>))
  <1>1. calls # << >> /\ Top.fn = "alias" /\ returned # << >>
    BY DEF ResolveAlias, Resumed
  <1>2. /\ FrameOK(types, Top) /\ Table(types) /\ returned \in DOMAIN types
    BY <1>1, TopFacts
  <1>3. CASE types[returned].kind = "extension"
    BY <1>1, <1>3, ThrowStep DEF ResolveAlias
  <1>4. CASE types[returned].kind # "extension"
    <2>1. Return(returned, t2)
      BY <1>4 DEF ResolveAlias
    <2>2. Top.name \in DOMAIN types /\ Resolves(types[Top.name].kind, "alias")
      BY <1>1, <1>2 DEF FrameOK, WorkedOn, Resolving, Resolves
    <2>3. << >> \in Seq(DOMAIN types)
      BY EmptySeq
    <2>a. DOMAIN t2 = DOMAIN types /\ t2[Top.name].kind = "alias"
      BY <2>2 DEF With, Node
    <2>b. Table(t2) /\ Evolves(types, t2)
      BY <1>1, <1>2, <2>2, <2>3, ReplaceFacts
    <2>4. Table(t2) /\ Evolves(types, t2) /\ DOMAIN t2 = DOMAIN types /\ t2[Top.name].kind = "alias"
      BY <2>a, <2>b
    <2> HIDE DEF t2
    <2>5. t2[Top.name].kind \notin DefKinds
      BY <2>4 DEF DefKinds
    <2>6. QED
      BY <1>1, <1>2, <2>1, <2>4, <2>5, ReturnStep
  <1>5. QED
    BY <1>3, <1>4

\* The element of a node that a struct call works on is a name or nothing.
LEMMA StructFacts ==
    ASSUME NEW t, Table(t), NEW n \in DOMAIN t, t[n].kind \in {"struct_def", "struct"}
    PROVE  /\ t[n].element \in Names \cup {<< >>}
           /\ t[n].kind = "struct" => t[n].fields \in Seq(DOMAIN t) /\ t[n].element = << >>
           /\ t[n].kind = "struct_def" => t[n].fields \in Seq(Names)
  <1>1. IsDefinition(t[n]) \/ IsResolved(t, t[n])
    BY DEF Table
  <1>2. CASE t[n].kind = "struct"
    BY <1>1, <1>2 DEF IsDefinition, IsResolved, DefKinds, DerivedKinds
  <1>3. CASE t[n].kind = "struct_def"
    BY <1>1, <1>3 DEF IsDefinition, IsResolved, ResolvedKinds, DerivedKinds
  <1>4. QED
    BY <1>2, <1>3

LEMMA ResolveStructStep ==
    ASSUME IInv, ResolveStruct
    PROVE  IInv'
  <1> DEFINE base == types[Top.name].element
  <1>1. calls # << >> /\ Top.fn = "struct"
    BY DEF ResolveStruct, Entered
  <1>2. /\ Top \in Calls /\ FrameOK(types, Top) /\ Top.fn \in Modes /\ Table(types)
        /\ pc \in {"fill", "ready"} /\ Top.fields \in Seq(DOMAIN types)
    BY <1>1, TopFacts
  <1>3. Top.name \in DOMAIN types /\ types[Top.name].kind \in {"struct_def", "struct"}
    BY <1>1, <1>2 DEF FrameOK, WorkedOn, Resolving
  <1>4. base \in Names \cup {<< >>}
    BY <1>2, <1>3, StructFacts
  <1>5. pc = "fill"
    BY <1>1, <1>2 DEF Modes, Getting, Adding
  <1>6. ASSUME NEW fn \in {"base", "fields"}
        PROVE  LET f == [Top EXCEPT !.fn = fn]
               IN  /\ f \in Calls /\ f.name = Top.name /\ FrameOK(types, f) /\ f.fn \in Modes
                   /\ f.fn \in Resolving
    <2> DEFINE f == [Top EXCEPT !.fn = fn]
    <2>1. f \in Calls /\ f.fn = fn /\ f.name = Top.name /\ f.fields = Top.fields
      BY <1>2 DEF Calls, Fns
    <2> HIDE DEF f
    <2>2. FrameOK(types, f)
      BY <2>1, <1>2, <1>3 DEF FrameOK, Resolving, Adding, WorkedOn
    <2>3. f.fn \in Modes /\ f.fn \in Resolving
      BY <2>1, <1>5 DEF Modes, Resolving
    <2>4. QED
      BY <2>1, <2>2, <2>3 DEF f
  <1>7. CASE Top.depth >= MaxDepth
    BY <1>1, <1>7, ThrowStep DEF ResolveStruct
  <1>8. CASE ~(Top.depth >= MaxDepth) /\ base = << >>
    <2> DEFINE f == [Top EXCEPT !.fn = "fields"]
    <2>1. Continue(<<f>>, types)
      BY <1>8 DEF ResolveStruct
    <2>2. /\ f \in Calls /\ f.name = Top.name /\ FrameOK(types, f) /\ f.fn \in Modes
          /\ f.fn \in Resolving
      BY <1>6
    <2> HIDE DEF f
    <2>3. QED
      BY <1>1, <1>2, <2>1, <2>2, EvolvesSame, GoStep
  <1>9. CASE ~(Top.depth >= MaxDepth) /\ base # << >>
    <2> DEFINE f == [Top EXCEPT !.fn = "base"]
    <2>1. Continue(<<f, Frame("get_type", base, Top.depth + 1, << >>)>>, types)
      BY <1>9 DEF ResolveStruct
    <2>2. /\ f \in Calls /\ f.name = Top.name /\ FrameOK(types, f) /\ f.fn \in Modes
          /\ f.fn \in Resolving
      BY <1>6
    <2>3. base \in Names
      BY <1>4, <1>9
    <2> HIDE DEF f, base
    <2>4. QED
      BY <1>1, <2>1, <2>2, <2>3, CallsGetType
  <1>10. QED
    BY <1>7, <1>8, <1>9

LEMMA ResolveBaseStep ==
    ASSUME IInv, ResolveBase
    PROVE  IInv'
  <1> DEFINE kind == types[returned].kind
  <1>1. calls # << >> /\ Top.fn = "base" /\ returned # << >>
    BY DEF ResolveBase, Resumed
  <1>2. /\ Top \in Calls /\ FrameOK(types, Top) /\ Top.fn \in Modes /\ Table(types)
        /\ pc \in {"fill", "ready"} /\ Top.depth \in Nat
        /\ returned \in DOMAIN types
    BY <1>1, TopFacts
  <1>3. pc = "fill"
    BY <1>1, <1>2 DEF Modes, Getting, Adding
  <1>4. CASE kind = "struct"
    <2> DEFINE f == [Top EXCEPT !.fn = "fields", !.fields = types[returned].fields]
    <2>1. Continue(<<f>>, types)
      BY <1>4 DEF ResolveBase, Inherit
    <2>2. types[returned].fields \in Seq(DOMAIN types)
      BY <1>2, <1>4, StructFacts
    <2>3. types[returned].fields \in Seq(Names)
      BY <2>2, <1>2 DEF Table
    <2>4. f \in Calls /\ f.fn = "fields" /\ f.name = Top.name /\ f.fields = types[returned].fields
      BY <1>2, <2>3 DEF Calls, Fns
    <2> HIDE DEF f
    <2>5. FrameOK(types, f)
      BY <1>1, <1>2, <2>2, <2>4 DEF FrameOK, Resolving, Adding, WorkedOn
    <2>6. f.fn \in Modes /\ f.fn \in Resolving
      BY <2>4, <1>3 DEF Modes, Resolving
    <2>7. QED
      BY <1>1, <1>2, <2>1, <2>4, <2>5, <2>6, EvolvesSame, GoStep
  <1>5. CASE kind = "struct_def"
    <2> DEFINE g == Frame("struct", returned, Top.depth + 1, types[returned].fields)
    <2>1. Continue(<<Top, g>>, types)
      BY <1>5 DEF ResolveBase, ResolveFirst
    <2>2. returned \in Names /\ types[returned].fields \in Seq(Names) /\ Top.depth + 1 \in Nat
      BY <1>2, <1>5, StructFacts DEF Table
    <2>3. g \in Calls /\ g.fn = "struct" /\ g.name = returned /\ g.fields = << >>
      BY <2>2, EmptySeq DEF Frame, Calls, Fns
    <2> HIDE DEF g
    <2>4. << >> \in Seq(DOMAIN types)
      BY EmptySeq
    <2>5. FrameOK(types, g)
      BY <1>2, <1>5, <2>3, <2>4 DEF FrameOK, Resolving, Adding, WorkedOn
    <2>6. g.fn \in Modes
      BY <2>3, <1>3 DEF Modes, Resolving
    <2>7. QED
      BY <1>1, <1>2, <2>1, <2>3, <2>5, <2>6, EvolvesSame, CallStep
  <1>6. CASE kind \notin {"struct", "struct_def"}
    <2>1. Throw("base_not_a_struct")
      BY <1>6 DEF ResolveBase
    <2>2. QED
      BY <1>1, <2>1, ThrowStep
  <1>7. QED
    BY <1>4, <1>5, <1>6

\* The members seen so far are types of the table.
LEMMA GatheredFacts ==
    ASSUME IInv, calls # << >>
    PROVE  Gathered \in Seq(DOMAIN types) /\ Gathered \in Seq(Names)
  <1>1. /\ Top.fields \in Seq(DOMAIN types) /\ returned \in DOMAIN types \cup {<< >>}
        /\ DOMAIN types \subseteq Names
    BY TopFacts DEF Table
  <1>2. Gathered \in Seq(DOMAIN types)
    <2>1. CASE returned = << >>
      BY <1>1, <2>1 DEF Gathered
    <2>2. CASE returned # << >>
      BY <1>1, <2>2, AppendProperties DEF Gathered
    <2>3. QED
      BY <2>1, <2>2
  <1>3. QED
    BY <1>1, <1>2

\* The rest of the members.
LEMMA RestFacts ==
    ASSUME NEW S, NEW rest \in Seq(S), rest # << >>
    PROVE  Head(rest) \in S /\ Tail(rest) \in Seq(S)
  BY HeadTailProperties

LEMMA ResolveMembersStep ==
    ASSUME IInv, ResolveMembers
    PROVE  IInv'
  <1>1. calls # << >> /\ Top.fn \in {"fields", "types"}
    BY DEF ResolveMembers
  <1>2. /\ Top \in Calls /\ FrameOK(types, Top) /\ Top.fn \in Modes /\ Table(types)
        /\ pc \in {"fill", "ready"} /\ Top.rest \in Seq(Names)
        /\ returned \in DOMAIN types \cup {<< >>}
    BY <1>1, TopFacts
  <1>3. Gathered \in Seq(DOMAIN types) /\ Gathered \in Seq(Names)
    BY <1>1, GatheredFacts
  <1>4. CASE Top.rest = << >>
    <2> DEFINE kind == IF Top.fn = "fields" THEN "struct" ELSE "variant"
               t2   == With(types, Top.name, Node(kind, << >>, Gathered))
    <2>1. Return(Top.name, t2)
      BY <1>4 DEF ResolveMembers
    <2>2. Top.name \in DOMAIN types /\ Resolves(types[Top.name].kind, kind)
      BY <1>1, <1>2 DEF FrameOK, WorkedOn, Resolving, Resolves
    <2>3. kind \in {"struct", "variant"}
      OBVIOUS
    <2> HIDE DEF kind
    <2>a. DOMAIN t2 = DOMAIN types /\ t2[Top.name].kind = kind
      BY <2>2 DEF With, Node
    <2>b. Table(t2) /\ Evolves(types, t2)
      BY <1>2, <1>3, <2>2, <2>3, ReplaceFacts
    <2>4. Table(t2) /\ Evolves(types, t2) /\ DOMAIN t2 = DOMAIN types /\ t2[Top.name].kind = kind
      BY <2>a, <2>b
    <2> HIDE DEF t2
    <2>5. t2[Top.name].kind \notin DefKinds
      BY <2>3, <2>4 DEF DefKinds
    <2>6. QED
      BY <1>1, <2>1, <2>2, <2>4, <2>5, ReturnStep
  <1>5. CASE Top.rest # << >>
    <2> DEFINE f    == [Top EXCEPT !.fields = Gathered, !.rest = Tail(@)]
               next == Head(Top.rest)
    <2>1. Continue(<<f, Frame("get_type", next, Top.depth + 1, << >>)>>, types)
      BY <1>5 DEF ResolveMembers
    <2>2. next \in Names /\ Tail(Top.rest) \in Seq(Names)
      BY <1>2, <1>5, RestFacts
    <2>3. f \in Calls /\ f.fn = Top.fn /\ f.name = Top.name /\ f.fields = Gathered
      BY <1>2, <1>3, <2>2 DEF Calls
    <2> HIDE DEF f, next
    <2>4. FrameOK(types, f)
      BY <1>1, <1>2, <1>3, <2>3 DEF FrameOK, Resolving, Adding
    <2>5. QED
      BY <1>1, <1>2, <2>1, <2>2, <2>3, <2>4, CallsGetType
  <1>6. QED
    BY <1>4, <1>5

----------------------------------------------------------------------------
(***************************************************************************)
(* add_type.                                                               *)
(***************************************************************************)
LEMMA CppNameParts ==
    ASSUME NEW n \in CppNames
    PROVE  /\ n \in Names /\ Len(n) \in Nat /\ Len(n) > 0
           /\ Len(n) > 1 => SubSeq(n, 1, Len(n) - 1) \in CppNames /\ Derivable(n)
           /\ ~(Len(n) > 1) => Len(n) = 1
  <1>1. n \in NamesWith(Suffixes)
    BY DEF CppNames
  <1>2. Len(n) \in Nat /\ Len(n) > 0
    BY <1>1, NameFacts
  <1>3. Len(n) > 1 => SubSeq(n, 1, Len(n) - 1) \in NamesWith(Suffixes) /\ n[Len(n)] \in Suffixes
    BY <1>1, NameFacts
  <1>4. n \in Names /\ (Len(n) > 1 => SubSeq(n, 1, Len(n) - 1) \in CppNames /\ Derivable(n))
    BY <1>2, <1>3, CppNameFacts DEF CppNames, Derivable
  <1>5. ~(Len(n) > 1) => Len(n) = 1
    <2> DEFINE k == Len(n)
    <2>1. k \in Nat /\ k > 0
      BY <1>2
    <2> HIDE DEF k
    <2>2. ~(k > 1) => k = 1
      BY ONLY <2>1
    <2>3. QED
      BY <2>2 DEF k
  <1>6. QED
    BY <1>2, <1>4, <1>5

\* The call of add_type for a name of a C++ type.
LEMMA AddFrame ==
    ASSUME NEW name \in CppNames, NEW t
    PROVE  LET g == Frame("add_type", name, 0, << >>)
           IN  g \in Calls /\ FrameOK(t, g) /\ g.fn = "add_type"
  <1> DEFINE g == Frame("add_type", name, 0, << >>)
  <1>1. << >> \in Seq(Names) /\ << >> \in Seq(CppNames) /\ << >> \in Seq(DOMAIN t)
    BY EmptySeq
  <1>2. /\ g \in Calls /\ g.fn = "add_type" /\ g.name = name
        /\ g.fields = << >> /\ g.rest = << >>
    BY <1>1, CppNameFacts DEF Frame, Calls, Fns
  <1> HIDE DEF g
  <1>3. FrameOK(t, g)
    BY <1>1, <1>2 DEF FrameOK, Resolving, Adding
  <1>4. QED
    BY <1>2, <1>3 DEF g

\* What add_type knows of its frame.
LEMMA AddingFacts ==
    ASSUME IInv, calls # << >>, Top.fn \in Adding
    PROVE  /\ pc = "ready" /\ Top.name \in CppNames /\ Top.rest \in Seq(CppNames)
           /\ Top.fn \notin Resolving
  <1>1. FrameOK(types, Top) /\ Top.fn \in Modes /\ pc \in {"fill", "ready"}
    BY TopFacts
  <1>2. pc = "ready"
    BY <1>1 DEF Modes, Getting, Resolving, Adding
  <1>3. QED
    BY <1>1, <1>2 DEF FrameOK, Adding, Resolving

\* What a struct or variant of the program is made of.
LEMMA ReflectedFacts ==
    ASSUME NEW name, Shape(name) \in {"struct", "variant"}
    PROVE  /\ name \in DOMAIN Reflected /\ name \in Definable
           /\ Reflected[name].kind = Shape(name) /\ Reflected[name].fields \in Seq(CppNames)
  <1>1. name \in DOMAIN Reflected
    BY DEF Shape
  <1>2. QED
    BY <1>1, CallerAssumption DEF Shape

LEMMA AddTypeStep ==
    ASSUME IInv, AddType
    PROVE  IInv'
  <1> DEFINE name == Top.name
  <1>1. calls # << >> /\ Top.fn = "add_type"
    BY DEF AddType, Entered
  <1>2. /\ Top \in Calls /\ FrameOK(types, Top) /\ Table(types)
        /\ Top.fields \in Seq(DOMAIN types) /\ Top.rest \in Seq(Names)
    BY <1>1, TopFacts
  <1>3. pc = "ready" /\ name \in CppNames /\ Top.rest \in Seq(CppNames) /\ Top.fn \notin Resolving
    BY <1>1, AddingFacts DEF Adding
  <1>4. name \in Names /\ (~(Len(name) > 1) => Len(name) = 1)
    BY <1>3, CppNameParts
  <1>5. CASE Len(name) > 1
    <2> DEFINE f     == [Top EXCEPT !.fn = "element"]
               below == SubSeq(name, 1, Len(name) - 1)
               g     == Frame("add_type", below, 0, << >>)
    <2>1. Continue(<<f, g>>, types)
      BY <1>5 DEF AddType
    <2>2. below \in CppNames
      BY <1>3, <1>5, CppNameParts
    <2>3. /\ f \in Calls /\ f.fn = "element" /\ f.name = name
          /\ f.fields = Top.fields /\ f.rest = Top.rest
      BY <1>2 DEF Calls, Fns
    <2> HIDE DEF f, below
    <2>4. g \in Calls /\ FrameOK(types, g) /\ g.fn = "add_type"
      BY <2>2, AddFrame
    <2> HIDE DEF g
    <2>5. FrameOK(types, f)
      BY <2>3, <1>2, <1>3, <1>5 DEF FrameOK, Resolving, Adding
    <2>6. f.fn \in Modes /\ g.fn \in Modes
      BY <2>3, <2>4, <1>3 DEF Modes, Adding
    <2>7. QED
      BY <1>1, <1>2, <1>3, <2>1, <2>3, <2>4, <2>5, <2>6, EvolvesSame, CallStep
  <1>6. CASE ~(Len(name) > 1) /\ Shape(name) = "variant"
    <2> DEFINE f == Frame("alternatives", name, 0, Reflected[name].fields)
    <2>1. Continue(<<f>>, types)
      BY <1>6 DEF AddType
    <2>2. Reflected[name].fields \in Seq(CppNames) /\ name \in DOMAIN Reflected /\ Len(name) = 1
      <3>1. Len(name) = 1
        BY <1>4, <1>6
      <3>2. Shape(name) \in {"struct", "variant"}
        BY <1>6
      <3>3. QED
        BY <3>1, <3>2, ReflectedFacts
    <2>3. /\ f \in Calls /\ f.fn = "alternatives" /\ f.name = name
          /\ f.fields = << >> /\ f.rest = Reflected[name].fields
      BY <1>4, <2>2, CppNameFacts, EmptySeq DEF Frame, Calls, Fns
    <2>4. << >> \in Seq(DOMAIN types)
      BY EmptySeq
    <2> HIDE DEF f
    <2>5. FrameOK(types, f)
      BY <1>3, <2>2, <2>3, <2>4 DEF FrameOK, Resolving, Adding
    <2>6. f.fn \in Modes
      BY <2>3, <1>3 DEF Modes, Adding
    <2>7. QED
      BY <1>1, <1>2, <1>3, <2>1, <2>3, <2>5, <2>6, EvolvesSame, GoStep
  <1>7. CASE ~(Len(name) > 1) /\ name \notin DOMAIN types /\ Shape(name) = "struct"
    <2> DEFINE f  == Frame("members", name, 0, Reflected[name].fields)
               t2 == With(types, name, Node("struct", << >>, << >>))
    <2>1. Continue(<<f>>, t2)
      BY <1>7 DEF AddType
    <2>2. Reflected[name].fields \in Seq(CppNames) /\ name \in Definable /\ Len(name) = 1
      <3>1. Len(name) = 1
        BY <1>4, <1>7
      <3>2. Shape(name) \in {"struct", "variant"}
        BY <1>7
      <3>3. QED
        BY <3>1, <3>2, ReflectedFacts
    <2>3. DOMAIN t2 = DOMAIN types \cup {name} /\ t2[name].kind = "struct"
      BY DEF With, Node
    <2>4. IsResolved(t2, Node("struct", << >>, << >>))
      <3>1. << >> \in Seq(DOMAIN t2)
        BY EmptySeq
      <3> HIDE DEF t2
      <3>2. QED
        BY <3>1 DEF IsResolved, Node, ResolvedKinds, DerivedKinds
    <2>5. ~Derivable(name) /\ Node("struct", << >>, << >>).kind = "struct"
      BY <2>2 DEF Derivable, Node
    <2>6. Table(t2) /\ Evolves(types, t2)
      BY <1>2, <1>4, <1>7, <2>2, <2>4, <2>5, TableWith
    <2>7. /\ f \in Calls /\ f.fn = "members" /\ f.name = name
          /\ f.fields = << >> /\ f.rest = Reflected[name].fields
      BY <1>4, <2>2, CppNameFacts, EmptySeq DEF Frame, Calls, Fns
    <2> HIDE DEF f, t2
    <2>8. FrameOK(t2, f)
      <3>1. << >> \in Seq(DOMAIN t2)
        BY EmptySeq
      <3>2. QED
        BY <1>3, <2>2, <2>3, <2>7, <3>1 DEF FrameOK, Resolving, Adding, WorkedOn
    <2>9. f.fn \in Modes
      BY <2>7, <1>3 DEF Modes, Adding
    <2>10. QED
      BY <1>1, <1>3, <2>1, <2>6, <2>7, <2>8, <2>9, GoStep
  <1>8. CASE /\ ~(Len(name) > 1) /\ Shape(name) # "variant"
             /\ name \in DOMAIN types \/ Shape(name) # "struct"
    <2>1. IF name \in DOMAIN types THEN Return(name, types) ELSE Throw("unknown_type")
      BY <1>8 DEF AddType
    <2>2. CASE name \in DOMAIN types
      BY <1>1, <1>2, <1>3, <2>1, <2>2, EvolvesSame, ReturnStep
    <2>3. CASE name \notin DOMAIN types
      BY <1>1, <2>1, <2>3, ThrowStep
    <2>4. QED
      BY <2>2, <2>3
  <1>9. QED
    BY <1>5, <1>6, <1>7, <1>8

LEMMA AddDerivedTypeStep ==
    ASSUME IInv, AddDerivedType
    PROVE  IInv'
  <1> DEFINE name == Top.name
             kind == KindOf(name)
             t2   == TryEmplace(types, name, Node(kind, returned, << >>))
  <1>1. calls # << >> /\ Top.fn = "element" /\ returned # << >>
    BY DEF AddDerivedType, Resumed
  <1>2. /\ FrameOK(types, Top) /\ Table(types) /\ name \in Names /\ returned \in DOMAIN types
    BY <1>1, TopFacts
  <1>3. name \in CppNames /\ Top.fn \notin Resolving
    BY <1>1, AddingFacts DEF Adding
  <1>4. CASE types[returned].kind \in ForbiddenInCpp(kind)
    BY <1>1, <1>4, ThrowStep DEF AddDerivedType
  <1>5. CASE types[returned].kind \notin ForbiddenInCpp(kind)
    <2>1. Return(name, t2)
      BY <1>5 DEF AddDerivedType
    <2>2. Len(name) > 1
      BY <1>1, <1>2 DEF FrameOK
    <2>3. Derivable(name) /\ kind \in DerivedKinds
      BY <2>2, <1>3, CppNameParts, KindFacts
    <2>4. << >> \in Seq(DOMAIN types) /\ kind # "variant"
      BY <2>3, EmptySeq DEF DerivedKinds
    <2>5. Table(t2) /\ Evolves(types, t2) /\ name \in DOMAIN t2
      BY <1>1, <1>2, <2>3, <2>4, TryEmplaceFacts
    <2> HIDE DEF t2
    <2>6. QED
      BY <1>1, <1>3, <2>1, <2>5, ReturnStep
  <1>6. QED
    BY <1>4, <1>5

\* The next member or alternative.
LEMMA AddNextStep ==
    ASSUME IInv, calls # << >>, Top.fn \in {"members", "alternatives"}, Top.rest # << >>,
           NEW t2, Table(t2), Evolves(types, t2),
           NEW fields \in Seq(DOMAIN t2), Continue(AddNext(fields), t2)
    PROVE  IInv'
  <1> DEFINE f == [Top EXCEPT !.fields = fields, !.rest = Tail(@)]
             g == Frame("add_type", Head(Top.rest), 0, << >>)
  <1>1. Top.fn \in Adding
    BY DEF Adding
  <1>2. Top \in Calls /\ FrameOK(types, Top) /\ Top.fn \in Modes
    BY TopFacts
  <1>3. /\ pc = "ready" /\ Top.name \in CppNames /\ Top.rest \in Seq(CppNames)
        /\ Top.fn \notin Resolving
    BY <1>1, AddingFacts
  <1>4. Head(Top.rest) \in CppNames /\ Tail(Top.rest) \in Seq(CppNames)
    BY <1>3, RestFacts
  <1>5. Continue(<<f, g>>, t2)
    BY DEF AddNext
  <1>6. fields \in Seq(Names) /\ Tail(Top.rest) \in Seq(Names)
    BY <1>4, CppNameFacts DEF Table
  <1>7. /\ f \in Calls /\ f.fn = Top.fn /\ f.name = Top.name
        /\ f.fields = fields /\ f.rest = Tail(Top.rest)
    BY <1>2, <1>6 DEF Calls
  <1>8. g \in Calls /\ FrameOK(t2, g) /\ g.fn = "add_type"
    BY <1>4, AddFrame
  <1> HIDE DEF f, g
  <1>9. FrameOK(t2, Top)
    BY <1>2, FrameStays
  <1>10. FrameOK(t2, f)
    BY <1>4, <1>7, <1>9 DEF FrameOK, Resolving, Adding
  <1>11. f.fn \in Modes /\ g.fn \in Modes
    BY <1>2, <1>3, <1>7, <1>8 DEF Modes, Adding
  <1>12. QED
    BY <1>3, <1>5, <1>7, <1>8, <1>10, <1>11, CallStep

LEMMA AddVariantStep ==
    ASSUME IInv, AddVariant
    PROVE  IInv'
  <1> DEFINE name == Top.name
  <1>1. calls # << >> /\ Top.fn = "alternatives"
    BY DEF AddVariant
  <1>2. FrameOK(types, Top) /\ Table(types) /\ name \in Names
    BY <1>1, TopFacts
  <1>3. Gathered \in Seq(DOMAIN types) /\ Top.fn \notin Resolving
    BY <1>1, GatheredFacts DEF Resolving
  <1>4. CASE Top.rest = << >>
    <2> DEFINE t2 == TryEmplace(types, name, Node("variant", << >>, Gathered))
    <2>1. Return(name, t2)
      BY <1>4 DEF AddVariant
    <2>2. Len(name) = 1 /\ name \in Definable
      BY <1>1, <1>2, CallerAssumption DEF FrameOK
    <2>3. Table(t2) /\ Evolves(types, t2) /\ name \in DOMAIN t2
      BY <1>2, <1>3, <2>2, TryEmplaceFacts DEF DerivedKinds
    <2> HIDE DEF t2
    <2>4. QED
      BY <1>1, <1>3, <2>1, <2>3, ReturnStep
  <1>5. CASE Top.rest # << >>
    <2>1. Continue(AddNext(Gathered), types)
      BY <1>5 DEF AddVariant
    <2>2. QED
      BY <1>1, <1>2, <1>3, <1>5, <2>1, EvolvesSame, AddNextStep
  <1>6. QED
    BY <1>4, <1>5

\* A struct gains a member.
Gain(t, n, type) == [t EXCEPT ![n].fields = Append(@, type)]

LEMMA GainFacts ==
    ASSUME NEW t, Table(t), NEW n \in DOMAIN t, t[n].kind = "struct", NEW type \in DOMAIN t
    PROVE  /\ Table(Gain(t, n, type)) /\ Evolves(t, Gain(t, n, type))
           /\ DOMAIN Gain(t, n, type) = DOMAIN t
  <1> DEFINE t2   == Gain(t, n, type)
             node == Node("struct", << >>, Append(t[n].fields, type))
  <1>1. t[n] = Node("struct", << >>, t[n].fields) /\ t[n].fields \in Seq(DOMAIN t)
    BY DEF Table, IsDefinition, IsResolved, DefKinds, DerivedKinds
  <1>2. /\ DOMAIN t2 = DOMAIN t /\ IsTable(t2)
        /\ t2[n] = [t[n] EXCEPT !.fields = Append(@, type)]
        /\ \A m \in DOMAIN t : m # n => t2[m] = t[m]
    BY DEF Gain, IsTable
  <1>3. t2[n] = node
    <2> DEFINE old == t[n].fields
    <2>1. t[n] = [kind |-> "struct", element |-> << >>, fields |-> old]
      BY <1>1 DEF Node
    <2>2. t2[n] = [t[n] EXCEPT !.fields = Append(old, type)]
      BY <1>2
    <2> HIDE DEF old
    <2>3. t2[n] = [kind |-> "struct", element |-> << >>, fields |-> Append(old, type)]
      BY <2>1, <2>2
    <2>4. QED
      BY <2>3 DEF Node, old
  <1>4. Append(t[n].fields, type) \in Seq(DOMAIN t)
    BY <1>1, AppendProperties
  <1>5. node.kind = "struct" /\ node.element = << >> /\ node.fields = Append(t[n].fields, type)
    BY DEF Node
  <1>6. node = Node(node.kind, node.element, node.fields)
    BY <1>5
  <1> HIDE DEF t2, node
  <1>7. IsResolved(t2, node)
    BY <1>2, <1>4, <1>5, <1>6 DEF IsResolved, ResolvedKinds, DerivedKinds
  <1>8. ASSUME NEW m \in DOMAIN t2
        PROVE  /\ IsDefinition(t2[m]) \/ IsResolved(t2, t2[m])
               /\ t2[m].kind = t[m].kind
    <2>1. CASE m = n
      BY <2>1, <1>3, <1>5, <1>7
    <2>2. CASE m # n
      <3>1. m \in DOMAIN t /\ t2[m] = t[m]
        BY <2>2, <1>2
      <3>2. IsDefinition(t[m]) \/ IsResolved(t2, t[m])
        BY <3>1, <1>2, ResolvedStays DEF Table
      <3>3. QED
        BY <3>1, <3>2
    <2>3. QED
      BY <2>1, <2>2
  <1>9. Table(t2)
    BY <1>2, <1>8 DEF Table
  <1>10. Evolves(t, t2)
    BY <1>2, <1>8 DEF Evolves, Resolves
  <1>11. QED
    BY <1>2, <1>9, <1>10 DEF t2

LEMMA AddStructStep ==
    ASSUME IInv, AddStruct
    PROVE  IInv'
  <1> DEFINE name == Top.name
             t2   == IF returned = << >> THEN types
                     ELSE [types EXCEPT ![Top.name].fields = Append(@, returned)]
  <1>1. calls # << >> /\ Top.fn = "members" /\ Top.fn \notin Resolving
    BY DEF AddStruct, Resolving
  <1>2. /\ FrameOK(types, Top) /\ Table(types) /\ name \in Names
        /\ returned \in DOMAIN types \cup {<< >>}
    BY <1>1, TopFacts
  <1>3. name \in DOMAIN types /\ types[name].kind = "struct"
    BY <1>1, <1>2 DEF FrameOK, WorkedOn
  <1>4. Table(t2) /\ Evolves(types, t2) /\ DOMAIN t2 = DOMAIN types
    <2>1. CASE returned = << >>
      BY <2>1, <1>2, EvolvesSame
    <2>2. CASE returned # << >>
      <3>1. t2 = Gain(types, name, returned)
        BY <2>2 DEF Gain
      <3>2. returned \in DOMAIN types
        BY <2>2, <1>2
      <3> HIDE DEF t2
      <3>3. QED
        BY <3>1, <3>2, <1>2, <1>3, GainFacts
    <2>3. QED
      BY <2>1, <2>2
  <1>5. IF Top.rest = << >> THEN Return(name, t2) ELSE Continue(AddNext(<< >>), t2)
    BY DEF AddStruct
  <1>6. << >> \in Seq(DOMAIN t2)
    BY EmptySeq
  <1> HIDE DEF t2
  <1>7. CASE Top.rest = << >>
    BY <1>1, <1>3, <1>4, <1>5, <1>7, ReturnStep
  <1>8. CASE Top.rest # << >>
    BY <1>1, <1>4, <1>5, <1>6, <1>8, AddNextStep
  <1>9. QED
    BY <1>7, <1>8

----------------------------------------------------------------------------
(***************************************************************************)
(* convert and the caller.                                                 *)
(***************************************************************************)
LEMMA BuiltinTable ==
    /\ Table(BuiltinTypes)
    /\ DOMAIN BuiltinTypes = Predefined
    /\ \A n \in DOMAIN BuiltinTypes : BuiltinTypes[n].kind \notin DefKinds
  <1> DEFINE t  == BuiltinTypes
             xa == Node("struct", << >>, <<<<"asset">>, <<"name">>>>)
             bi == Node("builtin", << >>, << >>)
  <1>1. /\ DOMAIN t = Predefined /\ IsTable(t) /\ t[ExtendedAsset] = xa
        /\ \A n \in Predefined : n # ExtendedAsset => t[n] = bi
    BY DEF BuiltinTypes, With, Predefined, IsTable
  <1>2. <<"asset">> \in Predefined /\ <<"name">> \in Predefined
    BY BuiltinAssumption DEF Predefined
  <1>3. IsResolved(t, xa)
    <2> DEFINE members == <<<<"asset">>, <<"name">>>>
    <2>1. members \in Seq(DOMAIN t)
      BY <1>1, <1>2, PairFacts
    <2>2. xa.kind = "struct" /\ xa.element = << >> /\ xa.fields = members
      BY DEF Node
    <2>3. xa = Node(xa.kind, xa.element, xa.fields)
      BY <2>2
    <2> HIDE DEF xa, members, t
    <2>4. QED
      BY <2>1, <2>2, <2>3 DEF IsResolved, ResolvedKinds, DerivedKinds
  <1>4. IsResolved(t, bi)
    <2>1. bi.kind = "builtin" /\ bi.element = << >> /\ bi.fields = << >>
      BY DEF Node
    <2>2. bi = Node(bi.kind, bi.element, bi.fields)
      BY <2>1
    <2>3. << >> \in Seq(DOMAIN t)
      BY EmptySeq
    <2> HIDE DEF bi, t
    <2>4. QED
      BY <2>1, <2>2, <2>3 DEF IsResolved, ResolvedKinds, DerivedKinds
  <1>5. xa.kind = "struct" /\ bi.kind = "builtin"
    BY DEF Node
  <1> HIDE DEF t, xa, bi
  <1>6. ASSUME NEW n \in DOMAIN t
        PROVE  /\ IsResolved(t, t[n]) /\ t[n].kind \notin DefKinds
               /\ t[n].kind \in NamedKinds => n = ExtendedAsset
    BY <1>1, <1>3, <1>4, <1>5 DEF DefKinds, NamedKinds
  <1>7. DOMAIN t \subseteq Names
    BY <1>1, PlainNames
  <1>8. Table(t)
    BY <1>1, <1>6, <1>7 DEF Table
  <1>9. QED
    BY <1>1, <1>6, <1>8 DEF t

\* No call is under way.
LEMMA IdleCalls ==
    ASSUME calls' = << >>
    PROVE  CallsOK'
  <1>1. << >> \in Seq(Calls) /\ DOMAIN << >> = {}
    BY EmptySeq
  <1>2. QED
    BY <1>1 DEF CallsOK

LEMMA NoCalls ==
    ASSUME IInv, pc \in {"enter", "failed"}
    PROVE  calls = << >>
  <1>1. Modes = {}
    BY DEF Modes
  <1>2. calls \in Seq(Calls) /\ \A i \in DOMAIN calls : calls[i].fn \in Modes
    BY DEF IInv, CallsOK
  <1>3. calls # << >> => Len(calls) \in DOMAIN calls
    BY <1>2, CallFacts
  <1>4. QED
    BY <1>1, <1>2, <1>3

LEMMA InitInv ==
    ASSUME Init
    PROVE  IInv
  <1>1. Table(BuiltinTypes)
    BY BuiltinTable
  <1>2. << >> \in Seq(Calls) /\ DOMAIN << >> = {} /\ Len(Order) \in Nat
    BY AbiAssumption, EmptySeq, LenProperties
  <1>3. CallsOK
    BY <1>2 DEF Init, CallsOK
  <1>4. /\ \A n \in DOMAIN abi : IsDefinition(abi[n])
        /\ DOMAIN abi \subseteq Definable \cup Predefined \cup {Nameless}
    BY AbiAssumption DEF Init
  <1>5. Progress
    BY DEF Init, Progress, NothingUnresolved
  <1>6. types = BuiltinTypes /\ pc = "enter" /\ filled = 0 /\ returned = << >>
    BY DEF Init
  <1>7. filled \in 0 .. Len(Order)
    BY <1>2, <1>6
  <1>8. Table(types)
    BY <1>1, <1>6
  <1> HIDE DEF Init
  <1>9. QED
    BY <1>3, <1>4, <1>5, <1>6, <1>7, <1>8 DEF IInv

LEMMA EnterStep ==
    ASSUME IInv, Enter
    PROVE  IInv'
  <1> DEFINE t2 == [n \in DOMAIN types \cup DOMAIN abi |->
                      IF n \in DOMAIN abi THEN abi[n] ELSE types[n]]
  <1>1. /\ pc = "enter" /\ Refused = {} /\ types' = t2 /\ pc' = "fill"
        /\ UNCHANGED <<abi, source, filled, error, calls, returned>>
    BY DEF Enter
  <1>2. /\ types = BuiltinTypes /\ Table(types) /\ calls \in Seq(Calls)
        /\ \A n \in DOMAIN abi : IsDefinition(abi[n])
        /\ DOMAIN abi \subseteq Definable \cup Predefined \cup {Nameless}
        /\ filled \in 0 .. Len(Order)
    BY <1>1 DEF IInv, CallsOK
  <1>3. calls = << >>
    BY <1>1, NoCalls
  <1>4. CallsOK'
    BY <1>1, <1>3, IdleCalls
  <1>5. filled = 0 /\ returned = << >>
    BY <1>1, <1>3 DEF IInv
  <1>6. /\ DOMAIN t2 = DOMAIN types \cup DOMAIN abi /\ IsTable(t2)
        /\ \A n \in DOMAIN abi : t2[n] = abi[n]
        /\ \A n \in DOMAIN types \ DOMAIN abi : t2[n] = types[n]
    BY DEF IsTable
  <1> HIDE DEF t2
  <1>7. \A n \in DOMAIN abi : n \in Definable
    BY <1>1, <1>2, BuiltinTable DEF Refused
  <1>8. Definable \subseteq Names
    BY AbiAssumption, LenProperties DEF Definable
  <1>9. ASSUME NEW n \in DOMAIN t2
        PROVE  /\ IsDefinition(t2[n]) \/ IsResolved(t2, t2[n])
               /\ t2[n].kind \in DefKinds => n \in Definable
               /\ t2[n].kind \in NamedKinds => n \in Definable \cup {ExtendedAsset}
    <2>1. CASE n \in DOMAIN abi
      BY <2>1, <1>2, <1>6, <1>7
    <2>2. CASE n \notin DOMAIN abi
      <3>1. n \in DOMAIN types /\ t2[n] = types[n]
        BY <2>2, <1>6
      <3>2. IsDefinition(types[n]) \/ IsResolved(t2, types[n])
        BY <3>1, <1>2, <1>6, ResolvedStays DEF Table
      <3>3. QED
        BY <3>1, <3>2, <1>2 DEF Table
    <2>3. QED
      BY <2>1, <2>2
  <1>10. Table(t2)
    <2>1. DOMAIN t2 \subseteq Names
      BY <1>2, <1>6, <1>7, <1>8 DEF Table
    <2>2. QED
      BY <2>1, <1>6, <1>9 DEF Table
  <1>11. Progress'
    BY <1>1, <1>5 DEF Progress, NothingUnresolved
  <1>12. QED
    BY <1>1, <1>2, <1>4, <1>5, <1>10, <1>11 DEF IInv

LEMMA RedefinedStep ==
    ASSUME IInv, Redefined
    PROVE  IInv'
  <1>1. /\ pc = "enter" /\ pc' = "failed"
        /\ UNCHANGED <<abi, source, types, filled, calls, returned>>
    BY DEF Redefined
  <1>2. calls = << >>
    BY <1>1, NoCalls
  <1>3. CallsOK'
    BY <1>1, <1>2, IdleCalls
  <1>4. Progress'
    BY <1>1 DEF Progress, NothingUnresolved
  <1>5. QED
    BY <1>1, <1>3, <1>4 DEF IInv

\* What convert's loop calls for a type: resolve for a definition, else nothing.
LEMMA FillingFacts ==
    ASSUME NEW t, Table(t), NEW n \in DOMAIN t, types = t
    PROVE  LET fr == Filling(n)
           IN  /\ fr \in Seq(Calls)
               /\ \A i \in 1 .. Len(fr) : FrameOK(t, fr[i]) /\ fr[i].fn \in Getting \cup Resolving
               /\ fr # << >> => fr[1].name = n /\ fr[1].fn \in Resolving
               /\ t[n].kind \in DefKinds => fr # << >>
  <1> DEFINE node == t[n]
  <1>1. n \in Names /\ << >> \in Seq(Names) /\ << >> \in Seq(DOMAIN t) /\ 0 \in Nat /\ 1 \in Nat
    BY EmptySeq DEF Table
  <1>2. CASE node.kind = "alias_def"
    <2> DEFINE f == Frame("alias", n, 0, << >>)
               g == Frame("get_type", node.element, 1, << >>)
               fr == <<f, g>>
    <2>1. Filling(n) = fr
      BY <1>2 DEF Filling
    <2>2. node.element \in Names
      BY <1>2 DEF Table, IsDefinition, IsResolved, ResolvedKinds, DerivedKinds
    <2>3. g \in Calls /\ FrameOK(t, g) /\ g.fn = "get_type"
      BY <1>1, <2>2, GetFrame
    <2>4. f \in Calls /\ f.fn = "alias" /\ f.name = n /\ f.fields = << >>
      BY <1>1 DEF Frame, Calls, Fns
    <2> HIDE DEF f, g
    <2>5. FrameOK(t, f)
      BY <1>1, <1>2, <2>4 DEF FrameOK, Resolving, Adding, WorkedOn
    <2>6. fr \in Seq(Calls) /\ Len(fr) = 2 /\ fr # << >> /\ fr[1] = f /\ fr[2] = g
      BY <2>3, <2>4, PairFacts
    <2> HIDE DEF fr
    <2>7. \A i \in 1 .. Len(fr) : i = 1 \/ i = 2
      BY <2>6
    <2>8. QED
      BY <2>1, <2>3, <2>4, <2>5, <2>6, <2>7 DEF Getting, Resolving
  <1>3. CASE node.kind \in {"struct_def", "variant_def"}
    <2> DEFINE fn == IF node.kind = "struct_def" THEN "struct" ELSE "types"
               f  == Frame(fn, n, 0, node.fields)
               fr == <<f>>
    <2>1. Filling(n) = fr
      BY <1>3 DEF Filling
    <2>2. node.fields \in Seq(Names)
      BY <1>3 DEF Table, IsDefinition, IsResolved, ResolvedKinds, DerivedKinds
    <2>3. f \in Calls /\ f.fn = fn /\ f.name = n /\ f.fields = << >>
      BY <1>1, <2>2 DEF Frame, Calls, Fns
    <2>4. fn \in {"struct", "types"} /\ (fn = "struct" <=> node.kind = "struct_def")
      OBVIOUS
    <2> HIDE DEF f, fn
    <2>5. FrameOK(t, f)
      BY <1>1, <1>3, <2>3, <2>4 DEF FrameOK, Resolving, Adding, WorkedOn
    <2>6. fr \in Seq(Calls) /\ Len(fr) = 1 /\ fr # << >> /\ fr[1] = f
      BY <2>3, OneFacts
    <2> HIDE DEF fr
    <2>7. \A i \in 1 .. Len(fr) : i = 1
      BY <2>6
    <2>8. QED
      BY <2>1, <2>3, <2>4, <2>5, <2>6, <2>7 DEF Resolving
  <1>4. CASE node.kind \notin DefKinds
    <2>1. Filling(n) = << >>
      BY <1>4 DEF Filling, DefKinds
    <2>2. << >> \in Seq(Calls) /\ Len(<< >>) = 0
      BY EmptySeq
    <2>3. QED
      BY <1>4, <2>1, <2>2
  <1>5. QED
    BY <1>2, <1>3, <1>4 DEF DefKinds

LEMMA FillStep ==
    ASSUME IInv, Fill
    PROVE  IInv'
  <1> DEFINE name == Order[filled + 1]
  <1>1. /\ pc = "fill" /\ calls = << >> /\ filled < Len(Order) /\ filled' = filled + 1
        /\ calls' = IF name \in DOMAIN types THEN Filling(name) ELSE << >>
        /\ UNCHANGED <<abi, source, types, pc, error, returned>>
    BY DEF Fill
  <1>2. /\ filled \in 0 .. Len(Order) /\ Len(Order) \in Nat /\ Table(types)
        /\ returned = << >>
    BY <1>1, AbiAssumption, LenProperties DEF IInv
  <1>3. filled' \in 0 .. Len(Order) /\ filled' > 0
    BY <1>1, <1>2
  <1>4. /\ calls' \in Seq(Calls)
        /\ \A i \in 1 .. Len(calls') :
              FrameOK(types, calls'[i]) /\ calls'[i].fn \in Getting \cup Resolving
        /\ calls' # << >> => calls'[1].name = name /\ calls'[1].fn \in Resolving
        /\ name \in DOMAIN types /\ types[name].kind \in DefKinds => calls' # << >>
    <2>1. CASE name \in DOMAIN types
      <3> DEFINE c == calls'
      <3>1. c = Filling(name)
        BY <2>1, <1>1
      <3> HIDE DEF c
      <3>2. QED
        BY <3>1, <2>1, <1>2, FillingFacts DEF c
    <2>2. CASE name \notin DOMAIN types
      <3>1. calls' = << >> /\ << >> \in Seq(Calls) /\ Len(<< >>) = 0
        BY <2>2, <1>1, EmptySeq
      <3>2. QED
        BY <3>1, <2>2
    <2>3. QED
      BY <2>1, <2>2
  <1>5. CallsOK'
    <2>1. DOMAIN calls' = 1 .. Len(calls')
      BY <1>4, LenProperties
    <2>2. Modes' = Getting \cup Resolving
      BY <1>1 DEF Modes
    <2>3. QED
      BY <1>1, <1>3, <1>4, <2>1, <2>2 DEF CallsOK
  <1>6. Progress'
    <2>1. ASSUME NEW i \in 1 .. filled', Order[i] \in DOMAIN types,
                 types[Order[i]].kind \in DefKinds
          PROVE  i = filled' /\ calls' # << >>
      <3>1. i \in 1 .. filled \/ i = filled + 1
        BY <1>1, <1>2
      <3>2. i \notin 1 .. filled
        BY <2>1, <1>1 DEF IInv, Progress
      <3>3. QED
        BY <2>1, <3>1, <3>2, <1>1, <1>4
    <2>2. QED
      BY <2>1, <1>1 DEF Progress, NothingUnresolved
  <1>7. QED
    BY <1>1, <1>2, <1>3, <1>5, <1>6 DEF IInv

LEMMA ConvertedStep ==
    ASSUME IInv, Converted
    PROVE  IInv'
  <1>1. /\ pc = "fill" /\ calls = << >> /\ filled = Len(Order) /\ pc' = "ready"
        /\ UNCHANGED <<abi, source, types, filled, error, calls, returned>>
    BY DEF Converted
  <1>2. CallsOK'
    BY <1>1, IdleCalls
  <1>3. ASSUME NEW n \in DOMAIN types
        PROVE  types[n].kind \notin DefKinds
    <2>1. SUFFICES ASSUME types[n].kind \in DefKinds
                   PROVE  FALSE
      OBVIOUS
    <2>2. n \in Definable
      BY <2>1 DEF IInv, Table
    <2>3. PICK i \in 1 .. filled : n = Order[i]
      BY <2>2, <1>1, AbiAssumption, LenProperties DEF Definable
    <2>4. calls # << >>
      BY <2>1, <2>3, <1>1 DEF IInv, Progress
    <2>5. QED
      BY <2>4, <1>1
  <1>4. Progress'
    BY <1>1, <1>3 DEF Progress, NothingUnresolved
  <1>5. QED
    BY <1>1, <1>2, <1>4 DEF IInv

\* A caller's call of get_type or add_type.
LEMMA AskStep ==
    ASSUME IInv, NEW fn \in {"get_type", "add_type"}, NEW name \in Names, Ask(fn, name),
           fn = "add_type" => name \in CppNames
    PROVE  IInv'
  <1> DEFINE f  == Frame(fn, name, 0, << >>)
             fr == <<f>>
  <1>1. /\ pc = "ready" /\ calls = << >> /\ calls' = fr
        /\ UNCHANGED <<abi, source, types, filled, pc, returned>>
    BY DEF Ask
  <1>2. f \in Calls /\ FrameOK(types, f) /\ f.fn = fn
    <2>1. CASE fn = "get_type"
      <3>1. 0 \in Nat
        OBVIOUS
      <3>2. QED
        BY <2>1, <3>1, GetFrame
    <2>2. CASE fn = "add_type"
      BY <2>2, AddFrame
    <2>3. QED
      BY <2>1, <2>2
  <1> HIDE DEF f
  <1>3. fr \in Seq(Calls) /\ Len(fr) = 1 /\ fr[1] = f /\ fr # << >>
    BY <1>2, OneFacts
  <1> HIDE DEF fr
  <1>4. DOMAIN fr = 1 .. Len(fr) /\ \A i \in 1 .. Len(fr) : i = 1
    BY <1>3, LenProperties
  <1>5. Modes' = Getting \cup Adding
    BY <1>1 DEF Modes
  <1>6. f.fn \in Getting \cup Adding
    BY <1>2 DEF Getting, Adding
  <1>7. CallsOK'
    BY <1>1, <1>2, <1>3, <1>4, <1>5, <1>6 DEF CallsOK
  <1>8. Progress'
    BY <1>1 DEF IInv, Progress, NothingUnresolved
  <1>9. QED
    BY <1>1, <1>3, <1>7, <1>8 DEF IInv

\* What the table is written as may be an abi_def.
LEMMA DefsFacts ==
    ASSUME NEW t, Table(t)
    PROVE  /\ DOMAIN to_abi_def(t) \subseteq Definable
           /\ \A n \in DOMAIN to_abi_def(t) : IsDefinition(to_abi_def(t)[n])
  <1>1. DOMAIN to_abi_def(t) = Defined(t)
    BY DEF to_abi_def
  <1>2. ASSUME NEW n \in Defined(t)
        PROVE  n \in Definable /\ IsDefinition(to_abi_def(t)[n])
    <2>1. n \in DOMAIN t /\ n # ExtendedAsset /\ t[n].kind \in {"alias", "struct", "variant"}
      BY DEF Defined
    <2>2. n \in Definable
      BY <2>1 DEF Table, NamedKinds
    <2>3. IsResolved(t, t[n])
      BY <2>1 DEF Table, IsDefinition, DefKinds
    <2>4. t[n].fields \in Seq(Names) /\ << >> \in Seq(Names)
      BY <2>3, EmptySeq DEF IsResolved, Table
    <2>5. t[n].kind = "alias" => t[n].element \in Names
      BY <2>3 DEF IsResolved, Table
    <2>6. ASSUME NEW kind \in DefKinds, NEW element \in Names \cup {<< >>},
                 NEW fields \in Seq(Names),
                 kind = "alias_def" => element \in Names,
                 kind = "variant_def" => element = << >>
          PROVE  IsDefinition(Node(kind, element, fields))
      BY <2>6 DEF IsDefinition, Node
    <2>7. CASE t[n].kind = "alias"
      <3>1. to_abi_def(t)[n] = Node("alias_def", t[n].element, << >>)
        BY <2>7 DEF to_abi_def, AliasDef
      <3>2. QED
        BY <3>1, <2>2, <2>4, <2>5, <2>6, <2>7 DEF DefKinds
    <2>8. CASE t[n].kind = "struct"
      <3>1. to_abi_def(t)[n] = Node("struct_def", << >>, t[n].fields)
        BY <2>8 DEF to_abi_def
      <3>2. QED
        BY <3>1, <2>2, <2>4, <2>6 DEF DefKinds
    <2>9. CASE t[n].kind = "variant"
      <3>1. to_abi_def(t)[n] = Node("variant_def", << >>, t[n].fields)
        BY <2>9 DEF to_abi_def
      <3>2. QED
        BY <3>1, <2>2, <2>4, <2>6 DEF DefKinds
    <2>10. QED
      BY <2>1, <2>2, <2>7, <2>8, <2>9
  <1>3. QED
    BY <1>1, <1>2

LEMMA ConvertBackStep ==
    ASSUME IInv, ConvertBack
    PROVE  IInv'
  <1>1. /\ pc = "ready" /\ calls = << >> /\ abi' = to_abi_def(types) /\ types' = BuiltinTypes
        /\ filled' = 0 /\ pc' = "enter" /\ UNCHANGED <<calls, returned>>
    BY DEF ConvertBack
  <1>2. Table(types) /\ returned = << >> /\ Len(Order) \in Nat
    BY <1>1, AbiAssumption, LenProperties DEF IInv
  <1>3. /\ \A n \in DOMAIN abi' : IsDefinition(abi'[n])
        /\ DOMAIN abi' \subseteq Definable
    BY <1>1, <1>2, DefsFacts
  <1>4. CallsOK'
    BY <1>1, IdleCalls
  <1>5. Progress'
    BY <1>1 DEF Progress, NothingUnresolved
  <1>6. Table(types')
    BY <1>1, BuiltinTable
  <1>7. filled' \in 0 .. Len(Order)
    BY <1>1, <1>2
  <1>8. QED
    BY <1>1, <1>2, <1>3, <1>4, <1>5, <1>6, <1>7 DEF IInv

LEMMA StepInv ==
    ASSUME IInv, [Next]_vars
    PROVE  IInv'
  <1>1. CASE UNCHANGED vars
    BY <1>1 DEF vars, IInv, CallsOK, Modes, Progress, NothingUnresolved
  <1>2. CASE Enter \/ Redefined \/ Fill \/ Converted \/ ConvertBack
    BY <1>2, EnterStep, RedefinedStep, FillStep, ConvertedStep, ConvertBackStep
  <1>3. CASE Request
    <2>1. PICK name \in Requests : Ask("get_type", name)
      BY <1>3 DEF Request
    <2>2. QED
      BY <2>1, CallerAssumption, AskStep
  <1>4. CASE AddCppType
    <2>1. PICK name \in CppRequests : Ask("add_type", name)
      BY <1>4 DEF AddCppType
    <2>2. QED
      BY <2>1, CallerAssumption, CppNameFacts, AskStep
  <1>5. CASE Resolve
    BY <1>5, GetTypeStep, DerivedStep, ResolveAliasStep, ResolveStructStep,
       ResolveBaseStep, ResolveMembersStep DEF Resolve
  <1>6. CASE Add
    BY <1>6, AddTypeStep, AddDerivedTypeStep, AddVariantStep, AddStructStep DEF Add
  <1>7. CASE Terminated
    BY <1>1, <1>7 DEF Terminated
  <1>8. QED
    BY <1>1, <1>2, <1>3, <1>4, <1>5, <1>6, <1>7 DEF Next

\* The invariant that the others follow from.
THEOREM Inductive == Spec => []IInv
  <1>1. Init => IInv
    BY InitInv
  <1>2. IInv /\ [Next]_vars => IInv'
    BY StepInv
  <1>3. QED
    BY <1>1, <1>2, PTL DEF Spec

\* No call returns, and no node of the table points at, what is not in the table,
\* at any depth of the calls of get_type, resolve and add_type.
THEOREM TypeCorrect == Spec => []TypeOK
  <1>1. IInv => TypeOK
    <2> SUFFICES ASSUME IInv
                 PROVE  TypeOK
      OBVIOUS
    <2>1. /\ pc \in {"enter", "fill", "ready", "failed"} /\ filled \in 0 .. Len(Order)
          /\ calls \in Seq(Calls) /\ returned \in DOMAIN types \cup {<< >>}
      BY DEF IInv, CallsOK
    <2>2. calls \in Seq(Frames)
      <3>1. \A i \in 1 .. Len(calls) : calls[i] \in Frames
        <4> TAKE i \in 1 .. Len(calls)
        <4>1. calls[i] \in Calls /\ calls[i].fields \in Seq(DOMAIN types)
          BY <2>1, LenProperties DEF IInv, CallsOK, FrameOK
        <4>2. QED
          BY <4>1 DEF Frames, Calls
      <3>2. QED
        BY <2>1, <3>1, LenProperties, SeqDef
    <2>3. ASSUME NEW n \in DOMAIN types
          PROVE  /\ types[n].kind \in {"builtin", "alias", "struct", "variant"}
                                      \cup DefKinds \cup DerivedKinds
                 /\ types[n].kind \notin DefKinds =>
                      /\ types[n].element \in DOMAIN types \cup {<< >>}
                      /\ \A i \in DOMAIN types[n].fields : types[n].fields[i] \in DOMAIN types
      <3>1. IsDefinition(types[n]) \/ IsResolved(types, types[n])
        BY DEF IInv, Table
      <3>2. CASE IsDefinition(types[n])
        BY <3>2 DEF IsDefinition
      <3>3. CASE IsResolved(types, types[n])
        <4>1. types[n].kind \in ResolvedKinds /\ types[n].element \in DOMAIN types \cup {<< >>}
              /\ types[n].fields \in Seq(DOMAIN types)
          BY <3>3 DEF IsResolved
        <4>2. \A i \in DOMAIN types[n].fields : types[n].fields[i] \in DOMAIN types
          BY <4>1
        <4>3. QED
          BY <4>1, <4>2 DEF ResolvedKinds
      <3>4. QED
        BY <3>1, <3>2, <3>3
    <2>4. QED
      BY <2>1, <2>2, <2>3 DEF TypeOK
  <1>2. QED
    BY <1>1, Inductive, PTL

----------------------------------------------------------------------------
(***************************************************************************)
(* Once convert has returned, the table only grows.                        *)
(***************************************************************************)
Keeps(t, t2) == \A n \in DOMAIN t : n \in DOMAIN t2 /\ t2[n] = t[n]

LEMMA Emplaced ==
    ASSUME NEW t, NEW n, NEW node
    PROVE  /\ Keeps(t, TryEmplace(t, n, node))
           /\ n \notin DOMAIN t => Keeps(t, With(t, n, node))
  BY DEF Keeps, TryEmplace, With

LEMMA AddTypeKeeps ==
    ASSUME AddType
    PROVE  Keeps(types, types')
  <1> DEFINE name == Top.name
             t2   == With(types, name, Node("struct", << >>, << >>))
  <1>1. types' = types \/ (name \notin DOMAIN types /\ types' = t2)
    BY DEF AddType, Continue, Return, Throw
  <1>2. CASE types' = types
    BY <1>2 DEF Keeps
  <1>3. CASE name \notin DOMAIN types /\ types' = t2
    <2>1. Keeps(types, t2)
      BY <1>3, Emplaced
    <2> HIDE DEF t2
    <2>2. QED
      BY <2>1, <1>3
  <1>4. QED
    BY <1>1, <1>2, <1>3

\* try_emplace leaves what is there as it is.
LEMMA EmplacingKeeps ==
    ASSUME Derived \/ AddDerivedType \/ AddVariant
    PROVE  Keeps(types, types')
  <1> DEFINE derived == TryEmplace(types, Top.name, Node(KindOf(Top.name), returned, << >>))
             variant == TryEmplace(types, Top.name, Node("variant", << >>, Gathered))
  <1>1. types' = types \/ types' = derived \/ types' = variant
    BY DEF Derived, AddDerivedType, AddVariant, Continue, Return, Throw
  <1>2. Keeps(types, derived) /\ Keeps(types, variant) /\ Keeps(types, types)
    BY Emplaced DEF Keeps
  <1> HIDE DEF derived, variant
  <1>3. QED
    BY <1>1, <1>2

\* A struct that add_type is entering gains the member that was just added.
LEMMA AddStructGains ==
    ASSUME IInv, AddStruct, NEW n \in DOMAIN types
    PROVE  /\ n \in DOMAIN types'
           /\ \/ types'[n] = types[n]
              \/ Entering(n) /\ GainsMember(types[n], types'[n])
  <1> DEFINE t2 == [types EXCEPT ![Top.name].fields = Append(@, returned)]
  <1>1. calls # << >> /\ Top.fn = "members"
    BY DEF AddStruct
  <1>2. types' = IF returned = << >> THEN types ELSE t2
    BY DEF AddStruct, Continue, Return
  <1>3. CASE returned = << >> \/ n # Top.name
    BY <1>2, <1>3
  <1>4. CASE returned # << >> /\ n = Top.name
    <2>1. types' = t2 /\ returned \in DOMAIN types
      BY <1>1, <1>2, <1>4, TopFacts
    <2>2. n \in DOMAIN types' /\ types'[n] = [types[n] EXCEPT !.fields = Append(@, returned)]
      BY <2>1, <1>4
    <2>3. GainsMember(types[n], types'[n])
      BY <2>1, <2>2 DEF GainsMember
    <2>4. Len(calls) \in DOMAIN calls /\ calls[Len(calls)] = Top
      BY <1>1, CallFacts DEF IInv, CallsOK
    <2>5. Entering(n)
      BY <2>4, <1>1, <1>4 DEF Entering
    <2>6. QED
      BY <2>2, <2>3, <2>5
  <1>5. QED
    BY <1>3, <1>4

\* resolve is over when convert returns.
LEMMA NothingResolves ==
    ASSUME IInv, pc = "ready", Resolve
    PROVE  GetType \/ Derived
  <1>1. ASSUME calls # << >>
        PROVE  Top.fn \notin Resolving
    BY <1>1, TopFacts DEF Modes, Getting, Adding, Resolving
  <1>2. ~ResolveAlias /\ ~ResolveStruct /\ ~ResolveBase /\ ~ResolveMembers
    BY <1>1 DEF ResolveAlias, ResolveStruct, ResolveBase, ResolveMembers,
       Entered, Resumed, Resolving
  <1>3. QED
    BY <1>2 DEF Resolve

\* What a caller's call does to the nodes that are there.
LEMMA StepGrows ==
    ASSUME IInv, Next, pc = "ready", pc' = "ready"
    PROVE  \A n \in DOMAIN types :
              /\ n \in DOMAIN types'
              /\ types'[n] = types[n] \/ (Entering(n) /\ GainsMember(types[n], types'[n]))
  <1> SUFFICES ASSUME NEW n \in DOMAIN types
               PROVE  /\ n \in DOMAIN types'
                      /\ types'[n] = types[n] \/ (Entering(n) /\ GainsMember(types[n], types'[n]))
    OBVIOUS
  <1>1. CASE Keeps(types, types')
    BY <1>1 DEF Keeps
  <1>2. CASE types' = types
    BY <1>2
  <1>3. CASE Request \/ AddCppType \/ Terminated
    BY <1>2, <1>3 DEF Request, AddCppType, Ask, Terminated, vars
  <1>4. CASE Resolve
    <2>1. GetType => types' = types
      BY DEF GetType, GetDerived, Continue, Return, Throw
    <2>2. QED
      BY <1>1, <1>2, <1>4, <2>1, NothingResolves, EmplacingKeeps
  <1>5. CASE Add
    BY <1>1, <1>5, AddTypeKeeps, EmplacingKeeps, AddStructGains DEF Add
  <1>6. ~Enter /\ ~Redefined /\ ~Fill /\ ~Converted /\ ~ConvertBack
    BY DEF Enter, Redefined, Fill, Converted, ConvertBack
  <1>7. QED
    BY <1>3, <1>4, <1>5, <1>6 DEF Next

\* The pointers a conversion holds into the table stay good while later calls of
\* get_type and add_type run, fail halfway or not.
THEOREM TablesOnlyGrow == Spec => TableOnlyGrows
  <1> DEFINE Grows == pc = "ready" /\ pc' = "ready" =>
                \A n \in DOMAIN types :
                    /\ n \in DOMAIN types'
                    /\ \/ types'[n] = types[n]
                       \/ Entering(n) /\ GainsMember(types[n], types'[n])
  <1>1. IInv /\ [Next]_vars => [Grows]_vars
    BY StepGrows
  <1>2. QED
    BY <1>1, Inductive, PTL DEF Spec, TableOnlyGrows

----------------------------------------------------------------------------
(***************************************************************************)
(* Where pointers lead.                                                    *)
(***************************************************************************)

\* What nodes that stay, or are resolved, are to those that point at them.
Progresses(t, t2) ==
    \A n \in DOMAIN t : n \in DOMAIN t2 /\ Resolves(t[n].kind, t2[n].kind)

LEMMA ProperStays ==
    ASSUME NEW t, NEW t2, Progresses(t, t2), NEW n \in DOMAIN t, Proper(t, n)
    PROVE  Proper(t2, n)
  BY DEF Progresses, Resolves, Proper

LEMMA EvolvesProgresses ==
    ASSUME NEW t, NEW t2, Evolves(t, t2)
    PROVE  Progresses(t, t2)
  BY DEF Evolves, Progresses

\* The types a node points at.
LEMMA PointerFacts ==
    ASSUME NEW t, NEW node, IsResolved(t, node), << >> \notin DOMAIN t
    PROVE  /\ Pointers(node) \subseteq DOMAIN t
           /\ node.kind \in DerivedKinds \cup {"alias"} => node.element \in Pointers(node)
           /\ \A i \in DOMAIN node.fields : node.fields[i] \in Pointers(node)
  <1>1. /\ node.element \in DOMAIN t \cup {<< >>} /\ node.fields \in Seq(DOMAIN t)
        /\ node.kind \in DerivedKinds \cup {"alias"} => node.element \in DOMAIN t
    BY DEF IsResolved
  <1>2. \A i \in DOMAIN node.fields : node.fields[i] \in DOMAIN t
    BY <1>1
  <1>3. QED
    BY <1>1, <1>2 DEF Pointers

LEMMA NestStays ==
    ASSUME NEW t, NEW t2, Progresses(t, t2), NEW node, IsResolved(t, node),
           << >> \notin DOMAIN t, NodeNests(t, node)
    PROVE  NodeNests(t2, node)
  <1>1. /\ Pointers(node) \subseteq DOMAIN t
        /\ node.kind \in DerivedKinds => node.element \in Pointers(node)
    BY PointerFacts
  <1>2. \A p \in Pointers(node) : Proper(t2, p)
    BY <1>1, ProperStays DEF NodeNests
  <1>3. ASSUME node.kind \in DerivedKinds
        PROVE  t2[node.element].kind \notin Forbidden(node.kind)
    <2> DEFINE e == node.element
    <2>1. e \in DOMAIN t /\ Proper(t, e) /\ t[e].kind \notin Forbidden(node.kind)
      BY <1>1, <1>3 DEF NodeNests
    <2>2. Resolves(t[e].kind, t2[e].kind)
      BY <2>1 DEF Progresses
    <2> HIDE DEF e
    <2>3. t2[e].kind \notin Forbidden(node.kind)
      BY <2>1, <2>2 DEF Resolves, Proper, Forbidden
    <2>4. QED
      BY <2>3 DEF e
  <1>4. QED
    BY <1>2, <1>3 DEF NodeNests

\* Which nodes of a table are resolved.
LEMMA TableFacts ==
    ASSUME NEW t, Table(t)
    PROVE  /\ << >> \notin DOMAIN t
           /\ \A n \in DOMAIN t : t[n].kind \notin DefKinds => IsResolved(t, t[n])
  BY CppNameFacts DEF Table, IsDefinition

LEMMA NestedWith ==
    ASSUME NEW t, Table(t), Nested(t), NEW n, NEW node, IsResolved(t, node), NodeNests(t, node),
           Evolves(t, With(t, n, node)), n \in AddedNames => node.kind # "alias"
    PROVE  Nested(With(t, n, node))
  <1> DEFINE t2 == With(t, n, node)
  <1>1. /\ DOMAIN t2 = DOMAIN t \cup {n} /\ t2[n] = node
        /\ \A m \in DOMAIN t : m # n => t2[m] = t[m]
    BY DEF With
  <1>2. Evolves(t, t2)
    OBVIOUS
  <1> HIDE DEF t2
  <1>3. Progresses(t, t2)
    BY <1>2, EvolvesProgresses
  <1>4. /\ << >> \notin DOMAIN t
        /\ \A m \in DOMAIN t : t[m].kind \notin DefKinds => IsResolved(t, t[m])
    BY TableFacts
  <1>5. ASSUME NEW m \in DOMAIN t2
        PROVE  /\ t2[m].kind \notin DefKinds => NodeNests(t2, t2[m])
               /\ m \in AddedNames => Proper(t2, m)
    <2>1. CASE m = n
      <3>1. NodeNests(t2, node)
        BY <1>3, <1>4, NestStays
      <3>2. node.kind # "alias_def"
        BY DEF IsResolved, ResolvedKinds, DerivedKinds
      <3>3. QED
        BY <2>1, <3>1, <3>2, <1>1 DEF Proper
    <2>2. CASE m # n
      <3>1. m \in DOMAIN t /\ t2[m] = t[m]
        BY <2>2, <1>1
      <3>2. t[m].kind \notin DefKinds => NodeNests(t2, t[m])
        BY <3>1, <1>3, <1>4, NestStays DEF Nested
      <3>3. m \in AddedNames => Proper(t2, m)
        BY <3>1, <1>3, ProperStays DEF Nested
      <3>4. QED
        BY <3>1, <3>2, <3>3
    <2>3. QED
      BY <2>1, <2>2
  <1>6. QED
    BY <1>5 DEF Nested, t2

\* A step of the innermost call.
LEMMA NestStep ==
    ASSUME IInv, NInv, calls # << >>, UNCHANGED abi, Evolves(types, types'), Nested(types'),
           NEW fr \in Seq(Calls), calls' = Below \o fr,
           \A i \in 1 .. Len(fr) : FrameNests(types', fr[i]),
           returned' # << >> => Proper(types', returned')
    PROVE  NInv'
  <1>1. /\ calls \in Seq(Calls)
        /\ \A i \in DOMAIN calls : FrameOK(types, calls[i]) /\ FrameNests(types, calls[i])
    BY DEF IInv, CallsOK, NInv
  <1>2. /\ Len(calls) \in Nat /\ DOMAIN calls = 1 .. Len(calls)
        /\ Below \in Seq(Calls) /\ Len(Below) = Len(calls) - 1
        /\ \A i \in 1 .. Len(calls) - 1 : Below[i] = calls[i]
    BY <1>1, CallFacts
  <1>3. /\ DOMAIN calls' = 1 .. Len(Below) + Len(fr) /\ Len(fr) \in Nat
        /\ \A i \in 1 .. Len(Below) : calls'[i] = calls[i]
        /\ \A i \in 1 .. Len(fr) : calls'[Len(Below) + i] = fr[i]
    <2> DEFINE c == calls'
               b == Below
    <2>0. b \in Seq(Calls) /\ fr \in Seq(Calls) /\ c = b \o fr
      BY <1>2
    <2> HIDE DEF c, b
    <2>1. /\ c \in Seq(Calls) /\ Len(c) = Len(b) + Len(fr) /\ Len(fr) \in Nat
          /\ \A i \in 1 .. Len(b) : c[i] = b[i]
          /\ \A i \in 1 .. Len(fr) : c[Len(b) + i] = fr[i]
      BY ONLY <2>0, JoinFacts
    <2>2. DOMAIN c = 1 .. Len(c)
      BY <2>1, LenProperties
    <2>3. QED
      BY <2>1, <2>2, <1>2 DEF c, b
  <1>4. Progresses(types, types')
    BY EvolvesProgresses
  <1>5. ASSUME NEW i \in DOMAIN calls'
        PROVE  FrameNests(types', calls'[i])
    <2>1. CASE i <= Len(Below)
      <3>0. i \in 1 .. Len(Below) /\ i \in 1 .. Len(calls)
        BY <2>1, <1>2, <1>3
      <3>1. i \in DOMAIN calls /\ calls'[i] = calls[i]
        BY <3>0, <1>2, <1>3
      <3>2. FrameOK(types, calls[i]) /\ FrameNests(types, calls[i])
        BY <3>1, <1>1
      <3>3. \A j \in DOMAIN calls[i].fields : calls[i].fields[j] \in DOMAIN types
        BY <3>2 DEF FrameOK
      <3>4. \A j \in DOMAIN calls[i].fields : Proper(types', calls[i].fields[j])
        BY <3>2, <3>3, <1>4, ProperStays DEF FrameNests
      <3>5. FrameNests(types', calls[i])
        BY <3>2, <3>4 DEF FrameNests
      <3>6. QED
        BY <3>1, <3>5
    <2>2. CASE i > Len(Below)
      <3>1. i - Len(Below) \in 1 .. Len(fr) /\ calls'[i] = fr[i - Len(Below)]
        BY <2>2, <1>2, <1>3
      <3>2. QED
        BY <3>1
    <2>3. QED
      BY <2>1, <2>2, <1>2, <1>3
  <1>6. QED
    BY <1>5 DEF NInv

LEMMA GoNest ==
    ASSUME IInv, NInv, calls # << >>, NEW f \in Calls, NEW t2, Continue(<<f>>, t2),
           Evolves(types, t2), Nested(t2), FrameNests(t2, f)
    PROVE  NInv'
  <1> DEFINE fr == <<f>>
  <1>1. fr \in Seq(Calls) /\ Len(fr) = 1 /\ fr # << >> /\ fr[1] = f
    BY OneFacts
  <1>2. UNCHANGED abi /\ types' = t2 /\ calls' = Below \o fr /\ returned' = << >>
    BY DEF Continue
  <1> HIDE DEF fr
  <1>3. \A i \in 1 .. Len(fr) : FrameNests(types', fr[i])
    BY <1>1, <1>2
  <1>4. QED
    BY <1>1, <1>2, <1>3, NestStep

LEMMA CallNest ==
    ASSUME IInv, NInv, calls # << >>, NEW f \in Calls, NEW g \in Calls,
           NEW t2, Continue(<<f, g>>, t2),
           Evolves(types, t2), Nested(t2), FrameNests(t2, f), FrameNests(t2, g)
    PROVE  NInv'
  <1> DEFINE fr == <<f, g>>
  <1>1. fr \in Seq(Calls) /\ Len(fr) = 2 /\ fr # << >> /\ fr[1] = f /\ fr[2] = g
    BY PairFacts
  <1>2. UNCHANGED abi /\ types' = t2 /\ calls' = Below \o fr /\ returned' = << >>
    BY DEF Continue
  <1> HIDE DEF fr
  <1>3. \A i \in 1 .. Len(fr) : FrameNests(types', fr[i])
    <2>1. \A i \in 1 .. Len(fr) : i = 1 \/ i = 2
      BY <1>1
    <2>2. QED
      BY <2>1, <1>1, <1>2
  <1>4. QED
    BY <1>1, <1>2, <1>3, NestStep

LEMMA ReturnNest ==
    ASSUME IInv, NInv, calls # << >>, NEW type, NEW t2, Return(type, t2),
           Evolves(types, t2), Nested(t2), Proper(t2, type)
    PROVE  NInv'
  <1>1. /\ UNCHANGED abi /\ types' = t2 /\ calls' = Below
        /\ returned' = IF Below = << >> THEN << >> ELSE type
    BY DEF Return
  <1>2. Below \in Seq(Calls)
    BY TopFacts, CallFacts
  <1>3. << >> \in Seq(Calls) /\ Len(<< >>) = 0 /\ Below \o << >> = Below
    BY <1>2, EmptySeq, ConcatEmptySeq
  <1>4. \A i \in 1 .. Len(<< >>) : FrameNests(types', << >>[i])
    BY <1>3
  <1>5. QED
    BY <1>1, <1>3, <1>4, NestStep

LEMMA ThrowNest ==
    ASSUME NInv, NEW e, Throw(e)
    PROVE  NInv'
  <1>1. DOMAIN << >> = {}
    OBVIOUS
  <1>2. QED
    BY <1>1 DEF NInv, Throw

\* Where pointers lead, as the innermost call sees it.
LEMMA TopNests ==
    ASSUME IInv, NInv, calls # << >>
    PROVE  /\ FrameNests(types, Top) /\ Nested(types)
           /\ returned # << >> => Proper(types, returned)
           /\ Evolves(types, types)
  <1>1. calls \in Seq(Calls)
    BY DEF IInv, CallsOK
  <1>2. Top = calls[Len(calls)] /\ Len(calls) \in DOMAIN calls
    BY <1>1, CallFacts
  <1>3. QED
    BY <1>2, EvolvesSame DEF NInv

\* A call of get_type from one that is not add_type's.
LEMMA GetNest ==
    ASSUME IInv, NInv, calls # << >>, NEW f \in Calls, f.fn \notin Adding, NEW name \in Names,
           Continue(<<f, Frame("get_type", name, Top.depth + 1, << >>)>>, types),
           \A i \in DOMAIN f.fields : Proper(types, f.fields[i])
    PROVE  NInv'
  <1> DEFINE g == Frame("get_type", name, Top.depth + 1, << >>)
  <1>1. Top.depth + 1 \in Nat
    BY TopFacts
  <1>2. g \in Calls /\ g.fn = "get_type"
    BY <1>1, GetFrame
  <1>3. g.fields = << >> /\ DOMAIN << >> = {}
    BY DEF Frame
  <1> HIDE DEF g
  <1>4. FrameNests(types, g) /\ FrameNests(types, f)
    BY <1>2, <1>3 DEF FrameNests, Adding
  <1>5. Continue(<<f, g>>, types)
    BY DEF g
  <1>6. QED
    BY <1>2, <1>4, <1>5, TopNests, CallNest

\* What is left of a name of more than one part.
LEMMA Shorter ==
    ASSUME NEW n \in Names, Len(n) # 1
    PROVE  SubSeq(n, 1, Len(n) - 1) \in Names
  <1>1. Len(n) \in Nat /\ Len(n) > 0
    BY NameParts
  <1>2. Len(n) > 1
    <2> DEFINE k == Len(n)
    <2>1. k \in Nat /\ k > 0 /\ k # 1
      BY <1>1
    <2> HIDE DEF k
    <2>2. k > 1
      BY ONLY <2>1
    <2>3. QED
      BY <2>2 DEF k
  <1>3. QED
    BY <1>2, NameParts

LEMMA GetTypeNest ==
    ASSUME IInv, NInv, GetType
    PROVE  NInv'
  <1> DEFINE name == Top.name
             node == types[name]
  <1>1. calls # << >> /\ Top.fn = "get_type"
    BY DEF GetType, Entered
  <1>2. /\ Top \in Calls /\ FrameOK(types, Top) /\ Table(types) /\ name \in Names
    BY <1>1, TopFacts
  <1>3. /\ FrameNests(types, Top) /\ Nested(types) /\ Evolves(types, types)
    BY <1>1, TopNests
  <1>4. CASE Top.depth >= MaxDepth
    <2>1. Throw("recursion_limit_reached")
      BY <1>4 DEF GetType
    <2>2. QED
      BY <2>1, ThrowNest
  <1>5. CASE ~(Top.depth >= MaxDepth) /\ name \notin DOMAIN types
    <2>1. GetDerived(name)
      BY <1>5 DEF GetType
    <2>2. CASE Len(name) = 1
      BY <2>1, <2>2, ThrowNest DEF GetDerived
    <2>3. CASE Len(name) # 1 /\ name[Len(name)] \in DOMAIN BadSizes
      BY <2>1, <2>3, ThrowNest DEF GetDerived
    <2>4. CASE Len(name) # 1 /\ name[Len(name)] \notin DOMAIN BadSizes
      <3> DEFINE f == [Top EXCEPT !.fn = "derived"]
                 below == SubSeq(name, 1, Len(name) - 1)
      <3>1. Continue(<<f, Frame("get_type", below, Top.depth + 1, << >>)>>, types)
        BY <2>1, <2>4 DEF GetDerived
      <3>2. below \in Names
        BY <1>2, <2>4, Shorter
      <3>3. f \in Calls /\ f.fn \notin Adding /\ f.fields = Top.fields
        BY <1>2 DEF Calls, Fns, Adding
      <3> HIDE DEF f, below
      <3>4. QED
        BY <1>1, <1>3, <3>1, <3>2, <3>3, GetNest DEF FrameNests
    <2>5. QED
      BY <2>2, <2>3, <2>4
  <1>6. CASE ~(Top.depth >= MaxDepth) /\ name \in DOMAIN types /\ node.kind = "alias"
    <2>1. Return(node.element, types)
      BY <1>6 DEF GetType
    <2>2. node.kind \notin DefKinds
      BY <1>6 DEF DefKinds
    <2>3. IsResolved(types, node) /\ << >> \notin DOMAIN types
      BY <1>2, <1>6, <2>2, TableFacts
    <2>4. NodeNests(types, node)
      BY <1>3, <1>6, <2>2 DEF Nested
    <2> HIDE DEF node
    <2>5. node.element \in Pointers(node)
      BY <2>3, <1>6, PointerFacts
    <2>6. Proper(types, node.element)
      BY <2>4, <2>5 DEF NodeNests
    <2>7. QED
      BY <1>1, <1>3, <2>1, <2>6, ReturnNest
  <1>7. CASE ~(Top.depth >= MaxDepth) /\ name \in DOMAIN types /\ node.kind = "alias_def"
    <2> DEFINE f == [Top EXCEPT !.fn = "alias"]
               target == node.element
    <2>1. Continue(<<f, Frame("get_type", target, Top.depth + 1, << >>)>>, types)
      BY <1>7 DEF GetType
    <2>2. target \in Names
      BY <1>2, <1>7 DEF Table, IsDefinition, IsResolved, ResolvedKinds, DerivedKinds
    <2>3. f \in Calls /\ f.fn \notin Adding /\ f.fields = Top.fields
      BY <1>2 DEF Calls, Fns, Adding
    <2> HIDE DEF f, target
    <2>4. QED
      BY <1>1, <1>3, <2>1, <2>2, <2>3, GetNest DEF FrameNests
  <1>8. CASE ~(Top.depth >= MaxDepth) /\ name \in DOMAIN types
             /\ node.kind \notin {"alias", "alias_def"}
    <2>1. Return(name, types)
      BY <1>8 DEF GetType
    <2>2. Proper(types, name)
      BY <1>8 DEF Proper
    <2>3. QED
      BY <1>1, <1>3, <2>1, <2>2, ReturnNest
  <1>9. QED
    BY <1>4, <1>5, <1>6, <1>7, <1>8

\* A derived type that may be built on the type below it.
LEMMA DerivedNests ==
    ASSUME NEW t, Table(t), Nested(t), NEW n \in Names, Derivable(n), NEW element \in DOMAIN t,
           Proper(t, element), t[element].kind \notin Forbidden(KindOf(n)),
           n \in DOMAIN t => Proper(t, n)
    PROVE  LET t2 == TryEmplace(t, n, Node(KindOf(n), element, << >>))
           IN  Evolves(t, t2) /\ Nested(t2) /\ Proper(t2, n)
  <1> DEFINE kind == KindOf(n)
             node == Node(kind, element, << >>)
             t2   == With(t, n, node)
  <1>1. CASE n \in DOMAIN t
    BY <1>1, EvolvesSame DEF TryEmplace
  <1>2. CASE n \notin DOMAIN t
    <2>1. kind \in DerivedKinds /\ << >> \in Seq(DOMAIN t) /\ << >> \notin DOMAIN t
      BY KindFacts, EmptySeq, TableFacts
    <2>2. /\ node.kind = kind /\ node.element = element /\ node.fields = << >>
          /\ DOMAIN << >> = {}
      BY DEF Node
    <2>3. node = Node(node.kind, node.element, node.fields)
      BY <2>2
    <2>4. Evolves(t, t2)
      <3>1. kind # "variant"
        BY <2>1 DEF DerivedKinds
      <3>2. Evolves(t, TryEmplace(t, n, node))
        BY <2>1, <3>1, TryEmplaceFacts
      <3>3. TryEmplace(t, n, node) = t2
        BY <1>2 DEF TryEmplace
      <3>4. QED
        BY <3>2, <3>3
    <2>5. t2[n] = node
      BY DEF With
    <2> HIDE DEF node, kind
    <2>6. IsResolved(t, node)
      BY <2>1, <2>2, <2>3 DEF IsResolved, ResolvedKinds
    <2>7. NodeNests(t, node)
      BY <2>2 DEF NodeNests, Pointers, kind
    <2>8. node.kind \notin {"alias", "alias_def"}
      BY <2>1, <2>2 DEF DerivedKinds
    <2>9. Nested(t2)
      BY <2>4, <2>6, <2>7, <2>8, NestedWith
    <2>10. Proper(t2, n)
      BY <2>5, <2>8 DEF Proper
    <2>11. TryEmplace(t, n, node) = t2
      BY <1>2 DEF TryEmplace
    <2>12. QED
      BY <2>4, <2>9, <2>10, <2>11 DEF node, kind
  <1>3. QED
    BY <1>1, <1>2

LEMMA DerivedNest ==
    ASSUME IInv, NInv, Derived
    PROVE  NInv'
  <1> DEFINE name == Top.name
             kind == KindOf(name)
             t2   == TryEmplace(types, name, Node(kind, returned, << >>))
  <1>1. calls # << >> /\ Top.fn = "derived" /\ returned # << >>
    BY DEF Derived, Resumed
  <1>2. /\ FrameOK(types, Top) /\ Table(types) /\ name \in Names
        /\ returned \in DOMAIN types
    BY <1>1, TopFacts
  <1>3. Nested(types) /\ Proper(types, returned)
    BY <1>1, TopNests
  <1>4. CASE types[returned].kind \in Forbidden(kind)
    BY <1>4, ThrowNest DEF Derived
  <1>5. CASE types[returned].kind \notin Forbidden(kind)
    <2>1. Return(name, t2)
      BY <1>5 DEF Derived
    <2>2. /\ Derivable(name)
          /\ name \in DOMAIN types => types[name].kind = kind
      BY <1>1, <1>2 DEF FrameOK
    <2>3. kind \notin {"alias", "alias_def"}
      BY <2>2, KindFacts DEF DerivedKinds
    <2>4. name \in DOMAIN types => Proper(types, name)
      BY <2>2, <2>3 DEF Proper
    <2>5. Evolves(types, t2) /\ Nested(t2) /\ Proper(t2, name)
      BY <1>2, <1>3, <1>5, <2>2, <2>4, DerivedNests
    <2> HIDE DEF t2
    <2>6. QED
      BY <1>1, <2>1, <2>5, ReturnNest
  <1>6. QED
    BY <1>4, <1>5

\* A definition is replaced by what it stands for.
LEMMA ReplacedNests ==
    ASSUME NEW t, Table(t), Nested(t), NEW n \in DOMAIN t,
           NEW kind \in {"alias", "struct", "variant"},
           NEW element \in DOMAIN t \cup {<< >>}, NEW fields \in Seq(DOMAIN t),
           element = << >> <=> kind # "alias", kind = "alias" => fields = << >>,
           Resolves(t[n].kind, kind),
           element # << >> => Proper(t, element),
           AllProper(t, fields)
    PROVE  LET t2 == With(t, n, Node(kind, element, fields))
           IN  Evolves(t, t2) /\ Nested(t2) /\ t2[n].kind = kind
  <1> DEFINE node == Node(kind, element, fields)
             t2   == With(t, n, node)
  <1>1. t2[n] = node /\ << >> \notin DOMAIN t
    BY TableFacts DEF With
  <1>2. node.kind = kind /\ node.element = element /\ node.fields = fields
    BY DEF Node
  <1>3. node = Node(node.kind, node.element, node.fields)
    BY <1>2
  <1>4. Evolves(t, t2)
    BY ReplaceFacts
  <1> HIDE DEF node
  <1>5. IsResolved(t, node)
    <2>1. kind \in ResolvedKinds /\ (kind = "alias" <=> kind \in DerivedKinds \cup {"alias"})
      BY DEF ResolvedKinds, DerivedKinds
    <2>2. QED
      BY <1>1, <1>2, <1>3, <2>1 DEF IsResolved
  <1>6. NodeNests(t, node)
    BY <1>2 DEF NodeNests, Pointers, DerivedKinds, AllProper
  <1>7. n \in AddedNames => kind # "alias"
    BY DEF Nested, Proper, Resolves
  <1>8. Nested(t2)
    BY <1>2, <1>4, <1>5, <1>6, <1>7, NestedWith
  <1>9. QED
    BY <1>1, <1>2, <1>4, <1>8 DEF node

\* The same for a struct or variant.
LEMMA MembersNested ==
    ASSUME NEW t, Table(t), Nested(t), NEW n \in DOMAIN t, NEW kind \in {"struct", "variant"},
           NEW fields \in Seq(DOMAIN t), Resolves(t[n].kind, kind), AllProper(t, fields)
    PROVE  LET t2 == With(t, n, Node(kind, << >>, fields))
           IN  Evolves(t, t2) /\ Nested(t2) /\ t2[n].kind = kind
  <1> DEFINE t2 == With(t, n, Node(kind, << >>, fields))
  <1>1. kind \in {"alias", "struct", "variant"} /\ kind # "alias"
    OBVIOUS
  <1>2. << >> \in DOMAIN t \cup {<< >>}
    OBVIOUS
  <1>3. t2[n].kind = kind
    BY DEF With, Node
  <1>4. Evolves(t, t2)
    BY <1>1, <1>2, ReplaceFacts
  <1>5. Nested(t2)
    BY <1>1, <1>2, ReplacedNests
  <1>6. QED
    BY <1>3, <1>4, <1>5

LEMMA ResolveAliasNest ==
    ASSUME IInv, NInv, ResolveAlias
    PROVE  NInv'
  <1> DEFINE t2 == With(types, Top.name, Node("alias", returned, << >>))
  <1>1. calls # << >> /\ Top.fn = "alias" /\ returned # << >>
    BY DEF ResolveAlias, Resumed
  <1>2. /\ FrameOK(types, Top) /\ Table(types) /\ returned \in DOMAIN types
    BY <1>1, TopFacts
  <1>3. Nested(types) /\ Proper(types, returned)
    BY <1>1, TopNests
  <1>4. CASE types[returned].kind = "extension"
    BY <1>4, ThrowNest DEF ResolveAlias
  <1>5. CASE types[returned].kind # "extension"
    <2>1. Return(returned, t2)
      BY <1>5 DEF ResolveAlias
    <2>2. Top.name \in DOMAIN types /\ Resolves(types[Top.name].kind, "alias")
      BY <1>1, <1>2 DEF FrameOK, WorkedOn, Resolving, Resolves
    <2>3. << >> \in Seq(DOMAIN types) /\ AllProper(types, << >>)
      BY EmptySeq DEF AllProper
    <2>4. Evolves(types, t2) /\ Nested(t2)
      BY <1>1, <1>2, <1>3, <2>2, <2>3, ReplacedNests
    <2> HIDE DEF t2
    <2>5. Proper(t2, returned)
      BY <2>4, <1>2, <1>3, EvolvesProgresses, ProperStays
    <2>6. QED
      BY <1>1, <2>1, <2>4, <2>5, ReturnNest
  <1>6. QED
    BY <1>4, <1>5

LEMMA ResolveStructNest ==
    ASSUME IInv, NInv, ResolveStruct
    PROVE  NInv'
  <1> DEFINE base == types[Top.name].element
  <1>1. calls # << >> /\ Top.fn = "struct"
    BY DEF ResolveStruct, Entered
  <1>2. Top \in Calls /\ FrameOK(types, Top) /\ Table(types)
    BY <1>1, TopFacts
  <1>3. Top.name \in DOMAIN types /\ types[Top.name].kind \in {"struct_def", "struct"}
    BY <1>1, <1>2 DEF FrameOK, WorkedOn, Resolving
  <1>4. base \in Names \cup {<< >>}
    BY <1>2, <1>3, StructFacts
  <1>5. FrameNests(types, Top) /\ Nested(types) /\ Evolves(types, types)
    BY <1>1, TopNests
  <1>6. ASSUME NEW fn \in {"base", "fields"}
        PROVE  LET f == [Top EXCEPT !.fn = fn]
               IN  /\ f \in Calls /\ f.fn \notin Adding /\ FrameNests(types, f)
                   /\ \A i \in DOMAIN f.fields : Proper(types, f.fields[i])
    <2> DEFINE f == [Top EXCEPT !.fn = fn]
    <2>1. f \in Calls /\ f.fn \notin Adding /\ f.fields = Top.fields
      BY <1>2 DEF Calls, Fns, Adding
    <2> HIDE DEF f
    <2>2. FrameNests(types, f) /\ \A i \in DOMAIN f.fields : Proper(types, f.fields[i])
      BY <2>1, <1>5 DEF FrameNests
    <2>3. QED
      BY <2>1, <2>2 DEF f
  <1>7. CASE Top.depth >= MaxDepth
    BY <1>7, ThrowNest DEF ResolveStruct
  <1>8. CASE ~(Top.depth >= MaxDepth) /\ base = << >>
    <2> DEFINE f == [Top EXCEPT !.fn = "fields"]
    <2>1. Continue(<<f>>, types)
      BY <1>8 DEF ResolveStruct
    <2>2. f \in Calls /\ FrameNests(types, f)
      BY <1>6
    <2> HIDE DEF f
    <2>3. QED
      BY <1>1, <1>5, <2>1, <2>2, GoNest
  <1>9. CASE ~(Top.depth >= MaxDepth) /\ base # << >>
    <2> DEFINE f == [Top EXCEPT !.fn = "base"]
    <2>1. Continue(<<f, Frame("get_type", base, Top.depth + 1, << >>)>>, types)
      BY <1>9 DEF ResolveStruct
    <2>2. f \in Calls /\ f.fn \notin Adding /\ \A i \in DOMAIN f.fields : Proper(types, f.fields[i])
      BY <1>6
    <2>3. base \in Names
      BY <1>4, <1>9
    <2> HIDE DEF f, base
    <2>4. QED
      BY <1>1, <2>1, <2>2, <2>3, GetNest
  <1>10. QED
    BY <1>7, <1>8, <1>9

LEMMA ResolveBaseNest ==
    ASSUME IInv, NInv, ResolveBase
    PROVE  NInv'
  <1> DEFINE kind == types[returned].kind
  <1>1. calls # << >> /\ Top.fn = "base" /\ returned # << >>
    BY DEF ResolveBase, Resumed
  <1>2. /\ Top \in Calls /\ FrameOK(types, Top) /\ Table(types) /\ Top.depth \in Nat
        /\ returned \in DOMAIN types
    BY <1>1, TopFacts
  <1>3. FrameNests(types, Top) /\ Nested(types) /\ Evolves(types, types)
    BY <1>1, TopNests
  <1>4. CASE kind = "struct"
    <2> DEFINE f == [Top EXCEPT !.fn = "fields", !.fields = types[returned].fields]
    <2>1. Continue(<<f>>, types)
      BY <1>4 DEF ResolveBase, Inherit
    <2>2. types[returned].fields \in Seq(DOMAIN types)
      BY <1>2, <1>4, StructFacts
    <2>3. types[returned].fields \in Seq(Names)
      BY <2>2, <1>2 DEF Table
    <2>4. f \in Calls /\ f.fn \notin Adding /\ f.fields = types[returned].fields
      BY <1>2, <2>3 DEF Calls, Fns, Adding
    <2> HIDE DEF f
    <2>5. kind \notin DefKinds
      BY <1>4 DEF DefKinds
    <2>6. NodeNests(types, types[returned])
      BY <1>2, <1>3, <2>5 DEF Nested
    <2>7. \A i \in DOMAIN f.fields : f.fields[i] \in Pointers(types[returned])
      BY <2>4 DEF Pointers
    <2>8. FrameNests(types, f)
      BY <2>4, <2>6, <2>7 DEF FrameNests, NodeNests
    <2>9. QED
      BY <1>1, <1>3, <2>1, <2>4, <2>8, GoNest
  <1>5. CASE kind = "struct_def"
    <2> DEFINE g == Frame("struct", returned, Top.depth + 1, types[returned].fields)
    <2>1. Continue(<<Top, g>>, types)
      BY <1>5 DEF ResolveBase, ResolveFirst
    <2>2. returned \in Names /\ types[returned].fields \in Seq(Names) /\ Top.depth + 1 \in Nat
      BY <1>2, <1>5, StructFacts DEF Table
    <2>3. g \in Calls /\ g.fn = "struct" /\ g.fields = << >> /\ DOMAIN << >> = {}
      BY <2>2, EmptySeq DEF Frame, Calls, Fns
    <2> HIDE DEF g
    <2>4. FrameNests(types, g)
      BY <2>3 DEF FrameNests, Adding
    <2>5. QED
      BY <1>1, <1>2, <1>3, <2>1, <2>3, <2>4, CallNest
  <1>6. CASE kind \notin {"struct", "struct_def"}
    <2>1. Throw("base_not_a_struct")
      BY <1>6 DEF ResolveBase
    <2>2. QED
      BY <2>1, ThrowNest
  <1>7. QED
    BY <1>4, <1>5, <1>6

LEMMA AppendedProper ==
    ASSUME NEW t, NEW s \in Seq(DOMAIN t), NEW type \in DOMAIN t, Proper(t, type),
           \A i \in DOMAIN s : Proper(t, s[i])
    PROVE  \A i \in DOMAIN Append(s, type) : Proper(t, Append(s, type)[i])
  <1>1. /\ Len(s) \in Nat /\ DOMAIN s = 1 .. Len(s) /\ DOMAIN Append(s, type) = 1 .. Len(s) + 1
        /\ \A i \in 1 .. Len(s) : Append(s, type)[i] = s[i]
        /\ Append(s, type)[Len(s) + 1] = type
    BY AppendProperties, LenProperties
  <1>2. \A i \in 1 .. Len(s) + 1 : i \in 1 .. Len(s) \/ i = Len(s) + 1
    BY <1>1
  <1>3. QED
    BY <1>1, <1>2

\* The members seen so far are no aliases.
LEMMA GatheredProper ==
    ASSUME IInv, NInv, calls # << >>
    PROVE  \A i \in DOMAIN Gathered : Proper(types, Gathered[i])
  <1>1. /\ Top.fields \in Seq(DOMAIN types) /\ returned \in DOMAIN types \cup {<< >>}
    BY TopFacts
  <1>2. /\ \A i \in DOMAIN Top.fields : Proper(types, Top.fields[i])
        /\ returned # << >> => Proper(types, returned)
    BY TopNests DEF FrameNests
  <1>3. CASE returned = << >>
    BY <1>2, <1>3 DEF Gathered
  <1>4. CASE returned # << >>
    <2>1. Gathered = Append(Top.fields, returned)
      BY <1>4 DEF Gathered
    <2>2. QED
      BY <2>1, <1>1, <1>2, <1>4, AppendedProper
  <1>5. QED
    BY <1>3, <1>4

LEMMA ResolveMembersNest ==
    ASSUME IInv, NInv, ResolveMembers
    PROVE  NInv'
  <1>1. calls # << >> /\ Top.fn \in {"fields", "types"}
    BY DEF ResolveMembers
  <1>2. /\ Top \in Calls /\ FrameOK(types, Top) /\ Table(types) /\ Top.rest \in Seq(Names)
    BY <1>1, TopFacts
  <1>3. Gathered \in Seq(DOMAIN types) /\ Gathered \in Seq(Names)
    BY <1>1, GatheredFacts
  <1>4. AllProper(types, Gathered)
    BY <1>1, GatheredProper DEF AllProper
  <1>5. Nested(types)
    BY <1>1, TopNests
  <1>6. CASE Top.rest = << >>
    <2> DEFINE kind == IF Top.fn = "fields" THEN "struct" ELSE "variant"
               t2   == With(types, Top.name, Node(kind, << >>, Gathered))
    <2>1. Return(Top.name, t2)
      BY <1>6 DEF ResolveMembers
    <2>2. Top.name \in DOMAIN types /\ Resolves(types[Top.name].kind, kind)
      BY <1>1, <1>2 DEF FrameOK, WorkedOn, Resolving, Resolves
    <2>3. kind \in {"struct", "variant"}
      OBVIOUS
    <2> HIDE DEF kind
    <2>4. Evolves(types, t2) /\ Nested(t2) /\ t2[Top.name].kind = kind
      BY <1>2, <1>3, <1>4, <1>5, <2>2, <2>3, MembersNested
    <2> HIDE DEF t2
    <2>5. Proper(t2, Top.name)
      BY <2>3, <2>4 DEF Proper
    <2>6. QED
      BY <1>1, <2>1, <2>4, <2>5, ReturnNest
  <1>7. CASE Top.rest # << >>
    <2> DEFINE f    == [Top EXCEPT !.fields = Gathered, !.rest = Tail(@)]
               next == Head(Top.rest)
    <2>1. Continue(<<f, Frame("get_type", next, Top.depth + 1, << >>)>>, types)
      BY <1>7 DEF ResolveMembers
    <2>2. next \in Names /\ Tail(Top.rest) \in Seq(Names)
      BY <1>2, <1>7, RestFacts
    <2>3. f \in Calls /\ f.fn = Top.fn /\ f.fields = Gathered
      BY <1>2, <1>3, <2>2 DEF Calls
    <2> HIDE DEF f, next
    <2>4. f.fn \notin Adding
      BY <2>3, <1>1 DEF Adding
    <2>5. QED
      BY <1>1, <1>4, <2>1, <2>2, <2>3, <2>4, GetNest DEF AllProper
  <1>8. QED
    BY <1>6, <1>7

\* The names of the C++ types that callers, or the types of the program, name.
Asked == CppRequests \cup UNION {{Reflected[n].fields[i] : i \in DOMAIN Reflected[n].fields} :
                                  n \in DOMAIN Reflected}

LEMMA AskedFacts ==
    /\ CppRequests \subseteq Asked
    /\ \A n \in DOMAIN Reflected : \A i \in DOMAIN Reflected[n].fields :
          Reflected[n].fields[i] \in Asked
    /\ \A n \in Asked : n \in CppNames /\ n \in Seq(STRING) /\ Len(n) \in Nat /\ Len(n) > 0
    /\ \A n : n \in AddedNames <=> \E m \in Asked : \E k \in 1 .. Len(m) : n = SubSeq(m, 1, k)
  <1>1. ASSUME NEW n \in Asked
        PROVE  n \in CppNames
    <2>1. CASE n \in CppRequests
      BY <2>1, CallerAssumption
    <2>2. CASE n \notin CppRequests
      <3>1. PICK m \in DOMAIN Reflected :
               n \in {Reflected[m].fields[i] : i \in DOMAIN Reflected[m].fields}
        BY <2>2 DEF Asked
      <3>2. PICK i \in DOMAIN Reflected[m].fields : n = Reflected[m].fields[i]
        BY <3>1
      <3>3. Reflected[m].fields \in Seq(CppNames)
        BY CallerAssumption
      <3>4. QED
        BY <3>2, <3>3
    <2>3. QED
      BY <2>1, <2>2
  <1>2. ASSUME NEW n \in Asked
        PROVE  n \in Seq(STRING) /\ Len(n) \in Nat /\ Len(n) > 0
    <2>1. n \in NamesWith(Suffixes)
      BY <1>1 DEF CppNames
    <2>2. QED
      BY <2>1, NameFacts
  <1>3. AddedNames = UNION {{SubSeq(m, 1, k) : k \in 1 .. Len(m)} : m \in Asked}
    BY DEF AddedNames, Asked
  <1>4. \A n : n \in AddedNames <=> \E m \in Asked : \E k \in 1 .. Len(m) : n = SubSeq(m, 1, k)
    BY <1>3
  <1>5. QED
    BY <1>1, <1>2, <1>4 DEF Asked

\* The start of a sequence.
LEMMA PrefixFacts ==
    ASSUME NEW S, NEW m \in Seq(S), NEW k \in 1 .. Len(m)
    PROVE  /\ SubSeq(m, 1, k) \in Seq(S) /\ Len(SubSeq(m, 1, k)) = k
           /\ \A i \in 1 .. k : SubSeq(m, 1, k)[i] = m[i]
  <1>1. Len(m) \in Nat
    BY LenProperties
  <1>2. QED
    BY <1>1

LEMMA SameSeq ==
    ASSUME NEW S, NEW a \in Seq(S), NEW b \in Seq(S), Len(a) = Len(b),
           \A i \in 1 .. Len(a) : a[i] = b[i]
    PROVE  a = b
  BY SeqEqual

\* What add_type asks for, and what is below it, are such names.
LEMMA AddedFacts ==
    /\ \A n \in Asked : n \in AddedNames
    /\ \A n \in AddedNames : Len(n) > 1 => SubSeq(n, 1, Len(n) - 1) \in AddedNames
  <1>1. ASSUME NEW n \in Asked
        PROVE  n \in AddedNames
    <2>1. n \in Seq(STRING) /\ Len(n) \in Nat /\ Len(n) > 0
      BY AskedFacts
    <2>2. Len(n) \in 1 .. Len(n)
      BY <2>1
    <2> DEFINE p == SubSeq(n, 1, Len(n))
    <2>3. p \in Seq(STRING) /\ Len(p) = Len(n) /\ \A i \in 1 .. Len(n) : p[i] = n[i]
      BY <2>1, <2>2, PrefixFacts
    <2>4. p = n
      <3> HIDE DEF p
      <3>1. QED
        BY <2>1, <2>3, SameSeq
    <2>5. QED
      BY <2>2, <2>4, AskedFacts
  <1>2. ASSUME NEW n \in AddedNames, Len(n) > 1
        PROVE  SubSeq(n, 1, Len(n) - 1) \in AddedNames
    <2>1. PICK m \in Asked : \E k \in 1 .. Len(m) : n = SubSeq(m, 1, k)
      BY AskedFacts
    <2>2. PICK k \in 1 .. Len(m) : n = SubSeq(m, 1, k)
      BY <2>1
    <2>3. m \in Seq(STRING) /\ Len(m) \in Nat
      BY AskedFacts
    <2>4. n \in Seq(STRING) /\ Len(n) = k /\ \A i \in 1 .. k : n[i] = m[i]
      BY <2>2, <2>3, PrefixFacts
    <2>5. k > 1 /\ k - 1 \in 1 .. Len(m) /\ k - 1 \in 1 .. Len(n)
      <3>1. k > 1
        BY <2>4, <1>2
      <3>2. QED
        BY <3>1, <2>3, <2>4
    <2> DEFINE a == SubSeq(n, 1, k - 1)
               b == SubSeq(m, 1, k - 1)
    <2>6. a \in Seq(STRING) /\ Len(a) = k - 1 /\ \A i \in 1 .. k - 1 : a[i] = n[i]
      BY <2>4, <2>5, PrefixFacts
    <2>7. b \in Seq(STRING) /\ Len(b) = k - 1 /\ \A i \in 1 .. k - 1 : b[i] = m[i]
      BY <2>3, <2>5, PrefixFacts
    <2>8. a = b
      <3> HIDE DEF a, b
      <3>1. \A i \in 1 .. Len(a) : a[i] = b[i]
        BY <2>4, <2>5, <2>6, <2>7
      <3>2. QED
        BY <2>6, <2>7, <3>1, SameSeq
    <2>9. b \in AddedNames
      BY <2>5, AskedFacts
    <2>10. a = SubSeq(n, 1, Len(n) - 1)
      BY <2>4
    <2> HIDE DEF a, b
    <2>11. QED
      BY <2>8, <2>9, <2>10
  <1>3. QED
    BY <1>1, <1>2

\* The frame of a call of add_type.
LEMMA AddFrameNests ==
    ASSUME NEW name \in AddedNames, NEW t
    PROVE  FrameNests(t, Frame("add_type", name, 0, << >>))
  <1> DEFINE g == Frame("add_type", name, 0, << >>)
  <1>1. /\ g.fn = "add_type" /\ g.name = name /\ g.fields = << >> /\ g.rest = << >>
        /\ DOMAIN << >> = {}
    BY DEF Frame
  <1> HIDE DEF g
  <1>2. QED
    BY <1>1 DEF FrameNests, g

\* The frame of a call for a struct or variant of the program.
LEMMA ReflectedNests ==
    ASSUME NEW fn \in {"alternatives", "members"}, NEW name \in Names, name \in AddedNames,
           Shape(name) \in {"struct", "variant"}, NEW t
    PROVE  LET f == Frame(fn, name, 0, Reflected[name].fields)
           IN  f \in Calls /\ FrameNests(t, f)
  <1> DEFINE f == Frame(fn, name, 0, Reflected[name].fields)
  <1>1. name \in DOMAIN Reflected /\ Reflected[name].fields \in Seq(CppNames)
    BY ReflectedFacts
  <1>2. f \in Calls /\ f.name = name /\ f.fields = << >> /\ f.rest = Reflected[name].fields
    BY <1>1, CppNameFacts, EmptySeq DEF Frame, Calls, Fns
  <1>3. \A i \in DOMAIN Reflected[name].fields : Reflected[name].fields[i] \in AddedNames
    BY <1>1, AskedFacts, AddedFacts
  <1>4. DOMAIN << >> = {}
    OBVIOUS
  <1> HIDE DEF f
  <1>5. FrameNests(t, f)
    BY <1>2, <1>3, <1>4 DEF FrameNests
  <1>6. QED
    BY <1>2, <1>5 DEF f

LEMMA AddTypeNest ==
    ASSUME IInv, NInv, AddType
    PROVE  NInv'
  <1> DEFINE name == Top.name
  <1>1. calls # << >> /\ Top.fn = "add_type" /\ Top.fn \in Adding
    BY DEF AddType, Entered, Adding
  <1>2. Top \in Calls /\ Table(types) /\ name \in Names
    BY <1>1, TopFacts
  <1>3. name \in CppNames /\ pc = "ready"
    BY <1>1, AddingFacts
  <1>4. FrameNests(types, Top) /\ Nested(types) /\ Evolves(types, types)
    BY <1>1, TopNests
  <1>5. name \in AddedNames /\ \A i \in DOMAIN Top.rest : Top.rest[i] \in AddedNames
    BY <1>1, <1>4 DEF FrameNests
  <1>6. ~(Len(name) > 1) => Len(name) = 1
    BY <1>3, CppNameParts
  <1>7. CASE Len(name) > 1
    <2> DEFINE f     == [Top EXCEPT !.fn = "element"]
               below == SubSeq(name, 1, Len(name) - 1)
               g     == Frame("add_type", below, 0, << >>)
    <2>1. Continue(<<f, g>>, types)
      BY <1>7 DEF AddType
    <2>2. below \in CppNames /\ below \in AddedNames
      BY <1>3, <1>5, <1>7, CppNameParts, AddedFacts
    <2>3. /\ f \in Calls /\ f.fn = "element" /\ f.name = name
          /\ f.fields = Top.fields /\ f.rest = Top.rest
      BY <1>2 DEF Calls, Fns
    <2> HIDE DEF f, below
    <2>4. g \in Calls /\ FrameNests(types, g)
      BY <2>2, AddFrame, AddFrameNests
    <2> HIDE DEF g
    <2>5. FrameNests(types, f)
      BY <2>3, <1>4, <1>5 DEF FrameNests
    <2>6. QED
      BY <1>1, <1>4, <2>1, <2>3, <2>4, <2>5, CallNest
  <1>8. CASE ~(Len(name) > 1) /\ Shape(name) = "variant"
    <2> DEFINE f == Frame("alternatives", name, 0, Reflected[name].fields)
    <2>1. Continue(<<f>>, types)
      BY <1>8 DEF AddType
    <2>2. f \in Calls /\ FrameNests(types, f)
      BY <1>2, <1>5, <1>8, ReflectedNests
    <2> HIDE DEF f
    <2>3. QED
      BY <1>1, <1>4, <2>1, <2>2, GoNest
  <1>9. CASE ~(Len(name) > 1) /\ name \notin DOMAIN types /\ Shape(name) = "struct"
    <2> DEFINE f    == Frame("members", name, 0, Reflected[name].fields)
               node == Node("struct", << >>, << >>)
               t2   == With(types, name, node)
    <2>1. Continue(<<f>>, t2)
      BY <1>9 DEF AddType
    <2>2. f \in Calls /\ FrameNests(t2, f)
      BY <1>2, <1>5, <1>9, ReflectedNests
    <2>3. node.kind = "struct" /\ node.element = << >> /\ node.fields = << >> /\ DOMAIN << >> = {}
      BY DEF Node
    <2>4. node = Node(node.kind, node.element, node.fields)
      BY <2>3
    <2>5. << >> \in Seq(DOMAIN types) /\ << >> \in Seq(DOMAIN t2)
      BY EmptySeq
    <2> HIDE DEF node, f
    <2>6. IsResolved(types, node) /\ IsResolved(t2, node)
      BY <2>3, <2>4, <2>5 DEF IsResolved, ResolvedKinds, DerivedKinds
    <2>7. NodeNests(types, node)
      BY <2>3 DEF NodeNests, Pointers, DerivedKinds
    <2>8. Len(name) = 1 /\ name \in Definable
      <3>1. Len(name) = 1
        BY <1>6, <1>9
      <3>2. name \in Definable
        BY <1>9, ReflectedFacts
      <3>3. QED
        BY <3>1, <3>2
    <2>9. ~Derivable(name)
      BY <2>8 DEF Derivable
    <2>10. Evolves(types, t2)
      BY <1>2, <1>9, <2>6, <2>8, <2>9, TableWith
    <2>11. Nested(t2)
      BY <1>2, <1>4, <2>3, <2>6, <2>7, <2>10, NestedWith
    <2> HIDE DEF t2
    <2>12. QED
      BY <1>1, <2>1, <2>2, <2>10, <2>11, GoNest
  <1>10. CASE /\ ~(Len(name) > 1) /\ Shape(name) # "variant"
              /\ name \in DOMAIN types \/ Shape(name) # "struct"
    <2>1. IF name \in DOMAIN types THEN Return(name, types) ELSE Throw("unknown_type")
      BY <1>10 DEF AddType
    <2>2. CASE name \in DOMAIN types
      <3>1. Proper(types, name)
        BY <2>2, <1>4, <1>5 DEF Nested
      <3>2. QED
        BY <1>1, <1>4, <2>1, <2>2, <3>1, ReturnNest
    <2>3. CASE name \notin DOMAIN types
      BY <2>1, <2>3, ThrowNest
    <2>4. QED
      BY <2>2, <2>3
  <1>11. QED
    BY <1>7, <1>8, <1>9, <1>10

LEMMA AddDerivedTypeNest ==
    ASSUME IInv, NInv, AddDerivedType
    PROVE  NInv'
  <1> DEFINE name == Top.name
             kind == KindOf(name)
             t2   == TryEmplace(types, name, Node(kind, returned, << >>))
  <1>1. calls # << >> /\ Top.fn = "element" /\ returned # << >> /\ Top.fn \in Adding
    BY DEF AddDerivedType, Resumed, Adding
  <1>2. /\ FrameOK(types, Top) /\ Table(types) /\ name \in Names /\ returned \in DOMAIN types
    BY <1>1, TopFacts
  <1>3. name \in CppNames
    BY <1>1, AddingFacts
  <1>4. FrameNests(types, Top) /\ Nested(types) /\ Proper(types, returned)
    BY <1>1, TopNests
  <1>5. CASE types[returned].kind \in ForbiddenInCpp(kind)
    BY <1>5, ThrowNest DEF AddDerivedType
  <1>6. CASE types[returned].kind \notin ForbiddenInCpp(kind)
    <2>1. Return(name, t2)
      BY <1>6 DEF AddDerivedType
    <2>2. Len(name) > 1
      BY <1>1, <1>2 DEF FrameOK
    <2>3. Derivable(name) /\ kind \in DerivedKinds
      BY <2>2, <1>3, CppNameParts, KindFacts
    <2>4. types[returned].kind \notin Forbidden(kind)
      <3> HIDE DEF kind
      <3>1. QED
        BY <2>3, <1>6 DEF ForbiddenInCpp, Forbidden, DerivedKinds
    <2>5. name \in DOMAIN types => Proper(types, name)
      BY <1>1, <1>4 DEF FrameNests, Nested
    <2>6. Evolves(types, t2) /\ Nested(t2) /\ Proper(t2, name)
      BY <1>2, <1>4, <2>3, <2>4, <2>5, DerivedNests
    <2> HIDE DEF t2
    <2>7. QED
      BY <1>1, <2>1, <2>6, ReturnNest
  <1>7. QED
    BY <1>5, <1>6

\* The first and the others of what is left.
LEMMA RestMembers ==
    ASSUME NEW S, NEW A, NEW rest \in Seq(S), rest # << >>, \A i \in DOMAIN rest : rest[i] \in A
    PROVE  /\ Head(rest) \in S /\ Tail(rest) \in Seq(S) /\ Head(rest) \in A
           /\ \A i \in DOMAIN Tail(rest) : Tail(rest)[i] \in A
  <1>1. Len(rest) \in Nat /\ Len(rest) > 0 /\ DOMAIN rest = 1 .. Len(rest)
    BY EmptySeq, LenProperties
  <1>2. /\ Head(rest) \in S /\ Tail(rest) \in Seq(S) /\ Len(Tail(rest)) = Len(rest) - 1
        /\ Head(rest) = rest[1]
        /\ \A i \in 1 .. Len(Tail(rest)) : Tail(rest)[i] = rest[i + 1]
    BY <1>1, HeadTailProperties
  <1>3. DOMAIN Tail(rest) = 1 .. Len(rest) - 1
    BY <1>2, LenProperties
  <1>4. ASSUME NEW i \in 1 .. Len(rest) - 1
        PROVE  i + 1 \in 1 .. Len(rest)
    BY <1>1
  <1>5. QED
    BY <1>1, <1>2, <1>3, <1>4

LEMMA AddNextNest ==
    ASSUME IInv, NInv, calls # << >>, Top.fn \in {"members", "alternatives"}, Top.rest # << >>,
           NEW t2, Evolves(types, t2), Nested(t2), Table(t2),
           NEW fields \in Seq(DOMAIN t2), AllProper(t2, fields), Continue(AddNext(fields), t2)
    PROVE  NInv'
  <1> DEFINE f == [Top EXCEPT !.fields = fields, !.rest = Tail(@)]
             g == Frame("add_type", Head(Top.rest), 0, << >>)
  <1>1. Top.fn \in Adding
    BY DEF Adding
  <1>2. Top \in Calls
    BY TopFacts
  <1>3. Top.rest \in Seq(CppNames)
    BY <1>1, AddingFacts
  <1>4. Top.name \in AddedNames /\ \A i \in DOMAIN Top.rest : Top.rest[i] \in AddedNames
    BY <1>1, TopNests DEF FrameNests
  <1>5. /\ Head(Top.rest) \in CppNames /\ Tail(Top.rest) \in Seq(CppNames)
        /\ Head(Top.rest) \in AddedNames
        /\ \A i \in DOMAIN Tail(Top.rest) : Tail(Top.rest)[i] \in AddedNames
    BY <1>3, <1>4, RestMembers
  <1>6. Continue(<<f, g>>, t2)
    BY DEF AddNext
  <1>7. fields \in Seq(Names) /\ Tail(Top.rest) \in Seq(Names)
    BY <1>5, CppNameFacts DEF Table
  <1>8. /\ f \in Calls /\ f.name = Top.name
        /\ f.fields = fields /\ f.rest = Tail(Top.rest)
    BY <1>2, <1>7 DEF Calls
  <1>9. g \in Calls /\ FrameNests(t2, g)
    BY <1>5, AddFrame, AddFrameNests
  <1> HIDE DEF f, g
  <1>10. FrameNests(t2, f)
    BY <1>4, <1>5, <1>8 DEF FrameNests, AllProper
  <1>11. QED
    BY <1>6, <1>8, <1>9, <1>10, CallNest

LEMMA AddVariantNest ==
    ASSUME IInv, NInv, AddVariant
    PROVE  NInv'
  <1> DEFINE name == Top.name
             node == Node("variant", << >>, Gathered)
             t2   == TryEmplace(types, name, node)
  <1>1. calls # << >> /\ Top.fn = "alternatives" /\ Top.fn \in Adding
    BY DEF AddVariant, Adding
  <1>2. FrameOK(types, Top) /\ Table(types) /\ name \in Names
    BY <1>1, TopFacts
  <1>3. Gathered \in Seq(DOMAIN types) /\ AllProper(types, Gathered)
    BY <1>1, GatheredFacts, GatheredProper DEF AllProper
  <1>4. FrameNests(types, Top) /\ Nested(types) /\ Evolves(types, types)
    BY <1>1, TopNests
  <1>5. CASE Top.rest = << >>
    <2>1. Return(name, t2)
      BY <1>5 DEF AddVariant
    <2>2. Len(name) = 1 /\ name \in Definable
      BY <1>1, <1>2, CallerAssumption DEF FrameOK
    <2>3. Evolves(types, t2)
      BY <1>2, <1>3, <2>2, TryEmplaceFacts DEF DerivedKinds
    <2>4. Nested(t2) /\ Proper(t2, name)
      <3>1. CASE name \in DOMAIN types
        <4>1. t2 = types
          BY <3>1 DEF TryEmplace
        <4>2. Proper(types, name)
          BY <1>1, <1>4, <3>1 DEF FrameNests, Nested
        <4> HIDE DEF t2
        <4>3. QED
          BY <4>1, <4>2, <1>4
      <3>2. CASE name \notin DOMAIN types
        <4>1. node.kind = "variant" /\ node.element = << >> /\ node.fields = Gathered
          BY DEF Node
        <4>2. node = Node(node.kind, node.element, node.fields)
          BY <4>1
        <4>3. With(types, name, node) = t2 /\ With(types, name, node)[name] = node
          BY <3>2 DEF TryEmplace, With
        <4> HIDE DEF node, t2
        <4>4. IsResolved(types, node)
          BY <1>3, <4>1, <4>2 DEF IsResolved, ResolvedKinds, DerivedKinds
        <4>5. NodeNests(types, node)
          BY <1>3, <4>1 DEF NodeNests, Pointers, DerivedKinds, AllProper
        <4>6. Evolves(types, With(types, name, node))
          BY <2>3, <4>3
        <4>7. Nested(With(types, name, node))
          BY <1>2, <1>4, <4>1, <4>4, <4>5, <4>6, NestedWith
        <4>8. QED
          BY <4>1, <4>3, <4>7 DEF Proper
      <3>3. QED
        BY <3>1, <3>2
    <2> HIDE DEF t2
    <2>5. QED
      BY <1>1, <2>1, <2>3, <2>4, ReturnNest
  <1>6. CASE Top.rest # << >>
    <2>1. Continue(AddNext(Gathered), types)
      BY <1>6 DEF AddVariant
    <2>2. QED
      BY <1>1, <1>2, <1>3, <1>4, <1>6, <2>1, AddNextNest
  <1>7. QED
    BY <1>5, <1>6

LEMMA GainNests ==
    ASSUME NEW t, Table(t), Nested(t), NEW n \in DOMAIN t, t[n].kind = "struct",
           NEW type \in DOMAIN t, Proper(t, type)
    PROVE  Nested(Gain(t, n, type))
  <1> DEFINE t2 == Gain(t, n, type)
             fields == Append(t[n].fields, type)
  <1>1. /\ DOMAIN t2 = DOMAIN t /\ Evolves(t, t2)
        /\ \A m \in DOMAIN t : m # n => t2[m] = t[m]
        /\ t2[n] = [t[n] EXCEPT !.fields = Append(@, type)]
    BY GainFacts DEF Gain
  <1>2. /\ << >> \notin DOMAIN t
        /\ \A m \in DOMAIN t : t[m].kind \notin DefKinds => IsResolved(t, t[m])
    BY TableFacts
  <1>3. t[n].kind \notin DefKinds
    BY DEF DefKinds
  <1>4. IsResolved(t, t[n]) /\ NodeNests(t, t[n])
    BY <1>2, <1>3 DEF Nested
  <1>5. t[n].fields \in Seq(DOMAIN t) /\ t[n].element = << >>
    BY <1>4 DEF IsResolved, DerivedKinds
  <1>6. t2[n].kind = "struct" /\ t2[n].element = << >> /\ t2[n].fields = fields
    <2> DEFINE old == t[n].fields
    <2>1. t[n] = [kind |-> "struct", element |-> << >>, fields |-> old]
      BY <1>4, <1>5 DEF IsResolved, Node
    <2>2. t2[n] = [t[n] EXCEPT !.fields = Append(old, type)]
      BY <1>1
    <2> HIDE DEF old, t2
    <2>3. t2[n] = [kind |-> "struct", element |-> << >>, fields |-> Append(old, type)]
      BY <2>1, <2>2
    <2>4. QED
      BY <2>3 DEF old
  <1>7. AllProper(t, t[n].fields)
    BY <1>4 DEF NodeNests, Pointers, AllProper
  <1>8. AllProper(t, fields)
    BY <1>5, <1>7, AppendedProper DEF AllProper
  <1>9. fields \in Seq(DOMAIN t)
    BY <1>5, AppendProperties
  <1> HIDE DEF t2, fields
  <1>10. Progresses(t, t2)
    BY <1>1, EvolvesProgresses
  <1>11. NodeNests(t2, t2[n])
    <2>1. \A i \in DOMAIN fields : Proper(t2, fields[i])
      <3>1. \A i \in DOMAIN fields : fields[i] \in DOMAIN t /\ Proper(t, fields[i])
        BY <1>8, <1>9 DEF AllProper
      <3>2. QED
        BY <3>1, <1>10, ProperStays
    <2>2. QED
      BY <2>1, <1>6 DEF NodeNests, Pointers, DerivedKinds
  <1>12. ASSUME NEW m \in DOMAIN t2
         PROVE  /\ t2[m].kind \notin DefKinds => NodeNests(t2, t2[m])
                /\ m \in AddedNames => Proper(t2, m)
    <2>1. m \in DOMAIN t
      BY <1>1
    <2>2. m \in AddedNames => Proper(t2, m)
      BY <2>1, <1>10, ProperStays DEF Nested
    <2>3. CASE m = n
      BY <2>2, <2>3, <1>11
    <2>4. CASE m # n
      <3>1. t2[m] = t[m]
        BY <2>1, <2>4, <1>1
      <3>2. t[m].kind \notin DefKinds => NodeNests(t2, t[m])
        BY <2>1, <1>2, <1>10, NestStays DEF Nested
      <3>3. QED
        BY <2>2, <3>1, <3>2
    <2>5. QED
      BY <2>3, <2>4
  <1>13. QED
    BY <1>12 DEF Nested, t2

LEMMA AddStructNest ==
    ASSUME IInv, NInv, AddStruct
    PROVE  NInv'
  <1> DEFINE name == Top.name
             t2   == IF returned = << >> THEN types
                     ELSE [types EXCEPT ![Top.name].fields = Append(@, returned)]
  <1>1. calls # << >> /\ Top.fn = "members" /\ Top.fn \in Adding
    BY DEF AddStruct, Adding
  <1>2. /\ FrameOK(types, Top) /\ Table(types)
        /\ returned \in DOMAIN types \cup {<< >>}
    BY <1>1, TopFacts
  <1>3. name \in DOMAIN types /\ types[name].kind = "struct"
    BY <1>1, <1>2 DEF FrameOK, WorkedOn
  <1>4. /\ FrameNests(types, Top) /\ Nested(types)
        /\ returned # << >> => Proper(types, returned)
    BY <1>1, TopNests
  <1>5. Table(t2) /\ Evolves(types, t2) /\ DOMAIN t2 = DOMAIN types /\ Nested(t2)
    <2>1. CASE returned = << >>
      BY <2>1, <1>2, <1>4, EvolvesSame
    <2>2. CASE returned # << >>
      <3>1. t2 = Gain(types, name, returned)
        BY <2>2 DEF Gain
      <3>2. returned \in DOMAIN types
        BY <2>2, <1>2
      <3> HIDE DEF t2
      <3>3. QED
        BY <2>2, <3>1, <3>2, <1>2, <1>3, <1>4, GainFacts, GainNests
    <2>3. QED
      BY <2>1, <2>2
  <1>6. IF Top.rest = << >> THEN Return(name, t2) ELSE Continue(AddNext(<< >>), t2)
    BY DEF AddStruct
  <1>7. << >> \in Seq(DOMAIN t2) /\ AllProper(t2, << >>)
    BY EmptySeq DEF AllProper
  <1>8. Proper(t2, name)
    BY <1>1, <1>3, <1>4, <1>5 DEF FrameNests, Nested
  <1> HIDE DEF t2
  <1>9. CASE Top.rest = << >>
    BY <1>1, <1>5, <1>6, <1>8, <1>9, ReturnNest
  <1>10. CASE Top.rest # << >>
    BY <1>1, <1>5, <1>6, <1>7, <1>10, AddNextNest
  <1>11. QED
    BY <1>9, <1>10

\* The types that are always there.
LEMMA BuiltinNests ==
    /\ \A n \in DOMAIN BuiltinTypes : /\ IsResolved(BuiltinTypes, BuiltinTypes[n])
                                      /\ NodeNests(BuiltinTypes, BuiltinTypes[n])
                                      /\ Proper(BuiltinTypes, n)
    /\ Nested(BuiltinTypes)
  <1> DEFINE t  == BuiltinTypes
             xa == Node("struct", << >>, <<<<"asset">>, <<"name">>>>)
             bi == Node("builtin", << >>, << >>)
  <1>1. /\ DOMAIN t = Predefined /\ t[ExtendedAsset] = xa
        /\ \A n \in Predefined : n # ExtendedAsset => t[n] = bi
    BY DEF BuiltinTypes, With, Predefined
  <1>2. /\ xa.kind = "struct" /\ xa.element = << >> /\ xa.fields = <<<<"asset">>, <<"name">>>>
        /\ bi.kind = "builtin" /\ bi.element = << >> /\ bi.fields = << >>
    BY DEF Node
  <1>3. <<"asset">> \in Predefined /\ <<"name">> \in Predefined
    BY BuiltinAssumption DEF Predefined
  <1>4. Table(t) /\ \A n \in DOMAIN t : t[n].kind \notin DefKinds
    BY BuiltinTable
  <1> HIDE DEF t, xa, bi
  <1>5. \A n \in DOMAIN t : t[n] = xa \/ t[n] = bi
    BY <1>1
  <1>6. \A n \in DOMAIN t : Proper(t, n)
    BY <1>2, <1>5 DEF Proper
  <1>7. NodeNests(t, bi)
    <2>1. DOMAIN << >> = {}
      OBVIOUS
    <2>2. QED
      BY <2>1, <1>2 DEF NodeNests, Pointers, DerivedKinds
  <1>8. NodeNests(t, xa)
    <2> DEFINE members == <<<<"asset">>, <<"name">>>>
    <2>1. \A i \in DOMAIN members : members[i] \in Predefined
      BY <1>3
    <2> HIDE DEF members
    <2>2. xa.fields = members
      BY <1>2 DEF members
    <2>3. QED
      BY <2>1, <2>2, <1>1, <1>2, <1>6 DEF NodeNests, Pointers, DerivedKinds
  <1>9. \A n \in DOMAIN t : NodeNests(t, t[n])
    BY <1>5, <1>7, <1>8
  <1>10. \A n \in DOMAIN t : IsResolved(t, t[n])
    BY <1>4, TableFacts
  <1>11. QED
    BY <1>6, <1>9, <1>10 DEF Nested, t

\* No call is under way.
LEMMA IdleNests ==
    ASSUME calls' = << >>, returned' = << >>, Nested(types'),
           \A n \in DOMAIN abi' : abi'[n].kind = "alias_def" => n \notin AddedNames \ Predefined
    PROVE  NInv'
  <1>1. DOMAIN << >> = {}
    OBVIOUS
  <1>2. QED
    BY <1>1 DEF NInv

LEMMA InitNests ==
    ASSUME AliasesApart, Init
    PROVE  NInv
  <1>1. /\ abi \in Abis /\ types = BuiltinTypes /\ calls = << >> /\ returned = << >>
    BY DEF Init
  <1>2. Nested(types)
    BY <1>1, BuiltinNests
  <1>3. DOMAIN << >> = {}
    OBVIOUS
  <1>4. \A n \in DOMAIN abi : abi[n].kind = "alias_def" => n \notin AddedNames \ Predefined
    BY <1>1 DEF AliasesApart
  <1>5. QED
    BY <1>1, <1>2, <1>3, <1>4 DEF NInv

LEMMA EnterNest ==
    ASSUME IInv, NInv, Enter
    PROVE  NInv'
  <1> DEFINE t  == BuiltinTypes
             t2 == [n \in DOMAIN types \cup DOMAIN abi |->
                      IF n \in DOMAIN abi THEN abi[n] ELSE types[n]]
  <1>1. /\ pc = "enter" /\ Refused = {} /\ types' = t2 /\ pc' = "fill"
        /\ UNCHANGED <<abi, source, filled, error, calls, returned>>
    BY DEF Enter
  <1>2. /\ types = t /\ \A n \in DOMAIN abi : IsDefinition(abi[n])
    BY <1>1 DEF IInv
  <1>3. calls = << >> /\ returned = << >>
    BY <1>1, NoCalls DEF IInv
  <1>4. /\ DOMAIN t2 = DOMAIN types \cup DOMAIN abi
        /\ \A n \in DOMAIN abi : t2[n] = abi[n]
        /\ \A n \in DOMAIN types \ DOMAIN abi : t2[n] = types[n]
    OBVIOUS
  <1>5. \A n \in DOMAIN abi : n \notin DOMAIN types
    BY <1>1 DEF Refused
  <1>6. /\ DOMAIN t = Predefined /\ << >> \notin DOMAIN t
        /\ \A n \in DOMAIN t : IsResolved(t, t[n]) /\ NodeNests(t, t[n]) /\ Proper(t, n)
    BY BuiltinTable, BuiltinNests, TableFacts
  <1> HIDE DEF t2, t
  <1>7. Progresses(t, t2)
    BY <1>2, <1>4, <1>5 DEF Progresses, Resolves
  <1>8. ASSUME NEW n \in DOMAIN t2
        PROVE  /\ t2[n].kind \notin DefKinds => NodeNests(t2, t2[n])
               /\ n \in AddedNames => Proper(t2, n)
    <2>1. CASE n \in DOMAIN abi
      <3>1. t2[n] = abi[n] /\ n \notin Predefined /\ IsDefinition(abi[n])
        BY <2>1, <1>2, <1>4, <1>5, <1>6
      <3>2. n \in AddedNames => abi[n].kind # "alias_def"
        BY <2>1, <3>1 DEF NInv
      <3>3. QED
        BY <3>1, <3>2 DEF IsDefinition, DefKinds, Proper
    <2>2. CASE n \notin DOMAIN abi
      <3>1. n \in DOMAIN t /\ t2[n] = t[n]
        BY <2>2, <1>2, <1>4
      <3>2. NodeNests(t2, t[n]) /\ Proper(t2, n)
        BY <3>1, <1>6, <1>7, NestStays, ProperStays
      <3>3. QED
        BY <3>1, <3>2
    <2>3. QED
      BY <2>1, <2>2
  <1>9. Nested(t2)
    BY <1>8 DEF Nested
  <1>10. QED
    BY <1>1, <1>3, <1>9, IdleNests DEF NInv

LEMMA ConvertBackNest ==
    ASSUME IInv, NInv, ConvertBack
    PROVE  NInv'
  <1>1. /\ calls = << >> /\ abi' = to_abi_def(types) /\ types' = BuiltinTypes
        /\ UNCHANGED <<calls, returned>>
    BY DEF ConvertBack
  <1>2. returned = << >>
    BY <1>1 DEF IInv
  <1>3. ASSUME NEW n \in DOMAIN abi', abi'[n].kind = "alias_def"
        PROVE  n \notin AddedNames
    <2>1. n \in Defined(types)
      BY <1>1, <1>3 DEF to_abi_def
    <2>2. n \in DOMAIN types /\ types[n].kind \in {"alias", "struct", "variant"}
      BY <2>1 DEF Defined
    <2>3. types[n].kind \in {"struct", "variant"} => abi'[n].kind # "alias_def"
      BY <1>1, <2>1 DEF to_abi_def, Node
    <2>4. types[n].kind = "alias"
      BY <2>2, <2>3, <1>3
    <2>5. QED
      BY <2>2, <2>4 DEF NInv, Nested, Proper
  <1>4. Nested(types')
    BY <1>1, BuiltinNests
  <1>5. QED
    BY <1>1, <1>2, <1>3, <1>4, IdleNests

\* Calls that have just been made, for a table that stays as it is.
LEMMA NewCallsNest ==
    ASSUME NInv, UNCHANGED <<abi, types, returned>>, calls' \in Seq(Calls),
           \A i \in 1 .. Len(calls') : FrameNests(types, calls'[i])
    PROVE  NInv'
  <1>1. DOMAIN calls' = 1 .. Len(calls')
    BY LenProperties
  <1>2. QED
    BY <1>1 DEF NInv

LEMMA FillingFields ==
    ASSUME NEW n, NEW i \in 1 .. Len(Filling(n))
    PROVE  Filling(n)[i].fields = << >>
  BY DEF Filling, Frame

LEMMA FillNest ==
    ASSUME IInv, NInv, Fill
    PROVE  NInv'
  <1> DEFINE name == Order[filled + 1]
             c    == calls'
  <1>1. /\ c = IF name \in DOMAIN types THEN Filling(name) ELSE << >>
        /\ UNCHANGED <<abi, types, returned>>
    BY DEF Fill
  <1>2. Table(types)
    BY DEF IInv
  <1> HIDE DEF c
  <1>3. c \in Seq(Calls) /\ \A i \in 1 .. Len(c) : c[i].fn \notin Adding /\ c[i].fields = << >>
    <2>1. CASE name \in DOMAIN types
      <3>1. c = Filling(name)
        BY <2>1, <1>1
      <3>2. c \in Seq(Calls) /\ \A i \in 1 .. Len(c) : c[i].fn \in Getting \cup Resolving
        BY <3>1, <2>1, <1>2, FillingFacts
      <3>3. \A i \in 1 .. Len(c) : c[i].fields = << >>
        BY <3>1, FillingFields
      <3>4. QED
        BY <3>2, <3>3 DEF Getting, Resolving, Adding
    <2>2. CASE name \notin DOMAIN types
      <3>1. c = << >> /\ << >> \in Seq(Calls) /\ Len(<< >>) = 0
        BY <2>2, <1>1, EmptySeq
      <3>2. QED
        BY <3>1
    <2>3. QED
      BY <2>1, <2>2
  <1>4. \A i \in 1 .. Len(c) : FrameNests(types, c[i])
    <2>1. DOMAIN << >> = {}
      OBVIOUS
    <2>2. QED
      BY <2>1, <1>3 DEF FrameNests
  <1>5. QED
    BY <1>1, <1>3, <1>4, NewCallsNest DEF c

LEMMA AskNest ==
    ASSUME IInv, NInv, NEW fn \in {"get_type", "add_type"}, NEW name \in Names, Ask(fn, name),
           fn = "add_type" => name \in AddedNames
    PROVE  NInv'
  <1> DEFINE f  == Frame(fn, name, 0, << >>)
             fr == <<f>>
  <1>1. calls' = fr /\ UNCHANGED <<abi, types, returned>>
    BY DEF Ask
  <1>2. /\ f \in Calls /\ f.fn = fn /\ f.name = name /\ f.fields = << >> /\ f.rest = << >>
        /\ DOMAIN << >> = {}
    BY EmptySeq DEF Frame, Calls, Fns
  <1> HIDE DEF f
  <1>3. FrameNests(types, f)
    BY <1>2 DEF FrameNests, Adding
  <1>4. fr \in Seq(Calls) /\ Len(fr) = 1 /\ fr[1] = f
    BY <1>2, OneFacts
  <1> HIDE DEF fr
  <1>5. \A i \in 1 .. Len(fr) : FrameNests(types, fr[i])
    BY <1>3, <1>4
  <1>6. QED
    BY <1>1, <1>4, <1>5, NewCallsNest

LEMMA StepNests ==
    ASSUME IInv, NInv, [Next]_vars
    PROVE  NInv'
  <1>1. CASE UNCHANGED vars
    BY <1>1 DEF vars, NInv
  <1>2. CASE Enter \/ Fill \/ ConvertBack
    BY <1>2, EnterNest, FillNest, ConvertBackNest
  <1>3. CASE Redefined \/ Converted
    <2>1. UNCHANGED <<abi, types, calls, returned>>
      BY <1>3 DEF Redefined, Converted
    <2>2. QED
      BY <2>1 DEF NInv
  <1>4. CASE Request
    <2>1. PICK name \in Requests : Ask("get_type", name)
      BY <1>4 DEF Request
    <2>2. QED
      BY <2>1, CallerAssumption, AskNest
  <1>5. CASE AddCppType
    <2>1. PICK name \in CppRequests : Ask("add_type", name)
      BY <1>5 DEF AddCppType
    <2>2. name \in AddedNames /\ name \in Names
      BY CallerAssumption, CppNameFacts, AskedFacts, AddedFacts
    <2>3. QED
      BY <2>1, <2>2, AskNest
  <1>6. CASE Resolve
    BY <1>6, GetTypeNest, DerivedNest, ResolveAliasNest, ResolveStructNest,
       ResolveBaseNest, ResolveMembersNest DEF Resolve
  <1>7. CASE Add
    BY <1>7, AddTypeNest, AddDerivedTypeNest, AddVariantNest, AddStructNest DEF Add
  <1>8. CASE Terminated
    BY <1>1, <1>8 DEF Terminated
  <1>9. QED
    BY <1>1, <1>2, <1>3, <1>4, <1>5, <1>6, <1>7, <1>8 DEF Next

\* The table the conversions walk has no definition left in it and no pointer at an
\* alias, and derived types nest as get_type allows, whatever the ABI and whatever
\* the callers ask for or add, if no alias has the name of a type of the program.
THEOREM TablesAreSound == ASSUME AliasesApart PROVE Spec => []TableSound
  <1>1. Init => NInv
    BY InitNests
  <1>2. IInv /\ NInv /\ [Next]_vars => NInv'
    BY StepNests
  <1>3. IInv /\ NInv => TableSound
    BY DEF IInv, Progress, NInv, Nested, NodeNests, Proper, TableSound, NodesNest
  <1>4. QED
    BY <1>1, <1>2, <1>3, Inductive, PTL DEF Spec

----------------------------------------------------------------------------
(***************************************************************************)
(* Structs have the fields of their bases.  While convert resolves them,   *)
(* a call holds names of the ABI and types it has gathered, other calls    *)
(* stand above it, and each of them may resolve what the call is at.  FInv *)
(* says that none does: every call that is under way has its own name, a   *)
(* definition or a type that is not there yet, and is waiting for the      *)
(* answer that the call above it will give.                                *)
(***************************************************************************)
\* A name that get_type needs to resolve nothing for.
Known(t, n) == n \in DOMAIN t /\ t[n].kind # "alias_def"

\* What get_type returns for a name that is known.
Leads(t, n) == IF t[n].kind = "alias" THEN t[n].element ELSE n

LeadsAll(t, list) == [i \in DOMAIN list |-> Leads(t, list[i])]

\* The structs that no call of add_type enters.
Own(a) == DOMAIN a \cup {ExtendedAsset}

\* The base of a struct, if there is one, is a struct that is resolved.
BaseDone(a, t, base) ==
    base # << >> =>
        /\ Known(t, base) /\ Leads(t, base) \in DOMAIN t \cap Own(a)
        /\ t[Leads(t, base)].kind = "struct"

Inherited(t, base) == IF base = << >> THEN << >> ELSE t[Leads(t, base)].fields

\* What FieldsFlattened says of struct n, and that its names are resolved; of a variant
\* the same, which has no base.
StructDone(a, t, n) ==
    /\ BaseDone(a, t, a[n].element)
    /\ \A i \in DOMAIN a[n].fields : Known(t, a[n].fields[i])
    /\ t[n].fields = Inherited(t, a[n].element) \o LeadsAll(t, a[n].fields)

Composite == {"struct", "variant"}

\* What the ABI defines is in the table as it was or resolved.
Entries(a, t) ==
    /\ ExtendedAsset \in DOMAIN t
    /\ \A n \in DOMAIN a :
          /\ n \in DOMAIN t /\ Resolves(a[n].kind, t[n].kind)
          /\ t[n].kind \in DefKinds => t[n] = a[n]
          /\ t[n].kind \in Composite => StructDone(a, t, n)

StructCalls == {"struct", "base", "fields"}
MemberCalls == {"fields", "types"}

\* What a call under way has not resolved yet.
Pending(a, t, f) ==
    /\ f.fn = "derived" => f.name \notin DOMAIN t
    /\ f.fn \in Resolving => f.name \in DOMAIN t
    /\ f.fn = "alias" => t[f.name].kind = "alias_def"
    /\ f.fn = "types" => t[f.name].kind = "variant_def"
    /\ f.fn \in StructCalls => t[f.name].kind = "struct_def"
    /\ f.fn \in {"struct", "base"} => f.rest = a[f.name].fields
    /\ f.fn = "struct" => f.fields = << >>
    /\ f.fn = "base" => a[f.name].element # << >>

\* How many members a call has asked for.
AskedFor(a, f) == Len(a[f.name].fields) - Len(f.rest)

\* The name whose type a call waits for.
Awaited(a, f) ==
    CASE f.fn = "derived"      -> SubSeq(f.name, 1, Len(f.name) - 1)
      [] f.fn \in MemberCalls -> a[f.name].fields[AskedFor(a, f)]
      [] OTHER                 -> a[f.name].element

\* A call has the fields of the base and of the first seen members, and the rest to go.
MembersDone(a, t, f, seen) ==
    LET def == a[f.name]
    IN  /\ Len(f.rest) <= Len(def.fields)
        /\ f.rest = SubSeq(def.fields, AskedFor(a, f) + 1, Len(def.fields))
        /\ seen >= 0
        /\ BaseDone(a, t, def.element)
        /\ \A i \in 1 .. seen : Known(t, def.fields[i])
        /\ f.fields = Inherited(t, def.element) \o LeadsAll(t, SubSeq(def.fields, 1, seen))

\* The last member asked for is not there yet while the call waits for it.
Members(a, t, f, waiting) ==
    f.fn \in MemberCalls => MembersDone(a, t, f, IF waiting THEN AskedFor(a, f) - 1 ELSE AskedFor(a, f))

\* The call g that f has made is for the name f asks for or for what that leads to.
Link(a, t, f, g) ==
    /\ IF g.fn \in Getting \cup {"alias"} THEN g.name = Awaited(a, f)
       ELSE Known(t, Awaited(a, f)) /\ g.name = Leads(t, Awaited(a, f))
    /\ f.fn \notin {"get_type", "struct"}

\* What f was given is what the name it asked for leads to.
Answers(a, t, f, r) == Known(t, Awaited(a, f)) /\ r = Leads(t, Awaited(a, f))

\* While convert runs, definitions and structs are the ABI's.
DefsOwned(a, t) ==
    \A n \in DOMAIN t : /\ t[n].kind \in DefKinds => n \in DOMAIN a
                        /\ t[n].kind = "struct" => n \in Own(a)

\* The calls c of convert's last loop, and the answer r the innermost was given.
Filled(a, t, c, r) ==
    /\ DefsOwned(a, t)
    /\ \A i \in DOMAIN c : Pending(a, t, c[i])
    /\ \A i \in DOMAIN c : Members(a, t, c[i], i < Len(c) \/ r # << >>)
    /\ \A i \in 1 .. Len(c) - 1 : Link(a, t, c[i], c[i + 1])
    /\ \A j \in DOMAIN c : c[j].fn \in StructCalls \cup {"types"} =>
          \A i \in 1 .. j - 1 : c[i].fn = "base"
    /\ c # << >> /\ r # << >> =>
          c[Len(c)].fn \notin {"get_type", "struct"} /\ Answers(a, t, c[Len(c)], r)

\* What add_type enters is not the ABI's.
EntersNew == \A i \in DOMAIN calls : calls[i].fn = "members" => calls[i].name \notin Own(abi)

FInv ==
    /\ pc \in {"fill", "ready"} => Entries(abi, types)
    /\ pc = "fill" => Filled(abi, types, calls, returned)
    /\ pc = "ready" => EntersNew

----------------------------------------------------------------------------
(***************************************************************************)
(* What becomes of the structs when the table changes.                     *)
(***************************************************************************)
\* What a step does to the nodes that structs and aliases are made of.
Stays(a, t, t2) ==
    \A n \in DOMAIN t :
        /\ n \in DOMAIN t2 /\ Resolves(t[n].kind, t2[n].kind)
        /\ t[n].kind \in {"alias", "variant"} => t2[n] = t[n]
        /\ t[n].kind = "struct" /\ n \in Own(a) => t2[n] = t[n]
        /\ t2[n].kind \in DefKinds => t2[n] = t[n]

LEMMA KnownStays ==
    ASSUME NEW a, NEW t, NEW t2, Stays(a, t, t2), NEW n, Known(t, n)
    PROVE  Known(t2, n) /\ Leads(t2, n) = Leads(t, n)
  <1>1. n \in DOMAIN t /\ t[n].kind # "alias_def"
    BY DEF Known
  <1>2. n \in DOMAIN t2 /\ Resolves(t[n].kind, t2[n].kind) /\ (t[n].kind = "alias" => t2[n] = t[n])
    BY <1>1 DEF Stays
  <1>3. QED
    BY <1>1, <1>2 DEF Known, Leads, Resolves

LEMMA BaseStays ==
    ASSUME NEW a, NEW t, NEW t2, Stays(a, t, t2), NEW base, BaseDone(a, t, base)
    PROVE  BaseDone(a, t2, base) /\ Inherited(t2, base) = Inherited(t, base)
  <1>1. CASE base = << >>
    BY <1>1 DEF BaseDone, Inherited
  <1>2. CASE base # << >>
    <2>1. /\ Known(t, base) /\ Leads(t, base) \in DOMAIN t \cap Own(a)
          /\ t[Leads(t, base)].kind = "struct"
      BY <1>2 DEF BaseDone
    <2>2. Known(t2, base) /\ Leads(t2, base) = Leads(t, base)
      BY <2>1, KnownStays
    <2>3. Leads(t, base) \in DOMAIN t2 /\ t2[Leads(t, base)] = t[Leads(t, base)]
      BY <2>1 DEF Stays
    <2>4. QED
      BY <1>2, <2>1, <2>2, <2>3 DEF BaseDone, Inherited
  <1>3. QED
    BY <1>1, <1>2

LEMMA LeadsStay ==
    ASSUME NEW a, NEW t, NEW t2, Stays(a, t, t2), NEW list,
           \A i \in DOMAIN list : Known(t, list[i])
    PROVE  /\ \A i \in DOMAIN list : Known(t2, list[i])
           /\ LeadsAll(t2, list) = LeadsAll(t, list)
  <1>1. \A i \in DOMAIN list : Known(t2, list[i]) /\ Leads(t2, list[i]) = Leads(t, list[i])
    BY KnownStays
  <1>2. QED
    BY <1>1 DEF LeadsAll

LEMMA StructStays ==
    ASSUME NEW a, NEW t, NEW t2, Stays(a, t, t2), NEW n \in DOMAIN a, n \in DOMAIN t,
           t[n].kind \in Composite, StructDone(a, t, n)
    PROVE  StructDone(a, t2, n)
  <1>1. BaseDone(a, t2, a[n].element) /\ Inherited(t2, a[n].element) = Inherited(t, a[n].element)
    BY BaseStays DEF StructDone
  <1>2. /\ \A i \in DOMAIN a[n].fields : Known(t2, a[n].fields[i])
        /\ LeadsAll(t2, a[n].fields) = LeadsAll(t, a[n].fields)
    BY LeadsStay DEF StructDone
  <1>3. t2[n] = t[n]
    BY DEF Stays, Own, Composite
  <1>4. QED
    BY <1>1, <1>2, <1>3 DEF StructDone

\* A step that resolves no struct or variant leaves the entries of the ABI right, and so
\* does one that resolves it with the fields it must have.
LEMMA EntriesStay ==
    ASSUME NEW a, NEW t, NEW t2, Stays(a, t, t2), Entries(a, t),
           \A n \in DOMAIN a :
              t2[n].kind \in Composite /\ t[n].kind \notin Composite => StructDone(a, t2, n)
    PROVE  Entries(a, t2)
  <1>1. ExtendedAsset \in DOMAIN t2
    BY DEF Entries, Stays
  <1>2. ASSUME NEW n \in DOMAIN a
        PROVE  /\ n \in DOMAIN t2 /\ Resolves(a[n].kind, t2[n].kind)
               /\ t2[n].kind \in DefKinds => t2[n] = a[n]
               /\ t2[n].kind \in Composite => StructDone(a, t2, n)
    <2>1. /\ n \in DOMAIN t /\ Resolves(a[n].kind, t[n].kind)
          /\ t[n].kind \in DefKinds => t[n] = a[n]
          /\ t[n].kind \in Composite => StructDone(a, t, n)
      BY DEF Entries
    <2>2. /\ n \in DOMAIN t2 /\ Resolves(t[n].kind, t2[n].kind)
          /\ t2[n].kind \in DefKinds => t2[n] = t[n]
      BY <2>1 DEF Stays
    <2>3. t2[n].kind \in Composite => StructDone(a, t2, n)
      BY <2>1, StructStays
    <2>4. Resolves(a[n].kind, t2[n].kind)
      BY <2>1, <2>2 DEF Resolves
    <2>5. QED
      BY <2>1, <2>2, <2>3, <2>4
  <1>3. QED
    BY <1>1, <1>2 DEF Entries

\* Members that were resolved stay so.
LEMMA MembersStay ==
    ASSUME NEW a, NEW t, NEW t2, Stays(a, t, t2), NEW f, f.rest \in Seq(Names),
           a[f.name].fields \in Seq(Names),
           NEW waiting \in BOOLEAN, Members(a, t, f, waiting)
    PROVE  Members(a, t2, f, waiting)
  <1> DEFINE def  == a[f.name]
             seen == IF waiting THEN AskedFor(a, f) - 1 ELSE AskedFor(a, f)
             list == SubSeq(def.fields, 1, seen)
  <1>1. SUFFICES ASSUME f.fn \in MemberCalls
                 PROVE  MembersDone(a, t2, f, seen)
    BY DEF Members, MemberCalls
  <1>2. MembersDone(a, t, f, seen)
    BY <1>1 DEF Members, MemberCalls
  <1>3. Len(f.rest) \in Nat /\ Len(def.fields) \in Nat
    BY LenProperties
  <1>4. seen \in Nat /\ seen <= Len(def.fields)
    <2>1. seen >= 0
      BY <1>2 DEF MembersDone
    <2> DEFINE k == AskedFor(a, f)
               r == Len(f.rest)
               l == Len(def.fields)
    <2>2. k = l - r /\ r \in Nat /\ l \in Nat
      BY <1>3 DEF AskedFor
    <2>3. seen = IF waiting THEN k - 1 ELSE k
      OBVIOUS
    <2> HIDE DEF k, r, seen
    <2>4. seen \in Nat /\ seen <= l
      BY ONLY <2>1, <2>2, <2>3, waiting \in BOOLEAN
    <2>5. QED
      BY <2>4
  <1> HIDE DEF seen
  <1>5. DOMAIN list = 1 .. seen /\ \A i \in 1 .. seen : list[i] = def.fields[i]
    BY <1>4
  <1>6. BaseDone(a, t2, def.element) /\ Inherited(t2, def.element) = Inherited(t, def.element)
    BY <1>2, BaseStays DEF MembersDone
  <1>7. \A i \in 1 .. seen : Known(t, def.fields[i])
    BY <1>2 DEF MembersDone
  <1> HIDE DEF list
  <1>8. \A i \in DOMAIN list : Known(t, list[i])
    BY <1>5, <1>7
  <1>9. (\A i \in DOMAIN list : Known(t2, list[i])) /\ LeadsAll(t2, list) = LeadsAll(t, list)
    BY <1>8, LeadsStay
  <1>10. \A i \in 1 .. seen : Known(t2, def.fields[i])
    BY <1>5, <1>9
  <1>11. QED
    BY <1>2, <1>6, <1>9, <1>10 DEF MembersDone, list

\* Two ways to change a table in a step.
LEMMA ResolvedStay ==
    ASSUME NEW a, NEW t, NEW n \in DOMAIN t, NEW node,
           t[n].kind \in DefKinds, Resolves(t[n].kind, node.kind), node.kind \notin DefKinds
    PROVE  Stays(a, t, With(t, n, node))
  <1> DEFINE t2 == With(t, n, node)
  <1>1. DOMAIN t2 = DOMAIN t /\ t2[n] = node /\ \A m \in DOMAIN t : m # n => t2[m] = t[m]
    BY DEF With
  <1> HIDE DEF t2
  <1>2. ASSUME NEW m \in DOMAIN t
        PROVE  /\ m \in DOMAIN t2 /\ Resolves(t[m].kind, t2[m].kind)
               /\ t[m].kind \in {"alias", "variant"} => t2[m] = t[m]
               /\ t[m].kind = "struct" => t2[m] = t[m]
               /\ t2[m].kind \in DefKinds => t2[m] = t[m]
    <2>1. CASE m = n
      BY <2>1, <1>1 DEF DefKinds
    <2>2. CASE m # n
      BY <2>2, <1>1 DEF Resolves
    <2>3. QED
      BY <2>1, <2>2
  <1>3. QED
    BY <1>2 DEF Stays, t2

LEMMA KeptStay ==
    ASSUME NEW a, NEW t, NEW t2, Keeps(t, t2)
    PROVE  Stays(a, t, t2)
  BY DEF Keeps, Stays, Resolves

LEMMA KeptEntries ==
    ASSUME NEW a, NEW t, NEW t2, Keeps(t, t2), Entries(a, t)
    PROVE  Entries(a, t2)
  <1>1. \A n \in DOMAIN a : n \in DOMAIN t /\ t2[n] = t[n]
    BY DEF Entries, Keeps
  <1>2. QED
    BY <1>1, KeptStay, EntriesStay

----------------------------------------------------------------------------
(***************************************************************************)
(* The calls that convert's last loop makes.                               *)
(***************************************************************************)
GetCalls == Getting \cup {"alias"}

\* The innermost call goes on as f.
LEMMA GoFilled ==
    ASSUME NEW a, NEW t, NEW c \in Seq(Calls), NEW r, Filled(a, t, c, r), c # << >>,
           NEW c2 \in Seq(Calls), Len(c2) = Len(c), \A i \in 1 .. Len(c) - 1 : c2[i] = c[i],
           NEW f, c2[Len(c)] = f, f.name = c[Len(c)].name,
           f.fn \in GetCalls <=> c[Len(c)].fn \in GetCalls,
           f.fn \in StructCalls \cup {"types"} => c[Len(c)].fn \in StructCalls \cup {"types"},
           Pending(a, t, f), Members(a, t, f, FALSE)
    PROVE  Filled(a, t, c2, << >>)
  <1> DEFINE n == Len(c)
  <1>1. n \in Nat /\ n > 0 /\ DOMAIN c = 1 .. n /\ DOMAIN c2 = 1 .. n
    BY EmptySeq, LenProperties
  <1>2. /\ Len(c2) = n /\ c2[n] = f /\ f.name = c[n].name
        /\ \A i \in 1 .. n - 1 : c2[i] = c[i]
        /\ f.fn \in GetCalls <=> c[n].fn \in GetCalls
        /\ f.fn \in StructCalls \cup {"types"} => c[n].fn \in StructCalls \cup {"types"}
    OBVIOUS
  <1>3. /\ DefsOwned(a, t)
        /\ \A i \in 1 .. n : Pending(a, t, c[i])
        /\ \A i \in 1 .. n : Members(a, t, c[i], i < n \/ r # << >>)
        /\ \A i \in 1 .. n - 1 : Link(a, t, c[i], c[i + 1])
        /\ \A j \in 1 .. n : c[j].fn \in StructCalls \cup {"types"} =>
              \A i \in 1 .. j - 1 : c[i].fn = "base"
    BY <1>1 DEF Filled
  <1> HIDE DEF n
  <1>4. \A i \in 1 .. n : i = n \/ i \in 1 .. n - 1
    BY <1>1
  <1>5. \A i \in 1 .. n : Pending(a, t, c2[i])
    BY <1>2, <1>3, <1>4
  <1>6. ASSUME NEW i \in 1 .. n
        PROVE  Members(a, t, c2[i], i < n \/ << >> # << >>)
    <2>1. CASE i = n
      <3>1. (i < n \/ << >> # << >>) = FALSE
        BY <2>1, <1>1
      <3>2. QED
        BY <3>1, <2>1, <1>2
    <2>2. CASE i \in 1 .. n - 1
      <3>1. (i < n \/ << >> # << >>) = TRUE /\ (i < n \/ r # << >>) = TRUE
        BY <2>2, <1>1
      <3>2. QED
        BY <3>1, <2>2, <1>2, <1>3
    <2>3. QED
      BY <2>1, <2>2, <1>4
  <1>7. ASSUME NEW i \in 1 .. n - 1
        PROVE  Link(a, t, c2[i], c2[i + 1])
    <2>1. Link(a, t, c[i], c[i + 1]) /\ c2[i] = c[i]
      BY <1>2, <1>3
    <2>2. CASE i + 1 = n
      <3>1. c2[i + 1] = f /\ c[i + 1] = c[n]
        BY <2>2, <1>2
      <3>2. QED
        BY <2>1, <3>1, <1>2 DEF Link, GetCalls
    <2>3. CASE i + 1 # n
      <3>1. i + 1 \in 1 .. n - 1
        BY <2>3, <1>1
      <3>2. QED
        BY <2>1, <3>1, <1>2
    <2>4. QED
      BY <2>2, <2>3
  <1>8. ASSUME NEW j \in 1 .. n, c2[j].fn \in StructCalls \cup {"types"}, NEW i \in 1 .. j - 1
        PROVE  c2[i].fn = "base"
    <2>1. i \in 1 .. n - 1
      BY <1>1
    <2>2. c[j].fn \in StructCalls \cup {"types"}
      BY <1>2, <1>4, <1>8
    <2>3. QED
      BY <2>1, <2>2, <1>2, <1>3
  <1>9. QED
    BY <1>1, <1>2, <1>3, <1>5, <1>6, <1>7, <1>8 DEF Filled

\* The innermost call goes on as f and calls g.
LEMMA CallFilled ==
    ASSUME NEW a, NEW t, NEW c \in Seq(Calls), NEW r, Filled(a, t, c, r), c # << >>,
           NEW c2 \in Seq(Calls), Len(c2) = Len(c) + 1, \A i \in 1 .. Len(c) - 1 : c2[i] = c[i],
           NEW f, c2[Len(c)] = f, NEW g, c2[Len(c) + 1] = g, f.name = c[Len(c)].name,
           f.fn \in GetCalls <=> c[Len(c)].fn \in GetCalls,
           f.fn \in StructCalls \cup {"types"} => c[Len(c)].fn \in StructCalls \cup {"types"},
           Pending(a, t, f), Members(a, t, f, TRUE), Link(a, t, f, g),
           Pending(a, t, g), Members(a, t, g, FALSE),
           g.fn \in StructCalls \cup {"types"} => f.fn = "base"
    PROVE  Filled(a, t, c2, << >>)
  <1> DEFINE n == Len(c)
  <1>1. n \in Nat /\ n > 0 /\ DOMAIN c = 1 .. n /\ DOMAIN c2 = 1 .. n + 1
    BY EmptySeq, LenProperties
  <1>2. /\ Len(c2) = n + 1 /\ c2[n] = f /\ c2[n + 1] = g /\ f.name = c[n].name
        /\ \A i \in 1 .. n - 1 : c2[i] = c[i]
        /\ f.fn \in GetCalls <=> c[n].fn \in GetCalls
        /\ f.fn \in StructCalls \cup {"types"} => c[n].fn \in StructCalls \cup {"types"}
    OBVIOUS
  <1>3. /\ DefsOwned(a, t)
        /\ \A i \in 1 .. n : Pending(a, t, c[i])
        /\ \A i \in 1 .. n : Members(a, t, c[i], i < n \/ r # << >>)
        /\ \A i \in 1 .. n - 1 : Link(a, t, c[i], c[i + 1])
        /\ \A j \in 1 .. n : c[j].fn \in StructCalls \cup {"types"} =>
              \A i \in 1 .. j - 1 : c[i].fn = "base"
    BY <1>1 DEF Filled
  <1> HIDE DEF n
  <1>4. \A i \in 1 .. n + 1 : i = n + 1 \/ i = n \/ i \in 1 .. n - 1
    BY <1>1
  <1>5. \A i \in 1 .. n + 1 : Pending(a, t, c2[i])
    BY <1>1, <1>2, <1>3, <1>4
  <1>6. ASSUME NEW i \in 1 .. n + 1
        PROVE  Members(a, t, c2[i], i < n + 1 \/ << >> # << >>)
    <2>1. CASE i = n + 1
      <3>1. (i < n + 1 \/ << >> # << >>) = FALSE
        BY <2>1, <1>1
      <3>2. QED
        BY <3>1, <2>1, <1>2
    <2>2. CASE i = n
      <3>1. (i < n + 1 \/ << >> # << >>) = TRUE
        BY <2>2, <1>1
      <3>2. QED
        BY <3>1, <2>2, <1>2
    <2>3. CASE i \in 1 .. n - 1
      <3>1. (i < n + 1 \/ << >> # << >>) = TRUE /\ (i < n \/ r # << >>) = TRUE
        BY <2>3, <1>1
      <3>2. i \in 1 .. n
        BY <2>3, <1>1
      <3>3. QED
        BY <3>1, <3>2, <2>3, <1>2, <1>3
    <2>4. QED
      BY <2>1, <2>2, <2>3, <1>4
  <1>7. ASSUME NEW i \in 1 .. n
        PROVE  Link(a, t, c2[i], c2[i + 1])
    <2>1. CASE i = n
      BY <2>1, <1>2
    <2>2. CASE i + 1 = n
      <3>1. i \in 1 .. n - 1
        BY <2>2, <1>1
      <3>2. Link(a, t, c[i], c[i + 1]) /\ c2[i] = c[i]
        BY <3>1, <1>2, <1>3
      <3>3. c2[i + 1] = f /\ c[i + 1] = c[n]
        BY <2>2, <1>2
      <3>4. QED
        BY <3>2, <3>3, <1>2 DEF Link, GetCalls
    <2>3. CASE i # n /\ i + 1 # n
      <3>1. i \in 1 .. n - 1 /\ i + 1 \in 1 .. n - 1
        BY <2>3, <1>1
      <3>2. QED
        BY <3>1, <1>2, <1>3
    <2>4. QED
      BY <2>1, <2>2, <2>3
  <1>8. ASSUME NEW j \in 1 .. n + 1, c2[j].fn \in StructCalls \cup {"types"}, NEW i \in 1 .. j - 1
        PROVE  c2[i].fn = "base"
    <2>1. ASSUME c[n].fn \in StructCalls \cup {"types"}
          PROVE  \A k \in 1 .. n - 1 : c2[k].fn = "base"
      BY <2>1, <1>1, <1>2, <1>3
    <2>2. CASE j = n + 1
      <3>1. f.fn = "base"
        BY <2>2, <1>2, <1>8
      <3>2. c[n].fn \in StructCalls \cup {"types"}
        BY <3>1, <1>2 DEF StructCalls
      <3>3. i = n \/ i \in 1 .. n - 1
        BY <2>2, <1>1
      <3>4. QED
        BY <3>1, <3>2, <3>3, <2>1, <1>2
    <2>3. CASE j = n
      <3>1. i \in 1 .. n - 1 /\ c[n].fn \in StructCalls \cup {"types"}
        BY <2>3, <1>2, <1>8
      <3>2. QED
        BY <3>1, <2>1
    <2>4. CASE j \in 1 .. n - 1
      <3>1. i \in 1 .. n - 1 /\ j \in 1 .. n /\ c[j].fn \in StructCalls \cup {"types"}
        BY <2>4, <1>1, <1>2, <1>8
      <3>2. QED
        BY <3>1, <1>2, <1>3
    <2>5. QED
      BY <2>2, <2>3, <2>4, <1>4
  <1>9. QED
    BY <1>1, <1>2, <1>3, <1>5, <1>6, <1>7, <1>8 DEF Filled

\* The innermost call returns type.
LEMMA ReturnFilled ==
    ASSUME NEW a, NEW t, NEW t2, NEW c \in Seq(Calls), NEW r, Filled(a, t, c, r), c # << >>,
           \A n \in DOMAIN a : IsDefinition(a[n]),
           Stays(a, t, t2), DefsOwned(a, t2),
           NEW c2 \in Seq(Calls), Len(c2) = Len(c) - 1, \A i \in 1 .. Len(c) - 1 : c2[i] = c[i],
           \A i \in 1 .. Len(c) - 1 : Pending(a, t2, c[i]),
           NEW type, type # << >>, NEW r2, r2 = IF c2 = << >> THEN << >> ELSE type,
           IF c[Len(c)].fn \in GetCalls THEN Known(t2, c[Len(c)].name) /\ type = Leads(t2, c[Len(c)].name)
           ELSE type = c[Len(c)].name
    PROVE  Filled(a, t2, c2, r2)
  <1> DEFINE n == Len(c)
  <1>1. n \in Nat /\ n > 0 /\ DOMAIN c = 1 .. n /\ DOMAIN c2 = 1 .. n - 1
    BY EmptySeq, LenProperties
  <1>2. /\ Len(c2) = n - 1
        /\ \A i \in 1 .. n - 1 : c2[i] = c[i] /\ Pending(a, t2, c[i])
        /\ IF c[n].fn \in GetCalls THEN Known(t2, c[n].name) /\ type = Leads(t2, c[n].name)
           ELSE type = c[n].name
    OBVIOUS
  <1>3. /\ DefsOwned(a, t)
        /\ \A i \in 1 .. n : Pending(a, t, c[i])
        /\ \A i \in 1 .. n : Members(a, t, c[i], i < n \/ r # << >>)
        /\ \A i \in 1 .. n - 1 : Link(a, t, c[i], c[i + 1])
        /\ \A j \in 1 .. n : c[j].fn \in StructCalls \cup {"types"} =>
              \A i \in 1 .. j - 1 : c[i].fn = "base"
    BY <1>1 DEF Filled
  <1>0. \A i \in 1 .. n : c[i] \in Calls
    BY <1>1
  <1> HIDE DEF n
  <1>4. \A i \in DOMAIN c2 : Pending(a, t2, c2[i])
    BY <1>1, <1>2
  <1>5. ASSUME NEW i \in DOMAIN c2
        PROVE  Members(a, t2, c2[i], i < Len(c2) \/ r2 # << >>)
    <2>1. i \in 1 .. n - 1 /\ i \in 1 .. n /\ c2[i] = c[i]
      BY <1>1, <1>2
    <2>2. (i < n \/ r # << >>) = TRUE
      BY <2>1, <1>1
    <2>3. r2 # << >>
      <3>1. Len(c2) # 0
        BY <1>1, <1>2
      <3>2. QED
        BY <3>1, EmptySeq
    <2>4. CASE c[i].fn \in MemberCalls
      <3>1. c[i].name \in DOMAIN t /\ t[c[i].name].kind \in {"struct_def", "variant_def"}
        BY <2>1, <2>4, <1>3 DEF Pending, Resolving, StructCalls, MemberCalls
      <3>2. c[i].name \in DOMAIN a
        BY <3>1, <1>3 DEF DefsOwned, DefKinds
      <3>3. a[c[i].name].fields \in Seq(Names) /\ c[i].rest \in Seq(Names)
        BY <2>1, <3>2, <1>0 DEF IsDefinition, Calls
      <3>4. Members(a, t, c[i], TRUE)
        BY <2>1, <2>2, <1>3
      <3>5. Members(a, t2, c[i], TRUE)
        BY <3>3, <3>4, MembersStay
      <3>6. (i < Len(c2) \/ r2 # << >>) = TRUE
        BY <2>3
      <3>7. QED
        BY <3>5, <3>6, <2>1
    <2>5. CASE c[i].fn \notin MemberCalls
      BY <2>1, <2>5 DEF Members, MemberCalls
    <2>6. QED
      BY <2>4, <2>5
  <1>6. ASSUME NEW i \in 1 .. Len(c2) - 1
        PROVE  Link(a, t2, c2[i], c2[i + 1])
    <2>1. /\ i \in 1 .. n - 1 /\ i + 1 \in 1 .. n - 1
          /\ Link(a, t, c[i], c[i + 1]) /\ c2[i] = c[i] /\ c2[i + 1] = c[i + 1]
      BY <1>1, <1>2, <1>3
    <2>2. QED
      BY <2>1, KnownStays DEF Link
  <1>7. ASSUME NEW j \in DOMAIN c2, c2[j].fn \in StructCalls \cup {"types"}, NEW i \in 1 .. j - 1
        PROVE  c2[i].fn = "base"
    <2>1. i \in 1 .. n - 1 /\ j \in 1 .. n - 1 /\ j \in 1 .. n
      BY <1>1
    <2>2. QED
      BY <2>1, <1>2, <1>3, <1>7
  <1>8. ASSUME c2 # << >>
        PROVE  /\ c2[Len(c2)].fn \notin {"get_type", "struct"}
               /\ Answers(a, t2, c2[Len(c2)], r2)
    <2> DEFINE h == c[n - 1]
               g == c[n]
    <2>1. n - 1 \in 1 .. n - 1
      <3>1. Len(c2) > 0
        BY <1>8, EmptySeq, LenProperties
      <3>2. QED
        BY <3>1, <1>1, <1>2
    <2>2. c2[Len(c2)] = h /\ r2 = type
      BY <2>1, <1>2, <1>8
    <2>3. Link(a, t, h, g)
      <3>1. (n - 1) + 1 = n
        BY <1>1
      <3>2. QED
        BY <2>1, <3>1, <1>3
    <2>4. h.fn \notin {"get_type", "struct"}
      BY <2>3 DEF Link
    <2>5. Known(t2, Awaited(a, h)) /\ type = Leads(t2, Awaited(a, h))
      <3>1. CASE g.fn \in GetCalls
        BY <2>3, <3>1, <1>2 DEF Link, GetCalls
      <3>2. CASE g.fn \notin GetCalls
        <4>1. Known(t, Awaited(a, h)) /\ type = Leads(t, Awaited(a, h))
          BY <2>3, <3>2, <1>2 DEF Link, GetCalls
        <4>2. QED
          BY <4>1, KnownStays
      <3>3. QED
        BY <3>1, <3>2
    <2>6. QED
      BY <2>2, <2>4, <2>5 DEF Answers
  <1>9. QED
    BY <1>4, <1>5, <1>6, <1>7, <1>8 DEF Filled

\* No two calls that have yet to resolve something do it for the same name, or the
\* one above could not have had its answer.
LEMMA GettersDiffer ==
    ASSUME NEW a, NEW t, NEW c \in Seq(Calls), NEW r, Filled(a, t, c, r), c # << >>, r # << >>,
           \A i \in DOMAIN c : c[i].fn \in Getting \cup Resolving,
           c[Len(c)].fn \in {"derived", "alias"}
    PROVE  \A i \in 1 .. Len(c) - 1 : c[i].name # c[Len(c)].name
  <1> DEFINE n   == Len(c)
             top == c[n]
  <1>1. n \in Nat /\ n > 0 /\ DOMAIN c = 1 .. n
    BY EmptySeq, LenProperties
  <1>2. /\ \A i \in 1 .. n : Pending(a, t, c[i]) /\ c[i].fn \in Getting \cup Resolving
        /\ \A i \in 1 .. n - 1 : Link(a, t, c[i], c[i + 1])
        /\ \A j \in 1 .. n : c[j].fn \in StructCalls \cup {"types"} =>
              \A i \in 1 .. j - 1 : c[i].fn = "base"
        /\ Answers(a, t, top, r)
        /\ top.fn \in {"derived", "alias"}
    BY <1>1 DEF Filled
  <1> HIDE DEF n
  <1>3. SUFFICES ASSUME NEW i \in 1 .. n - 1, c[i].name = top.name
                 PROVE  FALSE
    BY DEF n
  <1> DEFINE h == c[i]
             g == c[i + 1]
  <1>4. i \in 1 .. n /\ i + 1 \in 1 .. n /\ n \in 1 .. n /\ i \in 1 .. (i + 1) - 1
    BY <1>1
  <1>5. /\ Pending(a, t, h) /\ Pending(a, t, g) /\ Pending(a, t, top)
        /\ h.fn \in Getting \cup Resolving /\ g.fn \in Getting \cup Resolving
        /\ Link(a, t, h, g)
        /\ g.fn \in StructCalls \cup {"types"} => h.fn = "base"
        /\ i + 1 < n => Link(a, t, g, c[i + 2])
        /\ i + 1 = n \/ i + 1 < n
    <2>1. i + 1 < n => i + 1 \in 1 .. n - 1 /\ (i + 1) + 1 = i + 2
      BY <1>1
    <2>2. QED
      BY <1>1, <1>2, <1>4, <2>1
  <1>6. h.name = top.name
    BY <1>3
  <1> HIDE DEF h, g, top
  <1>7. h.fn = top.fn
    BY <1>2, <1>5, <1>6 DEF Pending, Link, Getting, Resolving, StructCalls
  <1>8. Awaited(a, h) = Awaited(a, top)
    BY <1>2, <1>6, <1>7 DEF Awaited, MemberCalls
  <1>9. g.fn \in {"derived", "alias"}
    <2>1. g.fn \notin StructCalls \cup {"types"}
      BY <1>2, <1>5, <1>7
    <2>2. g.fn # "get_type"
      <3>1. CASE i + 1 = n
        BY <3>1, <1>2 DEF g, top
      <3>2. CASE i + 1 < n
        BY <3>2, <1>5 DEF Link
      <3>3. QED
        BY <3>1, <3>2, <1>5
    <2>3. QED
      BY <2>1, <2>2, <1>5 DEF Getting, Resolving, StructCalls
  <1>10. g.name = Awaited(a, top)
    BY <1>2, <1>5, <1>7, <1>8, <1>9 DEF Link, Getting
  <1>11. Known(t, g.name)
    BY <1>2, <1>10 DEF Answers
  <1>12. QED
    BY <1>5, <1>9, <1>11 DEF Pending, Known

LEMMA ResolversDiffer ==
    ASSUME NEW a, NEW t, NEW c \in Seq(Calls), NEW r, Filled(a, t, c, r), c # << >>,
           c[Len(c)].fn \in {"fields", "types"}
    PROVE  \A i \in 1 .. Len(c) - 1 : c[i].name # c[Len(c)].name
  <1> DEFINE n   == Len(c)
             top == c[n]
  <1>1. n \in Nat /\ n > 0 /\ DOMAIN c = 1 .. n
    BY EmptySeq, LenProperties
  <1>2. /\ \A i \in 1 .. n : Pending(a, t, c[i])
        /\ \A i \in 1 .. n - 1 : Link(a, t, c[i], c[i + 1])
        /\ \A i \in 1 .. n - 1 : c[i].fn = "base"
        /\ Members(a, t, top, n < n \/ r # << >>)
        /\ top.fn \in {"fields", "types"}
    <2>1. n \in 1 .. n
      BY <1>1
    <2>2. QED
      BY <1>1, <2>1 DEF Filled, StructCalls
  <1> HIDE DEF n
  <1>3. SUFFICES ASSUME NEW i \in 1 .. n - 1, c[i].name = top.name
                 PROVE  FALSE
    BY DEF n
  <1> DEFINE h == c[i]
             g == c[i + 1]
  <1>4. /\ Pending(a, t, h) /\ Pending(a, t, g) /\ Pending(a, t, top) /\ Link(a, t, h, g)
        /\ h.fn = "base" /\ g.fn \in {"base", "fields", "types"}
    <2>1. i \in 1 .. n /\ i + 1 \in 1 .. n /\ n \in 1 .. n
      BY <1>1
    <2>2. CASE i + 1 = n
      BY <2>1, <2>2, <1>2
    <2>3. CASE i + 1 # n
      <3>1. i + 1 \in 1 .. n - 1
        BY <2>3, <1>1
      <3>2. QED
        BY <2>1, <3>1, <1>2
    <2>4. QED
      BY <2>2, <2>3
  <1>5. h.name = top.name
    BY <1>3
  <1> HIDE DEF h, g, top
  <1>6. top.fn = "fields"
    BY <1>2, <1>4, <1>5 DEF Pending, StructCalls, Resolving
  <1>7. BaseDone(a, t, a[top.name].element)
    BY <1>2, <1>6 DEF Members, MembersDone, MemberCalls
  <1>8. a[top.name].element # << >> /\ Awaited(a, h) = a[top.name].element
    BY <1>4, <1>5 DEF Pending, Awaited, MemberCalls
  <1>9. g.name = Leads(t, a[top.name].element)
    BY <1>4, <1>8 DEF Link, Getting
  <1>10. t[g.name].kind = "struct"
    BY <1>7, <1>8, <1>9 DEF BaseDone
  <1>11. g.fn \in {"base", "fields"} \/ g.fn = "types"
    BY <1>4
  <1>12. QED
    BY <1>4, <1>10, <1>11 DEF Pending, StructCalls

\* Other names are as pending as they were.
LEMMA PendingStays ==
    ASSUME NEW a, NEW t, NEW n, NEW node, NEW f, Pending(a, t, f), f.name # n
    PROVE  Pending(a, With(t, n, node), f)
  <1> DEFINE t2 == With(t, n, node)
  <1>1. DOMAIN t2 = DOMAIN t \cup {n} /\ (f.name \in DOMAIN t => t2[f.name] = t[f.name])
    BY DEF With
  <1> HIDE DEF t2
  <1>2. f.fn \in Resolving => f.name \in DOMAIN t
    BY DEF Pending
  <1>3. Pending(a, t2, f)
    BY <1>1, <1>2 DEF Pending, Resolving, StructCalls
  <1>4. QED
    BY <1>3 DEF t2

----------------------------------------------------------------------------
(***************************************************************************)
(* Lists of members.                                                       *)
(***************************************************************************)
LEMMA FunctionSeq ==
    ASSUME NEW S, NEW m \in Nat, NEW l \in [1 .. m -> S]
    PROVE  l \in Seq(S) /\ Len(l) = m
  <1>1. l \in Seq(S)
    BY SeqDef
  <1>2. Len(l) \in Nat /\ DOMAIN l = 1 .. Len(l) /\ DOMAIN l = 1 .. m
    BY <1>1, LenProperties
  <1>3. QED
    BY <1>1, <1>2

\* What the first m names of a list lead to.
LeadsFirst(t, list, m) == LeadsAll(t, SubSeq(list, 1, m))

LeadIn(S, t, list, m) == \A i \in 1 .. m : Leads(t, list[i]) \in S

LedTo(S, t, list, m, l) == l \in Seq(S) /\ Len(l) = m /\ \A i \in 1 .. m : l[i] = Leads(t, list[i])

LEMMA LeadsSeq ==
    ASSUME NEW S, NEW t, NEW list \in Seq(Names), NEW m \in 0 .. Len(list),
           LeadIn(S, t, list, m)
    PROVE  LedTo(S, t, list, m, LeadsFirst(t, list, m))
  <1> DEFINE s == SubSeq(list, 1, m)
             l == LeadsAll(t, s)
  <1>1. Len(list) \in Nat /\ m \in Nat
    BY LenProperties
  <1>2. DOMAIN s = 1 .. m /\ \A i \in 1 .. m : s[i] = list[i]
    BY <1>1
  <1> HIDE DEF s
  <1>3. DOMAIN l = 1 .. m /\ \A i \in 1 .. m : l[i] = Leads(t, list[i])
    BY <1>2 DEF LeadsAll
  <1>4. l \in [1 .. m -> S]
    <2>1. \A i \in 1 .. m : l[i] \in S
      BY <1>1, <1>3 DEF LeadIn
    <2>2. l = [i \in 1 .. m |-> l[i]]
      BY <1>2 DEF LeadsAll
    <2>3. QED
      BY <2>1, <2>2
  <1> HIDE DEF l
  <1>5. l \in Seq(S) /\ Len(l) = m
    BY <1>1, <1>4, FunctionSeq
  <1>6. QED
    BY <1>3, <1>5 DEF l, s, LedTo, LeadsFirst

LEMMA SameList ==
    ASSUME NEW list \in Seq(Names)
    PROVE  SubSeq(list, 1, Len(list)) = list /\ SubSeq(list, 1, 0) = << >>
  <1>1. Len(list) \in Nat
    BY LenProperties
  <1>2. SubSeq(list, 1, Len(list)) = list
    BY <1>1, SubSeqFull
  <1>3. SubSeq(list, 1, 0) = << >>
    BY SubSeqEmpty
  <1>4. QED
    BY <1>2, <1>3

\* With no member seen, only those of the base are there.
LEMMA LeadsNone ==
    ASSUME NEW S, NEW t, NEW list \in Seq(Names), NEW b \in Seq(S)
    PROVE  b \o LeadsAll(t, SubSeq(list, 1, 0)) = b
  <1>1. SubSeq(list, 1, 0) = << >>
    BY SameList
  <1>2. LeadsAll(t, << >>) = << >>
    BY DEF LeadsAll
  <1>3. QED
    BY <1>1, <1>2, ConcatEmptySeq

\* The next member is added to those before it.
LEMMA LeadsNext ==
    ASSUME NEW S, NEW t, NEW list \in Seq(Names), NEW k \in 1 .. Len(list), NEW b \in Seq(S),
           LeadIn(S, t, list, k)
    PROVE  Append(b \o LeadsAll(t, SubSeq(list, 1, k - 1)), Leads(t, list[k]))
              = b \o LeadsAll(t, SubSeq(list, 1, k))
  <1> DEFINE l1 == LeadsFirst(t, list, k - 1)
             l2 == LeadsFirst(t, list, k)
             x  == Leads(t, list[k])
             left  == Append(b \o l1, x)
             right == b \o l2
  <1>1. Len(list) \in Nat /\ k \in Nat /\ k > 0 /\ k - 1 \in 0 .. Len(list) /\ k \in 0 .. Len(list)
    BY LenProperties
  <1>2. x \in S /\ LeadIn(S, t, list, k - 1)
    BY <1>1 DEF LeadIn
  <1>4. l1 \in Seq(S) /\ Len(l1) = k - 1 /\ \A i \in 1 .. k - 1 : l1[i] = Leads(t, list[i])
    BY <1>1, <1>2, LeadsSeq DEF LedTo
  <1>5. l2 \in Seq(S) /\ Len(l2) = k /\ \A i \in 1 .. k : l2[i] = Leads(t, list[i])
    BY <1>1, LeadsSeq DEF LedTo
  <1> HIDE DEF l1, l2
  <1>6. l2[k] = x /\ \A i \in 1 .. k - 1 : l2[i] = l1[i]
    BY <1>1, <1>4, <1>5
  <1> HIDE DEF x
  <1>7. left = right
    <2>1. left \in Seq(S) /\ right \in Seq(S) /\ Len(b) \in Nat
          /\ Len(left) = Len(b) + k /\ Len(right) = Len(b) + k
      <3>1. /\ b \o l1 \in Seq(S) /\ Len(b \o l1) = Len(b) + Len(l1) /\ Len(b) \in Nat
            /\ right \in Seq(S) /\ Len(right) = Len(b) + Len(l2)
        BY <1>4, <1>5, ConcatProperties, LenProperties
      <3>2. left \in Seq(S) /\ Len(left) = Len(b \o l1) + 1
        BY <3>1, <1>2, AppendProperties
      <3>3. QED
        BY <3>1, <3>2, <1>1, <1>4, <1>5
    <2>2. ASSUME NEW i \in 1 .. Len(b) + k
          PROVE  left[i] = right[i]
      <3>1. CASE i \in 1 .. Len(b)
        BY <3>1, <2>1, <1>1, <1>2, <1>4, <1>5
      <3>2. CASE i \in Len(b) + 1 .. Len(b) + k - 1
        <4>1. i - Len(b) \in 1 .. k - 1
          BY <3>2, <2>1, <1>1
        <4>2. left[i] = l1[i - Len(b)] /\ right[i] = l2[i - Len(b)]
          BY <3>2, <4>1, <2>1, <1>1, <1>2, <1>4, <1>5
        <4>3. QED
          BY <4>1, <4>2, <1>6
      <3>3. CASE i = Len(b) + k
        <4>1. left[i] = x
          BY <3>3, <2>1, <1>1, <1>2, <1>4
        <4>2. right[i] = l2[k]
          BY <3>3, <2>1, <1>1, <1>2, <1>5
        <4>3. QED
          BY <4>1, <4>2, <1>6
      <3>4. QED
        BY <3>1, <3>2, <3>3, <2>1, <1>1
    <2> HIDE DEF left, right
    <2>3. QED
      BY <2>1, <2>2, SeqEqual
  <1>8. QED
    BY <1>7 DEF l1, l2, x, LeadsFirst

----------------------------------------------------------------------------
(***************************************************************************)
(* Steps of the calls that convert's last loop makes.                      *)
(***************************************************************************)
LEMMA TopFilled ==
    ASSUME IInv, FInv, pc = "fill", calls # << >>
    PROVE  /\ calls \in Seq(Calls) /\ Filled(abi, types, calls, returned)
           /\ Entries(abi, types) /\ DefsOwned(abi, types) /\ Table(types)
           /\ Top = calls[Len(calls)] /\ Top \in Calls
           /\ \A i \in DOMAIN calls : calls[i].fn \in Getting \cup Resolving
           /\ Top.fn \in Getting \cup Resolving
           /\ Pending(abi, types, Top) /\ Members(abi, types, Top, returned # << >>)
           /\ returned # << >> =>
                 /\ Top.fn \notin {"get_type", "struct"}
                 /\ Answers(abi, types, Top, returned) /\ returned \in DOMAIN types
           /\ \A n \in DOMAIN abi : IsDefinition(abi[n])
  <1> DEFINE n == Len(calls)
  <1>1. /\ calls \in Seq(Calls) /\ Table(types) /\ \A m \in DOMAIN abi : IsDefinition(abi[m])
        /\ returned \in DOMAIN types \cup {<< >>}
    BY DEF IInv, CallsOK
  <1>2. /\ n \in Nat /\ n > 0 /\ DOMAIN calls = 1 .. n /\ Top = calls[n] /\ Top \in Calls
    BY <1>1, CallFacts
  <1>3. Filled(abi, types, calls, returned) /\ Entries(abi, types)
    BY DEF FInv
  <1>4. \A i \in DOMAIN calls : calls[i].fn \in Getting \cup Resolving
    BY DEF IInv, CallsOK, Modes
  <1> HIDE DEF n
  <1>5. n \in DOMAIN calls /\ (n < n \/ returned # << >>) = (returned # << >>)
    BY <1>2
  <1>6. DefsOwned(abi, types) /\ Pending(abi, types, Top)
    BY <1>2, <1>3, <1>5 DEF Filled
  <1>7. Members(abi, types, Top, returned # << >>)
    <2>1. Members(abi, types, calls[n], n < n \/ returned # << >>)
      BY <1>3, <1>5 DEF Filled, n
    <2>2. QED
      BY <2>1, <1>2, <1>5
  <1>8. returned # << >> =>
           Top.fn \notin {"get_type", "struct"} /\ Answers(abi, types, Top, returned)
    BY <1>2, <1>3 DEF Filled, n
  <1>9. QED
    BY <1>1, <1>2, <1>3, <1>4, <1>5, <1>6, <1>7, <1>8 DEF n

\* A definition in the table is the one in the ABI.
LEMMA DefinedNames ==
    ASSUME NEW a, NEW t, Entries(a, t), DefsOwned(a, t), NEW n \in DOMAIN t, t[n].kind \in DefKinds
    PROVE  n \in DOMAIN a /\ t[n] = a[n]
  BY DEF Entries, DefsOwned

LEMMA GoFlat ==
    ASSUME IInv, FInv, pc = "fill", calls # << >>, NEW f \in Calls, Continue(<<f>>, types),
           f.name = Top.name,
           f.fn \in GetCalls <=> Top.fn \in GetCalls,
           f.fn \in StructCalls \cup {"types"} => Top.fn \in StructCalls \cup {"types"},
           Pending(abi, types, f), Members(abi, types, f, FALSE)
    PROVE  FInv'
  <1> DEFINE c2 == calls'
             b  == Below
             fr == <<f>>
  <1>1. /\ calls \in Seq(Calls) /\ Filled(abi, types, calls, returned) /\ Entries(abi, types)
        /\ Top = calls[Len(calls)]
    BY TopFilled
  <1>2. /\ Len(calls) \in Nat /\ Len(calls) > 0 /\ b \in Seq(Calls) /\ Len(b) = Len(calls) - 1
        /\ \A i \in 1 .. Len(calls) - 1 : b[i] = calls[i]
    BY <1>1, CallFacts
  <1>3. fr \in Seq(Calls) /\ Len(fr) = 1 /\ fr[1] = f
    BY OneFacts
  <1>4. c2 = b \o fr /\ types' = types /\ returned' = << >> /\ UNCHANGED <<abi, pc>>
    BY DEF Continue
  <1> HIDE DEF c2, b, fr
  <1>5. /\ c2 \in Seq(Calls) /\ Len(c2) = Len(b) + Len(fr)
        /\ \A i \in 1 .. Len(b) : c2[i] = b[i]
        /\ \A i \in 1 .. Len(fr) : c2[Len(b) + i] = fr[i]
    BY <1>2, <1>3, <1>4, JoinFacts
  <1>6. /\ Len(c2) = Len(calls) /\ \A i \in 1 .. Len(calls) - 1 : c2[i] = calls[i]
        /\ c2[Len(calls)] = f
    <2>1. 1 \in 1 .. Len(fr) /\ Len(b) + 1 = Len(calls)
      BY <1>2, <1>3
    <2>2. c2[Len(calls)] = f
      BY <2>1, <1>3, <1>5
    <2>3. QED
      BY <2>2, <1>2, <1>3, <1>5
  <1>7. Filled(abi, types, c2, << >>)
    BY <1>1, <1>5, <1>6, GoFilled
  <1>8. QED
    BY <1>1, <1>4, <1>7 DEF FInv, c2

LEMMA CallFlat ==
    ASSUME IInv, FInv, pc = "fill", calls # << >>, NEW f \in Calls, NEW g \in Calls,
           Continue(<<f, g>>, types), f.name = Top.name,
           f.fn \in GetCalls <=> Top.fn \in GetCalls,
           f.fn \in StructCalls \cup {"types"} => Top.fn \in StructCalls \cup {"types"},
           Pending(abi, types, f), Members(abi, types, f, TRUE), Link(abi, types, f, g),
           Pending(abi, types, g), Members(abi, types, g, FALSE),
           g.fn \in StructCalls \cup {"types"} => f.fn = "base"
    PROVE  FInv'
  <1> DEFINE c2 == calls'
             b  == Below
             fr == <<f, g>>
  <1>1. /\ calls \in Seq(Calls) /\ Filled(abi, types, calls, returned) /\ Entries(abi, types)
        /\ Top = calls[Len(calls)]
    BY TopFilled
  <1>2. /\ Len(calls) \in Nat /\ Len(calls) > 0 /\ b \in Seq(Calls) /\ Len(b) = Len(calls) - 1
        /\ \A i \in 1 .. Len(calls) - 1 : b[i] = calls[i]
    BY <1>1, CallFacts
  <1>3. fr \in Seq(Calls) /\ Len(fr) = 2 /\ fr[1] = f /\ fr[2] = g
    BY PairFacts
  <1>4. c2 = b \o fr /\ types' = types /\ returned' = << >> /\ UNCHANGED <<abi, pc>>
    BY DEF Continue
  <1> HIDE DEF c2, b, fr
  <1>5. /\ c2 \in Seq(Calls) /\ Len(c2) = Len(b) + Len(fr)
        /\ \A i \in 1 .. Len(b) : c2[i] = b[i]
        /\ \A i \in 1 .. Len(fr) : c2[Len(b) + i] = fr[i]
    BY <1>2, <1>3, <1>4, JoinFacts
  <1>6. /\ Len(c2) = Len(calls) + 1 /\ \A i \in 1 .. Len(calls) - 1 : c2[i] = calls[i]
        /\ c2[Len(calls)] = f /\ c2[Len(calls) + 1] = g
    <2>1. 1 \in 1 .. Len(fr) /\ 2 \in 1 .. Len(fr) /\ Len(b) + 1 = Len(calls)
          /\ Len(b) + 2 = Len(calls) + 1
      BY <1>2, <1>3
    <2>2. c2[Len(calls)] = f /\ c2[Len(calls) + 1] = g
      BY <2>1, <1>3, <1>5
    <2>3. QED
      BY <2>2, <1>2, <1>3, <1>5
  <1>7. Filled(abi, types, c2, << >>)
    BY <1>1, <1>5, <1>6, CallFilled
  <1>8. QED
    BY <1>1, <1>4, <1>7 DEF FInv, c2

LEMMA ReturnFlat ==
    ASSUME IInv, FInv, pc = "fill", calls # << >>, NEW t2, NEW type \in Names, Return(type, t2),
           Stays(abi, types, t2), DefsOwned(abi, t2), Entries(abi, t2),
           \A i \in 1 .. Len(calls) - 1 : Pending(abi, t2, calls[i]),
           IF Top.fn \in GetCalls THEN Known(t2, Top.name) /\ type = Leads(t2, Top.name)
           ELSE type = Top.name
    PROVE  FInv'
  <1> DEFINE c2 == calls'
             r2 == returned'
  <1>1. /\ calls \in Seq(Calls) /\ Filled(abi, types, calls, returned)
        /\ Top = calls[Len(calls)] /\ \A n \in DOMAIN abi : IsDefinition(abi[n])
    BY TopFilled
  <1>2. /\ Below \in Seq(Calls) /\ Len(Below) = Len(calls) - 1
        /\ \A i \in 1 .. Len(calls) - 1 : Below[i] = calls[i]
    BY <1>1, CallFacts
  <1>3. /\ c2 = Below /\ types' = t2 /\ r2 = (IF c2 = << >> THEN << >> ELSE type)
        /\ UNCHANGED <<abi, pc>>
    BY DEF Return
  <1>4. type # << >>
    BY CppNameFacts
  <1> HIDE DEF c2, r2
  <1>5. /\ c2 \in Seq(Calls) /\ Len(c2) = Len(calls) - 1
        /\ \A i \in 1 .. Len(calls) - 1 : c2[i] = calls[i]
    BY <1>2, <1>3
  <1>6. Filled(abi, t2, c2, r2)
    BY <1>1, <1>3, <1>4, <1>5, ReturnFilled
  <1>7. QED
    BY <1>3, <1>6 DEF FInv, c2, r2

\* Nothing happened to the table.
LEMMA ReturnSame ==
    ASSUME IInv, FInv, pc = "fill", calls # << >>, NEW type \in Names, Return(type, types),
           Top.fn \in GetCalls, Known(types, Top.name), type = Leads(types, Top.name)
    PROVE  FInv'
  <1>1. /\ calls \in Seq(Calls) /\ Filled(abi, types, calls, returned)
        /\ Entries(abi, types) /\ DefsOwned(abi, types)
    BY TopFilled
  <1>2. Stays(abi, types, types)
    BY DEF Stays, Resolves
  <1>3. \A i \in 1 .. Len(calls) - 1 : Pending(abi, types, calls[i])
    <2>1. Len(calls) \in Nat /\ DOMAIN calls = 1 .. Len(calls)
      BY <1>1, LenProperties
    <2>2. \A i \in 1 .. Len(calls) - 1 : i \in DOMAIN calls
      BY <2>1
    <2>3. QED
      BY <2>2, <1>1 DEF Filled
  <1>4. QED
    BY <1>1, <1>2, <1>3, ReturnFlat

\* A node was made or resolved that no other call has yet to.
LEMMA ReturnWith ==
    ASSUME IInv, FInv, pc = "fill", calls # << >>, NEW type \in Names, NEW node,
           Return(type, With(types, Top.name, node)),
           Stays(abi, types, With(types, Top.name, node)),
           Entries(abi, With(types, Top.name, node)),
           node.kind \notin DefKinds, node.kind = "struct" => Top.name \in Own(abi),
           \A i \in 1 .. Len(calls) - 1 : calls[i].name # Top.name,
           IF Top.fn \in GetCalls
           THEN type = IF node.kind = "alias" THEN node.element ELSE Top.name
           ELSE type = Top.name
    PROVE  FInv'
  <1> DEFINE t2 == With(types, Top.name, node)
  <1>1. /\ calls \in Seq(Calls) /\ Filled(abi, types, calls, returned) /\ DefsOwned(abi, types)
    BY TopFilled
  <1>2. DOMAIN t2 = DOMAIN types \cup {Top.name} /\ t2[Top.name] = node
        /\ \A n \in DOMAIN types : n # Top.name => t2[n] = types[n]
    BY DEF With
  <1>3. \A i \in 1 .. Len(calls) - 1 : Pending(abi, t2, calls[i])
    <2>1. Len(calls) \in Nat /\ DOMAIN calls = 1 .. Len(calls)
      BY <1>1, LenProperties
    <2>2. \A i \in 1 .. Len(calls) - 1 : i \in DOMAIN calls
      BY <2>1
    <2>3. QED
      BY <2>2, <1>1, PendingStays DEF Filled
  <1>4. Return(type, t2) /\ Stays(abi, types, t2) /\ Entries(abi, t2)
    OBVIOUS
  <1> HIDE DEF t2
  <1>5. DefsOwned(abi, t2)
    BY <1>1, <1>2 DEF DefsOwned
  <1>6. Known(t2, Top.name)
    BY <1>2 DEF Known, DefKinds
  <1>7. Top.fn \in GetCalls => type = Leads(t2, Top.name)
    BY <1>2 DEF Leads
  <1>8. QED
    BY <1>3, <1>4, <1>5, <1>6, <1>7, ReturnFlat

\* An error ends convert, or the later call.
LEMMA ThrowFlat ==
    ASSUME IInv, FInv, calls # << >>, NEW e, Throw(e)
    PROVE  FInv'
  <1>1. /\ calls' = << >> /\ UNCHANGED <<abi, types>> /\ pc' \in {"ready", "failed"}
        /\ pc' = "ready" => pc = "ready"
    BY TopFacts DEF Throw
  <1>2. QED
    BY <1>1 DEF FInv, EntersNew

----------------------------------------------------------------------------
\* The call of get_type that a call makes.
LEMMA AskedFrame ==
    ASSUME NEW name \in Names, NEW depth \in Nat
    PROVE  LET g == Frame("get_type", name, depth + 1, << >>)
           IN  g \in Calls /\ g.fn = "get_type" /\ g.name = name
  <1>1. "get_type" \in Fns /\ depth + 1 \in Nat /\ << >> \in Seq(Names)
    BY EmptySeq DEF Fns
  <1> DEFINE d == depth + 1
  <1> HIDE DEF d
  <1>2. Frame("get_type", name, d, << >>) \in Calls
    BY <1>1 DEF Frame, Calls, d
  <1>3. QED
    BY <1>2 DEF Frame, d

LEMMA GetTypeFlat ==
    ASSUME IInv, FInv, pc = "fill", GetType
    PROVE  FInv'
  <1> DEFINE name == Top.name
             node == types[name]
  <1>1. calls # << >> /\ Top.fn = "get_type"
    BY DEF GetType, Entered
  <1>2. /\ Top \in Calls /\ Table(types) /\ name \in Names /\ Top.depth \in Nat
        /\ Entries(abi, types) /\ DefsOwned(abi, types) /\ Top.fn \in GetCalls
    BY <1>1, TopFacts, TopFilled DEF GetCalls, Getting
  <1>3. CASE Top.depth >= MaxDepth
    BY <1>1, <1>3, ThrowFlat DEF GetType
  <1>4. CASE ~(Top.depth >= MaxDepth) /\ name \notin DOMAIN types
    <2>1. GetDerived(name)
      BY <1>4 DEF GetType
    <2>2. CASE Len(name) = 1
      BY <2>1, <2>2, <1>1, ThrowFlat DEF GetDerived
    <2>3. CASE Len(name) # 1 /\ name[Len(name)] \in DOMAIN BadSizes
      BY <2>1, <2>3, <1>1, ThrowFlat DEF GetDerived
    <2>4. CASE Len(name) # 1 /\ name[Len(name)] \notin DOMAIN BadSizes
      <3> DEFINE f == [Top EXCEPT !.fn = "derived"]
                 below == SubSeq(name, 1, Len(name) - 1)
                 g == Frame("get_type", below, Top.depth + 1, << >>)
      <3>1. Continue(<<f, g>>, types)
        BY <2>1, <2>4 DEF GetDerived
      <3>2. below \in Names
        <4>1. name \in Names
          BY <1>2
        <4> HIDE DEF name
        <4>2. Len(name) \in Nat /\ Len(name) > 0
          BY <4>1, NameParts
        <4>3. Len(name) > 1
          BY <4>2, <2>4
        <4>4. QED
          BY <4>1, <4>3, NameParts
      <3>3. f \in Calls /\ f.fn = "derived" /\ f.name = name
        BY <1>2 DEF Calls, Fns
      <3>4. g \in Calls /\ g.fn = "get_type" /\ g.name = below
        BY <1>2, <3>2, AskedFrame
      <3>5. Awaited(abi, f) = below
        BY <3>3 DEF Awaited, MemberCalls
      <3> HIDE DEF f, g, below, name
      <3>6. Pending(abi, types, f) /\ Pending(abi, types, g)
        BY <3>3, <3>4, <1>4 DEF Pending, Resolving, StructCalls
      <3>7. Members(abi, types, f, TRUE) /\ Members(abi, types, g, FALSE)
        BY <3>3, <3>4 DEF Members, MemberCalls
      <3>8. Link(abi, types, f, g)
        BY <3>3, <3>4, <3>5 DEF Link, Getting
      <3>9. /\ f.fn \in GetCalls /\ f.fn \notin StructCalls \cup {"types"}
            /\ g.fn \notin StructCalls \cup {"types"}
        BY <3>3, <3>4 DEF GetCalls, Getting, StructCalls
      <3>10. f.name = Top.name
        BY <3>3 DEF name
      <3>11. QED
        BY <1>1, <1>2, <3>1, <3>3, <3>4, <3>6, <3>7, <3>8, <3>9, <3>10, CallFlat
    <2>5. QED
      BY <2>2, <2>3, <2>4
  <1>5. CASE ~(Top.depth >= MaxDepth) /\ name \in DOMAIN types /\ node.kind = "alias"
    <2>1. Return(node.element, types)
      BY <1>5 DEF GetType
    <2>2. node.element \in Names
      BY <1>2, <1>5 DEF Table, IsDefinition, DefKinds, IsResolved
    <2>3. Known(types, name) /\ node.element = Leads(types, name)
      BY <1>5 DEF Known, Leads
    <2>4. QED
      BY <1>1, <1>2, <2>1, <2>2, <2>3, ReturnSame
  <1>6. CASE ~(Top.depth >= MaxDepth) /\ name \in DOMAIN types /\ node.kind = "alias_def"
    <2> DEFINE f == [Top EXCEPT !.fn = "alias"]
               target == node.element
               g == Frame("get_type", target, Top.depth + 1, << >>)
    <2>1. Continue(<<f, g>>, types)
      BY <1>6 DEF GetType
    <2>2. target \in Names
      BY <1>2, <1>6 DEF Table, IsDefinition, IsResolved, ResolvedKinds, DerivedKinds
    <2>3. f \in Calls /\ f.fn = "alias" /\ f.name = name
      BY <1>2 DEF Calls, Fns
    <2>4. g \in Calls /\ g.fn = "get_type" /\ g.name = target
      BY <1>2, <2>2, AskedFrame
    <2>5. target = abi[name].element
      BY <1>2, <1>6, DefinedNames DEF DefKinds
    <2>6. types[name].kind = "alias_def" /\ name \in DOMAIN types
      BY <1>6
    <2> HIDE DEF f, g, target
    <2>7. f.name = Top.name
      BY <2>3
    <2> HIDE DEF name
    <2>8. Awaited(abi, f) = target
      BY <2>3, <2>5 DEF Awaited, MemberCalls
    <2>9. Pending(abi, types, f) /\ Pending(abi, types, g)
      BY <2>3, <2>4, <2>6 DEF Pending, Resolving, StructCalls
    <2>10. Members(abi, types, f, TRUE) /\ Members(abi, types, g, FALSE)
      BY <2>3, <2>4 DEF Members, MemberCalls
    <2>11. Link(abi, types, f, g)
      BY <2>3, <2>4, <2>8 DEF Link, Getting
    <2>12. /\ f.fn \in GetCalls /\ f.fn \notin StructCalls \cup {"types"}
           /\ g.fn \notin StructCalls \cup {"types"}
      BY <2>3, <2>4 DEF GetCalls, Getting, StructCalls
    <2>13. QED
      BY <1>1, <1>2, <2>1, <2>3, <2>4, <2>7, <2>9, <2>10, <2>11, <2>12, CallFlat
  <1>7. CASE ~(Top.depth >= MaxDepth) /\ name \in DOMAIN types
             /\ node.kind \notin {"alias", "alias_def"}
    <2>1. Return(name, types)
      BY <1>7 DEF GetType
    <2>2. Known(types, name) /\ name = Leads(types, name)
      BY <1>7 DEF Known, Leads
    <2>3. QED
      BY <1>1, <1>2, <2>1, <2>2, ReturnSame
  <1>8. QED
    BY <1>3, <1>4, <1>5, <1>6, <1>7

LEMMA DerivedFlat ==
    ASSUME IInv, FInv, pc = "fill", Derived
    PROVE  FInv'
  <1> DEFINE name == Top.name
             kind == KindOf(name)
             node == Node(kind, returned, << >>)
  <1>1. calls # << >> /\ Top.fn = "derived" /\ returned # << >>
    BY DEF Derived, Resumed
  <1>2. /\ FrameOK(types, Top) /\ name \in Names
        /\ calls \in Seq(Calls) /\ Filled(abi, types, calls, returned) /\ Entries(abi, types)
        /\ Top = calls[Len(calls)] /\ Pending(abi, types, Top)
        /\ \A i \in DOMAIN calls : calls[i].fn \in Getting \cup Resolving
    BY <1>1, TopFacts, TopFilled
  <1>3. CASE types[returned].kind \in Forbidden(kind)
    BY <1>1, <1>3, ThrowFlat DEF Derived
  <1>4. CASE types[returned].kind \notin Forbidden(kind)
    <2>1. name \notin DOMAIN types
      BY <1>1, <1>2 DEF Pending
    <2>2. Return(name, With(types, name, node))
      BY <2>1, <1>4 DEF Derived, TryEmplace
    <2>3. Derivable(name) /\ kind \in DerivedKinds
      BY <1>1, <1>2, KindFacts DEF FrameOK
    <2>4. node.kind = kind
      BY DEF Node
    <2>5. node.kind \notin DefKinds /\ node.kind # "struct" /\ node.kind # "alias"
      BY <2>3, <2>4 DEF DerivedKinds, DefKinds
    <2> HIDE DEF node
    <2>6. Keeps(types, With(types, name, node))
      BY <2>1, Emplaced
    <2>7. Stays(abi, types, With(types, name, node)) /\ Entries(abi, With(types, name, node))
      BY <2>6, <1>2, KeptStay, KeptEntries
    <2>8. \A i \in 1 .. Len(calls) - 1 : calls[i].name # name
      BY <1>1, <1>2, GettersDiffer
    <2>9. Top.fn \in GetCalls
      BY <1>1 DEF GetCalls, Getting
    <2>10. QED
      BY <1>1, <1>2, <2>2, <2>5, <2>7, <2>8, <2>9, ReturnWith
  <1>5. QED
    BY <1>3, <1>4

\* Resolving an alias.
LEMMA EntriesResolved ==
    ASSUME NEW a, NEW t, NEW n \in DOMAIN t, NEW node, Entries(a, t),
           Stays(a, t, With(t, n, node)), node.kind \notin Composite
    PROVE  Entries(a, With(t, n, node))
  <1> DEFINE t2 == With(t, n, node)
  <1>1. t2[n] = node /\ \A m \in DOMAIN t : m # n => t2[m] = t[m]
    BY DEF With
  <1>2. Stays(a, t, t2)
    OBVIOUS
  <1> HIDE DEF t2
  <1>3. \A m \in DOMAIN a : m \in DOMAIN t
    BY DEF Entries
  <1>4. \A m \in DOMAIN a : t2[m].kind \in Composite => t[m].kind \in Composite
    BY <1>1, <1>3
  <1>5. Entries(a, t2)
    BY <1>2, <1>4, EntriesStay
  <1>6. QED
    BY <1>5 DEF t2

LEMMA ResolveAliasFlat ==
    ASSUME IInv, FInv, pc = "fill", ResolveAlias
    PROVE  FInv'
  <1> DEFINE name == Top.name
             node == Node("alias", returned, << >>)
  <1>1. calls # << >> /\ Top.fn = "alias" /\ returned # << >>
    BY DEF ResolveAlias, Resumed
  <1>2. /\ name \in Names /\ Table(types) /\ returned \in DOMAIN types
        /\ calls \in Seq(Calls) /\ Filled(abi, types, calls, returned) /\ Entries(abi, types)
        /\ Top = calls[Len(calls)] /\ Pending(abi, types, Top)
        /\ \A i \in DOMAIN calls : calls[i].fn \in Getting \cup Resolving
    BY <1>1, TopFacts, TopFilled
  <1>3. CASE types[returned].kind = "extension"
    BY <1>1, <1>3, ThrowFlat DEF ResolveAlias
  <1>4. CASE types[returned].kind # "extension"
    <2>1. Return(returned, With(types, name, node))
      BY <1>4 DEF ResolveAlias
    <2>2. name \in DOMAIN types /\ types[name].kind = "alias_def"
      BY <1>1, <1>2 DEF Pending, Resolving
    <2>3. node.kind = "alias" /\ node.element = returned
      BY DEF Node
    <2> HIDE DEF node
    <2>4. Stays(abi, types, With(types, name, node))
      BY <2>2, <2>3, ResolvedStay DEF Resolves, DefKinds
    <2>5. Entries(abi, With(types, name, node))
      BY <1>2, <2>2, <2>3, <2>4, EntriesResolved DEF Composite
    <2>6. \A i \in 1 .. Len(calls) - 1 : calls[i].name # name
      BY <1>1, <1>2, GettersDiffer
    <2>7. Top.fn \in GetCalls /\ returned \in Names /\ node.kind \notin DefKinds
      BY <1>1, <1>2, <2>3 DEF GetCalls, Table, DefKinds
    <2>8. QED
      BY <1>1, <2>1, <2>3, <2>4, <2>5, <2>6, <2>7, ReturnWith
  <1>5. QED
    BY <1>3, <1>4

----------------------------------------------------------------------------
\* The definition that a call for a struct or variant works on.
LEMMA StructDefined ==
    ASSUME IInv, FInv, pc = "fill", calls # << >>, Top.fn \in StructCalls \cup {"types"}
    PROVE  /\ Top.name \in DOMAIN types
           /\ types[Top.name].kind = IF Top.fn = "types" THEN "variant_def" ELSE "struct_def"
           /\ Top.name \in DOMAIN abi /\ types[Top.name] = abi[Top.name]
           /\ abi[Top.name].fields \in Seq(Names)
           /\ abi[Top.name].element \in Names \cup {<< >>}
  <1>1. /\ Pending(abi, types, Top) /\ Entries(abi, types) /\ DefsOwned(abi, types)
        /\ \A n \in DOMAIN abi : IsDefinition(abi[n])
    BY TopFilled
  <1>2. /\ Top.name \in DOMAIN types
        /\ types[Top.name].kind = IF Top.fn = "types" THEN "variant_def" ELSE "struct_def"
    BY <1>1 DEF Pending, StructCalls, Resolving
  <1>3. Top.name \in DOMAIN abi /\ types[Top.name] = abi[Top.name]
    BY <1>1, <1>2, DefinedNames DEF DefKinds
  <1>4. QED
    BY <1>1, <1>2, <1>3 DEF IsDefinition

\* A call that begins with the members has those of the base.
LEMMA NoneSeen ==
    ASSUME NEW a, NEW t, NEW f, f.fn \in MemberCalls, a[f.name].fields \in Seq(Names),
           f.rest = a[f.name].fields, BaseDone(a, t, a[f.name].element),
           f.fields = Inherited(t, a[f.name].element), NEW S, f.fields \in Seq(S)
    PROVE  Members(a, t, f, FALSE)
  <1> DEFINE all == a[f.name].fields
  <1>1. all \in Seq(Names) /\ f.rest = all
    OBVIOUS
  <1>2. AskedFor(a, f) = 0
    <2>1. Len(all) \in Nat
      BY <1>1, LenProperties
    <2>2. AskedFor(a, f) = Len(all) - Len(all)
      BY DEF AskedFor
    <2> HIDE DEF all
    <2>3. QED
      BY <2>1, <2>2
  <1> HIDE DEF all
  <1>3. Len(all) \in Nat /\ SubSeq(all, 0 + 1, Len(all)) = all
    BY <1>1, LenProperties, SameList
  <1>4. f.fields = Inherited(t, a[f.name].element) \o LeadsAll(t, SubSeq(all, 1, 0))
    BY <1>1, LeadsNone
  <1>5. \A i \in 1 .. 0 : Known(t, all[i])
    OBVIOUS
  <1>6. Len(f.rest) <= Len(all)
    BY <1>1, <1>3
  <1>7. MembersDone(a, t, f, 0)
    BY <1>1, <1>2, <1>3, <1>4, <1>5, <1>6, SMTT(60) DEF MembersDone, all
  <1>8. QED
    BY <1>2, <1>7 DEF Members, MemberCalls

LEMMA ResolveStructFlat ==
    ASSUME IInv, FInv, pc = "fill", ResolveStruct
    PROVE  FInv'
  <1> DEFINE base == types[Top.name].element
  <1>1. calls # << >> /\ Top.fn = "struct"
    BY DEF ResolveStruct, Entered
  <1>2. /\ Top \in Calls /\ Top.depth \in Nat /\ Pending(abi, types, Top)
    BY <1>1, TopFacts, TopFilled
  <1>3. /\ Top.name \in DOMAIN types /\ types[Top.name].kind = "struct_def"
        /\ base = abi[Top.name].element /\ base \in Names \cup {<< >>}
        /\ abi[Top.name].fields \in Seq(Names)
    BY <1>1, StructDefined DEF StructCalls
  <1>4. Top.rest = abi[Top.name].fields /\ Top.fields = << >>
    BY <1>1, <1>2 DEF Pending
  <1>5. CASE Top.depth >= MaxDepth
    BY <1>1, <1>5, ThrowFlat DEF ResolveStruct
  <1>6. CASE ~(Top.depth >= MaxDepth) /\ base = << >>
    <2> DEFINE f == [Top EXCEPT !.fn = "fields"]
    <2>1. Continue(<<f>>, types)
      BY <1>6 DEF ResolveStruct
    <2>2. /\ f \in Calls /\ f.fn = "fields" /\ f.name = Top.name /\ f.rest = Top.rest
          /\ f.fields = Top.fields /\ f.fn \in MemberCalls
      BY <1>2 DEF Calls, Fns, MemberCalls
    <2> HIDE DEF f
    <2>3. BaseDone(abi, types, << >>) /\ Inherited(types, << >>) = << >> /\ << >> \in Seq(Names)
      BY EmptySeq DEF BaseDone, Inherited
    <2>4. Members(abi, types, f, FALSE)
      BY <1>3, <1>4, <1>6, <2>2, <2>3, NoneSeen
    <2>5. Pending(abi, types, f)
      BY <1>3, <2>2 DEF Pending, Resolving, StructCalls
    <2>6. /\ f.fn \notin GetCalls /\ Top.fn \notin GetCalls
          /\ Top.fn \in StructCalls \cup {"types"}
      BY <1>1, <2>2 DEF GetCalls, Getting, StructCalls
    <2>7. QED
      BY <1>1, <2>1, <2>2, <2>4, <2>5, <2>6, GoFlat
  <1>7. CASE ~(Top.depth >= MaxDepth) /\ base # << >>
    <2> DEFINE f == [Top EXCEPT !.fn = "base"]
               g == Frame("get_type", base, Top.depth + 1, << >>)
    <2>1. Continue(<<f, g>>, types)
      BY <1>7 DEF ResolveStruct
    <2>2. f \in Calls /\ f.fn = "base" /\ f.name = Top.name /\ f.rest = Top.rest
      BY <1>2 DEF Calls, Fns
    <2>3. g \in Calls /\ g.fn = "get_type" /\ g.name = base
      BY <1>2, <1>3, <1>7, AskedFrame
    <2> HIDE DEF f, g, base
    <2>4. Awaited(abi, f) = base
      BY <1>3, <2>2 DEF Awaited, MemberCalls
    <2>5. Pending(abi, types, f) /\ Pending(abi, types, g)
      BY <1>3, <1>4, <1>7, <2>2, <2>3 DEF Pending, Resolving, StructCalls
    <2>6. Members(abi, types, f, TRUE) /\ Members(abi, types, g, FALSE)
      BY <2>2, <2>3 DEF Members, MemberCalls
    <2>7. Link(abi, types, f, g)
      BY <2>2, <2>3, <2>4 DEF Link, Getting
    <2>8. /\ f.fn \notin GetCalls /\ Top.fn \notin GetCalls
          /\ Top.fn \in StructCalls \cup {"types"} /\ g.fn \notin StructCalls \cup {"types"}
      BY <1>1, <2>2, <2>3 DEF GetCalls, Getting, StructCalls
    <2>9. QED
      BY <1>1, <2>1, <2>2, <2>3, <2>5, <2>6, <2>7, <2>8, CallFlat
  <1>8. QED
    BY <1>5, <1>6, <1>7

LEMMA ResolveBaseFlat ==
    ASSUME IInv, FInv, pc = "fill", ResolveBase
    PROVE  FInv'
  <1> DEFINE base == abi[Top.name].element
             kind == types[returned].kind
  <1>1. calls # << >> /\ Top.fn = "base" /\ returned # << >>
    BY DEF ResolveBase, Resumed
  <1>2. /\ Top \in Calls /\ Top.depth \in Nat /\ Pending(abi, types, Top) /\ Table(types)
        /\ Answers(abi, types, Top, returned) /\ returned \in DOMAIN types
        /\ Entries(abi, types) /\ DefsOwned(abi, types)
        /\ \A n \in DOMAIN abi : IsDefinition(abi[n])
    BY <1>1, TopFacts, TopFilled
  <1>3. /\ Top.name \in DOMAIN types /\ types[Top.name].kind = "struct_def"
        /\ abi[Top.name].fields \in Seq(Names)
    BY <1>1, StructDefined DEF StructCalls
  <1>4. Top.rest = abi[Top.name].fields /\ base # << >> /\ Awaited(abi, Top) = base
    BY <1>1, <1>2 DEF Pending, Awaited, MemberCalls
  <1>5. Known(types, base) /\ returned = Leads(types, base)
    BY <1>1, <1>2, <1>4 DEF Answers
  <1>6. Top.fn \notin GetCalls /\ Top.fn \in StructCalls \cup {"types"}
    BY <1>1 DEF GetCalls, Getting, StructCalls
  <1>7. CASE kind = "struct"
    <2> DEFINE f == [Top EXCEPT !.fn = "fields", !.fields = types[returned].fields]
    <2>1. Continue(<<f>>, types)
      BY <1>7 DEF ResolveBase, Inherit
    <2>2. types[returned].fields \in Seq(DOMAIN types)
      BY <1>2, <1>7, StructFacts
    <2>3. types[returned].fields \in Seq(Names)
      BY <2>2, <1>2 DEF Table
    <2>4. /\ f \in Calls /\ f.fn = "fields" /\ f.name = Top.name /\ f.rest = Top.rest
          /\ f.fields = types[returned].fields /\ f.fn \in MemberCalls
      BY <1>2, <2>3 DEF Calls, Fns, MemberCalls
    <2> HIDE DEF f
    <2>5. BaseDone(abi, types, base)
      BY <1>2, <1>5, <1>7 DEF BaseDone, DefsOwned
    <2>6. f.fields = Inherited(types, base)
      BY <1>4, <1>5, <2>4 DEF Inherited
    <2>7. Members(abi, types, f, FALSE)
      BY <1>3, <1>4, <2>3, <2>4, <2>5, <2>6, NoneSeen
    <2>8. Pending(abi, types, f)
      BY <1>3, <2>4 DEF Pending, Resolving, StructCalls
    <2>9. f.fn \notin GetCalls
      BY <2>4 DEF GetCalls, Getting
    <2>10. QED
      BY <1>1, <1>6, <2>1, <2>4, <2>7, <2>8, <2>9, GoFlat
  <1>8. CASE kind = "struct_def"
    <2> DEFINE g == Frame("struct", returned, Top.depth + 1, types[returned].fields)
    <2>1. Continue(<<Top, g>>, types)
      BY <1>8 DEF ResolveBase, ResolveFirst
    <2>2. returned \in Names /\ types[returned].fields \in Seq(Names) /\ Top.depth + 1 \in Nat
      BY <1>2, <1>8, StructFacts DEF Table
    <2>3. /\ g \in Calls /\ g.fn = "struct" /\ g.name = returned /\ g.fields = << >>
          /\ g.rest = types[returned].fields
      BY <2>2, EmptySeq DEF Frame, Calls, Fns
    <2>4. types[returned] = abi[returned]
      BY <1>2, <1>8, DefinedNames DEF DefKinds
    <2> HIDE DEF g
    <2>5. Pending(abi, types, g)
      BY <1>2, <1>8, <2>3, <2>4 DEF Pending, Resolving, StructCalls
    <2>6. Members(abi, types, Top, TRUE) /\ Members(abi, types, g, FALSE)
      BY <1>1, <2>3 DEF Members, MemberCalls
    <2>7. Link(abi, types, Top, g)
      BY <1>1, <1>4, <1>5, <2>3 DEF Link, Getting
    <2>8. QED
      BY <1>1, <1>2, <1>6, <2>1, <2>3, <2>5, <2>6, <2>7, CallFlat
  <1>9. CASE kind \notin {"struct", "struct_def"}
    <2>1. Throw("base_not_a_struct")
      BY <1>9 DEF ResolveBase
    <2>2. QED
      BY <1>1, <2>1, ThrowFlat
  <1>10. QED
    BY <1>7, <1>8, <1>9

\* The members a call has gathered are those it has asked for.
LEMMA GatheredMembers ==
    ASSUME IInv, FInv, pc = "fill", calls # << >>, Top.fn \in MemberCalls
    PROVE  LET def == abi[Top.name]
               k   == AskedFor(abi, Top)
           IN  /\ k \in 0 .. Len(def.fields) /\ Len(Top.rest) = Len(def.fields) - k
               /\ Top.rest = SubSeq(def.fields, k + 1, Len(def.fields))
               /\ BaseDone(abi, types, def.element)
               /\ \A i \in 1 .. k : Known(types, def.fields[i])
               /\ Gathered = Inherited(types, def.element) \o LeadsAll(types, SubSeq(def.fields, 1, k))
  <1> DEFINE def  == abi[Top.name]
             all  == def.fields
             k    == AskedFor(abi, Top)
             base == Inherited(types, def.element)
             seen == IF returned # << >> THEN k - 1 ELSE k
  <1>1. /\ all \in Seq(Names) /\ Top.rest \in Seq(Names) /\ Table(types)
        /\ Members(abi, types, Top, returned # << >>)
        /\ returned # << >> => Answers(abi, types, Top, returned) /\ returned \in DOMAIN types
    BY StructDefined, TopFacts, TopFilled DEF StructCalls, MemberCalls
  <1>2. MembersDone(abi, types, Top, seen)
    BY <1>1 DEF Members, MemberCalls
  <1>3. Len(all) \in Nat /\ Len(Top.rest) \in Nat /\ k = Len(all) - Len(Top.rest)
    BY <1>1, LenProperties DEF AskedFor
  <1>4. Len(Top.rest) <= Len(all) /\ seen >= 0
    BY <1>2 DEF MembersDone
  <1>5. /\ Top.rest = SubSeq(all, k + 1, Len(all)) /\ BaseDone(abi, types, def.element)
        /\ \A i \in 1 .. seen : Known(types, all[i])
        /\ Top.fields = base \o LeadsAll(types, SubSeq(all, 1, seen))
    BY <1>2 DEF MembersDone
  <1>6. base \in Seq(Names)
    <2>1. CASE def.element = << >>
      BY <2>1, EmptySeq DEF Inherited
    <2>2. CASE def.element # << >>
      <3>1. Leads(types, def.element) \in DOMAIN types
            /\ types[Leads(types, def.element)].kind = "struct"
        BY <2>2, <1>5 DEF BaseDone
      <3>2. types[Leads(types, def.element)].fields \in Seq(DOMAIN types)
        BY <3>1, <1>1, StructFacts
      <3>3. types[Leads(types, def.element)].fields \in Seq(Names)
        BY <3>2, <1>1 DEF Table
      <3>4. QED
        BY <3>3, <2>2 DEF Inherited
    <2>3. QED
      BY <2>1, <2>2
  <1>7. k \in 0 .. Len(all) /\ Len(Top.rest) = Len(all) - k
    <2> DEFINE r == Len(Top.rest)
               l == Len(all)
    <2>1. r \in Nat /\ l \in Nat /\ k = l - r /\ r <= l
      BY <1>3, <1>4
    <2> HIDE DEF r, l, k
    <2>2. k \in 0 .. l /\ r = l - k
      BY <2>1
    <2>3. QED
      BY <2>2 DEF r, l
  <1>8. ASSUME NEW n \in Names, Known(types, n)
        PROVE  Leads(types, n) \in Names
    BY <1>1, <1>8 DEF Known, Leads, Table, IsDefinition, DefKinds, IsResolved
  <1>9. CASE returned = << >>
    <2>1. Gathered = Top.fields /\ seen = k
      BY <1>9 DEF Gathered
    <2>2. QED
      BY <2>1, <1>5, <1>7
  <1>10. CASE returned # << >>
    <2>1. Gathered = Append(Top.fields, returned) /\ seen = k - 1
      BY <1>10 DEF Gathered
    <2>2. Awaited(abi, Top) = all[k]
      BY DEF Awaited, MemberCalls
    <2>3. Known(types, all[k]) /\ returned = Leads(types, all[k])
      BY <1>1, <1>10, <2>2 DEF Answers
    <2>4. /\ \A i \in 1 .. k - 1 : Known(types, all[i])
          /\ Top.fields = base \o LeadsAll(types, SubSeq(all, 1, k - 1))
      BY <2>1, <1>5
    <2>5. k - 1 >= 0
      BY <2>1, <1>4
    <2> HIDE DEF seen, k, all, base
    <2>6. k \in 1 .. Len(all)
      BY <2>5, <1>3, <1>7
    <2>7. \A i \in 1 .. k : Known(types, all[i])
      <3>1. \A i \in 1 .. k : i = k \/ i \in 1 .. k - 1
        BY <2>6, <1>3
      <3>2. QED
        BY <3>1, <2>3, <2>4
    <2>8. LeadIn(Names, types, all, k)
      <3>1. \A i \in 1 .. k : all[i] \in Names
        BY <2>6, <1>1, <1>3
      <3>2. QED
        BY <3>1, <2>7, <1>8 DEF LeadIn
    <2>9. Gathered = base \o LeadsAll(types, SubSeq(all, 1, k))
      BY <2>1, <2>3, <2>4, <2>6, <2>8, <1>1, <1>6, LeadsNext, ZenonT(60)
    <2>10. QED
      BY <2>7, <2>9, <1>5, <1>7 DEF k, all, base
  <1>11. QED
    BY <1>9, <1>10

----------------------------------------------------------------------------
\* Resolving a struct or variant whose members are all there.
LEMMA EntriesFlattened ==
    ASSUME NEW a, NEW t, NEW n \in DOMAIN a, n \in DOMAIN t, Entries(a, t),
           NEW kind \in Composite,
           t[n].kind = IF kind = "struct" THEN "struct_def" ELSE "variant_def",
           BaseDone(a, t, a[n].element), \A i \in DOMAIN a[n].fields : Known(t, a[n].fields[i]),
           NEW node, node.kind = kind,
           node.fields = Inherited(t, a[n].element) \o LeadsAll(t, a[n].fields)
    PROVE  Stays(a, t, With(t, n, node)) /\ Entries(a, With(t, n, node))
  <1> DEFINE t2 == With(t, n, node)
  <1>1. t2[n] = node /\ \A m \in DOMAIN t : m # n => t2[m] = t[m]
    BY DEF With
  <1>2. Stays(a, t, t2)
    BY ResolvedStay DEF DefKinds, Resolves, Composite
  <1> HIDE DEF t2
  <1>3. BaseDone(a, t2, a[n].element) /\ Inherited(t2, a[n].element) = Inherited(t, a[n].element)
    BY <1>2, BaseStays
  <1>4. /\ \A i \in DOMAIN a[n].fields : Known(t2, a[n].fields[i])
        /\ LeadsAll(t2, a[n].fields) = LeadsAll(t, a[n].fields)
    BY <1>2, LeadsStay
  <1>5. StructDone(a, t2, n)
    BY <1>1, <1>3, <1>4 DEF StructDone
  <1>6. \A m \in DOMAIN a : m \in DOMAIN t
    BY DEF Entries
  <1>7. \A m \in DOMAIN a :
           t2[m].kind \in Composite /\ t[m].kind \notin Composite => StructDone(a, t2, m)
    BY <1>1, <1>5, <1>6
  <1>8. Entries(a, t2)
    BY <1>2, <1>7, EntriesStay
  <1>9. QED
    BY <1>2, <1>8 DEF t2

LEMMA AllResolvedFlat ==
    ASSUME IInv, FInv, pc = "fill", ResolveMembers, Top.rest = << >>
    PROVE  FInv'
  <1> DEFINE name == Top.name
             kind == IF Top.fn = "fields" THEN "struct" ELSE "variant"
             node == Node(kind, << >>, Gathered)
  <1>1. calls # << >> /\ Top.fn \in {"fields", "types"}
    BY DEF ResolveMembers
  <1>2. Return(name, With(types, name, node))
    BY DEF ResolveMembers
  <1>3. /\ name \in Names /\ calls \in Seq(Calls) /\ Filled(abi, types, calls, returned)
        /\ Entries(abi, types) /\ Top = calls[Len(calls)] /\ Pending(abi, types, Top)
        /\ DefsOwned(abi, types)
    BY <1>1, TopFacts, TopFilled
  <1>4. node.kind = kind /\ node.fields = Gathered
    BY DEF Node
  <1>5. \A i \in 1 .. Len(calls) - 1 : calls[i].name # name
    BY <1>1, <1>3, ResolversDiffer
  <1>6. Top.fn \notin GetCalls /\ kind \notin DefKinds
    BY <1>1 DEF GetCalls, Getting, DefKinds
  <1> HIDE DEF node
  <1> DEFINE all == abi[name].fields
  <1>7. /\ name \in DOMAIN types /\ name \in DOMAIN abi /\ all \in Seq(Names)
        /\ types[name].kind = IF Top.fn = "types" THEN "variant_def" ELSE "struct_def"
    BY <1>1, StructDefined DEF StructCalls
  <1>8. /\ Len(Top.rest) = Len(all) - AskedFor(abi, Top)
        /\ AskedFor(abi, Top) \in 0 .. Len(all)
        /\ BaseDone(abi, types, abi[name].element)
        /\ \A i \in 1 .. AskedFor(abi, Top) : Known(types, all[i])
        /\ Gathered = Inherited(types, abi[name].element)
                         \o LeadsAll(types, SubSeq(all, 1, AskedFor(abi, Top)))
    BY <1>1, GatheredMembers DEF MemberCalls
  <1>9. AskedFor(abi, Top) = Len(all)
    <2> DEFINE k == AskedFor(abi, Top)
               l == Len(all)
    <2>1. l \in Nat /\ Len(Top.rest) = 0
      BY <1>7, EmptySeq, LenProperties
    <2>2. 0 = l - k /\ k \in 0 .. l
      BY <1>8, <2>1
    <2> HIDE DEF k, l
    <2>3. k = l
      BY <2>1, <2>2
    <2>4. QED
      BY <2>3 DEF k, l
  <1>10. SubSeq(all, 1, Len(all)) = all /\ DOMAIN all = 1 .. Len(all)
    BY <1>7, SameList, LenProperties
  <1> HIDE DEF all, name
  <1>11. /\ \A i \in DOMAIN all : Known(types, all[i])
         /\ Gathered = Inherited(types, abi[name].element) \o LeadsAll(types, all)
    BY <1>8, <1>9, <1>10
  <1>12. kind \in Composite /\ types[name].kind = IF kind = "struct" THEN "struct_def" ELSE "variant_def"
    BY <1>1, <1>7 DEF Composite
  <1> HIDE DEF kind
  <1>13. Stays(abi, types, With(types, name, node)) /\ Entries(abi, With(types, name, node))
    BY <1>3, <1>4, <1>7, <1>8, <1>11, <1>12, EntriesFlattened DEF all
  <1>14. name \in Own(abi)
    BY <1>7 DEF Own
  <1>15. QED
    BY <1>1, <1>2, <1>3, <1>4, <1>5, <1>6, <1>13, <1>14, ReturnWith DEF name

LEMMA TailSeq ==
    ASSUME NEW all \in Seq(Names), NEW k \in Nat, k < Len(all),
           NEW rest, rest = SubSeq(all, k + 1, Len(all))
    PROVE  Head(rest) = all[k + 1] /\ Tail(rest) = SubSeq(all, k + 2, Len(all))
           /\ Len(Tail(rest)) = Len(all) - (k + 1)
  <1>1. Len(all) \in Nat /\ k + 1 \in 1 .. Len(all)
    BY LenProperties
  <1>2. Head(rest) = all[k + 1] /\ Tail(rest) = SubSeq(all, (k + 1) + 1, Len(all))
    BY <1>1, HeadTailOfSubSeq
  <1>3. (k + 1) + 1 = k + 2
    OBVIOUS
  <1>4. Len(SubSeq(all, k + 2, Len(all))) = Len(all) - (k + 1)
    BY <1>1
  <1>5. QED
    BY <1>2, <1>3, <1>4

LEMMA NextMemberFlat ==
    ASSUME IInv, FInv, pc = "fill", ResolveMembers, Top.rest # << >>
    PROVE  FInv'
  <1> DEFINE f == [Top EXCEPT !.fields = Gathered, !.rest = Tail(@)]
             g == Frame("get_type", Head(Top.rest), Top.depth + 1, << >>)
  <1>1. calls # << >> /\ Top.fn \in {"fields", "types"}
    BY DEF ResolveMembers
  <1>2. Continue(<<f, g>>, types)
    BY DEF ResolveMembers
  <1>3. /\ Top \in Calls /\ Top.depth \in Nat /\ Top.rest \in Seq(Names) /\ Table(types)
        /\ Pending(abi, types, Top)
    BY <1>1, TopFacts, TopFilled
  <1>4. Head(Top.rest) \in Names /\ Tail(Top.rest) \in Seq(Names)
    BY <1>3, HeadTailProperties
  <1>5. Gathered \in Seq(Names)
    <2>1. Gathered \in Seq(DOMAIN types)
      BY <1>1, GatheredFacts
    <2>2. QED
      BY <2>1, <1>3 DEF Table
  <1>6. /\ f \in Calls /\ f.fn = Top.fn /\ f.name = Top.name /\ f.fields = Gathered
        /\ f.rest = Tail(Top.rest)
    BY <1>3, <1>4, <1>5 DEF Calls
  <1>7. g \in Calls /\ g.fn = "get_type" /\ g.name = Head(Top.rest)
    BY <1>3, <1>4, AskedFrame
  <1> HIDE DEF f, g
  <1>8. Pending(abi, types, f)
    BY <1>1, <1>3, <1>6 DEF Pending, StructCalls
  <1>9. Pending(abi, types, g) /\ Members(abi, types, g, FALSE)
    BY <1>7 DEF Pending, Resolving, StructCalls, Members, MemberCalls
  <1>10. Members(abi, types, f, TRUE) /\ Link(abi, types, f, g)
    <2> DEFINE all == abi[Top.name].fields
               k   == AskedFor(abi, Top)
    <2>1. /\ k \in 0 .. Len(all) /\ Len(Top.rest) = Len(all) - k
          /\ Top.rest = SubSeq(all, k + 1, Len(all))
          /\ BaseDone(abi, types, abi[Top.name].element)
          /\ \A i \in 1 .. k : Known(types, all[i])
          /\ Gathered = Inherited(types, abi[Top.name].element)
                           \o LeadsAll(types, SubSeq(all, 1, k))
      BY <1>1, GatheredMembers DEF MemberCalls
    <2>2. all \in Seq(Names)
      BY <1>1, StructDefined DEF StructCalls
    <2>3. Len(all) \in Nat /\ Len(Top.rest) \in Nat /\ Len(Top.rest) > 0
      BY <1>3, <2>2, EmptySeq, LenProperties
    <2> HIDE DEF all, k
    <2>4. k \in Nat /\ k < Len(all)
      BY <2>1, <2>3
    <2>5. /\ Head(Top.rest) = all[k + 1] /\ Tail(Top.rest) = SubSeq(all, k + 2, Len(all))
          /\ Len(Tail(Top.rest)) = Len(all) - (k + 1)
      BY <2>1, <2>2, <2>4, TailSeq
    <2>6. AskedFor(abi, f) = k + 1
      <3>1. AskedFor(abi, f) = Len(all) - (Len(all) - (k + 1))
        BY <1>6, <2>5 DEF AskedFor, all
      <3>2. QED
        BY <3>1, <2>3, <2>4
    <2>7. AskedFor(abi, f) + 1 = k + 2 /\ AskedFor(abi, f) - 1 = k
      BY <2>4, <2>6
    <2>8. Len(f.rest) <= Len(all)
      BY <1>6, <2>3, <2>4, <2>5
    <2>9. MembersDone(abi, types, f, k)
      <3>1. abi[f.name] = abi[Top.name] /\ abi[f.name].fields = all
        BY <1>6 DEF all
      <3>2. f.rest = SubSeq(all, AskedFor(abi, f) + 1, Len(all))
        BY <1>6, <2>5, <2>7
      <3>3. k >= 0 /\ f.fields = Gathered
        BY <1>6, <2>4
      <3>4. QED
        BY <2>1, <2>8, <3>1, <3>2, <3>3, Zenon DEF MembersDone
    <2>10. Members(abi, types, f, TRUE)
      BY <2>7, <2>9 DEF Members, MemberCalls
    <2>11. Awaited(abi, f) = all[k + 1]
      BY <1>1, <1>6, <2>6 DEF Awaited, MemberCalls, all
    <2>12. Link(abi, types, f, g)
      BY <1>1, <1>6, <1>7, <2>5, <2>11 DEF Link, Getting
    <2>13. QED
      BY <2>10, <2>12
  <1>11. /\ f.fn \notin GetCalls /\ Top.fn \notin GetCalls
         /\ Top.fn \in StructCalls \cup {"types"} /\ g.fn \notin StructCalls \cup {"types"}
    BY <1>1, <1>6, <1>7 DEF GetCalls, Getting, StructCalls
  <1>12. QED
    BY <1>1, <1>2, <1>6, <1>7, <1>8, <1>9, <1>10, <1>11, CallFlat

----------------------------------------------------------------------------
LEMMA ResolveFlat ==
    ASSUME IInv, FInv, pc = "fill", Resolve
    PROVE  FInv'
  BY GetTypeFlat, DerivedFlat, ResolveAliasFlat, ResolveStructFlat, ResolveBaseFlat,
     AllResolvedFlat, NextMemberFlat DEF Resolve

\* The calls that fill() begins with.
LEMMA OneFilled ==
    ASSUME NEW a, NEW t, DefsOwned(a, t), NEW f, Pending(a, t, f), Members(a, t, f, FALSE)
    PROVE  Filled(a, t, <<f>>, << >>)
  <1> DEFINE c == <<f>>
  <1>1. Len(c) = 1 /\ DOMAIN c = {1} /\ c[1] = f
    OBVIOUS
  <1> HIDE DEF c
  <1>2. Members(a, t, c[1], 1 < Len(c) \/ << >> # << >>)
    <2>1. (1 < Len(c) \/ << >> # << >>) = FALSE
      BY <1>1
    <2>2. QED
      BY <2>1, <1>1
  <1>3. \A j \in DOMAIN c : \A i \in 1 .. j - 1 : FALSE
    BY <1>1
  <1>4. \A i \in 1 .. Len(c) - 1 : FALSE
    BY <1>1
  <1>5. Filled(a, t, c, << >>)
    BY <1>1, <1>2, <1>3, <1>4 DEF Filled
  <1>6. QED
    BY <1>5 DEF c

LEMMA TwoFilled ==
    ASSUME NEW a, NEW t, DefsOwned(a, t), NEW f, NEW g, Pending(a, t, f), Members(a, t, f, TRUE),
           Link(a, t, f, g), Pending(a, t, g), Members(a, t, g, FALSE),
           g.fn \notin StructCalls \cup {"types"}
    PROVE  Filled(a, t, <<f, g>>, << >>)
  <1> DEFINE c == <<f, g>>
  <1>1. Len(c) = 2 /\ DOMAIN c = {1, 2} /\ c[1] = f /\ c[2] = g
    OBVIOUS
  <1> HIDE DEF c
  <1>2. /\ Members(a, t, c[1], 1 < Len(c) \/ << >> # << >>)
        /\ Members(a, t, c[2], 2 < Len(c) \/ << >> # << >>)
    <2>1. (1 < Len(c) \/ << >> # << >>) = TRUE /\ (2 < Len(c) \/ << >> # << >>) = FALSE
      BY <1>1
    <2>2. QED
      BY <2>1, <1>1
  <1>3. \A j \in DOMAIN c : c[j].fn \in StructCalls \cup {"types"} =>
              \A i \in 1 .. j - 1 : c[i].fn = "base"
    <2>1. \A i \in 1 .. 1 - 1 : FALSE
      OBVIOUS
    <2>2. QED
      BY <2>1, <1>1
  <1>4. \A i \in 1 .. Len(c) - 1 : Link(a, t, c[i], c[i + 1])
    <2>1. \A i \in 1 .. Len(c) - 1 : i = 1 /\ i + 1 = 2
      BY <1>1
    <2>2. QED
      BY <2>1, <1>1
  <1>5. Filled(a, t, c, << >>)
    BY <1>1, <1>2, <1>3, <1>4 DEF Filled
  <1>6. QED
    BY <1>5 DEF c

LEMMA NoneFilled ==
    ASSUME NEW a, NEW t, DefsOwned(a, t)
    PROVE  Filled(a, t, << >>, << >>)
  <1>1. DOMAIN << >> = {} /\ \A i \in 1 .. Len(<< >>) - 1 : FALSE
    OBVIOUS
  <1>2. QED
    BY <1>1 DEF Filled

LEMMA FillFlat ==
    ASSUME IInv, FInv, Fill
    PROVE  FInv'
  <1> DEFINE name == Order[filled + 1]
             node == types[name]
             c    == calls'
  <1>1. /\ pc = "fill" /\ calls = << >> /\ UNCHANGED <<abi, types, pc, returned>>
        /\ c = IF name \in DOMAIN types THEN Filling(name) ELSE << >>
    BY DEF Fill
  <1>2. /\ returned = << >> /\ Entries(abi, types) /\ DefsOwned(abi, types) /\ Table(types)
        /\ \A n \in DOMAIN abi : IsDefinition(abi[n])
    BY <1>1 DEF IInv, FInv, Filled
  <1> HIDE DEF c
  <1>3. SUFFICES Filled(abi, types, c, << >>)
    BY <1>1, <1>2 DEF FInv, c
  <1>4. CASE c = << >>
    BY <1>2, <1>4, NoneFilled
  <1>5. CASE name \in DOMAIN types /\ node.kind = "alias_def"
    <2> DEFINE f == Frame("alias", name, 0, << >>)
               g == Frame("get_type", node.element, 1, << >>)
    <2>1. c = <<f, g>>
      BY <1>1, <1>5 DEF Filling
    <2>2. f.fn = "alias" /\ f.name = name /\ g.fn = "get_type" /\ g.name = node.element
      BY DEF Frame
    <2>3. node = abi[name] /\ name \in DOMAIN abi
      BY <1>2, <1>5, DefinedNames DEF DefKinds
    <2> HIDE DEF f, g, name
    <2>4. Awaited(abi, f) = node.element
      BY <2>2, <2>3 DEF Awaited, MemberCalls
    <2>5. Pending(abi, types, f) /\ Pending(abi, types, g)
      BY <1>5, <2>2 DEF Pending, Resolving, StructCalls
    <2>6. Members(abi, types, f, TRUE) /\ Members(abi, types, g, FALSE)
      BY <2>2 DEF Members, MemberCalls
    <2>7. Link(abi, types, f, g) /\ g.fn \notin StructCalls \cup {"types"}
      BY <2>2, <2>4 DEF Link, Getting, StructCalls
    <2>8. QED
      BY <1>2, <2>1, <2>5, <2>6, <2>7, TwoFilled
  <1>6. CASE name \in DOMAIN types /\ node.kind \in {"struct_def", "variant_def"}
    <2> DEFINE fn == IF node.kind = "struct_def" THEN "struct" ELSE "types"
               f  == Frame(fn, name, 0, node.fields)
    <2>1. c = <<f>>
      BY <1>1, <1>6 DEF Filling
    <2>2. f.fn = fn /\ f.name = name /\ f.fields = << >> /\ f.rest = node.fields
      BY DEF Frame
    <2>3. node = abi[name] /\ name \in DOMAIN abi
      BY <1>2, <1>6, DefinedNames DEF DefKinds
    <2> HIDE DEF f, name
    <2>4. Pending(abi, types, f)
      BY <1>6, <2>2, <2>3 DEF Pending, Resolving, StructCalls
    <2>5. Members(abi, types, f, FALSE)
      <3>1. CASE fn = "struct"
        BY <2>2, <3>1 DEF Members, MemberCalls
      <3>2. CASE fn = "types"
        <4>1. abi[f.name].element = << >> /\ abi[f.name].fields \in Seq(Names)
          BY <1>2, <1>6, <2>2, <2>3, <3>2 DEF IsDefinition
        <4>2. BaseDone(abi, types, << >>) /\ Inherited(types, << >>) = << >> /\ << >> \in Seq(Names)
          BY EmptySeq DEF BaseDone, Inherited
        <4>3. f.fn \in MemberCalls /\ f.rest = abi[f.name].fields
          BY <2>2, <2>3, <3>2 DEF MemberCalls
        <4>4. QED
          BY <2>2, <4>1, <4>2, <4>3, NoneSeen
      <3>3. QED
        BY <3>1, <3>2
    <2>6. QED
      BY <1>2, <2>1, <2>4, <2>5, OneFilled
  <1>7. CASE name \in DOMAIN types /\ node.kind \notin DefKinds
    <2>1. c = << >>
      BY <1>1, <1>7 DEF Filling, DefKinds
    <2>2. QED
      BY <2>1, <1>4
  <1>8. CASE name \notin DOMAIN types
    BY <1>1, <1>4, <1>8
  <1>9. QED
    BY <1>5, <1>6, <1>7, <1>8 DEF DefKinds

LEMMA BuiltinKinds == \A n \in DOMAIN BuiltinTypes : n # ExtendedAsset => BuiltinTypes[n].kind = "builtin"
  <1> DEFINE t  == BuiltinTypes
             xa == Node("struct", << >>, <<<<"asset">>, <<"name">>>>)
             bi == Node("builtin", << >>, << >>)
  <1>1. DOMAIN t = Predefined /\ \A n \in Predefined : n # ExtendedAsset => t[n] = bi
    <2> DEFINE plain == [n \in Predefined |-> bi]
    <2>1. t = With(plain, ExtendedAsset, xa) /\ DOMAIN t = Predefined
      BY BuiltinTable DEF BuiltinTypes
    <2>2. \A n \in Predefined : plain[n] = bi
      OBVIOUS
    <2> HIDE DEF t, plain, bi, xa
    <2>3. DOMAIN With(plain, ExtendedAsset, xa) = DOMAIN plain \cup {ExtendedAsset}
          /\ \A n \in DOMAIN plain : n # ExtendedAsset => With(plain, ExtendedAsset, xa)[n] = plain[n]
      BY DEF With
    <2>4. DOMAIN plain = Predefined
      BY DEF plain
    <2>5. QED
      BY <2>1, <2>2, <2>3, <2>4
  <1>2. bi.kind = "builtin"
    BY DEF Node
  <1> HIDE DEF t, bi, xa
  <1>3. \A n \in DOMAIN t : n # ExtendedAsset => t[n].kind = "builtin"
    BY <1>1, <1>2
  <1>4. QED
    BY <1>3 DEF t

LEMMA EnterFlat ==
    ASSUME IInv, Enter
    PROVE  FInv'
  <1> DEFINE t2 == [n \in DOMAIN types \cup DOMAIN abi |->
                      IF n \in DOMAIN abi THEN abi[n] ELSE types[n]]
  <1>1. /\ pc = "enter" /\ Refused = {} /\ types' = t2 /\ pc' = "fill"
        /\ UNCHANGED <<abi, calls, returned>>
    BY DEF Enter
  <1>2. types = BuiltinTypes /\ \A n \in DOMAIN abi : IsDefinition(abi[n])
    BY <1>1 DEF IInv
  <1>3. calls = << >> /\ returned = << >>
    BY <1>1, NoCalls DEF IInv
  <1>4. /\ DOMAIN t2 = DOMAIN types \cup DOMAIN abi
        /\ \A n \in DOMAIN abi : t2[n] = abi[n]
        /\ \A n \in DOMAIN types \ DOMAIN abi : t2[n] = types[n]
    OBVIOUS
  <1>5. /\ ExtendedAsset \in DOMAIN types
        /\ \A n \in DOMAIN types :
              types[n].kind \notin DefKinds /\ (types[n].kind = "struct" => n = ExtendedAsset)
    <2>1. ExtendedAsset \in DOMAIN types /\ \A n \in DOMAIN types : types[n].kind \notin DefKinds
      BY <1>2, BuiltinTable DEF Predefined
    <2>2. \A n \in DOMAIN types : n # ExtendedAsset => types[n].kind = "builtin"
      BY <1>2, BuiltinKinds
    <2>3. QED
      BY <2>1, <2>2
  <1> HIDE DEF t2
  <1>6. \A n \in DOMAIN abi : abi[n].kind \in DefKinds
    BY <1>2 DEF IsDefinition
  <1>7. Entries(abi, t2)
    <2>1. \A n \in DOMAIN abi : t2[n] = abi[n] /\ t2[n].kind \notin Composite
      BY <1>4, <1>6 DEF DefKinds, Composite
    <2>2. QED
      BY <2>1, <1>4, <1>5 DEF Entries, Resolves
  <1>8. DefsOwned(abi, t2)
    <2>1. ASSUME NEW n \in DOMAIN t2
          PROVE  /\ t2[n].kind \in DefKinds => n \in DOMAIN abi
                 /\ t2[n].kind = "struct" => n \in Own(abi)
      BY <1>4, <1>5 DEF Own
    <2>2. QED
      BY <2>1 DEF DefsOwned
  <1>9. QED
    BY <1>1, <1>3, <1>7, <1>8, NoneFilled DEF FInv

----------------------------------------------------------------------------
(***************************************************************************)
(* Steps of the calls of callers, once convert has returned.               *)
(***************************************************************************)
LEMMA EntersTop ==
    ASSUME IInv, FInv, pc = "ready", calls # << >>
    PROVE  /\ calls \in Seq(Calls) /\ Below \in Seq(Calls) /\ Top \in Calls
           /\ \A i \in DOMAIN Below : Below[i].fn = "members" => Below[i].name \notin Own(abi)
           /\ Top.fn = "members" => Top.name \notin Own(abi)
           /\ Entries(abi, types) /\ Own(abi) \subseteq DOMAIN types
  <1>1. calls \in Seq(Calls) /\ EntersNew /\ Entries(abi, types)
    BY DEF IInv, CallsOK, FInv
  <1>2. /\ Len(calls) \in Nat /\ Len(calls) > 0 /\ DOMAIN calls = 1 .. Len(calls)
        /\ Top \in Calls /\ Top = calls[Len(calls)] /\ Below \in Seq(Calls)
        /\ Len(Below) = Len(calls) - 1 /\ \A i \in 1 .. Len(calls) - 1 : Below[i] = calls[i]
    <2>1. calls \in Seq(Calls) /\ calls # << >>
      BY <1>1
    <2>2. QED
      BY <2>1, CallFacts, Zenon
  <1>3. DOMAIN Below = 1 .. Len(calls) - 1
    BY <1>2, LenProperties
  <1>4. \A i \in DOMAIN Below : Below[i].fn = "members" => Below[i].name \notin Own(abi)
    BY <1>1, <1>2, <1>3 DEF EntersNew
  <1>5. Top.fn = "members" => Top.name \notin Own(abi)
    BY <1>1, <1>2 DEF EntersNew
  <1>6. QED
    BY <1>1, <1>2, <1>4, <1>5 DEF Entries, Own

\* The innermost call goes on as f.
LEMMA EntersGo ==
    ASSUME IInv, FInv, pc = "ready", calls # << >>, NEW t2, NEW f, Continue(<<f>>, t2),
           f.fn = "members" => f.name \notin Own(abi)
    PROVE  EntersNew'
  <1> DEFINE c == calls'
             b == Below
             S == Calls \cup {f}
             fr == <<f>>
  <1>1. /\ b \in Seq(S) /\ UNCHANGED abi /\ c = b \o fr
        /\ \A i \in DOMAIN b : b[i].fn = "members" => b[i].name \notin Own(abi)
    <2>1. Seq(Calls) \subseteq Seq(S)
      OBVIOUS
    <2>2. QED
      BY <2>1, EntersTop DEF Continue
  <1>2. fr \in Seq(S) /\ Len(fr) = 1 /\ fr[1] = f
    BY OneFacts
  <1> HIDE DEF c, b, S, fr
  <1>3. /\ c \in Seq(S) /\ Len(c) = Len(b) + Len(fr)
        /\ \A i \in 1 .. Len(b) : c[i] = b[i]
        /\ \A i \in 1 .. Len(fr) : c[Len(b) + i] = fr[i]
    <2>1. b \in Seq(S) /\ fr \in Seq(S) /\ c = b \o fr
      BY <1>1, <1>2
    <2>2. QED
      BY <2>1, JoinFacts
  <1>4. Len(b) \in Nat /\ DOMAIN b = 1 .. Len(b) /\ DOMAIN c = 1 .. Len(b) + 1
    BY <1>1, <1>2, <1>3, LenProperties
  <1>5. c[Len(b) + 1] = f
    <2>1. 1 \in 1 .. Len(fr)
      BY <1>2
    <2>2. QED
      BY <2>1, <1>2, <1>3
  <1>6. ASSUME NEW i \in DOMAIN c, c[i].fn = "members"
        PROVE  c[i].name \notin Own(abi)
    <2>1. i \in 1 .. Len(b) \/ i = Len(b) + 1
      BY <1>4
    <2>2. QED
      BY <2>1, <1>1, <1>3, <1>4, <1>5, <1>6
  <1>7. QED
    BY <1>1, <1>6 DEF EntersNew, c

\* The innermost call goes on as f and calls g.
LEMMA EntersCall ==
    ASSUME IInv, FInv, pc = "ready", calls # << >>, NEW t2, NEW f, NEW g, Continue(<<f, g>>, t2),
           f.fn = "members" => f.name \notin Own(abi), g.fn # "members"
    PROVE  EntersNew'
  <1> DEFINE c == calls'
             b == Below
             S == Calls \cup {f, g}
             fr == <<f, g>>
  <1>1. /\ b \in Seq(S) /\ UNCHANGED abi /\ c = b \o fr
        /\ \A i \in DOMAIN b : b[i].fn = "members" => b[i].name \notin Own(abi)
    <2>1. Seq(Calls) \subseteq Seq(S)
      OBVIOUS
    <2>2. QED
      BY <2>1, EntersTop DEF Continue
  <1>2. fr \in Seq(S) /\ Len(fr) = 2 /\ fr[1] = f /\ fr[2] = g
    BY PairFacts
  <1> HIDE DEF c, b, S, fr
  <1>3. /\ c \in Seq(S) /\ Len(c) = Len(b) + Len(fr)
        /\ \A i \in 1 .. Len(b) : c[i] = b[i]
        /\ \A i \in 1 .. Len(fr) : c[Len(b) + i] = fr[i]
    <2>1. b \in Seq(S) /\ fr \in Seq(S) /\ c = b \o fr
      BY <1>1, <1>2
    <2>2. QED
      BY <2>1, JoinFacts
  <1>4. Len(b) \in Nat /\ DOMAIN b = 1 .. Len(b) /\ DOMAIN c = 1 .. Len(b) + 2
    BY <1>1, <1>2, <1>3, LenProperties
  <1>5. c[Len(b) + 1] = f /\ c[Len(b) + 2] = g
    <2>1. 1 \in 1 .. Len(fr) /\ 2 \in 1 .. Len(fr)
      BY <1>2
    <2>2. QED
      BY <2>1, <1>2, <1>3
  <1>6. ASSUME NEW i \in DOMAIN c, c[i].fn = "members"
        PROVE  c[i].name \notin Own(abi)
    <2>1. i \in 1 .. Len(b) \/ i = Len(b) + 1 \/ i = Len(b) + 2
      BY <1>4
    <2>2. QED
      BY <2>1, <1>1, <1>3, <1>4, <1>5, <1>6
  <1>7. QED
    BY <1>1, <1>6 DEF EntersNew, c

LEMMA EntersReturn ==
    ASSUME IInv, FInv, pc = "ready", calls # << >>, NEW t2, NEW type, Return(type, t2)
    PROVE  EntersNew'
  <1>1. calls' = Below /\ UNCHANGED abi
    BY DEF Return
  <1>2. QED
    BY <1>1, EntersTop DEF EntersNew

LEMMA EntersThrow ==
    ASSUME NEW e, Throw(e)
    PROVE  EntersNew'
  BY DEF Throw, EntersNew

LEMMA EntersGetType ==
    ASSUME IInv, FInv, pc = "ready", GetType
    PROVE  EntersNew'
  <1> DEFINE name == Top.name
             node == types[name]
             below == SubSeq(name, 1, Len(name) - 1)
             fd == [Top EXCEPT !.fn = "derived"]
             gd == Frame("get_type", below, Top.depth + 1, << >>)
             fa == [Top EXCEPT !.fn = "alias"]
             ga == Frame("get_type", node.element, Top.depth + 1, << >>)
  <1>1. calls # << >>
    BY DEF GetType, Entered
  <1>2. Top \in Calls
    BY <1>1, EntersTop
  <1>3. \/ Throw("recursion_limit_reached") \/ Throw("unknown_type")
        \/ Throw(BadSizes[name[Len(name)]])
        \/ Return(node.element, types) \/ Return(name, types)
        \/ Continue(<<fd, gd>>, types)
        \/ Continue(<<fa, ga>>, types)
    BY DEF GetType, GetDerived
  <1>4. fd.fn = "derived" /\ fa.fn = "alias" /\ gd.fn = "get_type" /\ ga.fn = "get_type"
    BY <1>2 DEF Calls, Frame
  <1> HIDE DEF fd, gd, fa, ga
  <1>5. QED
    BY <1>1, <1>3, <1>4, EntersThrow, EntersReturn, EntersCall

LEMMA EntersAddType ==
    ASSUME IInv, FInv, pc = "ready", AddType
    PROVE  EntersNew'
  <1> DEFINE name == Top.name
             fe == [Top EXCEPT !.fn = "element"]
             ge == Frame("add_type", SubSeq(name, 1, Len(name) - 1), 0, << >>)
             fv == Frame("alternatives", name, 0, Reflected[name].fields)
             fm == Frame("members", name, 0, Reflected[name].fields)
  <1>1. calls # << >>
    BY DEF AddType, Entered
  <1>2. Top \in Calls /\ Own(abi) \subseteq DOMAIN types
    BY <1>1, EntersTop
  <1>3. \/ Throw("unknown_type")
        \/ Return(name, types)
        \/ Continue(<<fe, ge>>, types)
        \/ Continue(<<fv>>, types)
        \/ name \notin DOMAIN types
              /\ Continue(<<fm>>, With(types, name, Node("struct", << >>, << >>)))
    BY DEF AddType
  <1>4. /\ fe.fn = "element" /\ ge.fn = "add_type" /\ fv.fn = "alternatives"
        /\ fm.fn = "members" /\ fm.name = name
    BY <1>2 DEF Calls, Frame
  <1>5. name \notin DOMAIN types => name \notin Own(abi)
    BY <1>2
  <1> HIDE DEF fe, ge, fv, fm
  <1>6. QED
    BY <1>1, <1>3, <1>4, <1>5, EntersThrow, EntersReturn, EntersGo, EntersCall

LEMMA EntersNext ==
    ASSUME IInv, FInv, pc = "ready", calls # << >>, NEW t2, NEW fields, Continue(AddNext(fields), t2)
    PROVE  EntersNew'
  <1> DEFINE f == [Top EXCEPT !.fields = fields, !.rest = Tail(@)]
             g == Frame("add_type", Head(Top.rest), 0, << >>)
  <1>1. Top \in Calls /\ (Top.fn = "members" => Top.name \notin Own(abi))
    BY EntersTop
  <1>2. Continue(<<f, g>>, t2)
    BY DEF AddNext
  <1>3. f.fn = Top.fn /\ f.name = Top.name /\ g.fn = "add_type"
    BY <1>1 DEF Calls, Frame
  <1> HIDE DEF f, g
  <1>4. QED
    BY <1>1, <1>2, <1>3, EntersCall

LEMMA EntersStep ==
    ASSUME IInv, FInv, pc = "ready", GetType \/ Derived \/ Add
    PROVE  EntersNew'
  <1>1. CASE Derived \/ AddDerivedType
    <2> DEFINE made == TryEmplace(types, Top.name, Node(KindOf(Top.name), returned, << >>))
    <2>1. calls # << >> /\ (Throw("invalid_nesting") \/ Return(Top.name, made))
      BY <1>1 DEF Derived, AddDerivedType, Resumed
    <2> HIDE DEF made
    <2>2. QED
      BY <2>1, EntersThrow, EntersReturn
  <1>2. CASE AddVariant \/ AddStruct
    <2>1. /\ calls # << >>
          /\ (\E type, t2 : Return(type, t2)) \/ (\E fields, t2 : Continue(AddNext(fields), t2))
      BY <1>2 DEF AddVariant, AddStruct
    <2>2. QED
      BY <2>1, EntersReturn, EntersNext
  <1>3. QED
    BY <1>1, <1>2, EntersGetType, EntersAddType DEF Add

LEMMA EntersAsk ==
    ASSUME NEW fn \in {"get_type", "add_type"}, NEW name, Ask(fn, name)
    PROVE  EntersNew'
  <1> DEFINE f == Frame(fn, name, 0, << >>)
             fr == <<f>>
  <1>1. calls' = fr /\ f.fn = fn
    BY DEF Ask, Frame
  <1> HIDE DEF f
  <1>2. DOMAIN fr = {1} /\ fr[1] = f
    OBVIOUS
  <1>3. QED
    BY <1>1, <1>2 DEF EntersNew

\* The ABI's own structs and aliases stay as they are.
LEMMA GrownStay ==
    ASSUME IInv, FInv, pc = "ready", NEW t2,
           \A n \in DOMAIN types :
              /\ n \in DOMAIN t2
              /\ t2[n] = types[n] \/ (Entering(n) /\ GainsMember(types[n], t2[n]))
    PROVE  Stays(abi, types, t2) /\ Entries(abi, t2)
  <1>1. /\ Table(types) /\ EntersNew /\ Entries(abi, types)
        /\ \A i \in DOMAIN calls : FrameOK(types, calls[i])
    BY DEF IInv, CallsOK, FInv
  <1>2. ASSUME NEW n \in DOMAIN types
        PROVE  /\ n \in DOMAIN t2
               /\ \/ t2[n] = types[n]
                  \/ n \notin Own(abi) /\ types[n].kind = "struct" /\ t2[n].kind = "struct"
    <2>1. ASSUME Entering(n), GainsMember(types[n], t2[n])
          PROVE  n \notin Own(abi) /\ types[n].kind = "struct" /\ t2[n].kind = "struct"
      <3>1. PICK i \in DOMAIN calls : calls[i].fn = "members" /\ calls[i].name = n
        BY <2>1 DEF Entering
      <3>2. types[n].kind = "struct"
        BY <3>1, <1>1 DEF FrameOK, WorkedOn
      <3>3. n \notin Own(abi)
        BY <3>1, <1>1 DEF EntersNew
      <3>4. t2[n].kind = "struct"
        <4> DEFINE old == types[n].fields
                   new == t2[n]
        <4>1. types[n] = [kind |-> "struct", element |-> << >>, fields |-> old]
          BY <1>1, <3>2, TableFacts DEF DefKinds, IsResolved, DerivedKinds, Node
        <4>2. PICK type \in DOMAIN types : new = [types[n] EXCEPT !.fields = Append(@, type)]
          BY <2>1 DEF GainsMember
        <4> HIDE DEF new
        <4>3. new.kind = "struct"
          BY <4>1, <4>2
        <4>4. QED
          BY <4>3 DEF new
      <3>5. QED
        BY <3>2, <3>3, <3>4
    <2>2. QED
      BY <2>1
  <1>3. Stays(abi, types, t2)
    BY <1>2 DEF Stays, Resolves, DefKinds
  <1>4. \A n \in DOMAIN abi : n \in DOMAIN types
    BY <1>1 DEF Entries
  <1>5. \A n \in DOMAIN abi : t2[n].kind \in Composite => types[n].kind \in Composite
    BY <1>2, <1>4 DEF Composite
  <1>6. QED
    BY <1>1, <1>3, <1>5, EntriesStay

LEMMA StepFlat ==
    ASSUME IInv, FInv, [Next]_vars
    PROVE  FInv'
  <1>1. CASE UNCHANGED vars
    BY <1>1 DEF vars, FInv, EntersNew
  <1>2. CASE Enter \/ Fill
    BY <1>2, EnterFlat, FillFlat
  <1>3. CASE Redefined \/ ConvertBack
    <2>1. pc' \in {"failed", "enter"}
      BY <1>3 DEF Redefined, ConvertBack
    <2>2. QED
      BY <2>1 DEF FInv
  <1>4. CASE Converted
    <2>1. /\ pc = "fill" /\ pc' = "ready" /\ calls' = << >> /\ UNCHANGED <<abi, types>>
      BY <1>4 DEF Converted
    <2>2. QED
      BY <2>1 DEF FInv, EntersNew
  <1>5. CASE Request \/ AddCppType
    <2>1. PICK fn \in {"get_type", "add_type"} : \E name \in Requests \cup CppRequests : Ask(fn, name)
      BY <1>5 DEF Request, AddCppType
    <2>2. pc = "ready" /\ UNCHANGED <<abi, types, pc>>
      BY <2>1 DEF Ask
    <2>3. EntersNew'
      BY <2>1, EntersAsk
    <2>4. QED
      BY <2>2, <2>3 DEF FInv
  <1>6. CASE Resolve \/ Add
    <2>1. calls # << >>
      BY <1>6 DEF Resolve, Add, GetType, Derived, ResolveAlias, ResolveStruct, ResolveBase,
         ResolveMembers, AddType, AddDerivedType, AddVariant, AddStruct, Entered, Resumed
    <2>2. pc \in {"fill", "ready"} /\ Top.fn \in Modes
      BY <2>1, TopFacts
    <2>3. CASE pc = "fill"
      <3>1. ~Add
        BY <2>2, <2>3 DEF Modes, Getting, Resolving, Add, AddType, AddDerivedType, AddVariant,
           AddStruct, Entered, Resumed
      <3>2. QED
        BY <1>6, <2>3, <3>1, ResolveFlat
    <2>4. CASE pc = "ready"
      <3>1. GetType \/ Derived \/ Add
        BY <1>6, <2>4, NothingResolves
      <3>2. EntersNew'
        BY <2>4, <3>1, EntersStep
      <3>3. UNCHANGED <<abi, pc>>
        BY <2>4, <3>1 DEF Add, GetType, GetDerived, Derived, AddType, AddDerivedType, AddVariant,
           AddStruct, Continue, Return, Throw
      <3>4. \A n \in DOMAIN types :
               /\ n \in DOMAIN types'
               /\ types'[n] = types[n] \/ (Entering(n) /\ GainsMember(types[n], types'[n]))
        BY <2>4, <3>1, <3>3, StepGrows DEF Next, Resolve
      <3>5. Entries(abi, types')
        BY <2>4, <3>4, GrownStay
      <3>6. QED
        BY <2>4, <3>2, <3>3, <3>5 DEF FInv
    <2>5. QED
      BY <2>2, <2>3, <2>4
  <1>7. CASE Terminated
    BY <1>1, <1>7 DEF Terminated
  <1>8. QED
    BY <1>2, <1>3, <1>4, <1>5, <1>6, <1>7, <1>1 DEF Next

\* What FInv says of a table without definitions.
LEMMA FlatAtLast ==
    ASSUME IInv, FInv
    PROVE  FieldsFlattened
  <1>1. SUFFICES ASSUME pc = "ready", NEW n \in DOMAIN abi, abi[n].kind = "struct_def"
                 PROVE  types[n].fields = Inherited(types, abi[n].element)
                                             \o LeadsAll(types, abi[n].fields)
    <2>1. \A m : Target(m) = Leads(types, m)
      BY DEF Target, Leads
    <2>2. \A m \in DOMAIN abi :
             /\ Inherited(types, abi[m].element) =
                   (IF abi[m].element = << >> THEN << >> ELSE types[Target(abi[m].element)].fields)
             /\ LeadsAll(types, abi[m].fields) =
                   [i \in DOMAIN abi[m].fields |-> Target(abi[m].fields[i])]
      BY <2>1 DEF Inherited, LeadsAll
    <2>3. QED
      BY <2>2 DEF FieldsFlattened
  <1>2. /\ n \in DOMAIN types /\ Resolves("struct_def", types[n].kind)
        /\ types[n].kind = "struct" => StructDone(abi, types, n)
    BY <1>1 DEF FInv, Entries, Composite
  <1>3. types[n].kind \notin DefKinds
    BY <1>1, <1>2 DEF IInv, Progress, NothingUnresolved
  <1>4. types[n].kind = "struct"
    BY <1>2, <1>3 DEF Resolves, DefKinds
  <1>5. QED
    BY <1>2, <1>4 DEF StructDone, Composite

\* A resolved struct has all the fields of its base and then its own, each the type its
\* name leads to, in whatever order convert and the calls it makes resolved them, however
\* deep the bases run, and whatever is asked for or added afterwards.
THEOREM StructsFlattened == Spec => []FieldsFlattened
  <1>1. Init => FInv
    BY DEF Init, FInv
  <1>2. IInv /\ FInv /\ [Next]_vars => FInv'
    BY StepFlat
  <1>3. IInv /\ FInv => FieldsFlattened
    BY FlatAtLast
  <1>4. QED
    BY <1>1, <1>2, <1>3, Inductive, PTL DEF Spec

----------------------------------------------------------------------------
(***************************************************************************)
(* Circles.  Where a name leads: the largest of its parts that is defined. *)
(***************************************************************************)
Smaller == OpToRel(<, Nat)

LEMMA SmallerDef == \A x, y : <<x, y>> \in Smaller <=> x \in Nat /\ y \in Nat /\ x < y
  BY DEF Smaller, OpToRel

LEMMA SmallerWellFounded == IsWellFoundedOn(Smaller, Nat)
  BY NatLessThanWellFounded DEF Smaller

LEMMA LeastOf ==
    ASSUME NEW T, T \subseteq Nat, T # {}
    PROVE  \E x \in T : \A y \in T : x <= y
  <1>1. PICK x \in T : \A y \in T : ~ (<<y, x>> \in Smaller)
    BY SmallerWellFounded, WFMin
  <1>2. ASSUME NEW y \in T PROVE x <= y
    <2>1. ~ (<<y, x>> \in Smaller)
      BY <1>1
    <2>2. x \in Nat /\ y \in Nat
      OBVIOUS
    <2>3. ~(y < x)
      BY <2>1, <2>2, SmallerDef
    <2>4. QED
      BY <2>2, <2>3
  <1>3. QED
    BY <1>2

LEMMA GreatestOf ==
    ASSUME NEW T, NEW n \in Nat, T \subseteq 1 .. n, T # {}
    PROVE  \E x \in T : \A y \in T : y <= x
  <1> DEFINE U == {n - x : x \in T}
  <1>1. U \subseteq Nat /\ U # {}
    <2>1. \A x \in T : x \in Nat /\ x <= n
      OBVIOUS
    <2>2. \A x \in T : n - x \in Nat
      BY ONLY <2>1, n \in Nat
    <2>3. QED
      BY <2>2
  <1> HIDE DEF U
  <1>2. PICK u \in U : \A v \in U : u <= v
    BY <1>1, LeastOf
  <1>3. PICK x \in T : u = n - x
    BY DEF U
  <1>4. ASSUME NEW y \in T PROVE y <= x
    <2>1. n - y \in U
      BY DEF U
    <2>2. n - x <= n - y
      BY <2>1, <1>2, <1>3
    <2>3. x \in Nat /\ y \in Nat
      OBVIOUS
    <2>4. QED
      BY ONLY <2>2, <2>3, n \in Nat
  <1>5. QED
    BY <1>4

\* The first k parts of a name.
Part(name, k) == SubSeq(name, 1, k)

LEMMA PartFacts ==
    ASSUME NEW name \in Names, NEW k \in 1 .. Len(name)
    PROVE  /\ Part(name, k) \in Names /\ Len(Part(name, k)) = k
           /\ \A m \in 1 .. k : Part(Part(name, k), m) = Part(name, m)
           /\ Part(name, Len(name)) = name
  <1>1. /\ name \in Seq(STRING) /\ name # << >>
        /\ \A i \in 2 .. Len(name) : name[i] \in Suffixes \cup DOMAIN BadSizes
    BY DEF Names, NamesWith
  <1>2. Len(name) \in Nat /\ k \in Nat /\ k >= 1 /\ k <= Len(name)
    BY <1>1
  <1> DEFINE p == Part(name, k)
  <1>3. p \in Seq(STRING) /\ Len(p) = k /\ \A i \in 1 .. k : p[i] = name[i]
    BY <1>1, <1>2 DEF Part
  <1>4. ASSUME NEW m \in 1 .. k
        PROVE  Part(p, m) = Part(name, m)
    <2> HIDE DEF p
    <2>1. /\ Part(p, m) \in Seq(STRING) /\ Len(Part(p, m)) = m
          /\ \A i \in 1 .. m : Part(p, m)[i] = p[i]
      BY <1>3, <1>2 DEF Part
    <2>2. /\ Part(name, m) \in Seq(STRING) /\ Len(Part(name, m)) = m
          /\ \A i \in 1 .. m : Part(name, m)[i] = name[i]
      BY <1>1, <1>2 DEF Part
    <2>3. \A i \in 1 .. m : p[i] = name[i]
      BY <1>3, <1>2
    <2>4. \A i \in 1 .. m : Part(p, m)[i] = Part(name, m)[i]
      BY <2>1, <2>2, <2>3
    <2> DEFINE x == Part(p, m)
               y == Part(name, m)
    <2> HIDE DEF x, y
    <2>5. x \in Seq(STRING) /\ y \in Seq(STRING) /\ Len(x) = Len(y) /\ \A i \in 1 .. Len(x) : x[i] = y[i]
      BY <2>1, <2>2, <2>4 DEF x, y
    <2>6. x = y
      BY <2>5, SeqEqual
    <2>7. QED
      BY <2>6 DEF x, y
  <1>5. Part(name, Len(name)) = name
    <2> DEFINE x == Part(name, Len(name))
    <2>1. x \in Seq(STRING) /\ Len(x) = Len(name) /\ \A i \in 1 .. Len(name) : x[i] = name[i]
      BY <1>1, <1>2 DEF Part
    <2> HIDE DEF x
    <2>2. x = name
      BY <2>1, <1>1, SeqEqual
    <2>3. QED
      BY <2>2 DEF x
  <1>6. p \in Names
    <2> HIDE DEF p
    <2>1. p # << >>
      <3>1. Len(p) > 0
        BY <1>3, <1>2
      <3>2. QED
        BY <3>1, EmptySeq
    <2>2. \A i \in 2 .. Len(p) : p[i] \in Suffixes \cup DOMAIN BadSizes
      BY <1>1, <1>2, <1>3
    <2>3. QED
      BY <1>3, <2>1, <2>2 DEF Names, NamesWith
  <1>7. QED
    BY <1>3, <1>4, <1>5, <1>6

\* k is how much of the name is the definition that it leads to.
Deepest(defs, name, k) ==
    /\ k = 1 \/ Part(name, k) \in DOMAIN defs
    /\ \A m \in k + 1 .. Len(name) : Part(name, m) \notin DOMAIN defs

LEMMA BelowIs ==
    ASSUME NEW defs, NEW name \in Names, NEW k \in 1 .. Len(name), Deepest(defs, name, k)
    PROVE  DefinedBelow(defs, name) = Part(name, k)
  <1> DEFINE c == CHOOSE j \in 1 .. Len(name) : Deepest(defs, name, j)
  <1>1. c \in 1 .. Len(name) /\ Deepest(defs, name, c)
    OBVIOUS
  <1>2. DefinedBelow(defs, name) = Part(name, c)
    BY DEF DefinedBelow, Deepest, Part
  <1> HIDE DEF c
  <1>3. Len(name) \in Nat /\ c \in Nat /\ k \in Nat /\ c >= 1 /\ k >= 1
    BY NameParts, <1>1
  <1>4. ~(c < k)
    <2>1. SUFFICES ASSUME c < k PROVE FALSE
      OBVIOUS
    <2>2. k # 1 /\ k \in c + 1 .. Len(name)
      BY <2>1, <1>3
    <2>3. QED
      BY <2>2, <1>1 DEF Deepest
  <1>5. ~(k < c)
    <2>1. SUFFICES ASSUME k < c PROVE FALSE
      OBVIOUS
    <2>2. c # 1 /\ c \in k + 1 .. Len(name)
      BY <2>1, <1>3, <1>1
    <2>3. QED
      BY <2>2, <1>1 DEF Deepest
  <1>6. c = k
    BY <1>3, <1>4, <1>5
  <1>7. QED
    BY <1>2, <1>6

LEMMA BelowIsThere ==
    ASSUME NEW defs, NEW name \in Names
    PROVE  \E k \in 1 .. Len(name) : Deepest(defs, name, k)
  <1> DEFINE T == {k \in 1 .. Len(name) : k = 1 \/ Part(name, k) \in DOMAIN defs}
  <1>1. Len(name) \in Nat /\ Len(name) > 0
    BY NameParts
  <1>2. T \subseteq 1 .. Len(name) /\ 1 \in T
    BY <1>1
  <1>3. PICK k \in T : \A m \in T : m <= k
    <2> HIDE DEF T
    <2>1. QED
      BY <1>1, <1>2, GreatestOf
  <1>4. ASSUME NEW m \in k + 1 .. Len(name)
        PROVE  Part(name, m) \notin DOMAIN defs
    <2>1. k \in Nat /\ m \in Nat /\ m > k /\ m \in 1 .. Len(name)
      BY <1>1
    <2>2. QED
      BY <2>1, <1>3
  <1>5. QED
    BY <1>3, <1>4 DEF Deepest

\* What a name leads to is a part of it; a definition leads to itself, and any other
\* name with suffixes to what it is without the last one.
LEMMA BelowFacts ==
    ASSUME NEW defs, NEW name \in Names
    PROVE  /\ DefinedBelow(defs, name) \in Names
           /\ DefinedBelow(defs, name) \in DOMAIN defs \/ Len(DefinedBelow(defs, name)) = 1
           /\ name \in DOMAIN defs \/ Len(name) = 1 => DefinedBelow(defs, name) = name
           /\ name \notin DOMAIN defs /\ Len(name) > 1 =>
                 DefinedBelow(defs, name) = DefinedBelow(defs, SubSeq(name, 1, Len(name) - 1))
  <1> DEFINE n == Len(name)
  <1>1. n \in Nat /\ n > 0 /\ Part(name, n) = name
    BY NameParts, PartFacts
  <1>2. PICK k \in 1 .. n : Deepest(defs, name, k)
    BY BelowIsThere
  <1>3. DefinedBelow(defs, name) = Part(name, k)
    BY <1>2, BelowIs
  <1>4. Part(name, k) \in Names /\ Len(Part(name, k)) = k
    BY PartFacts
  <1>5. ASSUME name \in DOMAIN defs \/ n = 1
        PROVE  DefinedBelow(defs, name) = name
    <2>1. n \in 1 .. n /\ ~(\E m \in n + 1 .. n : TRUE)
      BY <1>1
    <2>2. Deepest(defs, name, n)
      BY <2>1, <1>1, <1>5 DEF Deepest
    <2>3. QED
      BY <2>1, <2>2, <1>1, BelowIs
  <1>6. ASSUME name \notin DOMAIN defs, n > 1
        PROVE  DefinedBelow(defs, name) = DefinedBelow(defs, Part(name, n - 1))
    <2> DEFINE q == Part(name, n - 1)
    <2>1. n - 1 \in 1 .. n /\ n - 1 \in Nat
      BY <1>1, <1>6
    <2>2. q \in Names /\ Len(q) = n - 1 /\ \A m \in 1 .. n - 1 : Part(q, m) = Part(name, m)
      BY <2>1, PartFacts
    <2>3. k # n
      <3>1. SUFFICES ASSUME k = n PROVE FALSE
        OBVIOUS
      <3>2. k # 1
        BY <3>1, <1>6
      <3>3. Part(name, k) \in DOMAIN defs
        BY <3>2, <1>2 DEF Deepest
      <3>4. QED
        BY <3>3, <3>1, <1>1, <1>6
    <2>4. k \in 1 .. n - 1
      BY <2>3, <1>1
    <2> HIDE DEF q
    <2>5. ASSUME NEW m \in k + 1 .. Len(q)
          PROVE  Part(q, m) \notin DOMAIN defs
      <3>1. m \in k + 1 .. n /\ m \in 1 .. n - 1
        BY <2>2, <2>1, <2>4, <1>1
      <3>2. QED
        BY <3>1, <2>2, <1>2 DEF Deepest
    <2>6. k = 1 \/ Part(q, k) \in DOMAIN defs
      BY <2>4, <2>2, <1>2 DEF Deepest
    <2>7. Deepest(defs, q, k)
      BY <2>5, <2>6 DEF Deepest
    <2>8. DefinedBelow(defs, q) = Part(q, k)
      BY <2>7, <2>2, <2>4, BelowIs
    <2>9. QED
      BY <2>8, <2>2, <2>4, <1>3 DEF q
  <1>7. DefinedBelow(defs, name) \in DOMAIN defs \/ Len(DefinedBelow(defs, name)) = 1
    BY <1>2, <1>3, <1>4 DEF Deepest
  <1>8. QED
    BY <1>3, <1>4, <1>5, <1>6, <1>7 DEF Part

----------------------------------------------------------------------------
(***************************************************************************)
(* Reaching along aliases and bases.                                       *)
(***************************************************************************)
Definitions(defs) == \A n \in DOMAIN defs : n \in Names /\ IsDefinition(defs[n])

\* What follows a name in a set of names follows it again.
Closed(defs, Z) == \A x \in Z \cap DOMAIN defs : Follows(defs, x) \subseteq Z

Reaches(defs, n, m) == \A Z \in SUBSET Names : n \in Z /\ Closed(defs, Z) => m \in Z

\* From n in one step or more.
Beyond(defs, n, m) == n \in DOMAIN defs /\ \E p \in Follows(defs, n) : Reaches(defs, p, m)

LEMMA FollowsNames ==
    ASSUME NEW defs, Definitions(defs), NEW n \in DOMAIN defs
    PROVE  Follows(defs, n) \subseteq Names
  <1>1. IsDefinition(defs[n])
    BY DEF Definitions
  <1>2. CASE Follows(defs, n) = {}
    BY <1>2
  <1>3. CASE Follows(defs, n) # {}
    <2>1. /\ defs[n].element \in Names
          /\ Follows(defs, n) = {DefinedBelow(defs, defs[n].element)}
      BY <1>1, <1>3 DEF Follows, IsDefinition
    <2>2. DefinedBelow(defs, defs[n].element) \in Names
      BY <2>1, BelowFacts
    <2>3. QED
      BY <2>1, <2>2
  <1>4. QED
    BY <1>2, <1>3

LEMMA ReachesSelf == \A defs, n : Reaches(defs, n, n)
  BY DEF Reaches

LEMMA ReachesThrough ==
    ASSUME NEW defs, NEW n, NEW m, NEW l, Reaches(defs, n, m), Reaches(defs, m, l)
    PROVE  Reaches(defs, n, l)
  BY DEF Reaches

LEMMA ReachesNext ==
    ASSUME NEW defs, NEW n \in DOMAIN defs, NEW p \in Follows(defs, n), NEW m, Reaches(defs, p, m)
    PROVE  Reaches(defs, n, m)
  BY DEF Reaches, Closed

LEMMA BeyondThrough ==
    ASSUME NEW defs, NEW n, NEW m, NEW l, Beyond(defs, n, m), Reaches(defs, m, l)
    PROVE  Beyond(defs, n, l)
  BY ReachesThrough DEF Beyond

LEMMA BeyondReaches ==
    ASSUME NEW defs, NEW n, NEW m, Beyond(defs, n, m)
    PROVE  Reaches(defs, n, m)
  BY ReachesNext DEF Beyond

LEMMA BeyondBeyond ==
    ASSUME NEW defs, NEW n, NEW m, NEW l, Beyond(defs, n, m), Beyond(defs, m, l)
    PROVE  Beyond(defs, n, l)
  BY BeyondThrough, BeyondReaches

LEMMA BeyondNext ==
    ASSUME NEW defs, NEW n \in DOMAIN defs, NEW p \in Follows(defs, n)
    PROVE  Beyond(defs, n, p)
  BY ReachesSelf DEF Beyond

\* Where a name leads it is already or it has still to go.
LEMMA ReachesBeyond ==
    ASSUME NEW defs, Definitions(defs), NEW n \in Names, NEW m, Reaches(defs, n, m), n # m
    PROVE  Beyond(defs, n, m)
  <1> DEFINE Z == {n} \cup {y \in Names : Beyond(defs, n, y)}
  <1>1. Z \in SUBSET Names /\ n \in Z
    OBVIOUS
  <1>2. ASSUME NEW x \in Z \cap DOMAIN defs, NEW y \in Follows(defs, x)
        PROVE  y \in Z
    <2>1. y \in Names
      BY FollowsNames
    <2>2. Beyond(defs, x, y)
      BY BeyondNext
    <2>3. Beyond(defs, n, y)
      BY <2>2, BeyondBeyond
    <2>4. QED
      BY <2>1, <2>3
  <1>3. Closed(defs, Z)
    BY <1>2 DEF Closed
  <1>4. m \in Z
    <2> HIDE DEF Z
    <2>1. QED
      BY <1>1, <1>3 DEF Reaches
  <1>5. QED
    BY <1>4

\* What leads back to itself is on a circle.
LEMMA BackIsCircular ==
    ASSUME NEW defs, Definitions(defs), NEW n, Beyond(defs, n, n)
    PROVE  Circular(defs)
  <1> DEFINE ring == {x \in DOMAIN defs : Beyond(defs, x, n)}
  <1>1. n \in ring
    BY DEF Beyond
  <1>2. ASSUME NEW x \in ring
        PROVE  Follows(defs, x) \cap ring # {}
    <2>1. PICK p \in Follows(defs, x) : Reaches(defs, p, n)
      BY DEF Beyond
    <2>2. p \in Names
      BY FollowsNames
    <2>3. Beyond(defs, p, n)
      BY <2>1, <2>2, ReachesBeyond
    <2>4. p \in ring
      BY <2>3 DEF Beyond
    <2>5. QED
      BY <2>4
  <1>3. ring \in SUBSET DOMAIN defs /\ IsCircle(defs, ring)
    <2> HIDE DEF ring
    <2>1. ring \subseteq DOMAIN defs
      BY DEF ring
    <2>2. QED
      BY <2>1, <1>1, <1>2 DEF IsCircle
  <1>4. QED
    BY <1>3 DEF Circular

----------------------------------------------------------------------------
(***************************************************************************)
(* The definitions that are resolved have no circle.                       *)
(***************************************************************************)
\* What is known rests on a definition that is known, if on any.
Grounded(a, t) ==
    \A n \in DOMAIN t :
        Known(t, n) /\ DefinedBelow(a, n) \in DOMAIN a => Known(t, DefinedBelow(a, n))

\* A resolved alias points where its target leads.
AliasDone(a, t, n, type) ==
    /\ n \in DOMAIN a /\ a[n].kind = "alias_def" /\ Known(t, a[n].element)
    /\ type = Leads(t, a[n].element)
    /\ Beyond(a, n, DefinedBelow(a, type))

Aliased(a, t) == \A n \in DOMAIN t : t[n].kind = "alias" => AliasDone(a, t, n, t[n].element)

Apart(a, t) ==
    \A ring \in SUBSET DOMAIN a :
        (\A n \in ring : t[n].kind \notin DefKinds) => ~IsCircle(a, ring)

Untangled(a, t) == Grounded(a, t) /\ Aliased(a, t) /\ Apart(a, t)

\* What a name leads to stays in the ABI or is a type of the program.
LEMMA LeadsDefined ==
    ASSUME NEW a, NEW t, Entries(a, t), DefsOwned(a, t), Aliased(a, t),
           NEW e \in Names, Known(t, e), DefinedBelow(a, e) \in DOMAIN a,
           Leads(t, e) \in Own(a)
    PROVE  e \in DOMAIN a /\ DefinedBelow(a, e) = e
  <1>1. SUFFICES ASSUME e \notin DOMAIN a PROVE FALSE
    BY BelowFacts
  <1>2. t[e].kind # "alias"
    BY <1>1 DEF Aliased, AliasDone, Known
  <1>3. e = ExtendedAsset
    BY <1>1, <1>2 DEF Leads, Own
  <1>4. Len(e) = 1
    BY <1>3 DEF ExtendedAsset
  <1>5. DefinedBelow(a, e) = e
    BY <1>4, BelowFacts
  <1>6. QED
    BY <1>1, <1>5

LEMMA FollowsKnown ==
    ASSUME NEW a, NEW t, Definitions(a), Entries(a, t), Grounded(a, t), Aliased(a, t),
           NEW n \in DOMAIN a, t[n].kind \notin DefKinds, NEW p \in Follows(a, n), p \in DOMAIN a
    PROVE  /\ a[n].element \in Names /\ p = DefinedBelow(a, a[n].element)
           /\ Known(t, a[n].element) /\ Known(t, p)
           /\ a[n].kind = "alias_def" => AliasDone(a, t, n, t[n].element)
           /\ a[n].kind # "alias_def" => /\ a[n].kind = "struct_def" /\ a[n].element # << >>
                                         /\ BaseDone(a, t, a[n].element)
  <1>1. IsDefinition(a[n]) /\ n \in DOMAIN t /\ Resolves(a[n].kind, t[n].kind)
    BY DEF Definitions, Entries
  <1>2. /\ a[n].kind = "alias_def" \/ (a[n].kind = "struct_def" /\ a[n].element # << >>)
        /\ p = DefinedBelow(a, a[n].element)
    BY DEF Follows
  <1>3. a[n].element \in Names
    BY <1>1, <1>2 DEF IsDefinition
  <1>4. ASSUME a[n].kind = "alias_def"
        PROVE  AliasDone(a, t, n, t[n].element)
    <2>1. t[n].kind = "alias"
      BY <1>1, <1>4 DEF Resolves, DefKinds
    <2>2. QED
      BY <2>1, <1>1 DEF Aliased
  <1>5. ASSUME a[n].kind # "alias_def"
        PROVE  BaseDone(a, t, a[n].element)
    <2>1. t[n].kind = "struct"
      BY <1>1, <1>2, <1>5 DEF Resolves, DefKinds
    <2>2. QED
      BY <2>1 DEF Entries, StructDone, Composite
  <1>6. Known(t, a[n].element)
    BY <1>2, <1>4, <1>5 DEF AliasDone, BaseDone
  <1>7. Known(t, p)
    BY <1>2, <1>6 DEF Grounded, Known
  <1>8. QED
    BY <1>2, <1>3, <1>4, <1>5, <1>6, <1>7

LEMMA FollowsStruct ==
    ASSUME NEW a, NEW t, Entries(a, t), DefsOwned(a, t), Aliased(a, t),
           NEW b \in Names, BaseDone(a, t, b), DefinedBelow(a, b) \in DOMAIN a
    PROVE  t[Leads(t, DefinedBelow(a, b))].kind = "struct"
  <1>1. Known(t, b) /\ Leads(t, b) \in Own(a) /\ t[Leads(t, b)].kind = "struct"
    BY CppNameFacts DEF BaseDone
  <1>2. DefinedBelow(a, b) = b
    BY <1>1, LeadsDefined
  <1>3. QED
    BY <1>1, <1>2

LEMMA FollowsAlias ==
    ASSUME NEW a, NEW t, Entries(a, t), DefsOwned(a, t), Aliased(a, t),
           NEW n, NEW type, AliasDone(a, t, n, type), t[type].kind = "struct", type \in DOMAIN t,
           a[n].element \in Names, DefinedBelow(a, a[n].element) \in DOMAIN a
    PROVE  t[Leads(t, DefinedBelow(a, a[n].element))].kind = "struct"
  <1>1. Known(t, a[n].element) /\ type = Leads(t, a[n].element)
    BY DEF AliasDone
  <1>2. type \in Own(a)
    BY DEF DefsOwned
  <1>3. DefinedBelow(a, a[n].element) = a[n].element
    BY <1>1, <1>2, LeadsDefined
  <1>4. QED
    BY <1>1, <1>3

LEMMA ApartAlias ==
    ASSUME NEW a, NEW t, Definitions(a), Entries(a, t), Grounded(a, t), Aliased(a, t), Apart(a, t),
           NEW m \in DOMAIN a, t[m].kind = "alias_def", Known(t, a[m].element), NEW node
    PROVE  Apart(a, With(t, m, node))
  <1> DEFINE t2 == With(t, m, node)
  <1>1. SUFFICES ASSUME NEW ring \in SUBSET DOMAIN a, \A n \in ring : t2[n].kind \notin DefKinds,
                        IsCircle(a, ring)
                 PROVE  FALSE
    BY DEF Apart
  <1>2. \A n \in DOMAIN t : n # m => t2[n] = t[n]
    BY DEF With
  <1>3. \A n \in ring : n \in DOMAIN t
    BY DEF Entries
  <1> HIDE DEF t2
  <1>4. ASSUME NEW n \in ring, NEW p \in Follows(a, n), p \in ring
        PROVE  Known(t, p)
    <2>1. CASE n = m
      <3>1. IsDefinition(a[m])
        BY DEF Definitions
      <3>2. p = DefinedBelow(a, a[m].element)
        BY <2>1 DEF Follows
      <3>3. QED
        BY <3>2, <1>4 DEF Grounded, Known
    <2>2. CASE n # m
      <3>1. t[n].kind \notin DefKinds
        BY <2>2, <1>1, <1>2, <1>3
      <3>2. p \in DOMAIN a
        BY <1>4
      <3>3. QED
        BY <3>1, <3>2, FollowsKnown
    <2>3. QED
      BY <2>1, <2>2
  <1> DEFINE rest == ring \ {m}
  <1>5. ASSUME NEW n \in ring
        PROVE  Follows(a, n) \cap rest # {}
    <2>1. PICK p \in Follows(a, n) : p \in ring
      BY <1>1 DEF IsCircle
    <2>2. p # m
      BY <2>1, <1>4 DEF Known
    <2>3. QED
      BY <2>1, <2>2
  <1>6. rest # {} /\ \A n \in rest : Follows(a, n) \cap rest # {}
    <2>1. PICK n \in ring : TRUE
      BY <1>1 DEF IsCircle
    <2>2. Follows(a, n) \cap rest # {}
      BY <1>5
    <2>3. rest # {}
      BY <2>2
    <2>4. QED
      BY <2>3, <1>5
  <1>7. \A n \in rest : t[n].kind \notin DefKinds
    BY <1>1, <1>2, <1>3
  <1>8. rest \in SUBSET DOMAIN a
    OBVIOUS
  <1> HIDE DEF rest
  <1>9. IsCircle(a, rest)
    BY <1>6 DEF IsCircle
  <1>10. QED
    BY <1>7, <1>8, <1>9 DEF Apart

LEMMA ApartStruct ==
    ASSUME NEW a, NEW t, Definitions(a), Table(t), Entries(a, t), DefsOwned(a, t),
           Grounded(a, t), Aliased(a, t), Apart(a, t),
           NEW m \in DOMAIN a, t[m].kind = "struct_def", BaseDone(a, t, a[m].element), NEW node
    PROVE  Apart(a, With(t, m, node))
  <1> DEFINE t2 == With(t, m, node)
  <1>1. SUFFICES ASSUME NEW ring \in SUBSET DOMAIN a, \A n \in ring : t2[n].kind \notin DefKinds,
                        IsCircle(a, ring)
                 PROVE  FALSE
    BY DEF Apart
  <1>2. \A n \in DOMAIN t : n # m => t2[n] = t[n]
    BY DEF With
  <1>3. \A n \in ring : n \in DOMAIN t
    BY DEF Entries
  <1> HIDE DEF t2
  <1> DEFINE rest == {n \in ring : n # m /\ t[Leads(t, n)].kind = "struct"}
  <1>4. a[m] = t[m]
    BY DEF Entries, DefKinds
  <1>5. Leads(t, m) = m /\ t[Leads(t, m)].kind # "struct"
    BY DEF Leads
  <1>6. ASSUME NEW n \in rest \cup ({m} \cap ring), NEW p \in Follows(a, n), p \in ring
        PROVE  p \in rest
    <2>1. SUFFICES t[Leads(t, p)].kind = "struct"
      BY <1>5, <1>6
    <2>2. p \in DOMAIN a
      BY <1>6
    <2>3. CASE n = m
      <3>1. IsDefinition(a[m])
        BY DEF Definitions
      <3>2. a[m].element # << >> /\ p = DefinedBelow(a, a[m].element)
        BY <2>3, <1>4 DEF Follows
      <3>3. a[m].element \in Names
        BY <3>1, <3>2 DEF IsDefinition
      <3>4. QED
        BY <3>2, <3>3, <2>2, FollowsStruct
    <2>4. CASE n # m
      <3>1. n \in rest /\ n \in ring /\ n \in DOMAIN a /\ n \in DOMAIN t
        BY <2>4, <1>3
      <3>2. t[n].kind \notin DefKinds
        BY <3>1, <2>4, <1>1, <1>2
      <3>3. /\ a[n].element \in Names /\ p = DefinedBelow(a, a[n].element)
            /\ a[n].kind = "alias_def" => AliasDone(a, t, n, t[n].element)
            /\ a[n].kind # "alias_def" => BaseDone(a, t, a[n].element)
        BY <3>1, <3>2, <2>2, FollowsKnown
      <3>4. CASE a[n].kind # "alias_def"
        BY <3>3, <3>4, <2>2, FollowsStruct
      <3>5. CASE a[n].kind = "alias_def"
        <4>1. t[n].kind = "alias"
          BY <3>1, <3>2, <3>5 DEF Entries, Resolves, DefKinds
        <4>2. t[t[n].element].kind = "struct"
          BY <3>1, <4>1 DEF Leads
        <4>3. t[n].element \in DOMAIN t
          <5>1. IsResolved(t, t[n])
            BY <3>1, <3>2, TableFacts
          <5>2. QED
            BY <5>1, <4>1 DEF IsResolved
        <4>4. QED
          BY <3>3, <3>5, <4>2, <4>3, <2>2, FollowsAlias
      <3>6. QED
        BY <3>4, <3>5
    <2>5. QED
      BY <2>3, <2>4
  <1>7. ASSUME NEW n \in rest \cup ({m} \cap ring)
        PROVE  Follows(a, n) \cap rest # {}
    <2>1. n \in ring
      OBVIOUS
    <2>2. PICK p \in Follows(a, n) : p \in ring
      BY <2>1, <1>1 DEF IsCircle
    <2>3. p \in rest
      BY <2>2, <1>6
    <2>4. QED
      BY <2>2, <2>3
  <1>8. rest \in SUBSET DOMAIN a /\ \A n \in rest : t[n].kind \notin DefKinds
    <2>1. ASSUME NEW n \in rest
          PROVE  t[n].kind \notin DefKinds
      BY <1>1, <1>2, <1>3
    <2>2. QED
      BY <2>1
  <1>9. CASE m \in ring
    <2>1. Follows(a, m) \cap rest # {}
      BY <1>7, <1>9
    <2>2. rest # {} /\ \A n \in rest : Follows(a, n) \cap rest # {}
      BY <2>1, <1>7
    <2> HIDE DEF rest
    <2>3. IsCircle(a, rest)
      BY <2>2 DEF IsCircle
    <2>4. QED
      BY <2>3, <1>8 DEF Apart
  <1>10. CASE m \notin ring
    <2>1. \A n \in ring : t[n].kind \notin DefKinds
      BY <1>10, <1>1, <1>2, <1>3
    <2>2. QED
      BY <2>1, <1>1 DEF Apart
  <1>11. QED
    BY <1>9, <1>10

LEMMA ApartVariant ==
    ASSUME NEW a, NEW t, Entries(a, t), Apart(a, t),
           NEW m \in DOMAIN a, t[m].kind = "variant_def", NEW node
    PROVE  Apart(a, With(t, m, node))
  <1> DEFINE t2 == With(t, m, node)
  <1>1. SUFFICES ASSUME NEW ring \in SUBSET DOMAIN a, \A n \in ring : t2[n].kind \notin DefKinds,
                        IsCircle(a, ring)
                 PROVE  FALSE
    BY DEF Apart
  <1>2. \A n \in DOMAIN t : n # m => t2[n] = t[n]
    BY DEF With
  <1>3. \A n \in ring : n \in DOMAIN t
    BY DEF Entries
  <1> HIDE DEF t2
  <1>4. a[m] = t[m]
    BY DEF Entries, DefKinds
  <1>5. Follows(a, m) = {}
    BY <1>4 DEF Follows
  <1>6. m \notin ring
    BY <1>5, <1>1 DEF IsCircle
  <1>7. \A n \in ring : t[n].kind \notin DefKinds
    BY <1>1, <1>2, <1>3, <1>6
  <1>8. QED
    BY <1>1, <1>7 DEF Apart

LEMMA AbiDefinitions ==
    ASSUME IInv, FInv, pc \in {"fill", "ready"}
    PROVE  Definitions(abi)
  <1>1. Entries(abi, types) /\ Table(types) /\ \A n \in DOMAIN abi : IsDefinition(abi[n])
    BY DEF IInv, FInv
  <1>2. DOMAIN abi \subseteq Names
    BY <1>1 DEF Entries, Table
  <1>3. QED
    BY <1>1, <1>2 DEF Definitions

\* A type comes that is no alias and rests on what is known.
LEMMA UntangledMore ==
    ASSUME NEW a, NEW t, Untangled(a, t), Entries(a, t), NEW t2, Keeps(t, t2),
           \A n \in DOMAIN t2 \ DOMAIN t :
              /\ t2[n].kind # "alias"
              /\ DefinedBelow(a, n) \in DOMAIN a => Known(t, DefinedBelow(a, n))
    PROVE  Untangled(a, t2)
  <1>1. \A n \in DOMAIN t : n \in DOMAIN t2 /\ t2[n] = t[n]
    BY DEF Keeps
  <1>2. \A n : Known(t, n) => Known(t2, n) /\ Leads(t2, n) = Leads(t, n)
    BY <1>1 DEF Known, Leads
  <1>3. Grounded(a, t2)
    <2>1. SUFFICES ASSUME NEW n \in DOMAIN t2, Known(t2, n), DefinedBelow(a, n) \in DOMAIN a
                   PROVE  Known(t, DefinedBelow(a, n))
      BY <1>2 DEF Grounded
    <2>2. CASE n \in DOMAIN t
      <3>1. Known(t, n)
        BY <2>1, <2>2, <1>1 DEF Known
      <3>2. QED
        BY <2>1, <2>2, <3>1 DEF Untangled, Grounded
    <2>3. QED
      BY <2>1, <2>2
  <1>4. Aliased(a, t2)
    <2>1. SUFFICES ASSUME NEW n \in DOMAIN t2, t2[n].kind = "alias"
                   PROVE  AliasDone(a, t2, n, t2[n].element)
      BY DEF Aliased
    <2>2. n \in DOMAIN t
      BY <2>1
    <2>3. AliasDone(a, t, n, t[n].element)
      BY <2>1, <2>2, <1>1 DEF Untangled, Aliased
    <2>4. QED
      BY <2>2, <2>3, <1>1, <1>2 DEF AliasDone
  <1>5. Apart(a, t2)
    <2>1. \A n \in DOMAIN a : t2[n] = t[n]
      BY <1>1 DEF Entries
    <2>2. QED
      BY <2>1 DEF Apart, Untangled
  <1>6. QED
    BY <1>3, <1>4, <1>5 DEF Untangled

\* A definition is resolved.
LEMMA UntangledResolved ==
    ASSUME NEW a, NEW t, Untangled(a, t), Definitions(a), NEW m \in DOMAIN a, m \in DOMAIN t,
           t[m].kind \in DefKinds,
           NEW node, Resolves(t[m].kind, node.kind), node.kind \notin DefKinds,
           node.kind = "alias" => AliasDone(a, t, m, node.element),
           Apart(a, With(t, m, node))
    PROVE  Untangled(a, With(t, m, node))
  <1> DEFINE t2 == With(t, m, node)
  <1>1. /\ DOMAIN t2 = DOMAIN t /\ t2[m] = node
        /\ \A n \in DOMAIN t : n # m => t2[n] = t[n]
    BY DEF With
  <1>2. Stays(a, t, t2)
    BY ResolvedStay
  <1> HIDE DEF t2
  <1>3. \A n : Known(t, n) => Known(t2, n) /\ Leads(t2, n) = Leads(t, n)
    BY <1>2, KnownStays
  <1>4. Grounded(a, t2)
    <2>1. SUFFICES ASSUME NEW n \in DOMAIN t2, Known(t2, n), DefinedBelow(a, n) \in DOMAIN a
                   PROVE  Known(t2, DefinedBelow(a, n))
      BY DEF Grounded
    <2>2. CASE n = m
      <3>1. DefinedBelow(a, m) = m
        BY BelowFacts DEF Definitions
      <3>2. QED
        BY <2>1, <2>2, <3>1
    <2>3. CASE n # m
      <3>1. n \in DOMAIN t /\ Known(t, n)
        BY <2>1, <2>3, <1>1 DEF Known
      <3>2. Known(t, DefinedBelow(a, n))
        BY <2>1, <3>1 DEF Untangled, Grounded
      <3>3. QED
        BY <3>2, <1>3
    <2>4. QED
      BY <2>2, <2>3
  <1>5. ASSUME NEW n \in DOMAIN t2, t2[n].kind = "alias"
        PROVE  AliasDone(a, t2, n, t2[n].element)
    <2>1. AliasDone(a, t, n, t2[n].element)
      BY <1>5, <1>1 DEF Untangled, Aliased
    <2>2. QED
      BY <2>1, <1>3 DEF AliasDone
  <1>6. QED
    BY <1>4, <1>5 DEF Untangled, Aliased, t2

----------------------------------------------------------------------------
CInv ==
    /\ pc = "fill" => Untangled(abi, types)
    /\ pc = "ready" => ~Circular(abi)

LEMMA DerivedUntangled ==
    ASSUME IInv, FInv, CInv, pc = "fill", Derived
    PROVE  CInv'
  <1> DEFINE name == Top.name
             kind == KindOf(name)
             node == Node(kind, returned, << >>)
             below == SubSeq(name, 1, Len(name) - 1)
  <1>1. calls # << >> /\ Top.fn = "derived" /\ returned # << >>
    BY DEF Derived, Resumed
  <1>2. /\ FrameOK(types, Top) /\ name \in Names /\ Entries(abi, types)
        /\ Pending(abi, types, Top) /\ Answers(abi, types, Top, returned)
    BY <1>1, TopFacts, TopFilled
  <1>3. CASE types[returned].kind \in Forbidden(kind)
    <2>1. Throw("invalid_nesting")
      BY <1>3 DEF Derived
    <2>2. QED
      BY <2>1 DEF Throw, CInv
  <1>4. CASE types[returned].kind \notin Forbidden(kind)
    <2>1. name \notin DOMAIN types
      BY <1>1, <1>2 DEF Pending
    <2>2. Return(name, With(types, name, node))
      BY <2>1, <1>4 DEF Derived, TryEmplace
    <2>3. Derivable(name) /\ kind \in DerivedKinds
      BY <1>1, <1>2, KindFacts DEF FrameOK
    <2>4. node.kind = kind
      BY DEF Node
    <2>5. node.kind # "alias"
      BY <2>3, <2>4 DEF DerivedKinds
    <2> HIDE DEF node
    <2>6. Keeps(types, With(types, name, node))
      BY <2>1, Emplaced
    <2>7. Known(types, below)
      BY <1>1, <1>2 DEF Answers, Awaited, MemberCalls
    <2>8. name \notin DOMAIN abi
      BY <2>1, <1>2 DEF Entries
    <2>9. DefinedBelow(abi, name) = DefinedBelow(abi, below)
      BY <2>3, <2>8, <1>2, BelowFacts DEF Derivable
    <2>10. Untangled(abi, types)
      BY DEF CInv
    <2>11. DefinedBelow(abi, name) \in DOMAIN abi => Known(types, DefinedBelow(abi, name))
      BY <2>7, <2>9, <2>10 DEF Untangled, Grounded, Known
    <2>12. \A n \in DOMAIN With(types, name, node) \ DOMAIN types :
              n = name /\ With(types, name, node)[n] = node
      BY DEF With
    <2>13. Untangled(abi, With(types, name, node))
      BY <1>2, <2>5, <2>6, <2>10, <2>11, <2>12, UntangledMore
    <2>14. QED
      BY <2>2, <2>13 DEF Return, CInv
  <1>5. QED
    BY <1>3, <1>4

LEMMA ResolveAliasUntangled ==
    ASSUME IInv, FInv, CInv, pc = "fill", ResolveAlias
    PROVE  CInv'
  <1> DEFINE name == Top.name
             node == Node("alias", returned, << >>)
             e    == abi[name].element
  <1>1. calls # << >> /\ Top.fn = "alias" /\ returned # << >>
    BY DEF ResolveAlias, Resumed
  <1>2. /\ name \in Names /\ Entries(abi, types) /\ DefsOwned(abi, types) /\ Table(types)
        /\ Pending(abi, types, Top) /\ Answers(abi, types, Top, returned)
        /\ Untangled(abi, types) /\ Definitions(abi)
    BY <1>1, TopFacts, TopFilled, AbiDefinitions DEF CInv
  <1>3. CASE types[returned].kind = "extension"
    <2>1. Throw("extension_typedef")
      BY <1>3 DEF ResolveAlias
    <2>2. QED
      BY <2>1 DEF Throw, CInv
  <1>4. CASE types[returned].kind # "extension"
    <2>1. Return(returned, With(types, name, node))
      BY <1>4 DEF ResolveAlias
    <2>2. name \in DOMAIN types /\ types[name].kind = "alias_def"
      BY <1>1, <1>2 DEF Pending, Resolving
    <2>3. node.kind = "alias" /\ node.element = returned
      BY DEF Node
    <2> HIDE DEF node
    <2>4. name \in DOMAIN abi /\ abi[name].kind = "alias_def"
      BY <1>2, <2>2, DefinedNames DEF DefKinds
    <2>5. e \in Names
      BY <2>4, <1>2 DEF Definitions, IsDefinition
    <2>6. Known(types, e) /\ returned = Leads(types, e)
      BY <1>1, <1>2 DEF Answers, Awaited, MemberCalls
    <2>7. Beyond(abi, name, DefinedBelow(abi, e))
      <3>1. DefinedBelow(abi, e) \in Follows(abi, name)
        BY <2>4 DEF Follows
      <3>2. QED
        BY <3>1, <2>4, BeyondNext
    <2>8. Beyond(abi, name, DefinedBelow(abi, returned))
      <3>1. CASE returned = e
        BY <3>1, <2>7
      <3>2. CASE returned # e
        <4>1. types[e].kind = "alias" /\ returned = types[e].element
          BY <2>6, <3>2 DEF Leads
        <4>2. AliasDone(abi, types, e, returned)
          BY <4>1, <2>6, <1>2 DEF Untangled, Aliased, Known
        <4>3. e \in DOMAIN abi /\ Beyond(abi, e, DefinedBelow(abi, returned))
          BY <4>2 DEF AliasDone
        <4>4. DefinedBelow(abi, e) = e
          BY <2>5, <4>3, BelowFacts
        <4>5. QED
          BY <2>7, <4>3, <4>4, BeyondBeyond
      <3>3. QED
        BY <3>1, <3>2
    <2>9. AliasDone(abi, types, name, returned)
      BY <2>4, <2>6, <2>8 DEF AliasDone
    <2>10. Apart(abi, With(types, name, node))
      BY <1>2, <2>2, <2>4, <2>6, ApartAlias DEF Untangled
    <2>11. Untangled(abi, With(types, name, node))
      BY <1>2, <2>2, <2>3, <2>4, <2>9, <2>10, UntangledResolved DEF Resolves, DefKinds
    <2>12. QED
      BY <2>1, <2>11 DEF Return, CInv
  <1>5. QED
    BY <1>3, <1>4

LEMMA ResolveMembersUntangled ==
    ASSUME IInv, FInv, CInv, pc = "fill", ResolveMembers
    PROVE  CInv'
  <1> DEFINE name == Top.name
             kind == IF Top.fn = "fields" THEN "struct" ELSE "variant"
             node == Node(kind, << >>, Gathered)
  <1>1. calls # << >> /\ Top.fn \in {"fields", "types"}
    BY DEF ResolveMembers
  <1>2. /\ name \in Names /\ Entries(abi, types) /\ DefsOwned(abi, types) /\ Table(types)
        /\ Pending(abi, types, Top) /\ Untangled(abi, types) /\ Definitions(abi)
    BY <1>1, TopFacts, TopFilled, AbiDefinitions DEF CInv
  <1>3. CASE Top.rest # << >>
    <2>1. UNCHANGED <<abi, types, pc>>
      BY <1>3 DEF ResolveMembers, Continue
    <2>2. QED
      BY <2>1 DEF CInv
  <1>4. CASE Top.rest = << >>
    <2>1. Return(name, With(types, name, node))
      BY <1>4 DEF ResolveMembers
    <2>2. node.kind = kind
      BY DEF Node
    <2> HIDE DEF node
    <2>3. Untangled(abi, With(types, name, node))
      <3>1. CASE Top.fn = "fields"
        <4>1. name \in DOMAIN types /\ types[name].kind = "struct_def" /\ name \in DOMAIN abi
          BY <1>1, <3>1, StructDefined DEF StructCalls
        <4>2. BaseDone(abi, types, abi[name].element)
          BY <1>1, <3>1, GatheredMembers DEF MemberCalls
        <4>3. Apart(abi, With(types, name, node))
          BY <1>2, <4>1, <4>2, ApartStruct DEF Untangled
        <4>4. QED
          BY <1>2, <2>2, <3>1, <4>1, <4>3, UntangledResolved DEF Resolves, DefKinds
      <3>2. CASE Top.fn = "types"
        <4>1. name \in DOMAIN types /\ types[name].kind = "variant_def"
          BY <1>2, <3>2 DEF Pending, Resolving
        <4>2. name \in DOMAIN abi
          BY <1>2, <4>1, DefinedNames DEF DefKinds
        <4>3. Apart(abi, With(types, name, node))
          BY <1>2, <4>1, <4>2, ApartVariant DEF Untangled
        <4>4. QED
          BY <1>2, <2>2, <3>2, <4>1, <4>2, <4>3, UntangledResolved DEF Resolves, DefKinds
      <3>3. QED
        BY <1>1, <3>1, <3>2
    <2>4. QED
      BY <2>1, <2>3 DEF Return, CInv
  <1>5. QED
    BY <1>3, <1>4

LEMMA EnterUntangled ==
    ASSUME IInv, Enter
    PROVE  CInv'
  <1>1. /\ pc = "enter" /\ pc' = "fill" /\ UNCHANGED abi
        /\ types' = [n \in DOMAIN types \cup DOMAIN abi |->
                       IF n \in DOMAIN abi THEN abi[n] ELSE types[n]]
    BY DEF Enter
  <1>2. types = BuiltinTypes /\ \A n \in DOMAIN abi : IsDefinition(abi[n])
    BY <1>1 DEF IInv
  <1>3. IInv' /\ FInv'
    BY EnterStep, EnterFlat
  <1>4. \A n \in DOMAIN types' : n \in Names
    BY <1>3 DEF IInv, Table
  <1>5. \A n \in DOMAIN abi : types'[n] = abi[n] /\ abi[n].kind \in DefKinds /\ n \in DOMAIN types'
    BY <1>1, <1>2 DEF IsDefinition
  <1>6. \A n \in DOMAIN types' \ DOMAIN abi :
           n \in Predefined /\ types'[n].kind \in {"builtin", "struct"}
    <2>1. DOMAIN BuiltinTypes = Predefined
      BY BuiltinTable
    <2>2. BuiltinTypes[ExtendedAsset].kind = "struct"
      BY DEF BuiltinTypes, With, Node
    <2>3. \A n \in Predefined : BuiltinTypes[n].kind \in {"builtin", "struct"}
      BY <2>1, <2>2, BuiltinKinds
    <2>4. QED
      BY <2>1, <2>3, <1>1, <1>2
  <1>7. Grounded(abi, types')
    <2>1. SUFFICES ASSUME NEW n \in DOMAIN types', Known(types', n)
                   PROVE  DefinedBelow(abi, n) = n
      BY DEF Grounded
    <2>2. n \in DOMAIN abi \/ Len(n) = 1
      BY <1>6, PlainNames
    <2>3. QED
      BY <1>4, <2>2, BelowFacts
  <1>8. Aliased(abi, types')
    <2>1. \A n \in DOMAIN types' : types'[n].kind # "alias"
      BY <1>5, <1>6 DEF DefKinds
    <2>2. QED
      BY <2>1 DEF Aliased
  <1>9. Apart(abi, types')
    <2>1. SUFFICES ASSUME NEW ring \in SUBSET DOMAIN abi, \A n \in ring : types'[n].kind \notin DefKinds,
                          IsCircle(abi, ring)
                   PROVE  FALSE
      BY DEF Apart
    <2>2. ring = {}
      BY <2>1, <1>5
    <2>3. QED
      BY <2>1, <2>2 DEF IsCircle
  <1>10. QED
    BY <1>1, <1>7, <1>8, <1>9 DEF CInv, Untangled

\* All definitions are resolved in the end.
LEMMA ConvertedUntangled ==
    ASSUME IInv, FInv, CInv, Converted
    PROVE  CInv'
  <1>1. pc = "fill" /\ pc' = "ready" /\ UNCHANGED <<abi, types>>
    BY DEF Converted
  <1>2. Entries(abi, types) /\ Apart(abi, types)
    BY <1>1 DEF FInv, CInv, Untangled
  <1>3. \A n \in DOMAIN types : types[n].kind \notin DefKinds
    <2>1. IInv'
      BY ConvertedStep
    <2>2. QED
      BY <1>1, <2>1 DEF IInv, Progress, NothingUnresolved
  <1>4. \A n \in DOMAIN abi : types[n].kind \notin DefKinds
    BY <1>2, <1>3 DEF Entries
  <1>5. ~Circular(abi)
    BY <1>2, <1>4 DEF Apart, Circular
  <1>6. QED
    BY <1>1, <1>5 DEF CInv

LEMMA SameUntangled ==
    ASSUME CInv, UNCHANGED <<abi, types>>, pc' \in {pc, "failed"}
    PROVE  CInv'
  BY DEF CInv

LEMMA ReadyUntangled ==
    ASSUME CInv, pc = "ready", UNCHANGED <<abi, pc>>
    PROVE  CInv'
  BY DEF CInv

LEMMA StepUntangled ==
    ASSUME IInv, FInv, CInv, [Next]_vars
    PROVE  CInv'
  <1>1. CASE UNCHANGED vars
    BY <1>1, SameUntangled DEF vars
  <1>2. CASE Enter
    BY <1>2, EnterUntangled
  <1>3. CASE Redefined \/ ConvertBack
    <2>1. pc' \in {"failed", "enter"}
      BY <1>3 DEF Redefined, ConvertBack
    <2>2. QED
      BY <2>1 DEF CInv
  <1>4. CASE Converted
    BY <1>4, ConvertedUntangled
  <1>5. CASE Fill \/ Request \/ AddCppType
    <2>1. UNCHANGED <<abi, types, pc>>
      BY <1>5 DEF Fill, Request, AddCppType, Ask
    <2>2. QED
      BY <2>1, SameUntangled
  <1>6. CASE Resolve \/ Add
    <2>1. calls # << >>
      BY <1>6 DEF Resolve, Add, GetType, Derived, ResolveAlias, ResolveStruct, ResolveBase,
         ResolveMembers, AddType, AddDerivedType, AddVariant, AddStruct, Entered, Resumed
    <2>2. pc \in {"fill", "ready"} /\ Top.fn \in Modes
      BY <2>1, TopFacts
    <2>3. CASE pc = "fill"
      <3>1. ~Add
        BY <2>2, <2>3 DEF Modes, Getting, Resolving, Add, AddType, AddDerivedType, AddVariant,
           AddStruct, Entered, Resumed
      <3>2. CASE GetType \/ ResolveStruct \/ ResolveBase
        <4>1. UNCHANGED <<abi, types>> /\ pc' \in {pc, "failed"}
          BY <2>3, <3>2 DEF GetType, GetDerived, ResolveStruct, ResolveBase, Inherit, ResolveFirst,
             Continue, Return, Throw
        <4>2. QED
          BY <4>1, SameUntangled
      <3>3. CASE Derived \/ ResolveAlias \/ ResolveMembers
        BY <2>3, <3>3, DerivedUntangled, ResolveAliasUntangled, ResolveMembersUntangled
      <3>4. QED
        BY <1>6, <3>1, <3>2, <3>3 DEF Resolve
    <2>4. CASE pc = "ready"
      <3>1. GetType \/ Derived \/ Add
        BY <1>6, <2>4, NothingResolves
      <3>2. UNCHANGED <<abi, pc>>
        BY <2>4, <3>1 DEF Add, GetType, GetDerived, Derived, AddType, AddDerivedType, AddVariant,
           AddStruct, Continue, Return, Throw
      <3>3. QED
        BY <2>4, <3>2, ReadyUntangled
    <2>5. QED
      BY <2>2, <2>3, <2>4
  <1>7. CASE Terminated
    BY <1>7, SameUntangled DEF Terminated, vars
  <1>8. QED
    BY <1>1, <1>2, <1>3, <1>4, <1>5, <1>6, <1>7 DEF Next

----------------------------------------------------------------------------
(***************************************************************************)
(* Counting.                                                               *)
(***************************************************************************)
LEMMA FiniteImage ==
    ASSUME NEW S, IsFiniteSet(S), NEW T, NEW f \in [S -> T], \A y \in T : \E x \in S : f[x] = y
    PROVE  IsFiniteSet(T)
  <1>1. f \in Surjection(S, T)
    BY DEF Surjection
  <1>2. QED
    BY <1>1, FS_Surjection

LEMMA NoMoreThan ==
    ASSUME NEW S, NEW T, IsFiniteSet(T), NEW f \in [S -> T],
           \A x, y \in S : f[x] = f[y] => x = y
    PROVE  IsFiniteSet(S) /\ Cardinality(S) <= Cardinality(T)
  <1>1. f \in Injection(S, T)
    BY DEF Injection, IsInjective
  <1>2. QED
    BY <1>1, FS_Injection

LEMMA FinitePrefixes ==
    ASSUME NEW name \in Names
    PROVE  IsFiniteSet(Prefixes(name))
  <1> DEFINE f == [k \in 1 .. Len(name) |-> SubSeq(name, 1, k)]
  <1>1. Len(name) \in Nat
    BY NameParts
  <1>2. IsFiniteSet(1 .. Len(name))
    BY <1>1, FS_Interval
  <1>3. f \in [1 .. Len(name) -> Prefixes(name)]
        /\ \A y \in Prefixes(name) : \E k \in 1 .. Len(name) : f[k] = y
    BY DEF Prefixes
  <1> HIDE DEF f
  <1>4. QED
    BY <1>2, <1>3, FiniteImage

LEMMA FiniteDefinitions ==
    ASSUME NEW a, NEW t, Entries(a, t), Table(t), Definitions(a)
    PROVE  IsFiniteSet(DOMAIN a)
  <1>1. IsFiniteSet(Definable)
    <2>1. Order \in Seq(Names) /\ Len(Order) \in Nat /\ DOMAIN Order = 1 .. Len(Order)
      BY AbiAssumption, LenProperties
    <2>2. IsFiniteSet(1 .. Len(Order))
      BY <2>1, FS_Interval
    <2> DEFINE f == [i \in 1 .. Len(Order) |-> Order[i]]
    <2>3. f \in [1 .. Len(Order) -> Definable] /\ \A y \in Definable : \E k \in 1 .. Len(Order) : f[k] = y
      BY <2>1 DEF Definable
    <2> HIDE DEF f
    <2>4. QED
      BY <2>2, <2>3, FiniteImage
  <1>2. IsFiniteSet(Definable \cup {ExtendedAsset})
    BY <1>1, FS_AddElement
  <1>3. ASSUME NEW n \in DOMAIN a
        PROVE  n \in Definable \cup {ExtendedAsset}
    <2>1. n \in DOMAIN t /\ Resolves(a[n].kind, t[n].kind) /\ a[n].kind \in DefKinds
      BY DEF Entries, Definitions, IsDefinition
    <2>2. t[n].kind \in NamedKinds
      BY <2>1 DEF Resolves, NamedKinds, DefKinds
    <2>3. QED
      BY <2>1, <2>2 DEF Table
  <1>4. DOMAIN a \in SUBSET (Definable \cup {ExtendedAsset})
    BY <1>3
  <1>5. QED
    BY <1>2, <1>4, FS_Subset

\* The names that the getters under way may have, if name is what they were asked for.
PartsOf(a, name) == Prefixes(name) \cup BelowAliases(a)

LEMMA FiniteParts ==
    ASSUME NEW a, IsFiniteSet(DOMAIN a), Definitions(a), NEW name \in Names
    PROVE  IsFiniteSet(PartsOf(a, name)) /\ IsFiniteSet(Extending(a))
  <1> DEFINE aliases == {m \in DOMAIN a : a[m].kind = "alias_def"}
             U == {Prefixes(a[n].element) : n \in aliases}
             f == [n \in aliases |-> Prefixes(a[n].element)]
  <1>1. IsFiniteSet(aliases)
    <2>1. aliases \in SUBSET DOMAIN a
      OBVIOUS
    <2>2. QED
      BY <2>1, FS_Subset
  <1>2. \A n \in aliases : a[n].element \in Names
    BY DEF Definitions, IsDefinition
  <1>3. BelowAliases(a) = UNION U
    BY DEF BelowAliases
  <1>4. f \in [aliases -> U] /\ \A y \in U : \E n \in aliases : f[n] = y
    OBVIOUS
  <1>5. \A T \in U : IsFiniteSet(T)
    BY <1>2, FinitePrefixes
  <1>6. IsFiniteSet(U)
    <2> HIDE DEF f, U, aliases
    <2>1. QED
      BY <1>1, <1>4, FiniteImage
  <1>7. IsFiniteSet(UNION U)
    <2> HIDE DEF U
    <2>1. QED
      BY <1>5, <1>6, FS_UNION
  <1>8. IsFiniteSet(PartsOf(a, name))
    <2>1. IsFiniteSet(Prefixes(name))
      BY FinitePrefixes
    <2>2. QED
      BY <2>1, <1>3, <1>7, FS_Union DEF PartsOf
  <1>9. IsFiniteSet(Extending(a))
    <2>1. Extending(a) \in SUBSET DOMAIN a
      BY DEF Extending
    <2>2. QED
      BY <2>1, FS_Subset
  <1>10. QED
    BY <1>8, <1>9

LEMMA MentionedNames ==
    ASSUME NEW a, Definitions(a)
    PROVE  Mentioned(a) \subseteq Names
  <1>1. ASSUME NEW n \in DOMAIN a
        PROVE  /\ a[n].element \in Names \cup {<< >>}
               /\ \A i \in DOMAIN a[n].fields : a[n].fields[i] \in Names
    BY DEF Definitions, IsDefinition
  <1>2. QED
    BY <1>1 DEF Mentioned

LEMMA ElementMentioned ==
    ASSUME NEW a, NEW n \in DOMAIN a, a[n].element # << >>
    PROVE  a[n].element \in Mentioned(a)
  BY DEF Mentioned

LEMMA FieldsMentioned ==
    ASSUME NEW a, NEW n \in DOMAIN a, NEW i \in DOMAIN a[n].fields
    PROVE  a[n].fields[i] \in Mentioned(a)
  BY DEF Mentioned

LEMMA OwnPart ==
    ASSUME NEW name \in Names
    PROVE  name \in Prefixes(name)
  <1>1. Len(name) \in 1 .. Len(name) /\ Part(name, Len(name)) = name
    <2>1. Len(name) \in Nat /\ Len(name) > 0
      BY NameParts
    <2>2. Len(name) \in 1 .. Len(name)
      BY <2>1
    <2>3. QED
      BY <2>2, PartFacts
  <1>2. QED
    BY <1>1 DEF Prefixes, Part

LEMMA AliasPart ==
    ASSUME NEW a, Definitions(a), NEW n \in DOMAIN a, a[n].kind = "alias_def"
    PROVE  a[n].element \in BelowAliases(a)
  <1>1. a[n].element \in Prefixes(a[n].element)
    BY OwnPart DEF Definitions, IsDefinition
  <1>2. QED
    BY <1>1 DEF BelowAliases

\* The part of a part is a part.
LEMMA ShorterPrefix ==
    ASSUME NEW e \in Names, NEW x \in Prefixes(e), Len(x) > 1
    PROVE  SubSeq(x, 1, Len(x) - 1) \in Prefixes(e)
  <1>1. PICK k \in 1 .. Len(e) : x = Part(e, k)
    BY DEF Prefixes, Part
  <1>2. Len(x) = k /\ \A m \in 1 .. k : Part(x, m) = Part(e, m)
    BY <1>1, PartFacts
  <1>3. Len(e) \in Nat
    BY NameParts
  <1>4. k - 1 \in 1 .. k /\ k - 1 \in 1 .. Len(e)
    BY <1>2, <1>3
  <1>5. Part(x, Len(x) - 1) = Part(e, k - 1)
    BY <1>2, <1>4
  <1>6. QED
    BY <1>4, <1>5 DEF Prefixes, Part

LEMMA ShorterPart ==
    ASSUME NEW a, Definitions(a), NEW name \in Names, NEW x \in PartsOf(a, name), Len(x) > 1
    PROVE  SubSeq(x, 1, Len(x) - 1) \in PartsOf(a, name)
  <1>1. CASE x \in Prefixes(name)
    BY <1>1, ShorterPrefix DEF PartsOf
  <1>2. CASE x \in BelowAliases(a)
    <2>1. PICK n \in DOMAIN a : a[n].kind = "alias_def" /\ x \in Prefixes(a[n].element)
      BY <1>2 DEF BelowAliases
    <2>2. a[n].element \in Names
      BY <2>1 DEF Definitions, IsDefinition
    <2>3. SubSeq(x, 1, Len(x) - 1) \in Prefixes(a[n].element)
      BY <2>1, <2>2, ShorterPrefix
    <2>4. QED
      BY <2>1, <2>3 DEF PartsOf, BelowAliases
  <1>3. QED
    BY <1>1, <1>2 DEF PartsOf

----------------------------------------------------------------------------
(***************************************************************************)
(* The calls under way follow the definitions: a struct's call is beyond   *)
(* those below it, and so is a getter's, unless it takes the same name     *)
(* apart.  Then the calls all have different names, or there is a circle.  *)
(***************************************************************************)
Under(a, n, m) ==
    \/ DefinedBelow(a, n) = DefinedBelow(a, m) /\ Len(m) < Len(n)
    \/ Beyond(a, DefinedBelow(a, n), DefinedBelow(a, m))

Onward(a, f, g) ==
    /\ f.fn \in StructCalls /\ g.fn \in StructCalls => Beyond(a, f.name, g.name)
    /\ f.fn \in GetCalls /\ g.fn \in GetCalls => Under(a, f.name, g.name)

\* What the getters above the first call were asked for.
OfOneName(a, c, name) ==
    \A i \in 2 .. Len(c) : c[i].fn \in GetCalls => c[i].name \in PartsOf(a, name)

RestMentioned(a, f) == \A k \in DOMAIN f.rest : f.rest[k] \in Mentioned(a)

Way(a, c) ==
    /\ \A i \in DOMAIN c : c[i].depth = i - 1
    /\ \A i \in DOMAIN c : c[i].fn = "types" => i = 1
    /\ \A j \in DOMAIN c : \A i \in 1 .. j - 1 : Onward(a, c[i], c[j])
    /\ \A i \in DOMAIN c : RestMentioned(a, c[i])
    /\ Len(c) > 1 => \E name \in Mentioned(a) : OfOneName(a, c, name)

LEMMA UnderUnder ==
    ASSUME NEW a, NEW n \in Names, NEW m \in Names, NEW l \in Names, Under(a, n, m), Under(a, m, l)
    PROVE  Under(a, n, l)
  <1> DEFINE x == Len(n)
             y == Len(m)
             z == Len(l)
  <1>1. x \in Nat /\ y \in Nat /\ z \in Nat
    BY NameParts
  <1>2. z < y /\ y < x => z < x
    <2> HIDE DEF x, y, z
    <2>1. QED
      BY <1>1
  <1>3. QED
    BY <1>2, BeyondBeyond DEF Under

\* A name that leads on to itself is on a circle.
LEMMA UnderItself ==
    ASSUME NEW a, Definitions(a), NEW n \in Names, Under(a, n, n)
    PROVE  Circular(a)
  <1>1. Len(n) \in Nat
    BY NameParts
  <1>2. ~(Len(n) < Len(n))
    BY <1>1
  <1>3. Beyond(a, DefinedBelow(a, n), DefinedBelow(a, n))
    BY <1>2 DEF Under
  <1>4. QED
    BY <1>3, BackIsCircular

\* What stands in a stack of calls.
LEMMA StackFacts ==
    ASSUME NEW a, NEW t, NEW c \in Seq(Calls), NEW r, Filled(a, t, c, r), Entries(a, t), Table(t),
           \A i \in DOMAIN c : c[i].fn \in Getting \cup Resolving
    PROVE  /\ \A i \in DOMAIN c : c[i].name \in Names
           /\ \A i \in DOMAIN c : c[i].fn \in GetCalls \cup StructCalls \cup {"types"}
           /\ \A i \in DOMAIN c : c[i].fn = "base" => c[i].name \in Extending(a)
           /\ \A j \in DOMAIN c : c[j].fn \notin GetCalls => \A i \in 1 .. j - 1 : c[i].fn = "base"
  <1>1. \A i \in DOMAIN c : c[i] \in Calls
    OBVIOUS
  <1>2. \A i \in DOMAIN c : c[i].name \in Names
    BY <1>1 DEF Calls
  <1>3. \A i \in DOMAIN c : c[i].fn \in GetCalls \cup StructCalls \cup {"types"}
    BY DEF GetCalls, Getting, Resolving, StructCalls
  <1>4. ASSUME NEW i \in DOMAIN c, c[i].fn = "base"
        PROVE  c[i].name \in Extending(a)
    <2>1. Pending(a, t, c[i])
      BY DEF Filled
    <2>2. /\ c[i].name \in DOMAIN t /\ t[c[i].name].kind = "struct_def"
          /\ a[c[i].name].element # << >>
      BY <1>4, <2>1 DEF Pending, Resolving, StructCalls
    <2>3. c[i].name \in DOMAIN a /\ t[c[i].name] = a[c[i].name]
      BY <2>2, DefinedNames DEF Filled, DefKinds
    <2>4. QED
      BY <2>2, <2>3 DEF Extending
  <1>5. ASSUME NEW j \in DOMAIN c, c[j].fn \notin GetCalls, NEW i \in 1 .. j - 1
        PROVE  c[i].fn = "base"
    BY <1>3, <1>5 DEF Filled
  <1>6. QED
    BY <1>2, <1>3, <1>4, <1>5

\* Fewer calls than MaxDepth allows, if the ABI is small.
LEMMA FewCalls ==
    ASSUME NEW a, NEW t, NEW c \in Seq(Calls), NEW r, Filled(a, t, c, r), Entries(a, t), Table(t),
           \A i \in DOMAIN c : c[i].fn \in Getting \cup Resolving, Definitions(a), Way(a, c),
           NEW name \in Mentioned(a), OfOneName(a, c, name), ~Circular(a)
    PROVE  /\ Cardinality(Extending(a)) \in Nat /\ Cardinality(PartsOf(a, name)) \in Nat
           /\ Len(c) <= Cardinality(Extending(a)) + 1 + Cardinality(PartsOf(a, name))
  <1> DEFINE n == Len(c)
             B == {i \in 1 .. n : c[i].fn = "base"}
             G == {i \in 2 .. n : c[i].fn \in GetCalls}
             R == (1 .. n) \ (B \cup G)
             fb == [i \in B |-> c[i].name]
             fg == [i \in G |-> c[i].name]
  <1>1. n \in Nat /\ DOMAIN c = 1 .. n
    BY LenProperties
  <1>2. /\ \A i \in 1 .. n : c[i].name \in Names
        /\ \A i \in 1 .. n : c[i].fn \in GetCalls \cup StructCalls \cup {"types"}
        /\ \A i \in 1 .. n : c[i].fn = "base" => c[i].name \in Extending(a)
        /\ \A j \in 1 .. n : c[j].fn \notin GetCalls => \A i \in 1 .. j - 1 : c[i].fn = "base"
    BY <1>1, StackFacts
  <1>3. \A j \in 1 .. n : \A i \in 1 .. j - 1 : Onward(a, c[i], c[j])
    BY <1>1 DEF Way
  <1>4. IsFiniteSet(Extending(a)) /\ IsFiniteSet(PartsOf(a, name))
    BY FiniteDefinitions, FiniteParts, MentionedNames
  <1>5. ASSUME NEW i \in 1 .. n, NEW j \in 1 .. n, i < j
        PROVE  /\ c[i].fn = "base" /\ c[j].fn = "base" => c[i].name # c[j].name
               /\ c[i].fn \in GetCalls /\ c[j].fn \in GetCalls => c[i].name # c[j].name
    <2>1. i \in 1 .. j - 1
      BY <1>1, <1>5
    <2>2. Onward(a, c[i], c[j])
      BY <2>1, <1>3
    <2>3. QED
      BY <2>2, <1>2, BackIsCircular, UnderItself DEF Onward, StructCalls
  <1>6. \A i, j \in 1 .. n : i = j \/ i < j \/ j < i
    BY <1>1
  <1>7. fb \in [B -> Extending(a)] /\ \A x, y \in B : fb[x] = fb[y] => x = y
    BY <1>2, <1>5, <1>6
  <1>8. fg \in [G -> PartsOf(a, name)] /\ \A x, y \in G : fg[x] = fg[y] => x = y
    <2>1. G \subseteq 1 .. n
      BY <1>1
    <2>2. \A i \in G : c[i].name \in PartsOf(a, name)
      BY DEF OfOneName
    <2>3. \A x, y \in G : c[x].name = c[y].name => x = y
      BY <2>1, <1>5, <1>6
    <2>4. QED
      BY <2>2, <2>3
  <1>9. IsFiniteSet(R) /\ Cardinality(R) <= 1 /\ Cardinality(R) \in Nat
    <2>1. ASSUME NEW i \in R, NEW j \in R, i < j
          PROVE  FALSE
      <3>1. i \in 1 .. j - 1 /\ j \in 2 .. n /\ c[i].fn # "base"
        BY <1>1, <2>1
      <3>2. c[j].fn \notin GetCalls
        BY <3>1
      <3>3. QED
        BY <3>1, <3>2, <1>2
    <2>2. \A i, j \in R : i = j
      BY <2>1, <1>6
    <2> HIDE DEF R
    <2>3. CASE R = {}
      <3>1. IsFiniteSet({}) /\ Cardinality({}) = 0
        BY FS_EmptySet
      <3>2. QED
        BY <2>3, <3>1
    <2>4. CASE R # {}
      <3>1. PICK i \in R : R = {i}
        BY <2>2, <2>4
      <3>2. IsFiniteSet({i}) /\ Cardinality({i}) = 1
        BY FS_Singleton
      <3>3. QED
        BY <3>1, <3>2
    <2>5. QED
      BY <2>3, <2>4
  <1>10. 1 .. n = (B \cup G) \cup R
    BY <1>1
  <1>11. Cardinality(1 .. n) = n
    BY <1>1, FS_Interval, SMTT(60)
  <1> HIDE DEF B, G, R, fb, fg, n
  <1>12. /\ IsFiniteSet(B) /\ Cardinality(B) <= Cardinality(Extending(a))
         /\ IsFiniteSet(G) /\ Cardinality(G) <= Cardinality(PartsOf(a, name))
    BY <1>4, <1>7, <1>8, NoMoreThan
  <1> DEFINE b == Cardinality(B)
             g == Cardinality(G)
             r1 == Cardinality(R)
             bg == Cardinality(B \cup G)
             all == Cardinality((B \cup G) \cup R)
             e == Cardinality(Extending(a))
             p == Cardinality(PartsOf(a, name))
             x1 == Cardinality(B \cap G)
             x2 == Cardinality((B \cup G) \cap R)
  <1>13. b \in Nat /\ g \in Nat /\ r1 \in Nat /\ e \in Nat /\ p \in Nat
    BY <1>4, <1>9, <1>12, FS_CardinalityType
  <1>14. IsFiniteSet(B \cup G) /\ bg = b + g - x1 /\ all = bg + r1 - x2
    BY <1>9, <1>12, FS_Union
  <1>15. x1 \in Nat /\ x2 \in Nat /\ bg \in Nat
    <2>1. IsFiniteSet(B \cap G) /\ IsFiniteSet((B \cup G) \cap R)
      BY <1>12, <1>14, FS_Subset
    <2>2. QED
      BY <2>1, <1>14, FS_CardinalityType
  <1>16. all = n
    BY <1>10, <1>11
  <1>17. b <= e /\ g <= p /\ r1 <= 1
    BY <1>9, <1>12
  <1> HIDE DEF b, g, r1, bg, all, e, p, x1, x2
  <1>18. n <= e + 1 + p
    BY ONLY <1>13, <1>14, <1>15, <1>16, <1>17
  <1>19. QED
    BY <1>13, <1>18 DEF e, p, n

----------------------------------------------------------------------------
\* The stack after a step of the innermost call.
LEMMA GoStack ==
    ASSUME calls \in Seq(Calls), calls # << >>, NEW f \in Calls, NEW t2, Continue(<<f>>, t2)
    PROVE  /\ calls' \in Seq(Calls) /\ Len(calls') = Len(calls)
           /\ \A i \in 1 .. Len(calls) - 1 : calls'[i] = calls[i]
           /\ calls'[Len(calls)] = f
  <1> DEFINE c2 == calls'
             b  == Below
             fr == <<f>>
  <1>1. /\ Len(calls) \in Nat /\ Len(calls) > 0 /\ b \in Seq(Calls) /\ Len(b) = Len(calls) - 1
        /\ \A i \in 1 .. Len(calls) - 1 : b[i] = calls[i]
    BY CallFacts
  <1>2. fr \in Seq(Calls) /\ Len(fr) = 1 /\ fr[1] = f
    BY OneFacts
  <1>3. c2 = b \o fr
    BY DEF Continue
  <1> HIDE DEF c2, b, fr
  <1>4. /\ c2 \in Seq(Calls) /\ Len(c2) = Len(b) + Len(fr)
        /\ \A i \in 1 .. Len(b) : c2[i] = b[i]
        /\ \A i \in 1 .. Len(fr) : c2[Len(b) + i] = fr[i]
    <2>1. b \in Seq(Calls) /\ fr \in Seq(Calls)
      BY <1>1, <1>2
    <2>2. /\ b \o fr \in Seq(Calls) /\ Len(b \o fr) = Len(b) + Len(fr)
          /\ \A i \in 1 .. Len(b) : (b \o fr)[i] = b[i]
          /\ \A i \in 1 .. Len(fr) : (b \o fr)[Len(b) + i] = fr[i]
      BY ONLY <2>1, JoinFacts
    <2>3. QED
      BY <2>2, <1>3
  <1>5. 1 \in 1 .. Len(fr) /\ Len(b) + 1 = Len(calls)
    BY <1>1, <1>2
  <1>6. c2[Len(calls)] = f
    BY <1>2, <1>4, <1>5
  <1>7. Len(c2) = Len(calls) /\ \A i \in 1 .. Len(calls) - 1 : c2[i] = calls[i]
    BY <1>1, <1>2, <1>4
  <1>8. QED
    BY <1>4, <1>6, <1>7 DEF c2

LEMMA CallStack ==
    ASSUME calls \in Seq(Calls), calls # << >>, NEW f \in Calls, NEW g \in Calls, NEW t2,
           Continue(<<f, g>>, t2)
    PROVE  /\ calls' \in Seq(Calls) /\ Len(calls') = Len(calls) + 1
           /\ \A i \in 1 .. Len(calls) - 1 : calls'[i] = calls[i]
           /\ calls'[Len(calls)] = f /\ calls'[Len(calls) + 1] = g
  <1> DEFINE c2 == calls'
             b  == Below
             fr == <<f, g>>
  <1>1. /\ Len(calls) \in Nat /\ Len(calls) > 0 /\ b \in Seq(Calls) /\ Len(b) = Len(calls) - 1
        /\ \A i \in 1 .. Len(calls) - 1 : b[i] = calls[i]
    BY CallFacts
  <1>2. fr \in Seq(Calls) /\ Len(fr) = 2 /\ fr[1] = f /\ fr[2] = g
    BY PairFacts
  <1>3. c2 = b \o fr
    BY DEF Continue
  <1> HIDE DEF c2, b, fr
  <1>4. /\ c2 \in Seq(Calls) /\ Len(c2) = Len(b) + Len(fr)
        /\ \A i \in 1 .. Len(b) : c2[i] = b[i]
        /\ \A i \in 1 .. Len(fr) : c2[Len(b) + i] = fr[i]
    BY <1>1, <1>2, <1>3, JoinFacts, SMTT(60)
  <1>5. /\ 1 \in 1 .. Len(fr) /\ 2 \in 1 .. Len(fr) /\ Len(b) + 1 = Len(calls)
        /\ Len(b) + 2 = Len(calls) + 1
    BY <1>1, <1>2
  <1>6. c2[Len(calls)] = f /\ c2[Len(calls) + 1] = g
    BY <1>2, <1>4, <1>5
  <1>7. Len(c2) = Len(calls) + 1 /\ \A i \in 1 .. Len(calls) - 1 : c2[i] = calls[i]
    BY <1>1, <1>2, <1>4
  <1>8. QED
    BY <1>4, <1>6, <1>7 DEF c2

\* The innermost call goes on as f.
LEMMA GoWay ==
    ASSUME NEW a, NEW c \in Seq(Calls), c # << >>, Way(a, c),
           NEW c2 \in Seq(Calls), Len(c2) = Len(c), \A i \in 1 .. Len(c) - 1 : c2[i] = c[i],
           NEW f, c2[Len(c)] = f, f.name = c[Len(c)].name, f.depth = c[Len(c)].depth,
           f.fn \in GetCalls => c[Len(c)].fn \in GetCalls,
           f.fn \in StructCalls => c[Len(c)].fn \in StructCalls,
           f.fn = "types" => c[Len(c)].fn = "types", RestMentioned(a, f)
    PROVE  Way(a, c2)
  <1> DEFINE n == Len(c)
  <1>1. n \in Nat /\ n > 0 /\ DOMAIN c = 1 .. n /\ DOMAIN c2 = 1 .. n
    BY EmptySeq, LenProperties
  <1>2. /\ \A i \in 1 .. n : c[i].depth = i - 1
        /\ \A i \in 1 .. n : c[i].fn = "types" => i = 1
        /\ \A j \in 1 .. n : \A i \in 1 .. j - 1 : Onward(a, c[i], c[j])
        /\ \A i \in 1 .. n : RestMentioned(a, c[i])
        /\ n > 1 => \E name \in Mentioned(a) : OfOneName(a, c, name)
    BY <1>1 DEF Way
  <1>3. /\ Len(c2) = n /\ c2[n] = f /\ f.name = c[n].name /\ f.depth = c[n].depth
        /\ f.fn \in GetCalls => c[n].fn \in GetCalls
        /\ f.fn \in StructCalls => c[n].fn \in StructCalls
        /\ f.fn = "types" => c[n].fn = "types"
        /\ \A i \in 1 .. n - 1 : c2[i] = c[i]
    OBVIOUS
  <1> HIDE DEF n
  <1>4. \A i \in 1 .. n : i = n \/ i \in 1 .. n - 1
    BY <1>1
  <1>5. \A i \in 1 .. n :
           /\ c2[i].name = c[i].name /\ c2[i].depth = c[i].depth /\ RestMentioned(a, c2[i])
           /\ c2[i].fn \in GetCalls => c[i].fn \in GetCalls
           /\ c2[i].fn \in StructCalls => c[i].fn \in StructCalls
           /\ c2[i].fn = "types" => c[i].fn = "types"
    BY <1>2, <1>3, <1>4
  <1>6. ASSUME NEW j \in 1 .. n, NEW i \in 1 .. j - 1
        PROVE  Onward(a, c2[i], c2[j])
    <2>1. i \in 1 .. n
      BY <1>1
    <2>2. QED
      BY <2>1, <1>2, <1>5 DEF Onward
  <1>7. \A name : OfOneName(a, c, name) => OfOneName(a, c2, name)
    <2>1. \A i \in 2 .. n : i \in 1 .. n
      BY <1>1
    <2>2. QED
      BY <2>1, <1>3, <1>5 DEF OfOneName, n
  <1>8. QED
    BY <1>1, <1>2, <1>3, <1>5, <1>6, <1>7 DEF Way

\* The innermost call goes on as f and calls g.
LEMMA CallWay ==
    ASSUME NEW a, NEW c \in Seq(Calls), c # << >>, Way(a, c),
           \A i \in DOMAIN c : c[i].name \in Names,
           \A j \in DOMAIN c : c[j].fn \notin GetCalls => \A i \in 1 .. j - 1 : c[i].fn = "base",
           NEW c2 \in Seq(Calls), Len(c2) = Len(c) + 1, \A i \in 1 .. Len(c) - 1 : c2[i] = c[i],
           NEW f, c2[Len(c)] = f, NEW g \in Calls, c2[Len(c) + 1] = g,
           f.name = c[Len(c)].name, f.depth = c[Len(c)].depth,
           f.fn \in GetCalls <=> c[Len(c)].fn \in GetCalls,
           f.fn \in StructCalls => c[Len(c)].fn \in StructCalls,
           f.fn = "types" => c[Len(c)].fn = "types", RestMentioned(a, f),
           g.depth = f.depth + 1, g.fn \in GetCalls \/ (g.fn = "struct" /\ f.fn = "base"),
           Onward(a, f, g), RestMentioned(a, g),
           NEW name \in Mentioned(a), f.fn \in GetCalls => OfOneName(a, c, name),
           g.fn \in GetCalls => g.name \in PartsOf(a, name)
    PROVE  Way(a, c2)
  <1> DEFINE n == Len(c)
  <1>1. n \in Nat /\ n > 0 /\ DOMAIN c = 1 .. n /\ DOMAIN c2 = 1 .. n + 1
    BY EmptySeq, LenProperties
  <1>2. /\ \A i \in 1 .. n : c[i].depth = i - 1
        /\ \A i \in 1 .. n : c[i].fn = "types" => i = 1
        /\ \A j \in 1 .. n : \A i \in 1 .. j - 1 : Onward(a, c[i], c[j])
        /\ \A i \in 1 .. n : RestMentioned(a, c[i])
    BY <1>1 DEF Way
  <1>3. /\ Len(c2) = n + 1 /\ c2[n] = f /\ c2[n + 1] = g
        /\ f.name = c[n].name /\ f.depth = c[n].depth
        /\ f.fn \in GetCalls <=> c[n].fn \in GetCalls
        /\ f.fn \in StructCalls => c[n].fn \in StructCalls
        /\ f.fn = "types" => c[n].fn = "types"
        /\ \A i \in 1 .. n - 1 : c2[i] = c[i]
        /\ \A i \in 1 .. n : c[i].name \in Names
        /\ \A j \in 1 .. n : c[j].fn \notin GetCalls => \A i \in 1 .. j - 1 : c[i].fn = "base"
    BY <1>1
  <1> HIDE DEF n
  <1>4. /\ \A i \in 1 .. n : i = n \/ i \in 1 .. n - 1
        /\ \A i \in 1 .. n + 1 : i = n + 1 \/ i \in 1 .. n
        /\ n \in 1 .. n
    BY <1>1
  <1>5. \A i \in 1 .. n :
           /\ c2[i].name = c[i].name /\ c2[i].depth = c[i].depth /\ RestMentioned(a, c2[i])
           /\ c2[i].fn \in GetCalls => c[i].fn \in GetCalls
           /\ c2[i].fn \in StructCalls => c[i].fn \in StructCalls
           /\ c2[i].fn = "types" => c[i].fn = "types"
    BY <1>2, <1>3, <1>4
  <1>6. ASSUME NEW j \in 1 .. n, NEW i \in 1 .. j - 1
        PROVE  Onward(a, c2[i], c2[j])
    <2>1. i \in 1 .. n
      BY <1>1
    <2>2. QED
      BY <2>1, <1>2, <1>5 DEF Onward
  <1>7. ASSUME NEW i \in 1 .. n
        PROVE  Onward(a, c2[i], g)
    <2>1. CASE i = n
      BY <2>1, <1>3
    <2>2. CASE i \in 1 .. n - 1
      <3>1. Onward(a, c[i], c[n]) /\ c2[i] = c[i]
        BY <2>2, <1>2, <1>3, <1>4
      <3>2. ASSUME c[i].fn \in StructCalls, g.fn \in StructCalls
            PROVE  Beyond(a, c[i].name, g.name)
        <4>1. f.fn = "base"
          BY <3>2 DEF StructCalls, GetCalls, Getting
        <4>2. f.fn \in StructCalls /\ c[n].fn \in StructCalls
          BY <4>1, <1>3 DEF StructCalls
        <4>3. QED
          BY <3>1, <3>2, <4>2, <1>3, BeyondBeyond DEF Onward
      <3>3. ASSUME c[i].fn \in GetCalls, g.fn \in GetCalls
            PROVE  Under(a, c[i].name, g.name)
        <4>1. c[i].fn # "base"
          BY <3>3 DEF GetCalls, Getting
        <4>2. c[n].fn \in GetCalls
          BY <4>1, <2>2, <1>3, <1>4
        <4>3. Under(a, c[i].name, f.name) /\ Under(a, f.name, g.name)
          BY <3>1, <3>3, <4>2, <1>3 DEF Onward
        <4>4. c[i].name \in Names /\ f.name \in Names /\ g.name \in Names
          BY <1>3, <1>4 DEF Calls
        <4>5. QED
          BY <4>3, <4>4, UnderUnder
      <3>4. QED
        BY <3>1, <3>2, <3>3 DEF Onward
    <2>3. QED
      BY <2>1, <2>2, <1>4
  <1>8. \A j \in 1 .. n + 1 : \A i \in 1 .. j - 1 : Onward(a, c2[i], c2[j])
    <2>1. SUFFICES ASSUME NEW j \in 1 .. n + 1, NEW i \in 1 .. j - 1
                   PROVE  Onward(a, c2[i], c2[j])
      OBVIOUS
    <2>2. CASE j \in 1 .. n
      BY <2>2, <1>6
    <2>3. CASE j = n + 1
      <3>1. i \in 1 .. n
        BY <2>3, <1>1
      <3>2. QED
        BY <3>1, <2>3, <1>3, <1>7
    <2>4. QED
      BY <2>2, <2>3, <1>4
  <1>9. \A i \in 1 .. n + 1 : c2[i].depth = i - 1
    <2>1. c2[n + 1].depth = (n - 1) + 1
      BY <1>2, <1>3, <1>4
    <2>2. (n - 1) + 1 = (n + 1) - 1
      BY <1>1
    <2>3. QED
      BY <2>1, <2>2, <1>2, <1>4, <1>5
  <1>10. \A i \in 1 .. n + 1 : c2[i].fn = "types" => i = 1
    <2>1. g.fn # "types"
      BY DEF GetCalls, Getting
    <2>2. QED
      BY <2>1, <1>2, <1>3, <1>4, <1>5
  <1>11. \A i \in 1 .. n + 1 : RestMentioned(a, c2[i])
    BY <1>3, <1>4, <1>5
  <1>12. OfOneName(a, c2, name)
    <2>1. SUFFICES ASSUME NEW i \in 2 .. n + 1, c2[i].fn \in GetCalls
                   PROVE  c2[i].name \in PartsOf(a, name)
      BY <1>3 DEF OfOneName
    <2>2. CASE i = n + 1
      BY <2>1, <2>2, <1>3
    <2>3. CASE i \in 2 .. n
      <3>1. i \in 1 .. n /\ c[i].fn \in GetCalls /\ c2[i].name = c[i].name
        BY <2>1, <2>3, <1>1, <1>5
      <3>2. c[n].fn \in GetCalls
        <4>1. c[i].fn # "base"
          BY <3>1 DEF GetCalls, Getting
        <4>2. QED
          BY <4>1, <3>1, <1>3, <1>4
      <3>3. OfOneName(a, c, name)
        BY <3>2, <1>3
      <3>4. QED
        BY <3>1, <3>3, <2>3 DEF OfOneName, n
    <2>4. QED
      BY <2>2, <2>3, <1>1
  <1>13. QED
    BY <1>1, <1>8, <1>9, <1>10, <1>11, <1>12 DEF Way

\* The innermost call returns.
LEMMA ReturnWay ==
    ASSUME NEW a, NEW c \in Seq(Calls), c # << >>, Way(a, c),
           NEW c2 \in Seq(Calls), Len(c2) = Len(c) - 1, \A i \in 1 .. Len(c) - 1 : c2[i] = c[i]
    PROVE  Way(a, c2)
  <1> DEFINE n == Len(c)
  <1>1. /\ n \in Nat /\ n > 0 /\ DOMAIN c = 1 .. n /\ DOMAIN c2 = 1 .. n - 1
        /\ Len(c2) = n - 1 /\ \A i \in 1 .. n - 1 : c2[i] = c[i]
    BY EmptySeq, LenProperties
  <1>2. /\ \A i \in 1 .. n : c[i].depth = i - 1
        /\ \A i \in 1 .. n : c[i].fn = "types" => i = 1
        /\ \A j \in 1 .. n : \A i \in 1 .. j - 1 : Onward(a, c[i], c[j])
        /\ \A i \in 1 .. n : RestMentioned(a, c[i])
        /\ n > 1 => \E name \in Mentioned(a) : OfOneName(a, c, name)
    BY <1>1 DEF Way
  <1>3. \A name : OfOneName(a, c, name) => OfOneName(a, c2, name)
    BY <1>1 DEF OfOneName
  <1> HIDE DEF n
  <1>4. \A i \in 1 .. n - 1 : i \in 1 .. n /\ \A k \in 1 .. i - 1 : k \in 1 .. n - 1
    BY <1>1
  <1>5. n - 1 > 1 => n > 1
    BY <1>1
  <1>6. /\ \A i \in DOMAIN c2 : c2[i].depth = i - 1
        /\ \A i \in DOMAIN c2 : c2[i].fn = "types" => i = 1
        /\ \A j \in DOMAIN c2 : \A i \in 1 .. j - 1 : Onward(a, c2[i], c2[j])
        /\ \A i \in DOMAIN c2 : RestMentioned(a, c2[i])
    BY <1>1, <1>2, <1>4, SMTT(60)
  <1>7. Len(c2) > 1 => \E name \in Mentioned(a) : OfOneName(a, c2, name)
    BY <1>1, <1>2, <1>3, <1>5
  <1>8. QED
    BY <1>6, <1>7 DEF Way

\* The calls of a stack whose innermost call went on are those it had and the new ones.
LEMMA NewCalls ==
    ASSUME IInv, calls # << >>, NEW f, NEW g, calls' \in {Below \o <<f, g>>, Below \o <<f>>, Below}
    PROVE  \A i \in DOMAIN calls' :
              calls'[i] = f \/ calls'[i] = g \/ (\E k \in DOMAIN calls : calls'[i] = calls[k])
  <1> DEFINE c == calls'
             b == Below
             S == Calls \cup {f, g}
  <1>1. calls \in Seq(Calls)
    BY DEF IInv, CallsOK
  <1>2. /\ Len(calls) \in Nat /\ Len(calls) > 0 /\ DOMAIN calls = 1 .. Len(calls)
        /\ b \in Seq(Calls) /\ Len(b) = Len(calls) - 1 /\ \A i \in 1 .. Len(calls) - 1 : b[i] = calls[i]
    <2>1. calls # << >>
      OBVIOUS
    <2>2. QED
      BY <1>1, <2>1, CallFacts, Zenon
  <1>3. b \in Seq(S)
    <2>1. Seq(Calls) \subseteq Seq(S)
      OBVIOUS
    <2>2. QED
      BY <2>1, <1>2
  <1>4. c \in {b \o <<f, g>>, b \o <<f>>, b}
    OBVIOUS
  <1>5. /\ <<f, g>> \in Seq(S) /\ Len(<<f, g>>) = 2 /\ <<f, g>>[1] = f /\ <<f, g>>[2] = g
        /\ <<f>> \in Seq(S) /\ Len(<<f>>) = 1 /\ <<f>>[1] = f
    BY OneFacts, PairFacts
  <1> DEFINE two == <<f, g>>
             one == <<f>>
  <1> HIDE DEF c, b, S, two, one
  <1>6. DOMAIN b = 1 .. Len(b) /\ \A i \in DOMAIN b : \E k \in DOMAIN calls : b[i] = calls[k]
    BY <1>2, <1>3, LenProperties, SMTT(60)
  <1>7. ASSUME NEW fr \in Seq(S), c = b \o fr, NEW i \in DOMAIN c
        PROVE  (\E k \in DOMAIN b : c[i] = b[k]) \/ (\E k \in 1 .. Len(fr) : c[i] = fr[k])
    <2>1. /\ b \o fr \in Seq(S) /\ Len(b \o fr) = Len(b) + Len(fr) /\ Len(fr) \in Nat /\ Len(b) \in Nat
          /\ \A k \in 1 .. Len(b) : (b \o fr)[k] = b[k]
          /\ \A k \in 1 .. Len(fr) : (b \o fr)[Len(b) + k] = fr[k]
      BY <1>3, JoinFacts, LenProperties
    <2>2. i \in 1 .. Len(b) + Len(fr)
      BY <1>7, <2>1, LenProperties
    <2>3. CASE i \in 1 .. Len(b)
      BY <2>1, <2>3, <1>6, <1>7
    <2>4. CASE i \notin 1 .. Len(b)
      <3>1. i - Len(b) \in 1 .. Len(fr) /\ Len(b) + (i - Len(b)) = i
        BY <2>1, <2>2, <2>4
      <3>2. QED
        BY <3>1, <2>1, <1>7
    <2>5. QED
      BY <2>3, <2>4
  <1>8. ASSUME NEW i \in DOMAIN c
        PROVE  c[i] = f \/ c[i] = g \/ (\E k \in DOMAIN calls : c[i] = calls[k])
    <2>1. CASE c = b
      BY <2>1, <1>6
    <2>2. CASE c = b \o <<f>>
      <3>1. one \in Seq(S) /\ Len(one) = 1 /\ one[1] = f /\ c = b \o one
        BY <1>5, <2>2 DEF one
      <3>2. (\E k \in DOMAIN b : c[i] = b[k]) \/ (\E k \in 1 .. Len(one) : c[i] = one[k])
        BY <3>1, <1>7
      <3>3. \A k \in 1 .. Len(one) : k = 1
        BY <3>1
      <3>4. QED
        BY <3>1, <3>2, <3>3, <1>6
    <2>3. CASE c = b \o <<f, g>>
      <3>1. two \in Seq(S) /\ Len(two) = 2 /\ two[1] = f /\ two[2] = g /\ c = b \o two
        BY <1>5, <2>3 DEF two
      <3>2. (\E k \in DOMAIN b : c[i] = b[k]) \/ (\E k \in 1 .. Len(two) : c[i] = two[k])
        BY <3>1, <1>7
      <3>3. \A k \in 1 .. Len(two) : k = 1 \/ k = 2
        BY <3>1
      <3>4. QED
        BY <3>1, <3>2, <3>3, <1>6
    <2>4. QED
      BY <1>4, <2>1, <2>2, <2>3
  <1>9. QED
    BY <1>8 DEF c

----------------------------------------------------------------------------
(***************************************************************************)
(* Why a call was stopped at the recursion limit.                          *)
(***************************************************************************)
\* A caller's name is only taken apart.
OfRequest(f) == f.fn \in Getting => f.depth + Len(f.name) <= MaxDepth

Shallow == ShortRequests => \A i \in DOMAIN calls : OfRequest(calls[i])

StoppedRightly ==
    error = "recursion_limit_reached" /\ Small(abi) /\ ShortRequests => Circular(abi)

WInv ==
    /\ pc = "fill" => Way(abi, calls)
    /\ pc = "ready" => Shallow
    /\ StoppedRightly

LEMMA StoppedStays ==
    ASSUME StoppedRightly, UNCHANGED <<abi, error>>
    PROVE  StoppedRightly'
  BY DEF StoppedRightly

LEMMA StoppedOtherwise ==
    ASSUME error' # "recursion_limit_reached"
    PROVE  StoppedRightly'
  BY DEF StoppedRightly

\* The calls of convert's last loop.
LEMMA TopWay ==
    ASSUME IInv, FInv, WInv, pc = "fill", calls # << >>
    PROVE  /\ calls \in Seq(Calls) /\ Way(abi, calls) /\ Definitions(abi) /\ Top = calls[Len(calls)]
           /\ Len(calls) \in Nat /\ Len(calls) > 0 /\ Top \in Calls /\ Top.name \in Names
           /\ Top.depth = Len(calls) - 1 /\ Top.depth \in Nat /\ RestMentioned(abi, Top)
           /\ \A i \in DOMAIN calls : calls[i].name \in Names
           /\ \A j \in DOMAIN calls : calls[j].fn \notin GetCalls =>
                 \A i \in 1 .. j - 1 : calls[i].fn = "base"
  <1>1. /\ calls \in Seq(Calls) /\ Way(abi, calls) /\ Definitions(abi) /\ Top = calls[Len(calls)]
        /\ Top \in Calls
    BY TopFilled, AbiDefinitions DEF WInv
  <1>2. Len(calls) \in Nat /\ Len(calls) > 0 /\ DOMAIN calls = 1 .. Len(calls)
    BY <1>1, EmptySeq, LenProperties
  <1>3. Len(calls) \in DOMAIN calls
    BY <1>2
  <1>4. Top.depth = Len(calls) - 1 /\ RestMentioned(abi, Top)
    BY <1>1, <1>3 DEF Way
  <1>5. Top.name \in Names /\ Top.depth \in Nat
    BY <1>1 DEF Calls
  <1>6. /\ \A i \in DOMAIN calls : calls[i].name \in Names
        /\ \A j \in DOMAIN calls : calls[j].fn \notin GetCalls =>
              \A i \in 1 .. j - 1 : calls[i].fn = "base"
    BY TopFilled, StackFacts
  <1>7. QED
    BY <1>1, <1>2, <1>4, <1>5, <1>6

\* The limit is never reached by a small ABI without a circle.
LEMMA LimitIsCircle ==
    ASSUME IInv, FInv, WInv, pc = "fill", calls # << >>, Top.depth >= MaxDepth, Small(abi)
    PROVE  Circular(abi)
  <1> DEFINE n == Len(calls)
  <1>1. SUFFICES ASSUME ~Circular(abi) PROVE FALSE
    OBVIOUS
  <1>2. /\ calls \in Seq(Calls) /\ Way(abi, calls) /\ Definitions(abi) /\ n \in Nat
        /\ Top.depth = n - 1
    BY TopWay
  <1>3. /\ Filled(abi, types, calls, returned) /\ Entries(abi, types) /\ Table(types)
        /\ \A i \in DOMAIN calls : calls[i].fn \in Getting \cup Resolving
    BY TopFilled
  <1>4. MaxDepth \in Nat /\ MaxDepth > 0
    BY AbiAssumption
  <1>5. n > 1
    BY <1>2, <1>4
  <1>6. PICK name \in Mentioned(abi) : OfOneName(abi, calls, name)
    BY <1>2, <1>5 DEF Way
  <1> DEFINE e == Cardinality(Extending(abi))
             p == Cardinality(PartsOf(abi, name))
  <1>7. e \in Nat /\ p \in Nat /\ n <= e + 1 + p
    BY <1>1, <1>2, <1>3, <1>6, FewCalls
  <1>8. e + 1 + p <= MaxDepth
    BY <1>6 DEF Small, PartsOf
  <1>9. n - 1 >= MaxDepth
    BY <1>2
  <1> HIDE DEF n, e, p
  <1>10. QED
    BY ONLY <1>2, <1>4, <1>7, <1>8, <1>9

LEMMA ReturnOnward ==
    ASSUME IInv, FInv, WInv, pc = "fill", calls # << >>, NEW type, NEW t2, Return(type, t2)
    PROVE  WInv'
  <1>1. calls' = Below /\ UNCHANGED <<abi, error, pc>>
    BY DEF Return
  <1>2. calls \in Seq(Calls) /\ Way(abi, calls)
    BY TopWay
  <1>3. /\ Below \in Seq(Calls) /\ Len(Below) = Len(calls) - 1
        /\ \A i \in 1 .. Len(calls) - 1 : Below[i] = calls[i]
    BY <1>2, CallFacts
  <1>4. Way(abi, Below)
    BY <1>2, <1>3, ReturnWay
  <1>5. QED
    BY <1>1, <1>4, StoppedStays DEF WInv

LEMMA ThrowOnward ==
    ASSUME IInv, FInv, WInv, calls # << >>, NEW e, Throw(e),
           e = "recursion_limit_reached" => (Small(abi) /\ ShortRequests => Circular(abi))
    PROVE  WInv'
  <1>1. /\ calls' = << >> /\ error' = e /\ UNCHANGED abi /\ pc' # "fill"
    BY DEF Throw
  <1>2. StoppedRightly'
    BY <1>1 DEF StoppedRightly
  <1>3. Shallow'
    BY <1>1 DEF Shallow
  <1>4. QED
    BY <1>1, <1>2, <1>3 DEF WInv

LEMMA GoOnward ==
    ASSUME IInv, FInv, WInv, pc = "fill", calls # << >>, NEW f \in Calls, NEW t2, Continue(<<f>>, t2),
           f.name = Top.name, f.depth = Top.depth, f.fn \in StructCalls, Top.fn \in StructCalls,
           RestMentioned(abi, f)
    PROVE  WInv'
  <1>1. calls \in Seq(Calls) /\ Way(abi, calls) /\ Top = calls[Len(calls)]
    BY TopWay
  <1>2. /\ calls' \in Seq(Calls) /\ Len(calls') = Len(calls)
        /\ \A i \in 1 .. Len(calls) - 1 : calls'[i] = calls[i]
        /\ calls'[Len(calls)] = f
    BY <1>1, GoStack
  <1>3. f.fn \notin GetCalls /\ f.fn # "types"
    BY DEF StructCalls, GetCalls, Getting
  <1> DEFINE c2 == calls'
  <1>4. Way(abi, c2)
    <2> HIDE DEF c2
    <2>1. /\ c2 \in Seq(Calls) /\ Len(c2) = Len(calls)
          /\ \A i \in 1 .. Len(calls) - 1 : c2[i] = calls[i]
          /\ c2[Len(calls)] = f
      BY <1>2 DEF c2
    <2>2. QED
      BY <1>1, <1>3, <2>1, GoWay
  <1>5. UNCHANGED <<abi, error, pc>>
    BY DEF Continue
  <1>6. QED
    BY <1>4, <1>5, StoppedStays DEF WInv

LEMMA CallOnward ==
    ASSUME IInv, FInv, WInv, pc = "fill", calls # << >>, NEW f \in Calls, NEW g \in Calls, NEW t2,
           Continue(<<f, g>>, t2), f.name = Top.name, f.depth = Top.depth,
           f.fn \in GetCalls <=> Top.fn \in GetCalls,
           f.fn \in StructCalls => Top.fn \in StructCalls,
           f.fn = "types" => Top.fn = "types", RestMentioned(abi, f),
           g.depth = Top.depth + 1, g.fn \in GetCalls \/ (g.fn = "struct" /\ f.fn = "base"),
           Onward(abi, f, g), RestMentioned(abi, g),
           NEW name \in Mentioned(abi), f.fn \in GetCalls => OfOneName(abi, calls, name),
           g.fn \in GetCalls => g.name \in PartsOf(abi, name)
    PROVE  WInv'
  <1>1. /\ calls \in Seq(Calls) /\ Way(abi, calls) /\ Top = calls[Len(calls)]
        /\ \A i \in DOMAIN calls : calls[i].name \in Names
        /\ \A j \in DOMAIN calls : calls[j].fn \notin GetCalls =>
              \A i \in 1 .. j - 1 : calls[i].fn = "base"
    BY TopWay
  <1> DEFINE c2 == calls'
  <1>2. /\ c2 \in Seq(Calls) /\ Len(c2) = Len(calls) + 1
        /\ \A i \in 1 .. Len(calls) - 1 : c2[i] = calls[i]
        /\ c2[Len(calls)] = f /\ c2[Len(calls) + 1] = g
    BY <1>1, CallStack
  <1>3. UNCHANGED <<abi, error, pc>>
    BY DEF Continue
  <1>4. g.depth = f.depth + 1
    OBVIOUS
  <1> HIDE DEF c2
  <1>5. Way(abi, c2)
    BY <1>1, <1>2, <1>4, CallWay
  <1>6. QED
    BY <1>3, <1>5, StoppedStays DEF WInv, c2

----------------------------------------------------------------------------
\* A getter is never the first call of convert's loop.
LEMMA GetterAsked ==
    ASSUME IInv, FInv, WInv, pc = "fill", calls # << >>, Top.fn = "get_type"
    PROVE  \E name \in Mentioned(abi) :
              OfOneName(abi, calls, name) /\ Top.name \in PartsOf(abi, name)
  <1>1. /\ Way(abi, calls) /\ Top = calls[Len(calls)] /\ Len(calls) \in Nat /\ Len(calls) > 0
        /\ calls \in Seq(Calls)
    BY TopWay
  <1>2. Len(calls) # 1
    <2>1. Below # << >>
      BY TopFacts DEF Resolving
    <2>2. Below = << >> <=> Len(calls) = 1
      BY <1>1, CallFacts
    <2>3. QED
      BY <2>1, <2>2
  <1> DEFINE n == Len(calls)
  <1>3. n > 1 /\ n \in 2 .. n
    <2>1. n # 1 /\ n \in Nat /\ n > 0
      BY <1>1, <1>2
    <2> HIDE DEF n
    <2>2. QED
      BY ONLY <2>1
  <1>4. PICK name \in Mentioned(abi) : OfOneName(abi, calls, name)
    BY <1>1, <1>3 DEF Way
  <1>5. Top.name \in PartsOf(abi, name)
    BY <1>1, <1>3, <1>4 DEF OfOneName, GetCalls, Getting
  <1>6. QED
    BY <1>4, <1>5

LEMMA NoneMentioned ==
    ASSUME NEW a, NEW f, f.rest = << >>
    PROVE  RestMentioned(a, f)
  BY DEF RestMentioned

LEMMA GetTypeOnward ==
    ASSUME IInv, FInv, WInv, pc = "fill", GetType
    PROVE  WInv'
  <1> DEFINE name == Top.name
             node == types[name]
  <1>1. calls # << >> /\ Top.fn = "get_type"
    BY DEF GetType, Entered
  <1>2. /\ Top \in Calls /\ name \in Names /\ Top.depth \in Nat /\ Definitions(abi)
        /\ RestMentioned(abi, Top) /\ Top.fn \in GetCalls
    BY <1>1, TopWay DEF GetCalls, Getting
  <1>3. Entries(abi, types) /\ DefsOwned(abi, types) /\ Table(types)
    BY <1>1, TopFilled
  <1>4. PICK m \in Mentioned(abi) : OfOneName(abi, calls, m) /\ name \in PartsOf(abi, m)
    BY <1>1, GetterAsked
  <1>5. m \in Names
    BY <1>2, MentionedNames
  <1>6. CASE Top.depth >= MaxDepth
    <2>1. Throw("recursion_limit_reached")
      BY <1>6 DEF GetType
    <2>2. Small(abi) => Circular(abi)
      BY <1>1, <1>6, LimitIsCircle
    <2>3. QED
      BY <1>1, <2>1, <2>2, ThrowOnward
  <1>7. CASE ~(Top.depth >= MaxDepth) /\ name \notin DOMAIN types
    <2>1. GetDerived(name)
      BY <1>7 DEF GetType
    <2>2. CASE Len(name) = 1
      <3>1. Throw("unknown_type")
        BY <2>1, <2>2 DEF GetDerived
      <3>2. QED
        BY <1>1, <3>1, ThrowOnward
    <2>3. CASE Len(name) # 1 /\ name[Len(name)] \in DOMAIN BadSizes
      <3>1. Throw(BadSizes[name[Len(name)]])
        BY <2>1, <2>3 DEF GetDerived
      <3>2. BadSizes[name[Len(name)]] # "recursion_limit_reached"
        BY <2>3 DEF BadSizes
      <3>3. QED
        BY <1>1, <3>1, <3>2, ThrowOnward
    <2>4. CASE Len(name) # 1 /\ name[Len(name)] \notin DOMAIN BadSizes
      <3> DEFINE f == [Top EXCEPT !.fn = "derived"]
                 below == SubSeq(name, 1, Len(name) - 1)
                 g == Frame("get_type", below, Top.depth + 1, << >>)
      <3>1. Continue(<<f, g>>, types)
        BY <2>1, <2>4 DEF GetDerived
      <3>2. Len(name) \in Nat /\ Len(name) > 1 /\ below \in Names
        <4>1. name \in Names
          BY <1>2
        <4> HIDE DEF name
        <4>2. Len(name) \in Nat /\ Len(name) > 0
          BY <4>1, NameParts
        <4> DEFINE l == Len(name)
        <4>3. l # 1 /\ l \in Nat /\ l > 0
          BY <4>2, <2>4
        <4> HIDE DEF l
        <4>4. l > 1
          BY ONLY <4>3
        <4>5. Len(name) > 1
          BY <4>4 DEF l
        <4>6. QED
          BY <4>1, <4>2, <4>5, NameParts
      <3>3. /\ f \in Calls /\ f.fn = "derived" /\ f.name = name /\ f.depth = Top.depth
            /\ f.rest = Top.rest
        BY <1>2 DEF Calls, Fns
      <3>4. g \in Calls /\ g.fn = "get_type" /\ g.name = below
        BY <1>2, <3>2, AskedFrame
      <3>5. g.depth = Top.depth + 1 /\ g.rest = << >>
        BY DEF Frame
      <3>6. Len(below) < Len(name)
        <4>1. Len(name) - 1 \in 1 .. Len(name) /\ Len(name) - 1 < Len(name)
          BY <3>2
        <4>2. Len(below) = Len(name) - 1
          BY <1>2, <4>1, PartFacts DEF Part
        <4>3. QED
          BY <4>1, <4>2
      <3>7. name \notin DOMAIN abi
        BY <1>3, <1>7 DEF Entries
      <3> HIDE DEF f, g
      <3>8. DefinedBelow(abi, name) = DefinedBelow(abi, below)
        BY <1>2, <3>2, <3>7, BelowFacts
      <3>9. Onward(abi, f, g)
        BY <3>3, <3>4, <3>6, <3>8 DEF Onward, Under, StructCalls
      <3>10. below \in PartsOf(abi, m)
        BY <1>2, <1>4, <1>5, <3>2, ShorterPart
      <3> HIDE DEF below, name
      <3>11. RestMentioned(abi, f) /\ RestMentioned(abi, g)
        BY <1>2, <3>3, <3>5, NoneMentioned DEF RestMentioned
      <3>12. /\ f.fn \in GetCalls /\ f.fn \notin StructCalls /\ f.fn # "types" /\ g.fn \in GetCalls
        BY <3>3, <3>4 DEF GetCalls, Getting, StructCalls
      <3>13. f.name = Top.name
        BY <3>3 DEF name
      <3>14. QED
        BY <1>1, <1>2, <1>4, <3>1, <3>3, <3>4, <3>5, <3>9, <3>10, <3>11, <3>12, <3>13, CallOnward
    <2>5. QED
      BY <2>2, <2>3, <2>4
  <1>8. CASE ~(Top.depth >= MaxDepth) /\ name \in DOMAIN types /\ node.kind = "alias_def"
    <2> DEFINE f == [Top EXCEPT !.fn = "alias"]
               target == node.element
               g == Frame("get_type", target, Top.depth + 1, << >>)
    <2>1. Continue(<<f, g>>, types)
      BY <1>8 DEF GetType
    <2>2. name \in DOMAIN abi /\ node = abi[name]
      BY <1>3, <1>8, DefinedNames DEF DefKinds
    <2>3. target \in Names /\ abi[name].kind = "alias_def" /\ abi[name].element = target
      BY <1>2, <1>8, <2>2 DEF Definitions, IsDefinition
    <2>4. /\ f \in Calls /\ f.fn = "alias" /\ f.name = name /\ f.depth = Top.depth
          /\ f.rest = Top.rest
      BY <1>2 DEF Calls, Fns
    <2>5. g \in Calls /\ g.fn = "get_type" /\ g.name = target
      BY <1>2, <2>3, AskedFrame
    <2>6. g.depth = Top.depth + 1 /\ g.rest = << >>
      BY DEF Frame
    <2>7. target \in PartsOf(abi, m)
      BY <1>2, <2>2, <2>3, AliasPart DEF PartsOf
    <2>8. DefinedBelow(abi, name) = name
      BY <1>2, <2>2, BelowFacts
    <2>9. Beyond(abi, name, DefinedBelow(abi, target))
      <3>1. DefinedBelow(abi, target) \in Follows(abi, name)
        BY <2>3 DEF Follows
      <3>2. QED
        BY <2>2, <3>1, BeyondNext
    <2> HIDE DEF f, g, target
    <2>10. Onward(abi, f, g)
      BY <2>4, <2>5, <2>8, <2>9 DEF Onward, Under, StructCalls
    <2> HIDE DEF name
    <2>11. RestMentioned(abi, f) /\ RestMentioned(abi, g)
      BY <1>2, <2>4, <2>6, NoneMentioned DEF RestMentioned
    <2>12. /\ f.fn \in GetCalls /\ f.fn \notin StructCalls /\ f.fn # "types" /\ g.fn \in GetCalls
      BY <2>4, <2>5 DEF GetCalls, Getting, StructCalls
    <2>13. f.name = Top.name
      BY <2>4 DEF name
    <2>14. QED
      BY <1>1, <1>2, <1>4, <2>1, <2>4, <2>5, <2>6, <2>7, <2>10, <2>11, <2>12, <2>13, CallOnward
  <1>9. CASE ~(Top.depth >= MaxDepth) /\ name \in DOMAIN types /\ node.kind # "alias_def"
    <2>1. Return(node.element, types) \/ Return(name, types)
      BY <1>9 DEF GetType
    <2>2. QED
      BY <1>1, <2>1, ReturnOnward
  <1>10. QED
    BY <1>6, <1>7, <1>8, <1>9

LEMMA DerivedOnward ==
    ASSUME IInv, FInv, WInv, pc = "fill", Derived \/ ResolveAlias
    PROVE  WInv'
  <1> DEFINE derived == TryEmplace(types, Top.name, Node(KindOf(Top.name), returned, << >>))
             alias   == With(types, Top.name, Node("alias", returned, << >>))
  <1>1. calls # << >>
    BY DEF Derived, ResolveAlias, Resumed
  <1>2. \/ Throw("invalid_nesting") \/ Throw("extension_typedef")
        \/ Return(Top.name, derived) \/ Return(returned, alias)
    BY DEF Derived, ResolveAlias
  <1> HIDE DEF derived, alias
  <1>3. CASE Throw("invalid_nesting")
    BY <1>1, <1>3, ThrowOnward
  <1>4. CASE Throw("extension_typedef")
    BY <1>1, <1>4, ThrowOnward
  <1>5. CASE Return(Top.name, derived)
    BY <1>1, <1>5, ReturnOnward
  <1>6. CASE Return(returned, alias)
    BY <1>1, <1>6, ReturnOnward
  <1>7. QED
    BY <1>2, <1>3, <1>4, <1>5, <1>6

LEMMA AllResolvedOnward ==
    ASSUME IInv, FInv, WInv, pc = "fill", ResolveMembers, Top.rest = << >>
    PROVE  WInv'
  <1> DEFINE kind == IF Top.fn = "fields" THEN "struct" ELSE "variant"
             t2 == With(types, Top.name, Node(kind, << >>, Gathered))
  <1>1. calls # << >> /\ Return(Top.name, t2)
    BY DEF ResolveMembers
  <1> HIDE DEF t2
  <1>2. QED
    BY <1>1, ReturnOnward

LEMMA NextMemberOnward ==
    ASSUME IInv, FInv, WInv, pc = "fill", ResolveMembers, Top.rest # << >>
    PROVE  WInv'
  <1> DEFINE f == [Top EXCEPT !.fields = Gathered, !.rest = Tail(@)]
             m == Head(Top.rest)
             g == Frame("get_type", m, Top.depth + 1, << >>)
  <1>1. calls # << >> /\ Top.fn \in {"fields", "types"}
    BY DEF ResolveMembers
  <1>2. Continue(<<f, g>>, types)
    BY DEF ResolveMembers
  <1>3. Top \in Calls /\ Top.depth \in Nat /\ RestMentioned(abi, Top)
    BY <1>1, TopWay
  <1>4. Top.rest \in Seq(Names) /\ Table(types)
    BY <1>1, TopFacts
  <1>5. m \in Names /\ Tail(Top.rest) \in Seq(Names)
    BY <1>4, HeadTailProperties
  <1>6. Gathered \in Seq(Names)
    <2>1. Gathered \in Seq(DOMAIN types)
      BY <1>1, GatheredFacts
    <2>2. QED
      BY <2>1, <1>4 DEF Table
  <1>7. /\ f \in Calls /\ f.fn = Top.fn /\ f.name = Top.name /\ f.depth = Top.depth
        /\ f.rest = Tail(Top.rest)
    BY <1>3, <1>5, <1>6 DEF Calls
  <1>8. g \in Calls /\ g.fn = "get_type" /\ g.name = m
    BY <1>3, <1>5, AskedFrame
  <1>9. g.depth = Top.depth + 1 /\ g.rest = << >>
    BY DEF Frame
  <1>10. m \in Mentioned(abi) /\ RestMentioned(abi, f)
    <2> DEFINE r == Top.rest
               n == Len(r)
    <2>1. r \in Seq(Names) /\ r # << >> /\ \A k \in DOMAIN r : r[k] \in Mentioned(abi)
      BY <1>3, <1>4 DEF RestMentioned
    <2> HIDE DEF r
    <2>2. n \in Nat /\ n > 0 /\ DOMAIN r = 1 .. n
      BY <2>1, EmptySeq, LenProperties
    <2>3. Head(r) = r[1] /\ DOMAIN Tail(r) = 1 .. n - 1 /\ \A k \in 1 .. n - 1 : Tail(r)[k] = r[k + 1]
      BY <2>1, HeadTailProperties, LenProperties
    <2>4. 1 \in DOMAIN r /\ \A k \in 1 .. n - 1 : k + 1 \in DOMAIN r
      BY <2>2
    <2>5. r[1] \in Mentioned(abi) /\ \A k \in DOMAIN Tail(r) : Tail(r)[k] \in Mentioned(abi)
      BY <2>1, <2>3, <2>4
    <2>6. QED
      BY <1>7, <2>3, <2>5 DEF RestMentioned, r
  <1>11. m \in PartsOf(abi, m)
    BY <1>5, OwnPart DEF PartsOf
  <1> HIDE DEF f, g, m
  <1>12. RestMentioned(abi, g)
    BY <1>9, NoneMentioned
  <1>13. /\ f.fn \notin GetCalls /\ Top.fn \notin GetCalls /\ g.fn \in GetCalls
         /\ g.fn \notin StructCalls
    BY <1>1, <1>7, <1>8 DEF GetCalls, Getting, StructCalls
  <1>14. Onward(abi, f, g)
    BY <1>13 DEF Onward
  <1>15. QED
    BY <1>1, <1>2, <1>7, <1>8, <1>9, <1>10, <1>11, <1>12, <1>13, <1>14, CallOnward

LEMMA ResolveStructOnward ==
    ASSUME IInv, FInv, WInv, pc = "fill", ResolveStruct
    PROVE  WInv'
  <1> DEFINE base == types[Top.name].element
  <1>1. calls # << >> /\ Top.fn = "struct"
    BY DEF ResolveStruct, Entered
  <1>2. Top \in Calls /\ Top.depth \in Nat /\ RestMentioned(abi, Top) /\ Definitions(abi)
    BY <1>1, TopWay
  <1>3. Top.name \in DOMAIN abi /\ base = abi[Top.name].element /\ base \in Names \cup {<< >>}
    BY <1>1, StructDefined DEF StructCalls
  <1>4. CASE Top.depth >= MaxDepth
    <2>1. Throw("recursion_limit_reached")
      BY <1>4 DEF ResolveStruct
    <2>2. Small(abi) => Circular(abi)
      BY <1>1, <1>4, LimitIsCircle
    <2>3. QED
      BY <1>1, <2>1, <2>2, ThrowOnward
  <1>5. CASE ~(Top.depth >= MaxDepth) /\ base = << >>
    <2> DEFINE f == [Top EXCEPT !.fn = "fields"]
    <2>1. Continue(<<f>>, types)
      BY <1>5 DEF ResolveStruct
    <2>2. /\ f \in Calls /\ f.fn = "fields" /\ f.name = Top.name /\ f.depth = Top.depth
          /\ f.rest = Top.rest
      BY <1>2 DEF Calls, Fns
    <2> HIDE DEF f
    <2>3. f.fn \in StructCalls /\ Top.fn \in StructCalls /\ RestMentioned(abi, f)
      BY <1>1, <1>2, <2>2 DEF StructCalls, RestMentioned
    <2>4. QED
      BY <1>1, <2>1, <2>2, <2>3, GoOnward
  <1>6. CASE ~(Top.depth >= MaxDepth) /\ base # << >>
    <2> DEFINE f == [Top EXCEPT !.fn = "base"]
               g == Frame("get_type", base, Top.depth + 1, << >>)
    <2>1. Continue(<<f, g>>, types)
      BY <1>6 DEF ResolveStruct
    <2>2. /\ f \in Calls /\ f.fn = "base" /\ f.name = Top.name /\ f.depth = Top.depth
          /\ f.rest = Top.rest
      BY <1>2 DEF Calls, Fns
    <2>3. base \in Names /\ base \in Mentioned(abi)
      BY <1>3, <1>6, ElementMentioned
    <2>4. g \in Calls /\ g.fn = "get_type" /\ g.name = base
      BY <1>2, <2>3, AskedFrame
    <2>5. g.depth = Top.depth + 1 /\ g.rest = << >>
      BY DEF Frame
    <2>6. base \in PartsOf(abi, base)
      BY <2>3, OwnPart DEF PartsOf
    <2> HIDE DEF f, g, base
    <2>7. RestMentioned(abi, f) /\ RestMentioned(abi, g)
      BY <1>2, <2>2, <2>5, NoneMentioned DEF RestMentioned
    <2>8. /\ f.fn \notin GetCalls /\ Top.fn \notin GetCalls /\ g.fn \in GetCalls
          /\ g.fn \notin StructCalls /\ Top.fn \in StructCalls
      BY <1>1, <2>2, <2>4 DEF GetCalls, Getting, StructCalls
    <2>9. Onward(abi, f, g)
      BY <2>8 DEF Onward
    <2>10. f.fn # "types"
      BY <2>2
    <2>11. QED
      BY <1>1, <2>1, <2>2, <2>3, <2>4, <2>5, <2>6, <2>7, <2>8, <2>9, <2>10, CallOnward
  <1>7. QED
    BY <1>4, <1>5, <1>6

LEMMA ResolveBaseOnward ==
    ASSUME IInv, FInv, CInv, WInv, pc = "fill", ResolveBase
    PROVE  WInv'
  <1> DEFINE base == abi[Top.name].element
             kind == types[returned].kind
  <1>1. calls # << >> /\ Top.fn = "base" /\ returned # << >>
    BY DEF ResolveBase, Resumed
  <1>2. /\ Top \in Calls /\ Top.depth \in Nat /\ RestMentioned(abi, Top) /\ Definitions(abi)
    BY <1>1, TopWay
  <1>3. /\ Answers(abi, types, Top, returned) /\ returned \in DOMAIN types /\ Table(types)
        /\ Entries(abi, types) /\ DefsOwned(abi, types) /\ Pending(abi, types, Top)
    BY <1>1, TopFilled
  <1>4. /\ Top.name \in DOMAIN abi /\ types[Top.name] = abi[Top.name]
        /\ types[Top.name].kind = "struct_def" /\ base \in Names \cup {<< >>}
    BY <1>1, StructDefined DEF StructCalls
  <1>5. base # << >> /\ Awaited(abi, Top) = base
    BY <1>1, <1>3 DEF Pending, Awaited, MemberCalls
  <1>6. Known(types, base) /\ returned = Leads(types, base)
    BY <1>1, <1>3, <1>5 DEF Answers
  <1>7. CASE kind = "struct"
    <2> DEFINE f == [Top EXCEPT !.fn = "fields", !.fields = types[returned].fields]
    <2>1. Continue(<<f>>, types)
      BY <1>7 DEF ResolveBase, Inherit
    <2>2. types[returned].fields \in Seq(DOMAIN types)
      BY <1>3, <1>7, StructFacts
    <2>3. types[returned].fields \in Seq(Names)
      BY <2>2, <1>3 DEF Table
    <2>4. /\ f \in Calls /\ f.fn = "fields" /\ f.name = Top.name /\ f.depth = Top.depth
          /\ f.rest = Top.rest
      BY <1>2, <2>3 DEF Calls, Fns
    <2> HIDE DEF f
    <2>5. f.fn \in StructCalls /\ Top.fn \in StructCalls /\ RestMentioned(abi, f)
      BY <1>1, <1>2, <2>4 DEF StructCalls, RestMentioned
    <2>6. QED
      BY <1>1, <2>1, <2>4, <2>5, GoOnward
  <1>8. CASE kind = "struct_def"
    <2> DEFINE g == Frame("struct", returned, Top.depth + 1, types[returned].fields)
    <2>1. Continue(<<Top, g>>, types)
      BY <1>8 DEF ResolveBase, ResolveFirst
    <2>2. returned \in Names /\ types[returned].fields \in Seq(Names) /\ Top.depth + 1 \in Nat
      BY <1>2, <1>3, <1>8, StructFacts DEF Table
    <2>3. /\ g \in Calls /\ g.fn = "struct" /\ g.name = returned /\ g.depth = Top.depth + 1
          /\ g.rest = types[returned].fields
      BY <2>2, EmptySeq DEF Frame, Calls, Fns
    <2>4. returned \in DOMAIN abi /\ types[returned] = abi[returned]
      BY <1>3, <1>8, DefinedNames DEF DefKinds
    <2> HIDE DEF g
    <2>5. RestMentioned(abi, g)
      BY <2>3, <2>4, FieldsMentioned DEF RestMentioned
    <2>6. DefinedBelow(abi, base) \in Follows(abi, Top.name)
      BY <1>4, <1>5 DEF Follows
    <2>7. Beyond(abi, Top.name, DefinedBelow(abi, base))
      BY <1>4, <2>6, BeyondNext
    <2>8. DefinedBelow(abi, returned) = returned
      BY <2>2, <2>4, BelowFacts
    <2>9. Beyond(abi, Top.name, returned)
      <3>1. CASE types[base].kind # "alias"
        BY <3>1, <1>6, <2>7, <2>8 DEF Leads
      <3>2. CASE types[base].kind = "alias"
        <4>1. AliasDone(abi, types, base, returned)
          BY <3>2, <1>6 DEF CInv, Untangled, Aliased, Known, Leads
        <4>2. base \in DOMAIN abi /\ Beyond(abi, base, returned)
          BY <4>1, <2>8 DEF AliasDone
        <4>3. DefinedBelow(abi, base) = base
          BY <4>2, <1>4, <1>5, BelowFacts
        <4>4. QED
          BY <4>2, <4>3, <2>7, BeyondBeyond
      <3>3. QED
        BY <3>1, <3>2
    <2>10. Onward(abi, Top, g)
      BY <1>1, <2>3, <2>9 DEF Onward, GetCalls, Getting
    <2>11. Top.fn \notin GetCalls /\ g.fn \notin GetCalls /\ Top.fn # "types"
      BY <1>1, <2>3 DEF GetCalls, Getting
    <2>12. base \in Mentioned(abi)
      BY <1>4, <1>5, ElementMentioned
    <2>13. QED
      BY <1>1, <1>2, <2>1, <2>3, <2>5, <2>10, <2>11, <2>12, CallOnward
  <1>9. CASE kind \notin {"struct", "struct_def"}
    <2>1. Throw("base_not_a_struct")
      BY <1>9 DEF ResolveBase
    <2>2. QED
      BY <1>1, <2>1, ThrowOnward
  <1>10. QED
    BY <1>7, <1>8, <1>9

LEMMA ResolveOnward ==
    ASSUME IInv, FInv, CInv, WInv, pc = "fill", Resolve
    PROVE  WInv'
  BY GetTypeOnward, DerivedOnward, ResolveStructOnward, ResolveBaseOnward,
     AllResolvedOnward, NextMemberOnward DEF Resolve

----------------------------------------------------------------------------
\* The calls that fill() begins with.
LEMMA NoneWay == ASSUME NEW a PROVE Way(a, << >>)
  <1>1. DOMAIN << >> = {} /\ Len(<< >>) = 0
    OBVIOUS
  <1>2. QED
    BY <1>1 DEF Way

LEMMA OneWay ==
    ASSUME NEW a, NEW f, f.depth = 0, RestMentioned(a, f)
    PROVE  Way(a, <<f>>)
  <1> DEFINE c == <<f>>
  <1>1. Len(c) = 1 /\ DOMAIN c = {1} /\ c[1] = f
    OBVIOUS
  <1>2. 1 - 1 = 0 /\ ~(1 > 1) /\ \A i \in 1 .. 1 - 1 : FALSE
    OBVIOUS
  <1> HIDE DEF c
  <1>3. \A j \in DOMAIN c : \A i \in 1 .. j - 1 : FALSE
    BY <1>1, <1>2
  <1>4. Way(a, c)
    BY <1>1, <1>2, <1>3 DEF Way
  <1>5. QED
    BY <1>4 DEF c

LEMMA TwoWay ==
    ASSUME NEW a, NEW f, NEW g, f.depth = 0, g.depth = 1, RestMentioned(a, f), RestMentioned(a, g),
           g.fn # "types", Onward(a, f, g), NEW name \in Mentioned(a), g.name \in PartsOf(a, name)
    PROVE  Way(a, <<f, g>>)
  <1> DEFINE c == <<f, g>>
  <1>1. Len(c) = 2 /\ DOMAIN c = {1, 2} /\ c[1] = f /\ c[2] = g
    OBVIOUS
  <1>2. 1 - 1 = 0 /\ 2 - 1 = 1 /\ 1 .. 1 - 1 = {} /\ 1 .. 2 - 1 = {1} /\ 2 .. 2 = {2}
    OBVIOUS
  <1> HIDE DEF c
  <1>3. \A i \in DOMAIN c : c[i].depth = i - 1
    BY <1>1, <1>2
  <1>4. \A j \in DOMAIN c : \A i \in 1 .. j - 1 : Onward(a, c[i], c[j])
    BY <1>1, <1>2
  <1>5. OfOneName(a, c, name)
    BY <1>1, <1>2 DEF OfOneName
  <1>6. Way(a, c)
    BY <1>1, <1>3, <1>4, <1>5 DEF Way
  <1>7. QED
    BY <1>6 DEF c

LEMMA FillOnward ==
    ASSUME IInv, FInv, WInv, Fill
    PROVE  WInv'
  <1> DEFINE name == Order[filled + 1]
             node == types[name]
             c    == calls'
  <1>1. /\ pc = "fill" /\ calls = << >> /\ UNCHANGED <<abi, types, pc, error>>
        /\ c = IF name \in DOMAIN types THEN Filling(name) ELSE << >>
    BY DEF Fill
  <1>2. Entries(abi, types) /\ DefsOwned(abi, types) /\ Definitions(abi)
    BY <1>1, AbiDefinitions DEF IInv, FInv, Filled
  <1> HIDE DEF c
  <1>3. SUFFICES Way(abi, c)
    BY <1>1, StoppedStays DEF WInv, c
  <1>4. CASE c = << >>
    BY <1>4, NoneWay
  <1>5. CASE name \in DOMAIN types /\ node.kind = "alias_def"
    <2> DEFINE f == Frame("alias", name, 0, << >>)
               e == node.element
               g == Frame("get_type", e, 1, << >>)
    <2>1. c = <<f, g>>
      BY <1>1, <1>5 DEF Filling
    <2>2. /\ f.fn = "alias" /\ f.name = name /\ f.depth = 0 /\ f.rest = << >>
          /\ g.fn = "get_type" /\ g.name = e /\ g.depth = 1 /\ g.rest = << >>
      BY DEF Frame
    <2>3. node = abi[name] /\ name \in DOMAIN abi
      BY <1>2, <1>5, DefinedNames DEF DefKinds
    <2>4. e \in Names /\ name \in Names /\ e # << >> /\ abi[name].element = e
      BY <1>2, <1>5, <2>3, NameParts DEF Definitions, IsDefinition
    <2>5. e \in Mentioned(abi) /\ e \in PartsOf(abi, e)
      BY <2>3, <2>4, ElementMentioned, OwnPart DEF PartsOf
    <2>6. DefinedBelow(abi, e) \in Follows(abi, name)
      BY <1>5, <2>3 DEF Follows
    <2>7. Beyond(abi, DefinedBelow(abi, name), DefinedBelow(abi, e))
      BY <2>3, <2>4, <2>6, BeyondNext, BelowFacts
    <2> HIDE DEF f, g, e, name
    <2>8. Onward(abi, f, g) /\ g.fn # "types"
      BY <2>2, <2>7 DEF Onward, Under, StructCalls
    <2>9. RestMentioned(abi, f) /\ RestMentioned(abi, g)
      BY <2>2, NoneMentioned
    <2>10. QED
      BY <2>1, <2>2, <2>5, <2>8, <2>9, TwoWay
  <1>6. CASE name \in DOMAIN types /\ node.kind \in {"struct_def", "variant_def"}
    <2> DEFINE fn == IF node.kind = "struct_def" THEN "struct" ELSE "types"
               f  == Frame(fn, name, 0, node.fields)
    <2>1. c = <<f>>
      BY <1>1, <1>6 DEF Filling
    <2>2. f.depth = 0 /\ f.rest = node.fields
      BY DEF Frame
    <2>3. node = abi[name] /\ name \in DOMAIN abi
      BY <1>2, <1>6, DefinedNames DEF DefKinds
    <2> HIDE DEF f, name
    <2>4. RestMentioned(abi, f)
      BY <2>2, <2>3, FieldsMentioned DEF RestMentioned
    <2>5. QED
      BY <2>1, <2>2, <2>4, OneWay
  <1>7. CASE name \in DOMAIN types /\ node.kind \notin DefKinds
    <2>1. c = << >>
      BY <1>1, <1>7 DEF Filling, DefKinds
    <2>2. QED
      BY <2>1, <1>4
  <1>8. CASE name \notin DOMAIN types
    BY <1>1, <1>4, <1>8
  <1>9. QED
    BY <1>5, <1>6, <1>7, <1>8 DEF DefKinds

----------------------------------------------------------------------------
\* The calls of callers.
LEMMA ShallowStays ==
    ASSUME IInv, WInv, pc = "ready", calls # << >>, NEW f, NEW g,
           calls' = Below \o <<f, g>> \/ calls' = Below \o <<f>> \/ calls' = Below,
           UNCHANGED <<abi, pc, error>>,
           ShortRequests => OfRequest(f) /\ OfRequest(g)
    PROVE  WInv'
  <1> DEFINE c == calls'
  <1>1. \A i \in DOMAIN c : c[i] = f \/ c[i] = g \/ (\E k \in DOMAIN calls : c[i] = calls[k])
    BY NewCalls
  <1> HIDE DEF c
  <1>2. ShortRequests => \A i \in DOMAIN c : OfRequest(c[i])
    BY <1>1 DEF WInv, Shallow
  <1>3. Shallow'
    BY <1>2 DEF Shallow, c
  <1>4. QED
    BY <1>3, StoppedStays DEF WInv

LEMMA ShallowReturn ==
    ASSUME IInv, WInv, pc = "ready", calls # << >>, NEW type, NEW t2, Return(type, t2)
    PROVE  WInv'
  <1> DEFINE f == [fn |-> "members"]
  <1>1. calls' = Below /\ UNCHANGED <<abi, pc, error>>
    BY DEF Return
  <1>2. f.fn = "members"
    OBVIOUS
  <1> HIDE DEF f
  <1>3. OfRequest(f)
    BY <1>2 DEF OfRequest, Getting
  <1>4. QED
    BY <1>1, <1>3, ShallowStays

LEMMA ShallowGo ==
    ASSUME IInv, WInv, pc = "ready", calls # << >>, NEW f, NEW t2, Continue(<<f>>, t2),
           f.fn \notin Getting
    PROVE  WInv'
  <1>1. calls' = Below \o <<f>> /\ UNCHANGED <<abi, pc, error>>
    BY DEF Continue
  <1>2. OfRequest(f)
    BY DEF OfRequest
  <1>3. QED
    BY <1>1, <1>2, ShallowStays

LEMMA ShallowCall ==
    ASSUME IInv, WInv, pc = "ready", calls # << >>, NEW f, NEW g, NEW t2, Continue(<<f, g>>, t2),
           ShortRequests => OfRequest(f) /\ OfRequest(g)
    PROVE  WInv'
  <1>1. calls' = Below \o <<f, g>> /\ UNCHANGED <<abi, pc, error>>
    BY DEF Continue
  <1>2. QED
    BY <1>1, ShallowStays

LEMMA GetTypeShallow ==
    ASSUME IInv, FInv, WInv, pc = "ready", GetType
    PROVE  WInv'
  <1> DEFINE name == Top.name
             node == types[name]
  <1>1. calls # << >> /\ Top.fn = "get_type"
    BY DEF GetType, Entered
  <1>2. Top \in Calls /\ name \in Names /\ Top.depth \in Nat /\ calls \in Seq(Calls)
    BY <1>1, TopFacts
  <1>3. ShortRequests => OfRequest(Top)
    <2>1. Len(calls) \in DOMAIN calls /\ Top = calls[Len(calls)]
      BY <1>1, <1>2, CallFacts
    <2>2. QED
      BY <2>1 DEF WInv, Shallow
  <1> DEFINE d == Top.depth
             l == Len(name)
  <1>4. d \in Nat /\ l \in Nat /\ l > 0 /\ MaxDepth \in Nat
    BY <1>2, NameParts, AbiAssumption
  <1>5. ShortRequests => d + l <= MaxDepth
    BY <1>1, <1>3 DEF OfRequest, Getting
  <1>6. CASE d >= MaxDepth
    <2>1. Throw("recursion_limit_reached")
      BY <1>6 DEF GetType
    <2>2. ~ShortRequests
      <3> HIDE DEF d, l
      <3>1. QED
        BY ONLY <1>4, <1>5, <1>6
    <2>3. QED
      BY <1>1, <2>1, <2>2, ThrowOnward
  <1>7. CASE ~(d >= MaxDepth) /\ name \notin DOMAIN types
    <2>1. GetDerived(name)
      BY <1>7 DEF GetType
    <2>2. CASE l = 1
      <3>1. Throw("unknown_type")
        BY <2>1, <2>2 DEF GetDerived
      <3>2. QED
        BY <1>1, <3>1, ThrowOnward
    <2>3. CASE l # 1 /\ name[l] \in DOMAIN BadSizes
      <3>1. Throw(BadSizes[name[l]])
        BY <2>1, <2>3 DEF GetDerived
      <3>2. BadSizes[name[l]] # "recursion_limit_reached"
        BY <2>3 DEF BadSizes
      <3>3. QED
        BY <1>1, <3>1, <3>2, ThrowOnward
    <2>4. CASE l # 1 /\ name[l] \notin DOMAIN BadSizes
      <3> DEFINE f == [Top EXCEPT !.fn = "derived"]
                 below == SubSeq(name, 1, l - 1)
                 g == Frame("get_type", below, d + 1, << >>)
      <3>1. Continue(<<f, g>>, types)
        BY <2>1, <2>4 DEF GetDerived
      <3>2. l > 1
        <4> HIDE DEF l
        <4>1. QED
          BY ONLY <1>4, <2>4
      <3>3. l - 1 \in 1 .. l
        <4> HIDE DEF l
        <4>1. QED
          BY ONLY <1>4, <3>2
      <3>4. Len(below) = l - 1
        BY <1>2, <3>3, PartFacts DEF Part
      <3>5. f.name = name /\ f.depth = d
        BY <1>2 DEF Calls
      <3>6. g.name = below /\ g.depth = d + 1
        BY DEF Frame
      <3> HIDE DEF f, g, below
      <3>7. f.depth + Len(f.name) = d + l /\ g.depth + Len(g.name) = d + l
        <4>1. f.depth + Len(f.name) = d + l
          BY <3>5
        <4>2. g.depth + Len(g.name) = (d + 1) + (l - 1)
          BY <3>4, <3>6
        <4>3. (d + 1) + (l - 1) = d + l
          <5> HIDE DEF d, l
          <5>1. QED
            BY ONLY <1>4
        <4>4. QED
          BY <4>1, <4>2, <4>3
      <3> HIDE DEF d, l
      <3>8. ShortRequests => OfRequest(f) /\ OfRequest(g)
        BY <1>5, <3>7 DEF OfRequest
      <3>9. QED
        BY <1>1, <3>1, <3>8, ShallowCall
    <2>5. QED
      BY <2>2, <2>3, <2>4
  <1>8. CASE ~(d >= MaxDepth) /\ name \in DOMAIN types
    <2>1. node.kind # "alias_def"
      BY <1>8 DEF IInv, Progress, NothingUnresolved, DefKinds
    <2>2. Return(node.element, types) \/ Return(name, types)
      BY <1>8, <2>1 DEF GetType
    <2>3. QED
      BY <1>1, <2>2, ShallowReturn
  <1>9. QED
    BY <1>6, <1>7, <1>8

LEMMA DerivedShallow ==
    ASSUME IInv, FInv, WInv, pc = "ready", Derived \/ AddDerivedType
    PROVE  WInv'
  <1> DEFINE t2 == TryEmplace(types, Top.name, Node(KindOf(Top.name), returned, << >>))
  <1>1. calls # << >>
    BY DEF Derived, AddDerivedType, Resumed
  <1>2. Throw("invalid_nesting") \/ Return(Top.name, t2)
    BY DEF Derived, AddDerivedType
  <1> HIDE DEF t2
  <1>3. CASE Throw("invalid_nesting")
    BY <1>1, <1>3, ThrowOnward
  <1>4. CASE Return(Top.name, t2)
    BY <1>1, <1>4, ShallowReturn
  <1>5. QED
    BY <1>2, <1>3, <1>4

\* A call for a C++ type is no request of a name.
LEMMA AddedShallow ==
    ASSUME IInv, WInv, pc = "ready", calls # << >>, NEW f, NEW g, NEW t2, Continue(<<f, g>>, t2),
           f.fn \notin Getting, g.fn \notin Getting
    PROVE  WInv'
  <1>1. OfRequest(f) /\ OfRequest(g)
    BY DEF OfRequest
  <1>2. QED
    BY <1>1, ShallowCall

LEMMA AddTypeShallow ==
    ASSUME IInv, FInv, WInv, pc = "ready", AddType
    PROVE  WInv'
  <1> DEFINE name == Top.name
             f == [Top EXCEPT !.fn = "element"]
             g == Frame("add_type", SubSeq(name, 1, Len(name) - 1), 0, << >>)
             v == Frame("alternatives", name, 0, Reflected[name].fields)
             s == Frame("members", name, 0, Reflected[name].fields)
             t2 == With(types, name, Node("struct", << >>, << >>))
  <1>1. calls # << >>
    BY DEF AddType, Entered
  <1>2. Top \in Calls
    BY <1>1, TopFacts
  <1>3. \/ Continue(<<f, g>>, types) \/ Continue(<<v>>, types) \/ Return(name, types)
        \/ Continue(<<s>>, t2) \/ Throw("unknown_type")
    BY DEF AddType
  <1>4. f.fn = "element" /\ g.fn = "add_type" /\ v.fn = "alternatives" /\ s.fn = "members"
    BY <1>2 DEF Frame, Calls
  <1> HIDE DEF f, g, v, s, t2
  <1>5. f.fn \notin Getting /\ g.fn \notin Getting /\ v.fn \notin Getting /\ s.fn \notin Getting
    BY <1>4 DEF Getting
  <1>6. CASE Continue(<<f, g>>, types)
    BY <1>1, <1>5, <1>6, AddedShallow
  <1>7. CASE Continue(<<v>>, types) \/ Continue(<<s>>, t2)
    BY <1>1, <1>5, <1>7, ShallowGo
  <1>8. CASE Return(name, types)
    BY <1>1, <1>8, ShallowReturn
  <1>9. CASE Throw("unknown_type")
    BY <1>1, <1>9, ThrowOnward
  <1>10. QED
    BY <1>3, <1>6, <1>7, <1>8, <1>9

LEMMA NextShallow ==
    ASSUME IInv, FInv, WInv, pc = "ready", calls # << >>, Top.fn \in {"alternatives", "members"},
           NEW fields, NEW t2, Continue(AddNext(fields), t2)
    PROVE  WInv'
  <1> DEFINE f == [Top EXCEPT !.fields = fields, !.rest = Tail(@)]
             g == Frame("add_type", Head(Top.rest), 0, << >>)
  <1>1. Top \in Calls
    BY TopFacts
  <1>2. Continue(<<f, g>>, t2)
    BY DEF AddNext
  <1>3. f.fn = Top.fn /\ g.fn = "add_type"
    BY <1>1 DEF Frame, Calls
  <1> HIDE DEF f, g
  <1>4. f.fn \notin Getting /\ g.fn \notin Getting
    BY <1>3 DEF Getting
  <1>5. QED
    BY <1>2, <1>4, AddedShallow

LEMMA MembersShallow ==
    ASSUME IInv, FInv, WInv, pc = "ready", AddVariant \/ AddStruct
    PROVE  WInv'
  <1> DEFINE v == TryEmplace(types, Top.name, Node("variant", << >>, Gathered))
             s == IF returned = << >> THEN types
                  ELSE [types EXCEPT ![Top.name].fields = Append(@, returned)]
  <1>1. calls # << >> /\ Top.fn \in {"alternatives", "members"}
    BY DEF AddVariant, AddStruct
  <1>2. \/ Return(Top.name, v) \/ Return(Top.name, s)
        \/ Continue(AddNext(Gathered), types) \/ Continue(AddNext(<< >>), s)
    BY DEF AddVariant, AddStruct
  <1> HIDE DEF v, s
  <1>3. CASE Return(Top.name, v) \/ Return(Top.name, s)
    BY <1>1, <1>3, ShallowReturn
  <1>4. CASE Continue(AddNext(Gathered), types)
    BY <1>1, <1>4, NextShallow
  <1>5. CASE Continue(AddNext(<< >>), s)
    BY <1>1, <1>5, NextShallow
  <1>6. QED
    BY <1>2, <1>3, <1>4, <1>5

LEMMA AskShallow ==
    ASSUME Request \/ AddCppType
    PROVE  WInv'
  <1>1. PICK fn \in {"get_type", "add_type"} : \E name \in Requests \cup CppRequests :
           Ask(fn, name) /\ (fn = "get_type" => name \in Requests)
    BY DEF Request, AddCppType
  <1>2. PICK name \in Requests \cup CppRequests :
           Ask(fn, name) /\ (fn = "get_type" => name \in Requests)
    BY <1>1
  <1> DEFINE f == Frame(fn, name, 0, << >>)
             c == <<f>>
  <1>3. calls' = c /\ error' = "none" /\ pc' = "ready"
    BY <1>2 DEF Ask
  <1>4. f.fn = fn /\ f.name = name /\ f.depth = 0
    BY DEF Frame
  <1>5. \A i \in DOMAIN c : c[i] = f
    OBVIOUS
  <1> HIDE DEF f, c
  <1>6. ShortRequests => OfRequest(f)
    <2>1. SUFFICES ASSUME ShortRequests, fn = "get_type"
                   PROVE  f.depth + Len(f.name) <= MaxDepth
      BY <1>1, <1>4 DEF OfRequest, Getting
    <2>2. name \in Names /\ Len(name) <= MaxDepth
      BY <2>1, <1>2, CallerAssumption DEF ShortRequests
    <2>3. Len(name) \in Nat
      BY <2>2, NameParts
    <2>4. f.depth + Len(f.name) = Len(name)
      BY <2>3, <1>4
    <2>5. QED
      BY <2>2, <2>4
  <1>7. Shallow'
    BY <1>3, <1>5, <1>6 DEF Shallow
  <1>8. QED
    BY <1>3, <1>7, StoppedOtherwise DEF WInv

LEMMA StepOnward ==
    ASSUME IInv, FInv, CInv, WInv, [Next]_vars
    PROVE  WInv'
  <1>1. CASE UNCHANGED vars
    BY <1>1 DEF vars, WInv, Shallow, StoppedRightly
  <1>2. CASE Enter
    <2>1. pc = "enter" /\ UNCHANGED <<abi, error, calls>> /\ pc' = "fill"
      BY <1>2 DEF Enter
    <2>2. calls = << >>
      BY <2>1, NoCalls DEF IInv
    <2>3. QED
      BY <2>1, <2>2, NoneWay, StoppedStays DEF WInv
  <1>3. CASE Redefined
    <2>1. error' # "recursion_limit_reached" /\ pc' = "failed"
      BY <1>3 DEF Redefined
    <2>2. QED
      BY <2>1, StoppedOtherwise DEF WInv
  <1>4. CASE ConvertBack
    <2>1. error' # "recursion_limit_reached" /\ pc' = "enter"
      BY <1>4 DEF ConvertBack
    <2>2. QED
      BY <2>1, StoppedOtherwise DEF WInv
  <1>5. CASE Fill
    BY <1>5, FillOnward
  <1>6. CASE Converted
    <2>1. UNCHANGED <<abi, error>> /\ pc' = "ready" /\ calls' = << >>
      BY <1>6 DEF Converted
    <2>2. Shallow'
      BY <2>1 DEF Shallow
    <2>3. QED
      BY <2>1, <2>2, StoppedStays DEF WInv
  <1>7. CASE Request \/ AddCppType
    BY <1>7, AskShallow
  <1>8. CASE Resolve \/ Add
    <2>1. calls # << >>
      BY <1>8 DEF Resolve, Add, GetType, Derived, ResolveAlias, ResolveStruct, ResolveBase,
         ResolveMembers, AddType, AddDerivedType, AddVariant, AddStruct, Entered, Resumed
    <2>2. pc \in {"fill", "ready"} /\ Top.fn \in Modes
      BY <2>1, TopFacts
    <2>3. CASE pc = "fill"
      <3>1. ~Add
        BY <2>2, <2>3 DEF Modes, Getting, Resolving, Add, AddType, AddDerivedType, AddVariant,
           AddStruct, Entered, Resumed
      <3>2. QED
        BY <1>8, <2>3, <3>1, ResolveOnward
    <2>4. CASE pc = "ready"
      <3>1. GetType \/ Derived \/ Add
        BY <1>8, <2>4, NothingResolves
      <3>2. QED
        BY <2>4, <3>1, GetTypeShallow, DerivedShallow, AddTypeShallow, MembersShallow DEF Add
    <2>5. QED
      BY <2>2, <2>3, <2>4
  <1>9. CASE Terminated
    BY <1>9 DEF Terminated, vars, WInv, Shallow, StoppedRightly
  <1>10. QED
    BY <1>1, <1>2, <1>3, <1>4, <1>5, <1>6, <1>7, <1>8, <1>9 DEF Next

\* The recursion limit refuses every ABI whose aliases and bases run in a circle, and
\* refuses no other that is small, nor any name that is short, if the callers' are.
THEOREM CirclesAreRefused == Spec => []CirclesRefused
  <1>1. Init => FInv /\ CInv /\ WInv
    BY DEF Init, FInv, CInv, WInv, StoppedRightly
  <1>2. IInv /\ FInv /\ [Next]_vars => FInv'
    BY StepFlat
  <1>3. IInv /\ FInv /\ CInv /\ [Next]_vars => CInv'
    BY StepUntangled
  <1>4. IInv /\ FInv /\ CInv /\ WInv /\ [Next]_vars => WInv'
    BY StepOnward
  <1>5. CInv /\ WInv => CirclesRefused
    BY DEF CInv, WInv, StoppedRightly, CirclesRefused
  <1>6. QED
    BY <1>1, <1>2, <1>3, <1>4, <1>5, Inductive, PTL DEF Spec

----------------------------------------------------------------------------
(***************************************************************************)
(* The table written as definitions and converted again.                   *)
(***************************************************************************)
\* The definitions a are those convert makes of the nodes s, and name no alias.
Written(a, s) ==
    \A n \in DOMAIN s :
        /\ n \in DOMAIN a /\ s[n] = Node(s[n].kind, s[n].element, s[n].fields)
        /\ s[n].fields \in Seq(Names)
        /\ IF s[n].kind = "alias"
           THEN /\ a[n].kind = "alias_def" /\ a[n].element = s[n].element
                /\ s[n].element # << >> /\ s[n].fields = << >>
           ELSE /\ s[n].kind \in Composite
                /\ a[n].kind = IF s[n].kind = "struct" THEN "struct_def" ELSE "variant_def"
                /\ a[n].element = << >> /\ s[n].element = << >> /\ a[n].fields = s[n].fields
        /\ \A p \in Pointers(s[n]) : p \in DOMAIN a => a[p].kind # "alias_def"

Same(t, s) == \A n \in DOMAIN s : n \in DOMAIN t /\ t[n] = s[n]

BackInv ==
    source # << >> => Written(abi, source) /\ (pc = "ready" => Same(types, source))

LEMMA WrittenBack ==
    ASSUME NEW t, Table(t), Nested(t), \A n \in DOMAIN t : t[n].kind \notin DefKinds
    PROVE  Written(to_abi_def(t), [n \in Defined(t) |-> t[n]])
  <1> DEFINE a == to_abi_def(t)
             s == [n \in Defined(t) |-> t[n]]
  <1>1. DOMAIN a = Defined(t) /\ DOMAIN s = Defined(t) /\ \A n \in Defined(t) : s[n] = t[n]
    BY DEF to_abi_def
  <1>2. ASSUME NEW n \in Defined(t)
        PROVE  a[n] = CASE t[n].kind = "alias"  -> Node("alias_def", t[n].element, << >>)
                        [] t[n].kind = "struct" -> Node("struct_def", << >>, t[n].fields)
                        [] OTHER                -> Node("variant_def", << >>, t[n].fields)
    BY DEF to_abi_def, AliasDef
  <1> HIDE DEF a, s
  <1>3. ASSUME NEW n \in Defined(t)
        PROVE  /\ n \in DOMAIN t /\ t[n].kind \in {"alias", "struct", "variant"}
               /\ IsResolved(t, t[n]) /\ NodeNests(t, t[n])
               /\ t[n].fields \in Seq(Names)
    <2>1. n \in DOMAIN t /\ t[n].kind \in {"alias", "struct", "variant"}
      BY DEF Defined
    <2>2. IsResolved(t, t[n]) /\ NodeNests(t, t[n]) /\ DOMAIN t \subseteq Names
      BY <2>1, TableFacts DEF Nested, Table
    <2>3. t[n].fields \in Seq(Names)
      BY <2>2 DEF IsResolved
    <2>4. QED
      BY <2>1, <2>2, <2>3
  <1>4. \A n \in DOMAIN t : n # << >>
    BY TableFacts
  <1>5. ASSUME NEW p \in DOMAIN a, Proper(t, p)
        PROVE  a[p].kind # "alias_def"
    <2>1. p \in Defined(t) /\ t[p].kind # "alias"
      BY <1>1, <1>5 DEF Proper
    <2>2. \/ a[p] = Node("struct_def", << >>, t[p].fields)
          \/ a[p] = Node("variant_def", << >>, t[p].fields)
      BY <2>1, <1>2, <1>3
    <2>3. QED
      BY <2>2, NodeParts
  <1>6. ASSUME NEW n \in DOMAIN s
        PROVE  /\ n \in DOMAIN a /\ s[n] = Node(s[n].kind, s[n].element, s[n].fields)
               /\ s[n].fields \in Seq(Names)
               /\ IF s[n].kind = "alias"
                  THEN /\ a[n].kind = "alias_def" /\ a[n].element = s[n].element
                       /\ s[n].element # << >> /\ s[n].fields = << >>
                  ELSE /\ s[n].kind \in Composite
                       /\ a[n].kind = IF s[n].kind = "struct" THEN "struct_def" ELSE "variant_def"
                       /\ a[n].element = << >> /\ s[n].element = << >> /\ a[n].fields = s[n].fields
               /\ \A p \in Pointers(s[n]) : p \in DOMAIN a => a[p].kind # "alias_def"
    <2>1. n \in Defined(t) /\ n \in DOMAIN a /\ s[n] = t[n]
      BY <1>1
    <2>2. IsResolved(t, t[n]) /\ NodeNests(t, t[n]) /\ t[n].fields \in Seq(Names)
      BY <2>1, <1>3
    <2>3. s[n] = Node(s[n].kind, s[n].element, s[n].fields)
      BY <2>1, <2>2 DEF IsResolved
    <2>4. \A p \in Pointers(s[n]) : p \in DOMAIN a => a[p].kind # "alias_def"
      BY <2>1, <2>2, <1>5 DEF NodeNests
    <2>5. CASE t[n].kind = "alias"
      <3>1. a[n].kind = "alias_def" /\ a[n].element = t[n].element
        BY <2>1, <2>5, <1>2, NodeParts
      <3>2. t[n].element # << >> /\ t[n].fields = << >>
        BY <2>2, <2>5, <1>4 DEF IsResolved
      <3>3. QED
        BY <2>1, <2>2, <2>3, <2>4, <2>5, <3>1, <3>2
    <2>6. CASE t[n].kind \in Composite
      <3>1. /\ a[n].kind = IF t[n].kind = "struct" THEN "struct_def" ELSE "variant_def"
            /\ a[n].element = << >> /\ a[n].fields = t[n].fields
        BY <2>1, <2>6, <1>2, NodeParts DEF Composite
      <3>2. t[n].element = << >> /\ t[n].kind # "alias"
        BY <2>2, <2>6 DEF IsResolved, DerivedKinds, Composite
      <3>3. QED
        BY <2>1, <2>2, <2>3, <2>4, <2>6, <3>1, <3>2
    <2>7. QED
      BY <2>1, <1>3, <2>5, <2>6 DEF Composite
  <1>7. Written(a, s)
    BY <1>6 DEF Written
  <1>8. QED
    BY <1>7 DEF a, s

\* A name that is no alias leads to itself.
LEMMA LeadsItself ==
    ASSUME NEW a, NEW t, Aliased(a, t), NEW p, Known(t, p), p \in DOMAIN a => a[p].kind # "alias_def"
    PROVE  Leads(t, p) = p
  BY DEF Known, Leads, Aliased, AliasDone

LEMMA ConvertedSame ==
    ASSUME NEW a, NEW t, NEW s, Table(t), Entries(a, t), Aliased(a, t), Written(a, s),
           \A n \in DOMAIN t : t[n].kind \notin DefKinds
    PROVE  Same(t, s)
  <1>1. SUFFICES ASSUME NEW n \in DOMAIN s
                 PROVE  n \in DOMAIN t /\ t[n] = s[n]
    BY DEF Same
  <1>2. /\ n \in DOMAIN a /\ s[n] = Node(s[n].kind, s[n].element, s[n].fields)
        /\ s[n].fields \in Seq(Names)
        /\ IF s[n].kind = "alias"
           THEN /\ a[n].kind = "alias_def" /\ a[n].element = s[n].element
                /\ s[n].element # << >> /\ s[n].fields = << >>
           ELSE /\ s[n].kind \in Composite
                /\ a[n].kind = IF s[n].kind = "struct" THEN "struct_def" ELSE "variant_def"
                /\ a[n].element = << >> /\ s[n].element = << >> /\ a[n].fields = s[n].fields
        /\ \A p \in Pointers(s[n]) : p \in DOMAIN a => a[p].kind # "alias_def"
    BY DEF Written
  <1>3. /\ n \in DOMAIN t /\ Resolves(a[n].kind, t[n].kind)
        /\ t[n].kind \in Composite => StructDone(a, t, n)
    BY <1>2 DEF Entries
  <1>4. t[n].kind = s[n].kind
    BY <1>2, <1>3 DEF Resolves, DefKinds, Composite
  <1>5. IsResolved(t, t[n]) /\ t[n] = Node(t[n].kind, t[n].element, t[n].fields)
    BY <1>3, TableFacts DEF IsResolved
  <1>6. CASE s[n].kind = "alias"
    <2>1. AliasDone(a, t, n, t[n].element)
      BY <1>3, <1>4, <1>6 DEF Aliased
    <2>2. Known(t, s[n].element) /\ t[n].element = Leads(t, s[n].element)
      BY <2>1, <1>2, <1>6 DEF AliasDone
    <2>3. s[n].element \in Pointers(s[n])
      BY <1>2, <1>6 DEF Pointers
    <2>4. t[n].element = s[n].element
      BY <2>2, <2>3, <1>2, LeadsItself
    <2>5. t[n].fields = s[n].fields
      BY <1>2, <1>4, <1>5, <1>6 DEF IsResolved
    <2>6. QED
      BY <2>4, <2>5, <1>2, <1>3, <1>4, <1>5
  <1>7. CASE s[n].kind # "alias"
    <2> DEFINE all == s[n].fields
               led == LeadsAll(t, all)
    <2>1. /\ s[n].kind \in Composite /\ a[n].element = << >> /\ s[n].element = << >>
          /\ a[n].fields = all /\ all \in Seq(Names)
      BY <1>2, <1>7
    <2>2. StructDone(a, t, n)
      BY <2>1, <1>3, <1>4
    <2>3. \A i \in DOMAIN all : Known(t, all[i])
      BY <2>1, <2>2 DEF StructDone
    <2>4. t[n].fields = << >> \o led
      BY <2>1, <2>2 DEF StructDone, Inherited
    <2>5. \A i \in DOMAIN all : all[i] \in Pointers(s[n])
      BY DEF Pointers
    <2>6. \A i \in DOMAIN all : Leads(t, all[i]) = all[i]
      BY <2>3, <2>5, <1>2, LeadsItself
    <2>7. all = [i \in DOMAIN all |-> all[i]]
      <3>1. \A l \in Seq(Names) : l = [i \in DOMAIN l |-> l[i]]
        OBVIOUS
      <3>2. QED
        BY <3>1, <2>1
    <2>8. led = all
      BY <2>6, <2>7 DEF LeadsAll
    <2>9. t[n].fields = all
      <3>1. \A l \in Seq(Names) : << >> \o l = l
        OBVIOUS
      <3>2. QED
        BY <3>1, <2>1, <2>4, <2>8
    <2>10. t[n].element = << >>
      BY <2>1, <1>4, <1>5 DEF IsResolved, DerivedKinds, Composite
    <2>11. QED
      BY <2>1, <2>9, <2>10, <1>2, <1>3, <1>4, <1>5
  <1>8. QED
    BY <1>6, <1>7

LEMMA StepBack ==
    ASSUME IInv, IInv', NInv, FInv, CInv, BackInv, [Next]_vars
    PROVE  BackInv'
  <1>1. CASE ConvertBack
    <2>1. /\ pc = "ready" /\ source' = [n \in Defined(types) |-> types[n]]
          /\ abi' = to_abi_def(types) /\ pc' = "enter"
      BY <1>1 DEF ConvertBack
    <2>2. Table(types) /\ Nested(types) /\ \A n \in DOMAIN types : types[n].kind \notin DefKinds
      BY <2>1 DEF IInv, NInv, Progress, NothingUnresolved
    <2>3. Written(abi', source')
      BY <2>1, <2>2, WrittenBack
    <2>4. QED
      BY <2>1, <2>3 DEF BackInv
  <1>2. CASE ~ConvertBack
    <2>1. UNCHANGED <<abi, source>>
      BY <1>2 DEF Next, vars, Enter, Redefined, Fill, Converted, Request, AddCppType, Ask, Terminated,
         Resolve, GetType, GetDerived, Derived, ResolveAlias, ResolveStruct, ResolveBase, Inherit,
         ResolveFirst, ResolveMembers, Add, AddType, AddDerivedType, AddVariant, AddStruct,
         Continue, Return, Throw
    <2>2. SUFFICES ASSUME source # << >>, Written(abi, source), pc' = "ready"
                   PROVE  Same(types', source)
      BY <2>1 DEF BackInv
    <2>3. CASE pc = "ready"
      <3>1. Same(types, source) /\ EntersNew
        BY <2>2, <2>3 DEF BackInv, FInv
      <3>2. \A n \in DOMAIN source : n \in DOMAIN types /\ types[n] = source[n] /\ n \in Own(abi)
        BY <2>2, <3>1 DEF Same, Written, Own
      <3>3. \A n \in DOMAIN source : ~Entering(n)
        BY <3>1, <3>2 DEF EntersNew, Entering
      <3>4. \A n \in DOMAIN source : n \in DOMAIN types' /\ types'[n] = types[n]
        <4>1. CASE Next
          BY <4>1, <2>2, <2>3, <3>2, <3>3, StepGrows
        <4>2. CASE UNCHANGED vars
          BY <4>2, <3>2 DEF vars
        <4>3. QED
          BY <4>1, <4>2
      <3>5. QED
        BY <3>2, <3>4 DEF Same
    <2>4. CASE pc # "ready"
      <3>1. Converted
        BY <2>2, <2>4, <1>2 DEF Next, vars, Enter, Redefined, Fill, Request, AddCppType, Ask, Terminated,
           Resolve, GetType, GetDerived, Derived, ResolveAlias, ResolveStruct, ResolveBase, Inherit,
           ResolveFirst, ResolveMembers, Add, AddType, AddDerivedType, AddVariant, AddStruct,
           Continue, Return, Throw
      <3>2. pc = "fill" /\ types' = types
        BY <3>1 DEF Converted
      <3>3. Table(types) /\ Entries(abi, types) /\ Aliased(abi, types)
        BY <3>2 DEF IInv, FInv, CInv, Untangled
      <3>4. \A n \in DOMAIN types : types[n].kind \notin DefKinds
        BY <2>2, <3>2 DEF IInv, Progress, NothingUnresolved
      <3>5. QED
        BY <2>2, <3>2, <3>3, <3>4, ConvertedSame
    <2>5. QED
      BY <2>3, <2>4
  <1>3. QED
    BY <1>1, <1>2

\* A table written as definitions and converted again is the table it was: every alias,
\* struct and variant has the same target, fields or alternatives, whatever order the
\* names come in and whatever is added afterwards.  That the way back is not refused
\* depends on how deep the types nest, so that is what the run adds.
THEOREM SameDefinitions ==
    ASSUME AliasesApart
    PROVE  Spec => [](pc # "failed" => DefinitionsComeBack)
  <1>1. Init => NInv /\ FInv /\ CInv /\ BackInv
    BY InitInv, InitNests DEF Init, FInv, CInv, BackInv
  <1>2. IInv /\ NInv /\ [Next]_vars => NInv'
    BY StepNests
  <1>3. IInv /\ FInv /\ [Next]_vars => FInv'
    BY StepFlat
  <1>4. IInv /\ FInv /\ CInv /\ [Next]_vars => CInv'
    BY StepUntangled
  <1>5. IInv /\ IInv' /\ NInv /\ FInv /\ CInv /\ BackInv /\ [Next]_vars => BackInv'
    BY StepBack
  <1>6. BackInv => (pc # "failed" => DefinitionsComeBack)
    BY DEF BackInv, Same, DefinitionsComeBack
  <1>7. QED
    BY <1>1, <1>2, <1>3, <1>4, <1>5, <1>6, Inductive, PTL DEF Spec
==============================================================================
