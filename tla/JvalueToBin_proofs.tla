-------------------------- MODULE JvalueToBin_proofs --------------------------
(***************************************************************************)
(* Proofs about JvalueToBin, for every type table, stack limit and         *)
(* document length.                                                        *)
(***************************************************************************)
EXTENDS JvalueToBin, AbiSchema_proofs

----------------------------------------------------------------------------
(***************************************************************************)
(* The tree.  Every node links to nodes one level below its own: a depth   *)
(* for each node is the witness that nothing links back up.                *)
(***************************************************************************)
MemberMaps == UNION {[keys -> Nat] : keys \in SUBSET Strings}

Jvalues == [kind : JKinds, text : Strings \cup {""}, members : MemberMaps, items : Seq(Nat)]

Tree(ns) ==
    /\ ns \in Seq(Jvalues) /\ Len(ns) > 0
    /\ \A n \in 1 .. Len(ns) :
          /\ \A key \in DOMAIN ns[n].members : ns[n].members[key] \in 1 .. Len(ns)
          /\ \A i \in 1 .. Len(ns[n].items) : ns[n].items[i] \in 1 .. Len(ns)

Layered(ns, d) ==
    /\ d \in [1 .. Len(ns) -> 1 .. MaxStack] /\ d[1] = 1
    /\ \A n \in 1 .. Len(ns) :
          /\ \A key \in DOMAIN ns[n].members : d[ns[n].members[key]] = d[n] + 1
          /\ \A i \in 1 .. Len(ns[n].items) : d[ns[n].items[i]] = d[n] + 1

\* The entries of a stack lie one below the other.
Placed(st, d) == \A i \in 1 .. Len(st) : d[st[i].value] = i

(***************************************************************************)
(* The builder: child is what was added last to the container of e.        *)
(***************************************************************************)
Linked(ns, e, child) ==
    \/ /\ ns[e.value].kind = "object"
       /\ e.key \in DOMAIN ns[e.value].members
       /\ child = ns[e.value].members[e.key]
    \/ /\ ns[e.value].kind = "array"
       /\ Len(ns[e.value].items) > 0
       /\ child = ns[e.value].items[Len(ns[e.value].items)]

Path(ns, rd, b) ==
    /\ Len(rd) = Len(b)
    /\ \A i \in 1 .. Len(b) :
          /\ rd[i] \in {"name", "value", "item"}
          /\ ns[b[i].value].kind = IF rd[i] = "item" THEN "array" ELSE "object"
          /\ rd[i] = "value" => b[i].key \in Strings
          /\ i < Len(b) => rd[i] # "value" /\ Linked(ns, b[i], b[i + 1].value)
    /\ Len(b) > 0 => b[1].value = 1

(***************************************************************************)
(* The encoder: the value of e fits its type, and e is at child.           *)
(***************************************************************************)
Fits(ns, e) ==
    LET n == ns[e.value]
    IN  \/ /\ Kind[e.type] = "struct" /\ n.kind = "object"
           /\ e.position \in -1 .. Len(Fields[e.type]) - 1
        \/ /\ Kind[e.type] = "variant" /\ n.kind = "array"
           /\ e.position \in {0, 1} /\ Len(n.items) = 2
        \/ /\ Kind[e.type] \in ArrayKinds /\ n.kind = "array"
           /\ e.position \in -1 .. Len(n.items) - 1

At(ns, e, child) ==
    LET n == ns[e.value]
    IN  \/ /\ Kind[e.type] = "struct" /\ e.position >= 0
           /\ Field(e.type, e.position).name \in DOMAIN n.members
           /\ child = n.members[Field(e.type, e.position).name]
        \/ /\ Kind[e.type] \in ArrayKinds \cup {"variant"} /\ e.position >= 0
           /\ child = n.items[e.position + 1]

Follows(ns, st) ==
    /\ \A i \in 1 .. Len(st) :
          /\ Fits(ns, st[i])
          /\ i < Len(st) => At(ns, st[i], st[i + 1].value)
    /\ Len(st) > 0 => st[1].value = 1

DepthsFit ==
    \E d : /\ Layered(nodes, d)
           /\ Placed(stack, d)
           /\ pc = "build" => Placed(build, d)

IInv ==
    /\ TypeOK
    /\ Tree(nodes)
    /\ DepthsFit
    /\ pc = "build" /\ doc = << >> => reader = FreshReader /\ build = <<BuildEntry(1)>>
    /\ pc = "build" /\ doc # << >> => Path(nodes, reader, build)
    /\ Follows(nodes, stack)
    /\ pc \in {"build", "built"} => stack = << >>
    /\ error # "extra_data"

----------------------------------------------------------------------------
(***************************************************************************)
(* Nodes.                                                                  *)
(***************************************************************************)

\* What a node is made of.
LEMMA JvalueFacts ==
    ASSUME NEW x \in Jvalues
    PROVE  /\ x.kind \in JKinds /\ x.text \in Strings \cup {""}
           /\ x.members \in MemberMaps /\ DOMAIN x.members \subseteq Strings
           /\ \A key \in DOMAIN x.members : x.members[key] \in Nat
           /\ x.items \in Seq(Nat) /\ Len(x.items) \in Nat
  <1>1. /\ x.kind \in JKinds /\ x.text \in Strings \cup {""}
        /\ x.members \in MemberMaps /\ x.items \in Seq(Nat)
    BY DEF Jvalues
  <1>2. PICK keys \in SUBSET Strings : x.members \in [keys -> Nat]
    BY <1>1 DEF MemberMaps
  <1>3. DOMAIN x.members = keys
    BY <1>2
  <1>4. \A key \in DOMAIN x.members : x.members[key] \in Nat
    BY <1>2, <1>3
  <1>5. Len(x.items) \in Nat
    BY <1>1, LenProperties
  <1>6. DOMAIN x.members \subseteq Strings
    BY <1>3
  <1>7. QED
    BY <1>1, <1>4, <1>5, <1>6

With(m, k, child) == [key \in DOMAIN m \cup {k} |-> IF key = k THEN child ELSE m[key]]

\* Setting a member.
LEMMA MemberFacts ==
    ASSUME NEW m \in MemberMaps, NEW k \in Strings, NEW child \in Nat
    PROVE  /\ With(m, k, child) \in MemberMaps
           /\ DOMAIN With(m, k, child) = DOMAIN m \cup {k}
           /\ With(m, k, child)[k] = child
           /\ \A key \in DOMAIN m : key # k => With(m, k, child)[key] = m[key]
  <1>1. PICK keys \in SUBSET Strings : m \in [keys -> Nat]
    BY DEF MemberMaps
  <1>2. DOMAIN m = keys /\ keys \cup {k} \in SUBSET Strings
    BY <1>1
  <1>3. With(m, k, child) \in [keys \cup {k} -> Nat]
    BY <1>1, <1>2 DEF With
  <1>4. With(m, k, child) \in MemberMaps
    BY <1>2, <1>3 DEF MemberMaps
  <1>5. QED
    BY <1>2, <1>4 DEF With

\* A new node has no children.
LEMMA NewJvalue ==
    ASSUME NEW tok \in Tokens(Strings), tok.type \in ValueTokens
    PROVE  /\ JvalueOf(tok) \in Jvalues
           /\ DOMAIN JvalueOf(tok).members = {} /\ Len(JvalueOf(tok).items) = 0
           /\ tok.type = "start_object" => JvalueOf(tok).kind = "object"
           /\ tok.type = "start_array" => JvalueOf(tok).kind = "array"
  <1>1. << >> \in MemberMaps /\ DOMAIN << >> = {} /\ Len(<< >>) = 0 /\ << >> \in Seq(Nat)
    <2>1. /\ << >> \in [1 .. Len(<< >>) -> Nat] /\ DOMAIN << >> = 1 .. Len(<< >>)
          /\ Len(<< >>) = 0 /\ << >> \in Seq(Nat)
      BY EmptySeq, LenProperties
    <2>2. << >> \in [{} -> Nat] /\ DOMAIN << >> = {}
      BY <2>1
    <2>3. QED
      BY <2>1, <2>2 DEF MemberMaps
  <1>2. \A kind \in JKinds, text \in Strings \cup {""} :
          LET x == Jvalue(kind, text)
          IN  /\ x \in Jvalues /\ x.kind = kind /\ x.text = text
              /\ DOMAIN x.members = {} /\ Len(x.items) = 0
    BY <1>1 DEF Jvalue, Jvalues
  <1>3. tok.text \in Strings \cup {""}
    BY DEF Tokens
  <1>4. CASE tok.type = "start_object"
    BY <1>2, <1>4 DEF JvalueOf, JKinds
  <1>5. CASE tok.type = "start_array"
    BY <1>2, <1>5 DEF JvalueOf, JKinds
  <1>6. CASE tok.type \in {"null", "string"}
    <2>1. JvalueOf(tok) = Jvalue(tok.type, tok.text) /\ tok.type \in JKinds
      BY <1>6 DEF JvalueOf, JKinds
    <2>2. LET x == Jvalue(tok.type, tok.text)
          IN  x \in Jvalues /\ DOMAIN x.members = {} /\ Len(x.items) = 0
      BY <1>2, <1>3, <2>1
    <2>3. tok.type # "start_object" /\ tok.type # "start_array"
      BY <1>6
    <2>4. QED
      BY <2>1, <2>2, <2>3
  <1>7. tok.type \in {"start_object", "start_array", "null", "string"}
    BY DEF ValueTokens
  <1>8. QED
    BY <1>4, <1>5, <1>6, <1>7

(***************************************************************************)
(* AddChild: the node at p becomes y, which may link to a new node x.      *)
(***************************************************************************)
Grown(ns, ns2, p, y, x) ==
    LET child == Len(ns) + 1
        old   == ns[p]
    IN  /\ ns2 = Append([ns EXCEPT ![p] = y], x)
        /\ y.kind = old.kind
        /\ \A key \in DOMAIN y.members :
              \/ y.members[key] = child
              \/ key \in DOMAIN old.members /\ y.members[key] = old.members[key]
        /\ \A i \in 1 .. Len(y.items) :
              \/ y.items[i] = child
              \/ i \in 1 .. Len(old.items) /\ y.items[i] = old.items[i]
        /\ DOMAIN x.members = {} /\ Len(x.items) = 0

\* The tree grows by a node and keeps its levels.
LEMMA GrownFacts ==
    ASSUME NEW ns, Tree(ns), NEW p \in 1 .. Len(ns), NEW y \in Jvalues, NEW x \in Jvalues,
           NEW ns2, Grown(ns, ns2, p, y, x)
    PROVE  /\ Tree(ns2) /\ Len(ns2) = Len(ns) + 1
           /\ ns2[Len(ns) + 1] = x /\ ns2[p] = y
           /\ \A n \in 1 .. Len(ns) : n # p => ns2[n] = ns[n]
           /\ \A n \in 1 .. Len(ns) : ns2[n].kind = ns[n].kind
           /\ \A d : Layered(ns, d) /\ d[p] < MaxStack =>
                 LET d2 == [n \in 1 .. Len(ns) + 1 |-> IF n = Len(ns) + 1 THEN d[p] + 1 ELSE d[n]]
                 IN  Layered(ns2, d2)
  <1> DEFINE l == Len(ns)
             mid == [ns EXCEPT ![p] = y]
  <1>1. ns \in Seq(Jvalues) /\ l \in Nat /\ l > 0 /\ p \in 1 .. l
    BY DEF Tree
  <1>2. /\ mid \in Seq(Jvalues) /\ Len(mid) = l
        /\ \A n \in 1 .. l : mid[n] = IF n = p THEN y ELSE ns[n]
    BY <1>1, ExceptSeq
  <1>3. ns2 = Append(mid, x)
    BY DEF Grown
  <1> HIDE DEF l, mid
  <1>4. /\ ns2 \in Seq(Jvalues) /\ Len(ns2) = l + 1 /\ ns2[l + 1] = x
        /\ \A n \in 1 .. l : ns2[n] = mid[n]
    BY <1>2, <1>3, AppendFacts
  <1>5. /\ ns2[p] = y /\ \A n \in 1 .. l : n # p => ns2[n] = ns[n]
        /\ \A n \in 1 .. l + 1 : n = l + 1 \/ n = p \/ (n \in 1 .. l /\ ns2[n] = ns[n])
    BY <1>1, <1>2, <1>4
  <1>6. y.kind = ns[p].kind /\ DOMAIN x.members = {} /\ Len(x.items) = 0
    BY DEF Grown
  <1>7. /\ \A key \in DOMAIN y.members :
              \/ y.members[key] = l + 1
              \/ key \in DOMAIN ns[p].members /\ y.members[key] = ns[p].members[key]
        /\ \A i \in 1 .. Len(y.items) :
              \/ y.items[i] = l + 1
              \/ i \in 1 .. Len(ns[p].items) /\ y.items[i] = ns[p].items[i]
    BY DEF Grown, l
  <1>8. ASSUME NEW n \in 1 .. l
        PROVE  /\ \A key \in DOMAIN ns[n].members : ns[n].members[key] \in 1 .. l
               /\ \A i \in 1 .. Len(ns[n].items) : ns[n].items[i] \in 1 .. l
    BY DEF Tree, l
  <1>9. Tree(ns2)
    <2>1. ASSUME NEW n \in 1 .. l + 1
          PROVE  /\ \A key \in DOMAIN ns2[n].members : ns2[n].members[key] \in 1 .. l + 1
                 /\ \A i \in 1 .. Len(ns2[n].items) : ns2[n].items[i] \in 1 .. l + 1
      <3>1. l + 1 \in 1 .. l + 1 /\ \A m \in 1 .. l : m \in 1 .. l + 1
        BY <1>1
      <3>2. CASE n = l + 1
        BY <3>2, <1>4, <1>6
      <3>3. CASE n = p
        BY <3>1, <3>3, <1>1, <1>5, <1>7, <1>8
      <3>4. CASE n \in 1 .. l /\ ns2[n] = ns[n]
        BY <3>1, <3>4, <1>8
      <3>5. QED
        BY <3>2, <3>3, <3>4, <1>5
    <2>2. QED
      BY <2>1, <1>1, <1>4 DEF Tree
  <1>10. ASSUME NEW d, Layered(ns, d), d[p] < MaxStack
         PROVE  Layered(ns2, [n \in 1 .. l + 1 |-> IF n = l + 1 THEN d[p] + 1 ELSE d[n]])
    <2> DEFINE d2 == [n \in 1 .. l + 1 |-> IF n = l + 1 THEN d[p] + 1 ELSE d[n]]
    <2>1. d \in [1 .. l -> 1 .. MaxStack] /\ d[1] = 1 /\ MaxStack \in Nat
      BY <1>10, BoundAssumption DEF Layered, l
    <2>2. ASSUME NEW n \in 1 .. l
          PROVE  /\ \A key \in DOMAIN ns[n].members : d[ns[n].members[key]] = d[n] + 1
                 /\ \A i \in 1 .. Len(ns[n].items) : d[ns[n].items[i]] = d[n] + 1
      BY <1>10 DEF Layered, l
    <2>3. d[p] \in 1 .. MaxStack /\ d[p] + 1 \in 1 .. MaxStack
      BY <2>1, <1>1, <1>10
    <2>4. d2 \in [1 .. l + 1 -> 1 .. MaxStack]
      <3>1. ASSUME NEW n \in 1 .. l + 1, n # l + 1
            PROVE  d[n] \in 1 .. MaxStack
        BY <3>1, <2>1, <1>1
      <3>2. QED
        BY <3>1, <2>3
    <2>5. d2[l + 1] = d[p] + 1 /\ \A n \in 1 .. l : d2[n] = d[n]
      BY <1>1
    <2> HIDE DEF d2
    <2>6. d2[1] = 1
      BY <2>1, <2>5, <1>1
    <2>7. ASSUME NEW n \in 1 .. l + 1
          PROVE  /\ \A key \in DOMAIN ns2[n].members : d2[ns2[n].members[key]] = d2[n] + 1
                 /\ \A i \in 1 .. Len(ns2[n].items) : d2[ns2[n].items[i]] = d2[n] + 1
      <3>1. CASE n = l + 1
        BY <3>1, <1>4, <1>6
      <3>2. CASE n = p
        <4>1. d2[n] = d[p] /\ ns2[n] = y
          BY <3>2, <2>5, <1>1, <1>5
        <4>2. ASSUME NEW key \in DOMAIN y.members
              PROVE  d2[y.members[key]] = d[p] + 1
          <5>1. CASE y.members[key] = l + 1
            BY <5>1, <2>5
          <5>2. CASE key \in DOMAIN ns[p].members /\ y.members[key] = ns[p].members[key]
            BY <5>2, <2>2, <2>5, <1>1, <1>8
          <5>3. QED
            BY <5>1, <5>2, <1>7
        <4>3. ASSUME NEW i \in 1 .. Len(y.items)
              PROVE  d2[y.items[i]] = d[p] + 1
          <5>1. CASE y.items[i] = l + 1
            BY <5>1, <2>5
          <5>2. CASE i \in 1 .. Len(ns[p].items) /\ y.items[i] = ns[p].items[i]
            BY <5>2, <2>2, <2>5, <1>1, <1>8
          <5>3. QED
            BY <5>1, <5>2, <1>7
        <4>4. QED
          BY <4>1, <4>2, <4>3
      <3>3. CASE n \in 1 .. l /\ ns2[n] = ns[n]
        BY <3>3, <2>2, <2>5, <1>8, SMTT(60)
      <3>4. QED
        BY <3>1, <3>2, <3>3, <1>5
    <2>8. Layered(ns2, d2)
      BY <2>4, <2>6, <2>7, <1>4 DEF Layered
    <2>9. QED
      BY <2>8 DEF d2
  <1>11. QED
    BY <1>1, <1>4, <1>5, <1>6, <1>9, <1>10 DEF l

(***************************************************************************)
(* AddChild links the new node, the last one, to the container at p.       *)
(***************************************************************************)
Link(ns, p, k) ==
    LET child == Len(ns) + 1
    IN  IF ns[p].kind = "object"
          THEN [ns EXCEPT ![p].members =
                  [key \in DOMAIN @ \cup {k} |-> IF key = k THEN child ELSE @[key]]]
          ELSE [ns EXCEPT ![p].items = Append(@, child)]

\* The new node is what the container got last.
Newest(y, k, child) ==
    \/ y.kind = "object" /\ k \in DOMAIN y.members /\ child = y.members[k]
    \/ y.kind = "array" /\ Len(y.items) > 0 /\ child = y.items[Len(y.items)]

\* An object with a member more.
LEMMA MemberAdded ==
    ASSUME NEW old \in Jvalues, NEW k \in Strings, NEW child \in Nat
    PROVE  LET m == old.members
               y == [old EXCEPT !.members = With(m, k, child)]
           IN  /\ y \in Jvalues /\ y.kind = old.kind /\ y.items = old.items
               /\ k \in DOMAIN y.members /\ y.members[k] = child
               /\ \A key \in DOMAIN y.members :
                     y.members[key] = child \/ (key \in DOMAIN m /\ y.members[key] = m[key])
  <1> DEFINE m == old.members
             m2 == With(m, k, child)
             y == [old EXCEPT !.members = m2]
  <1>1. m \in MemberMaps
    BY JvalueFacts
  <1> HIDE DEF m
  <1>2. /\ m2 \in MemberMaps /\ DOMAIN m2 = DOMAIN m \cup {k} /\ m2[k] = child
        /\ \A key \in DOMAIN m : key # k => m2[key] = m[key]
    BY <1>1, MemberFacts
  <1> HIDE DEF m2
  <1>3. y \in Jvalues /\ y.kind = old.kind /\ y.items = old.items /\ y.members = m2
    BY <1>2 DEF Jvalues
  <1>4. \A key \in DOMAIN m2 : m2[key] = child \/ (key \in DOMAIN m /\ m2[key] = m[key])
    BY <1>2
  <1> HIDE DEF y
  <1>5. /\ k \in DOMAIN y.members /\ y.members[k] = child
        /\ \A key \in DOMAIN y.members :
              y.members[key] = child \/ (key \in DOMAIN m /\ y.members[key] = m[key])
    BY <1>2, <1>3, <1>4
  <1>6. QED
    BY <1>3, <1>5 DEF m, m2, y

\* An array with an element more.
LEMMA ItemAdded ==
    ASSUME NEW s \in Seq(Nat), NEW child \in Nat,
           NEW old \in Jvalues, old.items = s,
           NEW y, y = [old EXCEPT !.items = Append(s, child)]
    PROVE  /\ y \in Jvalues /\ y.kind = old.kind /\ y.members = old.members
           /\ Len(y.items) > 0 /\ child = y.items[Len(y.items)]
           /\ \A i \in 1 .. Len(y.items) :
                 y.items[i] = child \/ (i \in 1 .. Len(s) /\ y.items[i] = s[i])
  <1> DEFINE s2 == Append(s, child)
  <1>1. /\ s2 \in Seq(Nat) /\ Len(s2) = Len(s) + 1 /\ s2[Len(s) + 1] = child
        /\ \A i \in 1 .. Len(s) : s2[i] = s[i]
    BY AppendFacts
  <1>2. y = [old EXCEPT !.items = s2] /\ Len(s) \in Nat
    OBVIOUS
  <1> HIDE DEF s2
  <1>3. y \in Jvalues /\ y.kind = old.kind /\ y.members = old.members /\ y.items = s2
    BY <1>1, <1>2 DEF Jvalues
  <1>4. Len(s2) > 0 /\ child = s2[Len(s2)]
    BY <1>1, <1>2
  <1>5. \A i \in 1 .. Len(s2) : s2[i] = child \/ (i \in 1 .. Len(s) /\ s2[i] = s[i])
    BY <1>1, <1>2
  <1>6. QED
    BY <1>3, <1>4, <1>5

\* Linking a node replaces its container by one that has it.
LEMMA LinkFacts ==
    ASSUME NEW ns, Tree(ns), NEW p \in 1 .. Len(ns), ns[p].kind \in {"object", "array"},
           NEW k, ns[p].kind = "object" => k \in Strings,
           NEW x \in Jvalues, DOMAIN x.members = {}, Len(x.items) = 0,
           NEW ns2, ns2 = Append(Link(ns, p, k), x)
    PROVE  \E y \in Jvalues : Grown(ns, ns2, p, y, x) /\ Newest(y, k, Len(ns) + 1)
  <1> DEFINE child == Len(ns) + 1
             old == ns[p]
  <1>1. ns \in Seq(Jvalues) /\ child \in Nat /\ old \in Jvalues
    BY DEF Tree
  <1>2. old.members \in MemberMaps /\ old.items \in Seq(Nat)
    BY <1>1, JvalueFacts
  <1>3. CASE ns[p].kind = "object"
    <2> DEFINE y == [old EXCEPT !.members = With(old.members, k, child)]
    <2>1. Link(ns, p, k) = [ns EXCEPT ![p] = y]
      BY <1>3 DEF Link, With
    <2>2. k \in Strings
      BY <1>3
    <2> HIDE DEF old, child
    <2>3. /\ y \in Jvalues /\ y.kind = old.kind /\ y.items = old.items
          /\ k \in DOMAIN y.members /\ y.members[k] = child
          /\ \A key \in DOMAIN y.members :
                y.members[key] = child
                \/ (key \in DOMAIN old.members /\ y.members[key] = old.members[key])
      BY <1>1, <2>2, MemberAdded
    <2> HIDE DEF y
    <2>4. ns2 = Append([ns EXCEPT ![p] = y], x)
      BY <2>1 DEF y
    <2>5. Grown(ns, ns2, p, y, x)
      BY <2>3, <2>4 DEF Grown, child, old
    <2>6. Newest(y, k, child)
      BY <1>3, <2>3 DEF Newest, old
    <2>7. QED
      BY <2>3, <2>5, <2>6 DEF child
  <1>4. CASE ns[p].kind = "array"
    <2> DEFINE y == [old EXCEPT !.items = Append(old.items, child)]
    <2>1. Link(ns, p, k) = [ns EXCEPT ![p] = y]
      BY <1>4 DEF Link
    <2> HIDE DEF old, child
    <2>2. /\ y \in Jvalues /\ y.kind = old.kind /\ y.members = old.members
          /\ Len(y.items) > 0 /\ child = y.items[Len(y.items)]
          /\ \A i \in 1 .. Len(y.items) :
                y.items[i] = child
                \/ (i \in 1 .. Len(old.items) /\ y.items[i] = old.items[i])
      BY <1>1, <1>2, ItemAdded
    <2> HIDE DEF y
    <2>3. ns2 = Append([ns EXCEPT ![p] = y], x)
      BY <2>1
    <2>4. Grown(ns, ns2, p, y, x)
      BY <2>2, <2>3 DEF Grown, child, old
    <2>5. Newest(y, k, child)
      BY <1>4, <2>2 DEF Newest, old
    <2>6. QED
      BY <2>2, <2>4, <2>5 DEF child
  <1>5. QED
    BY <1>3, <1>4

----------------------------------------------------------------------------
(***************************************************************************)
(* The path of the build stack.                                            *)
(***************************************************************************)
BuildEntries == [value : Nat, key : Strings \cup {""}]

\* An entry without a value to come stays on the path as its container grows.
LEMMA PathGrows ==
    ASSUME NEW ns, Tree(ns), NEW rd \in Seq(Contexts), NEW b \in Seq(BuildEntries),
           Path(ns, rd, b), Len(b) > 0, Waiting(rd) # "name",
           \A i \in 1 .. Len(b) : b[i].value \in 1 .. Len(ns),
           NEW d, Placed(b, d),
           NEW p, p = Top(b).value,
           NEW y \in Jvalues, NEW x \in Jvalues, NEW ns2, Grown(ns, ns2, p, y, x),
           Newest(y, Top(b).key, Len(ns) + 1)
    PROVE  /\ Path(ns2, PastValue(rd), b)
           /\ PastValue(rd)[Len(b)] # "value"
           /\ Linked(ns2, Top(b), Len(ns) + 1)
  <1> DEFINE n == Len(b)
             r2 == PastValue(rd)
  <1>1. n \in Nat /\ n > 0 /\ Len(rd) = n /\ p \in 1 .. Len(ns) /\ Top(b) = b[n] /\ n \in 1 .. n
    BY DEF Path, Top
  <1>2. Waiting(rd) \in {"value", "item"} /\ Waiting(rd) = rd[n]
    BY <1>1 DEF Path, Waiting
  <1>3. /\ r2 \in Seq(Contexts) /\ Len(r2) = n
        /\ \A i \in 1 .. n - 1 : r2[i] = rd[i]
        /\ r2[n] = IF rd[n] = "value" THEN "name" ELSE "item"
    BY <1>1, <1>2, PastValueFacts
  <1>4. /\ ns2[p] = y
        /\ \A m \in 1 .. Len(ns) : m # p => ns2[m] = ns[m]
        /\ \A m \in 1 .. Len(ns) : ns2[m].kind = ns[m].kind
    BY <1>1, GrownFacts
  <1>5. ASSUME NEW i \in 1 .. n
        PROVE  /\ rd[i] \in {"name", "value", "item"}
               /\ ns[b[i].value].kind = IF rd[i] = "item" THEN "array" ELSE "object"
               /\ rd[i] = "value" => b[i].key \in Strings
               /\ i < n => rd[i] # "value" /\ Linked(ns, b[i], b[i + 1].value)
    BY DEF Path
  <1>6. \A i \in 1 .. n : d[b[i].value] = i
    BY DEF Placed
  <1>7. b[1].value = 1
    BY <1>1 DEF Path
  <1>8. \A i \in 1 .. n : b[i].value \in 1 .. Len(ns)
    OBVIOUS
  <1> HIDE DEF n, r2
  <1>9. ASSUME NEW i \in 1 .. n - 1
        PROVE  ns2[b[i].value] = ns[b[i].value]
    <2>1. b[i].value # p /\ i \in 1 .. n
      BY <1>1, <1>6
    <2>2. QED
      BY <2>1, <1>4, <1>8
  <1>10. ASSUME NEW i \in 1 .. n
         PROVE  /\ r2[i] \in {"name", "value", "item"}
                /\ ns2[b[i].value].kind = IF r2[i] = "item" THEN "array" ELSE "object"
                /\ r2[i] = "value" => b[i].key \in Strings
                /\ i < n => r2[i] # "value" /\ Linked(ns2, b[i], b[i + 1].value)
    <2>1. ns2[b[i].value].kind = ns[b[i].value].kind
      BY <1>4, <1>8
    <2>2. CASE i = n
      BY <2>1, <2>2, <1>1, <1>2, <1>3, <1>5
    <2>3. CASE i \in 1 .. n - 1
      <3>1. Linked(ns2, b[i], b[i + 1].value)
        <4>1. Linked(ns, b[i], b[i + 1].value)
          BY <1>1, <1>5, <2>3
        <4>2. ns2[b[i].value] = ns[b[i].value]
          BY <1>9, <2>3
        <4>3. QED
          BY <4>1, <4>2 DEF Linked
      <3>2. QED
        BY <2>1, <2>3, <3>1, <1>1, <1>3, <1>5
    <2>4. QED
      BY <2>2, <2>3, <1>1
  <1>11. Path(ns2, r2, b)
    BY <1>1, <1>3, <1>7, <1>10 DEF Path, n
  <1>12. Linked(ns2, b[n], Len(ns) + 1)
    BY <1>1, <1>4 DEF Linked, Newest
  <1>13. r2[n] # "value"
    BY <1>3
  <1>14. QED
    BY <1>1, <1>11, <1>12, <1>13 DEF n, r2

\* A new container goes on top of the path.
LEMMA PathPushed ==
    ASSUME NEW ns, NEW rd \in Seq(Contexts), NEW b \in Seq(BuildEntries), Path(ns, rd, b),
           NEW c \in Nat, NEW w \in {"name", "item"},
           ns[c].kind = IF w = "item" THEN "array" ELSE "object",
           Len(b) > 0 => rd[Len(b)] # "value" /\ Linked(ns, b[Len(b)], c),
           Len(b) = 0 => c = 1
    PROVE  /\ Path(ns, Append(rd, w), Append(b, BuildEntry(c)))
           /\ Append(b, BuildEntry(c)) \in Seq(BuildEntries)
           /\ \A d : Placed(b, d) /\ d[c] = Len(b) + 1 => Placed(Append(b, BuildEntry(c)), d)
  <1> DEFINE n == Len(b)
             e == BuildEntry(c)
             r2 == Append(rd, w)
             b2 == Append(b, e)
  <1>1. e \in BuildEntries /\ e.value = c /\ w \in Contexts /\ n \in Nat /\ Len(rd) = n
    <2>1. e \in BuildEntries /\ e.value = c
      BY DEF BuildEntry, BuildEntries
    <2>2. w \in Contexts /\ Len(rd) = n
      BY DEF Contexts, Path
    <2>3. n \in Nat
      OBVIOUS
    <2>4. QED
      BY <2>1, <2>2, <2>3
  <1>2. /\ Len(r2) = n + 1 /\ r2[n + 1] = w /\ \A i \in 1 .. n : r2[i] = rd[i]
    BY <1>1, AppendFacts
  <1> HIDE DEF e, r2
  <1>3. /\ b2 \in Seq(BuildEntries) /\ Len(b2) = n + 1 /\ b2[n + 1] = e
        /\ \A i \in 1 .. n : b2[i] = b[i]
    BY <1>1, AppendFacts
  <1>4. ASSUME NEW i \in 1 .. n
        PROVE  /\ rd[i] \in {"name", "value", "item"}
               /\ ns[b[i].value].kind = IF rd[i] = "item" THEN "array" ELSE "object"
               /\ rd[i] = "value" => b[i].key \in Strings
               /\ i < n => rd[i] # "value" /\ Linked(ns, b[i], b[i + 1].value)
    BY DEF Path
  <1>5. n > 0 => b[1].value = 1 /\ rd[n] # "value" /\ Linked(ns, b[n], c)
    BY DEF Path
  <1>6. n = 0 => c = 1
    OBVIOUS
  <1> HIDE DEF n, b2
  <1>7. ASSUME NEW i \in 1 .. n + 1
        PROVE  /\ r2[i] \in {"name", "value", "item"}
               /\ ns[b2[i].value].kind = IF r2[i] = "item" THEN "array" ELSE "object"
               /\ r2[i] = "value" => b2[i].key \in Strings
               /\ i < n + 1 => r2[i] # "value" /\ Linked(ns, b2[i], b2[i + 1].value)
    <2>1. CASE i = n + 1
      BY <2>1, <1>1, <1>2, <1>3
    <2>2. CASE i = n /\ n > 0
      BY <2>2, <1>1, <1>2, <1>3, <1>4, <1>5
    <2>3. CASE i \in 1 .. n - 1
      <3>1. i \in 1 .. n /\ i + 1 \in 1 .. n /\ i < n
        BY <2>3, <1>1
      <3>2. QED
        BY <3>1, <1>2, <1>3, <1>4, SMTT(60)
    <2>4. QED
      BY <2>1, <2>2, <2>3, <1>1
  <1>8. b2[1].value = 1
    BY <1>1, <1>3, <1>5, <1>6
  <1>9. Path(ns, r2, b2)
    BY <1>2, <1>3, <1>7, <1>8 DEF Path
  <1>10. ASSUME NEW d, Placed(b, d), d[c] = n + 1
         PROVE  Placed(b2, d)
    <2>1. \A i \in 1 .. n : d[b[i].value] = i
      BY <1>10 DEF Placed, n
    <2>2. \A i \in 1 .. n + 1 : d[b2[i].value] = i
      BY <2>1, <1>1, <1>3, <1>10
    <2>3. QED
      BY <2>2, <1>3 DEF Placed
  <1>11. QED
    BY <1>3, <1>9, <1>10 DEF n, e, r2, b2

Keyed(b, k) == [b EXCEPT ![Len(b)].key = k]

\* The key just read goes into the top entry.
LEMMA PathKeyed ==
    ASSUME NEW ns, NEW rd \in Seq(Contexts), NEW b \in Seq(BuildEntries), Path(ns, rd, b),
           Len(rd) > 0, Waiting(rd) = "name", NEW k \in Strings
    PROVE  /\ Path(ns, After(rd, "key"), Keyed(b, k)) /\ Keyed(b, k) \in Seq(BuildEntries)
           /\ Len(Keyed(b, k)) = Len(b)
           /\ \A i \in 1 .. Len(b) : Keyed(b, k)[i].value = b[i].value
  <1> DEFINE n == Len(b)
             r2 == After(rd, "key")
             e == [b[n] EXCEPT !.key = k]
             b2 == Keyed(b, k)
  <1>1. n \in Nat /\ n > 0 /\ Len(rd) = n /\ n \in 1 .. n /\ b[n] \in BuildEntries
    BY DEF Path
  <1>2. e \in BuildEntries /\ e.value = b[n].value /\ e.key = k
    BY <1>1 DEF BuildEntries
  <1>3. b2 = [b EXCEPT ![n] = e]
    BY DEF Keyed
  <1>4. \A i \in 1 .. n : b[i] \in BuildEntries
    OBVIOUS
  <1> HIDE DEF e, b2
  <1>5. /\ b2 \in Seq(BuildEntries) /\ Len(b2) = n
        /\ \A i \in 1 .. n : b2[i] = IF i = n THEN e ELSE b[i]
    BY <1>1, <1>2, <1>3, ExceptSeq
  <1>6. r2 = [rd EXCEPT ![n] = "value"] /\ rd[n] = "name"
    BY <1>1 DEF After, Waiting
  <1>7. /\ r2 \in Seq(Contexts) /\ Len(r2) = n
        /\ \A i \in 1 .. n : r2[i] = IF i = n THEN "value" ELSE rd[i]
    BY <1>1, <1>6, ExceptSeq DEF Contexts
  <1>8. ASSUME NEW i \in 1 .. n
        PROVE  /\ rd[i] \in {"name", "value", "item"}
               /\ ns[b[i].value].kind = IF rd[i] = "item" THEN "array" ELSE "object"
               /\ rd[i] = "value" => b[i].key \in Strings
               /\ i < n => rd[i] # "value" /\ Linked(ns, b[i], b[i + 1].value)
    BY DEF Path
  <1>9. b[1].value = 1
    BY <1>1 DEF Path
  <1> HIDE DEF n, r2, b2
  <1>10. \A i \in 1 .. n : b2[i].value = b[i].value
    BY <1>2, <1>5
  <1>11. ASSUME NEW i \in 1 .. n
         PROVE  /\ r2[i] \in {"name", "value", "item"}
                /\ ns[b2[i].value].kind = IF r2[i] = "item" THEN "array" ELSE "object"
                /\ r2[i] = "value" => b2[i].key \in Strings
                /\ i < n => r2[i] # "value" /\ Linked(ns, b2[i], b2[i + 1].value)
    <2>1. CASE i = n
      BY <2>1, <1>1, <1>2, <1>5, <1>6, <1>7, <1>8
    <2>2. CASE i < n
      <3>1. b2[i] = b[i] /\ r2[i] = rd[i]
        BY <2>2, <1>5, <1>7
      <3>2. i + 1 \in 1 .. n
        BY <2>2, <1>1
      <3>3. b2[i + 1].value = b[i + 1].value
        BY <3>2, <1>10
      <3>4. QED
        BY <2>2, <3>1, <3>3, <1>8
    <2>3. QED
      BY <2>1, <2>2, <1>1
  <1>12. b2[1].value = 1 /\ n \in Nat /\ n > 0
    BY <1>1, <1>9, <1>10
  <1>13. Path(ns, r2, b2)
    BY <1>5, <1>7, <1>11, <1>12 DEF Path
  <1>14. QED
    BY <1>5, <1>10, <1>13 DEF n, r2, b2

\* The end of a container takes its entry off the path.
LEMMA PathPopped ==
    ASSUME NEW ns, NEW rd \in Seq(Contexts), NEW b \in Seq(BuildEntries), Path(ns, rd, b),
           Len(b) > 0
    PROVE  /\ Path(ns, Pop(rd), Pop(b)) /\ Pop(b) \in Seq(BuildEntries)
           /\ Len(Pop(b)) = Len(b) - 1 /\ \A i \in 1 .. Len(b) - 1 : Pop(b)[i] = b[i]
  <1> DEFINE n == Len(b)
             r2 == Pop(rd)
             b2 == Pop(b)
  <1>1. n \in Nat /\ n > 0 /\ Len(rd) = n
    BY DEF Path
  <1>2. /\ b2 \in Seq(BuildEntries) /\ Len(b2) = n - 1 /\ \A i \in 1 .. n - 1 : b2[i] = b[i]
    BY PopFacts
  <1>3. /\ r2 \in Seq(Contexts) /\ Len(r2) = n - 1 /\ \A i \in 1 .. n - 1 : r2[i] = rd[i]
    BY <1>1, PopFacts
  <1>4. ASSUME NEW i \in 1 .. n
        PROVE  /\ rd[i] \in {"name", "value", "item"}
               /\ ns[b[i].value].kind = IF rd[i] = "item" THEN "array" ELSE "object"
               /\ rd[i] = "value" => b[i].key \in Strings
               /\ i < n => rd[i] # "value" /\ Linked(ns, b[i], b[i + 1].value)
    BY DEF Path
  <1>5. b[1].value = 1
    BY <1>1 DEF Path
  <1> HIDE DEF n, r2, b2
  <1>6. ASSUME NEW i \in 1 .. n - 1
        PROVE  /\ r2[i] \in {"name", "value", "item"}
               /\ ns[b2[i].value].kind = IF r2[i] = "item" THEN "array" ELSE "object"
               /\ r2[i] = "value" => b2[i].key \in Strings
               /\ i < n - 1 => r2[i] # "value" /\ Linked(ns, b2[i], b2[i + 1].value)
    <2>1. i \in 1 .. n /\ i < n /\ (i < n - 1 => i + 1 \in 1 .. n - 1)
      BY <1>1
    <2>2. QED
      BY <2>1, <1>2, <1>3, <1>4
  <1>7. n - 1 > 0 => b2[1].value = 1
    BY <1>1, <1>2, <1>5
  <1>8. Path(ns, r2, b2)
    BY <1>2, <1>3, <1>6, <1>7 DEF Path
  <1>9. QED
    BY <1>2, <1>8 DEF n, r2, b2

----------------------------------------------------------------------------
(***************************************************************************)
(* Building the tree.                                                      *)
(***************************************************************************)

\* A sequence over a set is one over a larger set.
LEMMA SeqWidens ==
    ASSUME NEW S, NEW T, S \subseteq T, NEW s \in Seq(S)
    PROVE  s \in Seq(T)
  <1>1. s \in [1 .. Len(s) -> T] /\ Len(s) \in Nat
    BY LenProperties
  <1>2. QED
    BY <1>1, IsASeq

\* A sequence is one over any set that has its elements.
LEMMA SeqNarrows ==
    ASSUME NEW S, NEW T, NEW s \in Seq(T), \A i \in 1 .. Len(s) : s[i] \in S
    PROVE  s \in Seq(S)
  <1>1. s \in [1 .. Len(s) -> T] /\ Len(s) \in Nat
    BY LenProperties
  <1>2. s \in [1 .. Len(s) -> S]
    BY <1>1
  <1>3. QED
    BY <1>1, <1>2, IsASeq

\* The entries of the build stack are entries whose values are addresses.
LEMMA EntriesOf ==
    ASSUME NEW l \in Nat, NEW b
    PROVE  b \in Seq([value : 1 .. l, key : Strings \cup {""}])
             <=> b \in Seq(BuildEntries) /\ \A i \in 1 .. Len(b) : b[i].value \in 1 .. l
  <1> DEFINE E == [value : 1 .. l, key : Strings \cup {""}]
  <1>1. E \subseteq BuildEntries
    <2>1. \A v \in 1 .. l : v \in Nat
      OBVIOUS
    <2>2. QED
      BY <2>1 DEF BuildEntries
  <1>2. \A e \in BuildEntries : e.value \in 1 .. l => e \in E
    BY DEF BuildEntries
  <1>3. \A e \in E : e.value \in 1 .. l
    OBVIOUS
  <1> HIDE DEF E
  <1>4. ASSUME b \in Seq(E)
        PROVE  b \in Seq(BuildEntries) /\ \A i \in 1 .. Len(b) : b[i].value \in 1 .. l
    <2>1. b \in Seq(BuildEntries)
      BY <1>1, <1>4, SeqWidens
    <2>2. \A i \in 1 .. Len(b) : b[i] \in E
      BY <1>4, ElementOfSeq
    <2>3. QED
      BY <2>1, <2>2, <1>3
  <1>5. ASSUME b \in Seq(BuildEntries), \A i \in 1 .. Len(b) : b[i].value \in 1 .. l
        PROVE  b \in Seq(E)
    <2>1. \A i \in 1 .. Len(b) : b[i] \in BuildEntries
      BY <1>5, ElementOfSeq
    <2>2. \A i \in 1 .. Len(b) : b[i] \in E
      BY <2>1, <1>2, <1>5
    <2>3. QED
      BY <2>2, <1>5, SeqNarrows
  <1>6. QED
    BY <1>4, <1>5 DEF E

\* The nodes of a tree are what TypeOK asks of them.
LEMMA TreeNodes ==
    ASSUME NEW ns, Tree(ns)
    PROVE  /\ Len(ns) \in Nat /\ DOMAIN ns = 1 .. Len(ns)
           /\ \A n \in DOMAIN ns :
                 /\ ns[n].kind \in JKinds /\ ns[n].text \in Strings \cup {""}
                 /\ DOMAIN ns[n].members \subseteq Strings
                 /\ \A key \in DOMAIN ns[n].members : ns[n].members[key] \in DOMAIN ns
                 /\ ns[n].items \in Seq(DOMAIN ns)
  <1>1. ns \in Seq(Jvalues) /\ Len(ns) \in Nat /\ DOMAIN ns = 1 .. Len(ns)
    BY LenProperties DEF Tree
  <1>2. ASSUME NEW n \in DOMAIN ns
        PROVE  /\ ns[n].kind \in JKinds /\ ns[n].text \in Strings \cup {""}
               /\ DOMAIN ns[n].members \subseteq Strings
               /\ \A key \in DOMAIN ns[n].members : ns[n].members[key] \in DOMAIN ns
               /\ ns[n].items \in Seq(DOMAIN ns)
    <2> DEFINE x == ns[n]
    <2>1. n \in 1 .. Len(ns)
      BY <1>1
    <2>2. x \in Jvalues
      BY <1>1, <2>1, ElementOfSeq
    <2>3. /\ \A key \in DOMAIN x.members : x.members[key] \in DOMAIN ns
          /\ \A i \in 1 .. Len(x.items) : x.items[i] \in DOMAIN ns
      BY <1>1, <2>1 DEF Tree
    <2> HIDE DEF x
    <2>4. /\ x.kind \in JKinds /\ x.text \in Strings \cup {""} /\ DOMAIN x.members \subseteq Strings
          /\ x.items \in Seq(Nat)
      BY <2>2, JvalueFacts
    <2>5. x.items \in Seq(DOMAIN ns)
      BY <2>3, <2>4, SeqNarrows
    <2>6. QED
      BY <2>3, <2>4, <2>5 DEF x
  <1>3. QED
    BY <1>1, <1>2

\* An event received: the new tree has its layers, the new stack its path.
LEMMA EventReceived ==
    ASSUME IInv, pc = "build", NEW tok \in Tokens(Strings), doc' = Append(doc, tok),
           reader' \in Seq(Contexts), UNCHANGED <<encoding, pc, error>>,
           Tree(nodes'), NEW d, Layered(nodes', d), Placed(build', d),
           build' \in Seq(BuildEntries),
           \A i \in 1 .. Len(build') : build'[i].value \in 1 .. Len(nodes'),
           Path(nodes', reader', build')
    PROVE  IInv'
  <1>1. /\ root' = root /\ stack' = stack /\ out' = out /\ skipped_extension' = skipped_extension
        /\ pc' = "build" /\ error' = error /\ stack = << >> /\ error # "extra_data" /\ TypeOK
    BY DEF encoding, IInv
  <1>2. doc' \in Seq(Tokens(Strings)) /\ doc' # << >>
    <2>1. doc \in Seq(Tokens(Strings))
      BY <1>1 DEF TypeOK
    <2>2. Len(doc') = Len(doc) + 1 /\ Len(doc) \in Nat /\ doc' \in Seq(Tokens(Strings))
      BY <2>1, AppendFacts
    <2>3. QED
      BY <2>2, SMTT(60)
  <1>3. /\ Len(nodes') \in Nat /\ Address' = 1 .. Len(nodes')
        /\ \A n \in Address' : NodeOK(nodes[n])'
    <2>1. /\ Len(nodes') \in Nat /\ DOMAIN nodes' = 1 .. Len(nodes')
          /\ \A n \in DOMAIN nodes' :
                /\ nodes'[n].kind \in JKinds /\ nodes'[n].text \in Strings \cup {""}
                /\ DOMAIN nodes'[n].members \subseteq Strings
                /\ \A key \in DOMAIN nodes'[n].members : nodes'[n].members[key] \in DOMAIN nodes'
                /\ nodes'[n].items \in Seq(DOMAIN nodes')
      BY TreeNodes
    <2>2. QED
      BY <2>1 DEF Address, NodeOK
  <1>4. build' \in Seq([value : Address, key : Strings \cup {""}])'
    BY <1>3, EntriesOf
  <1>5. /\ stack' = << >> /\ Len(stack') = 0
    BY <1>1
  <1>6. stack' \in Seq([type : Types, allow_extensions : BOOLEAN, value : Address, position : Int])'
    BY <1>5
  <1>7. TypeOK'
    BY <1>1, <1>2, <1>3, <1>4, <1>6 DEF TypeOK
  <1>8. DepthsFit'
    BY <1>5 DEF DepthsFit, Placed
  <1>9. Follows(nodes, stack)'
    BY <1>5 DEF Follows
  <1>10. QED
    BY <1>1, <1>2, <1>5, <1>7, <1>8, <1>9 DEF IInv

\* An event refused: the tree stays as it is.
LEMMA EventRefused ==
    ASSUME IInv, pc = "build", NEW tok \in Tokens(Strings), doc' = Append(doc, tok),
           reader' \in Seq(Contexts), UNCHANGED encoding, Refuse("syntax")
    PROVE  IInv'
  <1>1. /\ root' = root /\ stack' = stack /\ out' = out /\ skipped_extension' = skipped_extension
        /\ nodes' = nodes /\ build' = build /\ pc' = "failed" /\ error' = "syntax"
    BY DEF encoding, Refuse, Fail
  <1>2. TypeOK /\ Tree(nodes) /\ DepthsFit /\ Follows(nodes, stack)
    BY DEF IInv
  <1>3. Address' = Address /\ \A n \in Address : NodeOK(nodes[n])' <=> NodeOK(nodes[n])
    BY <1>1 DEF Address, NodeOK
  <1>4. doc' \in Seq(Tokens(Strings))
    BY <1>2, AppendFacts DEF TypeOK
  <1>5. TypeOK'
    BY <1>1, <1>2, <1>3, <1>4 DEF TypeOK, Errors
  <1>6. DepthsFit'
    BY <1>1, <1>2 DEF DepthsFit
  <1>7. QED
    BY <1>1, <1>2, <1>5, <1>6 DEF IInv

\* A document's first event makes the root.
LEMMA RootStarted ==
    ASSUME IInv, pc = "build", NEW tok \in Tokens(Strings), Read(tok), StartRoot(tok),
           UNCHANGED <<encoding, pc, error>>
    PROVE  IInv'
  <1> DEFINE x == JvalueOf(tok)
             d == [n \in 1 .. 1 |-> 1]
  <1>1. reader = FreshReader /\ doc = << >>
    BY DEF IInv, StartRoot
  <1>2. /\ Len(reader) = 1 /\ Waiting(reader) = "root" /\ reader \in Seq(Contexts)
        /\ reader[1] = "root" /\ reader # << >>
    BY <1>1 DEF FreshReader, Waiting, Contexts
  <1>3. tok.type \in ValueTokens /\ doc' = Append(doc, tok)
    BY <1>2 DEF Read, Expected, Complete
  <1>4. PastValue(reader) = << >>
    BY <1>2 DEF PastValue
  <1>5. /\ x \in Jvalues /\ DOMAIN x.members = {} /\ Len(x.items) = 0
        /\ tok.type = "start_object" => x.kind = "object"
        /\ tok.type = "start_array" => x.kind = "array"
    BY <1>3, NewJvalue
  <1>6. nodes' = <<x>> /\ build' = Received(tok, 1, << >>)
    BY DEF StartRoot
  <1> HIDE DEF x
  <1>7. /\ nodes' \in Seq(Jvalues) /\ Len(nodes') = 1 /\ nodes'[1] = x
    BY <1>5, <1>6
  <1>8. Tree(nodes')
    <2>1. \A n \in 1 .. Len(nodes') : nodes'[n] = x
      BY <1>7
    <2>2. QED
      BY <2>1, <1>5, <1>7 DEF Tree
  <1>9. Layered(nodes', d)
    <2>1. d[1] = 1 /\ d \in [1 .. 1 -> 1 .. MaxStack]
      BY BoundAssumption
    <2>2. \A n \in 1 .. Len(nodes') : nodes'[n] = x
      BY <1>7
    <2> HIDE DEF d
    <2>3. QED
      BY <2>1, <2>2, <1>5, <1>7 DEF Layered
  <1>10. CASE tok.type \in {"null", "string"}
    <2>1. build' = << >> /\ reader' = << >>
      BY <1>4, <1>6, <1>10 DEF Received, Read, After
    <2>2. Path(nodes', reader', build') /\ Placed(build', d)
      BY <2>1 DEF Path, Placed
    <2>3. build' \in Seq(BuildEntries) /\ reader' \in Seq(Contexts) /\ Len(build') = 0
      BY <2>1
    <2> HIDE DEF d
    <2>4. QED
      BY <2>2, <2>3, <1>3, <1>8, <1>9, EventReceived
  <1>11. ASSUME NEW w \in {"name", "item"}, tok.type \in {"start_object", "start_array"},
                tok.type = IF w = "item" THEN "start_array" ELSE "start_object"
         PROVE  IInv'
    <2> DEFINE none == << >>
    <2>1. build' = Append(none, BuildEntry(1)) /\ reader' = Append(none, w)
      BY <1>4, <1>6, <1>11 DEF Received, Read, After
    <2>2. none \in Seq(BuildEntries) /\ none \in Seq(Contexts) /\ Len(none) = 0
      OBVIOUS
    <2>3. nodes'[1].kind = IF w = "item" THEN "array" ELSE "object"
      BY <1>5, <1>7, <1>11
    <2> HIDE DEF none
    <2>4. Path(nodes', none, none) /\ Placed(none, d) /\ d[1] = 1
      BY <2>2 DEF Path, Placed
    <2> HIDE DEF d
    <2>5. /\ Path(nodes', reader', build') /\ build' \in Seq(BuildEntries)
          /\ Placed(build', d)
      <3>1. /\ 1 \in Nat /\ ~(Len(none) > 0) /\ d[1] = Len(none) + 1
        BY <2>2, <2>4
      <3>2. /\ Path(nodes', Append(none, w), Append(none, BuildEntry(1)))
            /\ Append(none, BuildEntry(1)) \in Seq(BuildEntries)
            /\ \A d1 : Placed(none, d1) /\ d1[1] = Len(none) + 1
                         => Placed(Append(none, BuildEntry(1)), d1)
        BY <2>2, <2>3, <2>4, <3>1, PathPushed
      <3>3. Placed(Append(none, BuildEntry(1)), d)
        BY <2>4, <3>1, <3>2
      <3>4. QED
        BY <2>1, <3>2, <3>3
    <2>6. reader' \in Seq(Contexts)
      BY <2>1, <2>2, <1>11, AppendFacts DEF Contexts
    <2>7. Len(build') = 1 /\ build'[1].value = 1
      <3>1. BuildEntry(1) \in BuildEntries /\ BuildEntry(1).value = 1
        BY DEF BuildEntry, BuildEntries
      <3>2. Len(build') = Len(none) + 1 /\ build'[Len(none) + 1] = BuildEntry(1)
        BY <2>1, <2>2, <3>1, AppendFacts
      <3>3. QED
        BY <2>2, <3>1, <3>2
    <2>8. \A i \in 1 .. Len(build') : build'[i].value \in 1 .. Len(nodes')
      BY <2>7, <1>7
    <2>9. QED
      BY <2>5, <2>6, <2>8, <1>3, <1>8, <1>9, EventReceived
  <1>12. tok.type \in {"null", "string"} \/ tok.type = "start_object" \/ tok.type = "start_array"
    BY <1>3 DEF ValueTokens
  <1>13. CASE tok.type = "start_object"
    BY <1>11, <1>13
  <1>14. CASE tok.type = "start_array"
    BY <1>11, <1>14
  <1>15. QED
    BY <1>10, <1>12, <1>13, <1>14

\* The path of an ordinary event, and its place in the tree.
LEMMA BuildFacts ==
    ASSUME IInv, pc = "build", doc # << >>
    PROVE  /\ Path(nodes, reader, build) /\ Tree(nodes)
           /\ reader \in Seq(Contexts) /\ build \in Seq(BuildEntries)
           /\ Len(nodes) \in Nat
           /\ \A i \in 1 .. Len(build) : build[i].value \in 1 .. Len(nodes)
           /\ \E d : Layered(nodes, d) /\ Placed(build, d)
  <1>1. TypeOK /\ Tree(nodes) /\ DepthsFit /\ Path(nodes, reader, build)
    BY DEF IInv
  <1>2. Len(nodes) \in Nat /\ Address = 1 .. Len(nodes)
    BY <1>1, TreeNodes DEF Address
  <1>3. build \in Seq([value : 1 .. Len(nodes), key : Strings \cup {""}])
    BY <1>1, <1>2 DEF TypeOK
  <1>4. build \in Seq(BuildEntries) /\ \A i \in 1 .. Len(build) : build[i].value \in 1 .. Len(nodes)
    BY <1>2, <1>3, EntriesOf
  <1>5. reader \in Seq(Contexts)
    BY <1>1 DEF TypeOK
  <1>6. QED
    BY <1>1, <1>2, <1>4, <1>5 DEF DepthsFit

\* A value in a container.
LEMMA ChildAdded ==
    ASSUME IInv, pc = "build", doc # << >>, NEW tok \in Tokens(Strings), Read(tok),
           tok.type \in ValueTokens, build # << >>, AddChild(tok), UNCHANGED encoding
    PROVE  IInv'
  <1> DEFINE n == Len(build)
             p == Top(build).value
             k == Top(build).key
             x == JvalueOf(tok)
             c == Len(nodes) + 1
  <1>1. /\ Path(nodes, reader, build) /\ Tree(nodes)
        /\ reader \in Seq(Contexts) /\ build \in Seq(BuildEntries)
        /\ Len(nodes) \in Nat
        /\ \A i \in 1 .. Len(build) : build[i].value \in 1 .. Len(nodes)
    BY BuildFacts
  <1>2. PICK d : Layered(nodes, d) /\ Placed(build, d)
    BY BuildFacts
  <1>3. /\ n \in Nat /\ n > 0 /\ Len(reader) = n /\ n \in 1 .. n /\ Top(build) = build[n]
        /\ Waiting(reader) = reader[n] /\ p \in 1 .. Len(nodes) /\ build[n] \in BuildEntries
    <2>1. n \in Nat /\ n > 0 /\ build[n] \in BuildEntries
      BY <1>1
    <2>2. QED
      BY <1>1, <2>1 DEF Path, Top, Waiting
  <1>4. /\ tok.type \in Expected(reader) /\ doc' = Append(doc, tok)
        /\ reader' = After(reader, tok.type)
    BY DEF Read
  <1>5. Waiting(reader) # "name" /\ After(reader, tok.type) \in Seq(Contexts)
    BY <1>1, <1>4, AfterFacts
  <1>6. /\ nodes[p].kind \in {"object", "array"}
        /\ nodes[p].kind = "object" => k \in Strings
    BY <1>1, <1>3, <1>5 DEF Path
  <1>7. /\ x \in Jvalues /\ DOMAIN x.members = {} /\ Len(x.items) = 0
        /\ tok.type = "start_object" => x.kind = "object"
        /\ tok.type = "start_array" => x.kind = "array"
    BY NewJvalue
  <1>8. CASE TooDeep(Append(build, BuildEntry(c)))
    <2>1. Refuse("syntax")
      BY <1>8 DEF AddChild
    <2>2. QED
      BY <2>1, <1>4, <1>5, EventRefused
  <1>9. CASE ~TooDeep(Append(build, BuildEntry(c)))
    <2>1. /\ nodes' = Append(Link(nodes, p, k), x) /\ build' = Received(tok, c, build)
          /\ UNCHANGED <<pc, error>>
      BY <1>9 DEF AddChild, Link
    <2>2. /\ BuildEntry(c) \in BuildEntries /\ BuildEntry(c).value = c
          /\ c \in Nat /\ c \in 1 .. c
      <3>1. c \in Nat /\ c \in 1 .. c
        BY <1>1
      <3> HIDE DEF c
      <3>2. QED
        BY <3>1 DEF BuildEntry, BuildEntries
    <2>3. n + 1 <= MaxStack
      <3>1. Len(Append(build, BuildEntry(c))) = n + 1
        BY <1>1, <2>2, AppendFacts
      <3>2. QED
        BY <3>1, <1>3, <1>9, BoundAssumption DEF TooDeep
    <2> HIDE DEF n, p, k, x, c
    <2>4. PICK y \in Jvalues : Grown(nodes, nodes', p, y, x) /\ Newest(y, k, c)
      <3>1. \E y \in Jvalues : Grown(nodes, nodes', p, y, x) /\ Newest(y, k, Len(nodes) + 1)
        BY <1>1, <1>3, <1>6, <1>7, <2>1, LinkFacts
      <3>2. QED
        BY <3>1 DEF c
    <2>5. /\ Tree(nodes') /\ Len(nodes') = c /\ nodes'[c] = x
          /\ d[p] < MaxStack =>
               Layered(nodes', [m \in 1 .. c |-> IF m = c THEN d[p] + 1 ELSE d[m]])
      BY <1>1, <1>2, <1>3, <1>7, <2>4, GrownFacts DEF c
    <2>6. d[p] = n
      BY <1>2, <1>3 DEF Placed, n, p
    <2> DEFINE d2 == [m \in 1 .. c |-> IF m = c THEN d[p] + 1 ELSE d[m]]
    <2>7. Layered(nodes', d2)
      BY <1>3, <2>3, <2>5, <2>6, BoundAssumption
    <2>8. d2[c] = n + 1 /\ \A m \in 1 .. Len(nodes) : d2[m] = d[m]
      BY <1>1, <2>2, <2>6 DEF c
    <2> HIDE DEF d2
    <2>9. Placed(build, d2)
      BY <1>1, <1>2, <2>8 DEF Placed
    <2>10. /\ Path(nodes', PastValue(reader), build)
           /\ PastValue(reader)[n] # "value"
           /\ Linked(nodes', build[n], c)
      <3>1. Newest(y, Top(build).key, Len(nodes) + 1) /\ p = Top(build).value /\ Len(build) > 0
        BY <1>3, <2>4 DEF c, k, n, p
      <3>2. /\ Path(nodes', PastValue(reader), build)
            /\ PastValue(reader)[Len(build)] # "value"
            /\ Linked(nodes', Top(build), Len(nodes) + 1)
        BY <1>1, <1>2, <1>5, <1>7, <2>4, <3>1, PathGrows
      <3>3. QED
        BY <3>2, <1>3 DEF n, c
    <2>11. PastValue(reader) \in Seq(Contexts)
      BY <1>1, <1>3, <1>5, PastValueFacts
    <2>12. \A m \in 1 .. Len(nodes) : m \in 1 .. Len(nodes')
      BY <1>1, <2>5 DEF c
    <2>13. CASE tok.type \in {"null", "string"}
      <3>1. build' = build /\ reader' = PastValue(reader)
        BY <1>4, <2>1, <2>13 DEF Received, After
      <3>2. \A i \in 1 .. Len(build') : build'[i].value \in 1 .. Len(nodes')
        BY <1>1, <2>12, <3>1
      <3>3. QED
        BY <1>1, <1>4, <2>1, <2>5, <2>7, <2>9, <2>10, <2>11, <3>1, <3>2, EventReceived
    <2>14. ASSUME NEW w \in {"name", "item"}, tok.type \in {"start_object", "start_array"},
                  tok.type = IF w = "item" THEN "start_array" ELSE "start_object"
           PROVE  IInv'
      <3>1. build' = Append(build, BuildEntry(c)) /\ reader' = Append(PastValue(reader), w)
        BY <1>4, <2>1, <2>14 DEF Received, After
      <3>2. nodes'[c].kind = IF w = "item" THEN "array" ELSE "object"
        BY <1>7, <2>5, <2>14
      <3>3. /\ Path(nodes', reader', build') /\ build' \in Seq(BuildEntries)
            /\ Placed(build', d2)
        <4>1. Len(build) = n /\ n > 0
          BY <1>3 DEF n
        <4>2. /\ Path(nodes', Append(PastValue(reader), w), Append(build, BuildEntry(c)))
              /\ Append(build, BuildEntry(c)) \in Seq(BuildEntries)
              /\ \A d1 : Placed(build, d1) /\ d1[c] = Len(build) + 1
                           => Placed(Append(build, BuildEntry(c)), d1)
          BY <1>1, <1>3, <2>2, <2>10, <2>11, <3>2, <4>1, PathPushed
        <4>3. Placed(Append(build, BuildEntry(c)), d2)
          BY <2>8, <2>9, <4>1, <4>2
        <4>4. QED
          BY <3>1, <4>2, <4>3
      <3>4. reader' \in Seq(Contexts)
        BY <1>4, <1>5
      <3>5. \A i \in 1 .. Len(build') : build'[i].value \in 1 .. Len(nodes')
        <4>1. /\ Len(build') = n + 1 /\ build'[n + 1] = BuildEntry(c)
              /\ \A i \in 1 .. n : build'[i] = build[i]
          BY <1>1, <2>2, <3>1, AppendFacts DEF n
        <4>2. \A i \in 1 .. n : build[i].value \in 1 .. Len(nodes')
          BY <1>1, <2>12 DEF n
        <4>3. QED
          BY <1>3, <2>2, <2>5, <4>1, <4>2
      <3>6. QED
        BY <1>4, <2>1, <2>5, <2>7, <3>3, <3>4, <3>5, EventReceived
    <2>15. tok.type \in {"null", "string"} \/ tok.type = "start_object" \/ tok.type = "start_array"
      BY DEF ValueTokens
    <2>16. CASE tok.type = "start_object"
      BY <2>14, <2>16
    <2>17. CASE tok.type = "start_array"
      BY <2>14, <2>17
    <2>18. QED
      BY <2>13, <2>15, <2>16, <2>17
  <1>10. QED
    BY <1>8, <1>9

\* Every event keeps the invariant.
LEMMA BuildStep == IInv /\ Build => IInv'
  <1> SUFFICES ASSUME IInv, Build PROVE IInv'
    OBVIOUS
  <1>1. PICK tok \in Tokens(Strings) : Read(tok) /\ ReceiveEvent(tok)
    BY DEF Build
  <1>2. pc = "build" /\ UNCHANGED encoding
    BY DEF Build
  <1>3. TypeOK
    BY DEF IInv
  <1>4. /\ tok.type \in Expected(reader) /\ doc' = Append(doc, tok)
        /\ reader' = After(reader, tok.type) /\ reader \in Seq(Contexts)
    BY <1>1, <1>3 DEF Read, TypeOK
  <1>5. /\ Len(reader) > 0 /\ reader' \in Seq(Contexts)
        /\ tok.type \in ValueTokens \cup {"key", "end_object", "end_array"}
        /\ tok.type \in ValueTokens => Waiting(reader) # "name"
    BY <1>4, AfterFacts
  <1>6. CASE doc = << >>
    <2>1. build = <<BuildEntry(1)>>
      BY <1>2, <1>6 DEF IInv
    <2>2. build # << >> /\ ~TooDeep(build)
      BY <2>1, BoundAssumption DEF TooDeep
    <2>3. StartRoot(tok) /\ UNCHANGED <<pc, error>>
      BY <1>1, <1>6, <2>2 DEF ReceiveEvent
    <2>4. QED
      BY <1>1, <1>2, <2>3, RootStarted
  <1>7. CASE doc # << >>
    <2>1. /\ Path(nodes, reader, build) /\ Tree(nodes)
          /\ build \in Seq(BuildEntries) /\ Len(nodes) \in Nat
          /\ \A i \in 1 .. Len(build) : build[i].value \in 1 .. Len(nodes)
      BY <1>2, <1>7, BuildFacts
    <2>2. PICK d : Layered(nodes, d) /\ Placed(build, d)
      BY <1>2, <1>7, BuildFacts
    <2>3. Len(build) = Len(reader) /\ Len(build) \in Nat /\ Len(build) > 0 /\ build # << >>
      BY <1>4, <1>5, <2>1 DEF Path
    <2>4. CASE TooDeep(build)
      <3>1. Refuse("syntax")
        BY <1>1, <2>3, <2>4 DEF ReceiveEvent
      <3>2. QED
        BY <1>2, <1>4, <1>5, <3>1, EventRefused
    <2>5. CASE ~TooDeep(build)
      <3>1. \/ tok.type = "key" /\ SetKey(tok)
            \/ tok.type \in {"end_object", "end_array"} /\ EndContainer
            \/ tok.type \in ValueTokens /\ AddChild(tok)
        BY <1>1, <1>7, <2>3, <2>5 DEF ReceiveEvent, StartRoot
      <3>2. CASE tok.type = "key" /\ SetKey(tok)
        <4>1. Waiting(reader) = "name" /\ After(reader, "key") = reader'
          <5>1. Waiting(reader) \in Contexts /\ ~Complete(reader)
            BY <1>4, <1>5 DEF Waiting, Complete
          <5>2. "key" \notin ValueTokens
            BY DEF ValueTokens
          <5>3. QED
            BY <1>4, <3>2, <5>1, <5>2 DEF Expected, Contexts
        <4>2. tok.text \in Strings
          BY <3>2 DEF Tokens
        <4>3. build' = Keyed(build, tok.text) /\ UNCHANGED <<nodes, pc, error>>
          BY <3>2 DEF SetKey, Keyed
        <4>4. /\ Path(nodes, reader', build') /\ build' \in Seq(BuildEntries)
              /\ Len(build') = Len(build) /\ \A i \in 1 .. Len(build) : build'[i].value = build[i].value
          <5> DEFINE b2 == Keyed(build, tok.text)
          <5>1. /\ Path(nodes, After(reader, "key"), b2) /\ b2 \in Seq(BuildEntries)
                /\ Len(b2) = Len(build)
                /\ \A i \in 1 .. Len(build) : b2[i].value = build[i].value
            BY <1>4, <1>5, <2>1, <4>1, <4>2, PathKeyed, ZenonT(60)
          <5>2. QED
            BY <4>1, <4>3, <5>1
        <4>5. Placed(build', d)
          BY <2>2, <4>4 DEF Placed
        <4>6. \A i \in 1 .. Len(build') : build'[i].value \in 1 .. Len(nodes')
          BY <2>1, <4>3, <4>4
        <4>7. Tree(nodes') /\ Layered(nodes', d) /\ Path(nodes', reader', build')
          BY <2>1, <2>2, <4>3, <4>4
        <4>8. QED
          BY <1>2, <1>4, <1>5, <4>3, <4>4, <4>5, <4>6, <4>7, EventReceived
      <3>3. CASE tok.type \in {"end_object", "end_array"} /\ EndContainer
        <4>1. reader' = Pop(reader)
          BY <1>4, <3>3 DEF After
        <4>2. build' = Pop(build) /\ UNCHANGED <<nodes, pc, error>>
          BY <3>3 DEF EndContainer
        <4>3. /\ Path(nodes, reader', build') /\ build' \in Seq(BuildEntries)
              /\ Len(build') = Len(build) - 1 /\ \A i \in 1 .. Len(build) - 1 : build'[i] = build[i]
          BY <1>4, <2>1, <2>3, <4>1, <4>2, PathPopped
        <4>4. \A i \in 1 .. Len(build') : i \in 1 .. Len(build) /\ build'[i] = build[i]
          BY <2>3, <4>3
        <4>5. Placed(build', d)
          BY <2>2, <4>4 DEF Placed
        <4>6. \A i \in 1 .. Len(build') : build'[i].value \in 1 .. Len(nodes')
          BY <2>1, <4>2, <4>4
        <4>7. Tree(nodes') /\ Layered(nodes', d) /\ Path(nodes', reader', build')
          BY <2>1, <2>2, <4>2, <4>3
        <4>8. QED
          BY <1>2, <1>4, <1>5, <4>2, <4>3, <4>5, <4>6, <4>7, EventReceived
      <3>4. CASE tok.type \in ValueTokens /\ AddChild(tok)
        BY <1>1, <1>2, <1>7, <2>3, <3>4, ChildAdded
      <3>5. QED
        BY <3>1, <3>2, <3>3, <3>4
    <2>6. QED
      BY <2>4, <2>5
  <1>8. QED
    BY <1>6, <1>7

\* A step of pc and error alone.
LEMMA ControlStep ==
    ASSUME IInv, UNCHANGED <<building, encoding>>, pc' \in {"built", "done", "failed"},
           error' \in {error, "syntax"}, pc' = "built" => stack = << >>
    PROVE  IInv'
  <1>1. /\ doc' = doc /\ reader' = reader /\ nodes' = nodes /\ build' = build
        /\ root' = root /\ stack' = stack /\ out' = out /\ skipped_extension' = skipped_extension
    BY DEF building, encoding
  <1>2. TypeOK /\ Tree(nodes) /\ DepthsFit /\ Follows(nodes, stack) /\ error # "extra_data"
    BY DEF IInv
  <1>3. Address' = Address /\ \A n \in Address : NodeOK(nodes[n])' <=> NodeOK(nodes[n])
    BY <1>1 DEF Address, NodeOK
  <1>4. TypeOK'
    BY <1>1, <1>2, <1>3 DEF TypeOK, Errors
  <1>5. DepthsFit'
    BY <1>1, <1>2 DEF DepthsFit
  <1>6. QED
    BY <1>1, <1>2, <1>4, <1>5 DEF IInv

----------------------------------------------------------------------------
(***************************************************************************)
(* Encoding the tree.                                                      *)
(***************************************************************************)
StackEntries == [type : Types, allow_extensions : BOOLEAN, value : Address, position : Int]

\* What is below the child an entry is at is one level deeper in the tree.
LEMMA ChildFacts ==
    ASSUME NEW ns, Tree(ns), NEW e, e.type \in Types, e.value \in 1 .. Len(ns), Fits(ns, e),
           NEW child, At(ns, e, child)
    PROVE  /\ child \in 1 .. Len(ns)
           /\ \A d : Layered(ns, d) => d[child] = d[e.value] + 1
  <1> DEFINE n == ns[e.value]
  <1>1. /\ \A key \in DOMAIN n.members : n.members[key] \in 1 .. Len(ns)
        /\ \A i \in 1 .. Len(n.items) : n.items[i] \in 1 .. Len(ns)
    BY DEF Tree
  <1>2. \A d : Layered(ns, d) =>
          /\ \A key \in DOMAIN n.members : d[n.members[key]] = d[e.value] + 1
          /\ \A i \in 1 .. Len(n.items) : d[n.items[i]] = d[e.value] + 1
    BY DEF Layered
  <1>3. n \in Jvalues
    BY DEF Tree
  <1>4. Len(n.items) \in Nat
    BY <1>3, JvalueFacts
  <1> HIDE DEF n
  <1>5. CASE Kind[e.type] = "struct"
    <2>1. PICK key \in DOMAIN n.members : child = n.members[key]
      BY <1>5 DEF At, ArrayKinds, n
    <2>2. QED
      BY <2>1, <1>1, <1>2
  <1>6. CASE Kind[e.type] # "struct"
    <2>1. e.position >= 0 /\ child = n.items[e.position + 1]
      BY <1>6 DEF At, n
    <2>2. e.position + 1 \in 1 .. Len(n.items)
      BY <1>4, <1>6, <2>1 DEF Fits, n
    <2>3. QED
      BY <2>1, <2>2, <1>1, <1>2
  <1>7. QED
    BY <1>5, <1>6

\* A value that is started goes on top, one level below the entry that is at it.
LEMMA EntryPushed ==
    ASSUME NEW ns, Tree(ns), NEW S, NEW st \in Seq(S), NEW e \in S, Follows(ns, st),
           \A i \in 1 .. Len(st) : st[i].type \in Types /\ st[i].value \in 1 .. Len(ns),
           Fits(ns, e), Len(st) > 0 => At(ns, st[Len(st)], e.value),
           Len(st) = 0 => e.value = 1,
           NEW d, Layered(ns, d), Placed(st, d)
    PROVE  Follows(ns, Append(st, e)) /\ Placed(Append(st, e), d)
  <1> DEFINE n == Len(st)
             s2 == Append(st, e)
  <1>1. /\ s2 \in Seq(S) /\ Len(s2) = n + 1 /\ s2[n + 1] = e /\ n \in Nat
        /\ \A i \in 1 .. n : s2[i] = st[i]
    BY AppendFacts
  <1>2. \A i \in 1 .. n : Fits(ns, st[i]) /\ (i < n => At(ns, st[i], st[i + 1].value))
    BY DEF Follows
  <1>3. \A i \in 1 .. n : d[st[i].value] = i
    BY DEF Placed
  <1>4. n > 0 => st[1].value = 1 /\ At(ns, st[n], e.value)
    BY DEF Follows
  <1>5. n = 0 => e.value = 1
    OBVIOUS
  <1>6. d[1] = 1
    BY DEF Layered
  <1>7. n > 0 => d[e.value] = n + 1
    <2>1. ASSUME n > 0
          PROVE  d[e.value] = n + 1
      <3>1. n \in 1 .. n
        BY <1>1, <2>1
      <3>2. /\ Fits(ns, st[n]) /\ At(ns, st[n], e.value) /\ d[st[n].value] = n
            /\ st[n].type \in Types /\ st[n].value \in 1 .. Len(ns)
        BY <3>1, <2>1, <1>2, <1>3, <1>4
      <3> HIDE DEF n
      <3>3. d[e.value] = d[st[n].value] + 1
        BY <3>2, ChildFacts
      <3>4. QED
        BY <3>2, <3>3
    <2>2. QED
      BY <2>1
  <1> HIDE DEF n, s2
  <1>8. ASSUME NEW i \in 1 .. n + 1
        PROVE  /\ Fits(ns, s2[i]) /\ (i < n + 1 => At(ns, s2[i], s2[i + 1].value))
               /\ d[s2[i].value] = i
    <2>1. CASE i = n + 1
      BY <2>1, <1>1, <1>5, <1>6, <1>7
    <2>2. CASE i = n /\ n > 0
      BY <2>2, <1>1, <1>2, <1>3, <1>4
    <2>3. CASE i \in 1 .. n - 1
      <3>1. i \in 1 .. n /\ i + 1 \in 1 .. n /\ i < n
        BY <2>3, <1>1
      <3>2. QED
        BY <3>1, <1>1, <1>2, <1>3
    <2>4. QED
      BY <2>1, <2>2, <2>3, <1>1
  <1>9. s2[1].value = 1
    <2>1. CASE n = 0
      BY <2>1, <1>1, <1>5
    <2>2. CASE n > 0
      BY <2>2, <1>1, <1>4
    <2>3. QED
      BY <2>1, <2>2, <1>1
  <1>10. Follows(ns, s2) /\ Placed(s2, d)
    BY <1>1, <1>8, <1>9 DEF Follows, Placed
  <1>11. QED
    BY <1>10 DEF s2

Moved(st, p) == [st EXCEPT ![Len(st)].position = p]

\* The top entry moves on to a position that still fits its value.
LEMMA EntryMoved ==
    ASSUME NEW ns, NEW A, NEW st, NEW p \in Int, Len(st) > 0,
           st \in Seq([type : Types, allow_extensions : BOOLEAN, value : A, position : Int]),
           Follows(ns, st),
           \A e : /\ e.type = Top(st).type /\ e.value = Top(st).value /\ e.position = p
                  => Fits(ns, e)
    PROVE  /\ Moved(st, p) \in Seq([type : Types, allow_extensions : BOOLEAN, value : A, position : Int])
           /\ Len(Moved(st, p)) = Len(st)
           /\ Moved(st, p)[Len(st)].type = Top(st).type
           /\ Moved(st, p)[Len(st)].value = Top(st).value
           /\ Moved(st, p)[Len(st)].position = p
           /\ \A i \in 1 .. Len(st) : /\ Moved(st, p)[i].type = st[i].type
                                      /\ Moved(st, p)[i].value = st[i].value
           /\ Follows(ns, Moved(st, p))
  <1> DEFINE E == [type : Types, allow_extensions : BOOLEAN, value : A, position : Int]
             n == Len(st)
             e == [st[n] EXCEPT !.position = p]
             s2 == Moved(st, p)
  <1>1. n \in Nat /\ n > 0 /\ n \in 1 .. n /\ Top(st) = st[n] /\ st[n] \in E /\ st \in Seq(E)
    <2>1. n \in Nat /\ n > 0 /\ st \in Seq(E)
      OBVIOUS
    <2>2. n \in 1 .. Len(st)
      BY <2>1
    <2> HIDE DEF E
    <2>3. st[n] \in E
      BY <2>1, <2>2, ElementOfSeq
    <2>4. QED
      BY <2>1, <2>3 DEF Top
  <1>2. e \in E /\ e.type = st[n].type /\ e.value = st[n].value /\ e.position = p
    BY <1>1
  <1>3. s2 = [st EXCEPT ![n] = e]
    BY DEF Moved
  <1>4. \A i \in 1 .. n : Fits(ns, st[i]) /\ (i < n => At(ns, st[i], st[i + 1].value))
    BY DEF Follows
  <1>5. st[1].value = 1
    BY <1>1 DEF Follows
  <1>6. Fits(ns, e)
    BY <1>1, <1>2
  <1> HIDE DEF E, e, s2
  <1>7. /\ s2 \in Seq(E) /\ Len(s2) = n
        /\ \A i \in 1 .. n : s2[i] = IF i = n THEN e ELSE st[i]
    BY <1>1, <1>2, <1>3, ExceptSeq
  <1> HIDE DEF n
  <1>8. \A i \in 1 .. n : s2[i].value = st[i].value /\ s2[i].type = st[i].type
    BY <1>2, <1>7
  <1>9. ASSUME NEW i \in 1 .. n
        PROVE  Fits(ns, s2[i]) /\ (i < n => At(ns, s2[i], s2[i + 1].value))
    <2>1. CASE i = n
      BY <2>1, <1>1, <1>6, <1>7
    <2>2. CASE i < n
      <3>1. s2[i] = st[i] /\ i + 1 \in 1 .. n
        BY <2>2, <1>1, <1>7
      <3>2. s2[i + 1].value = st[i + 1].value
        BY <3>1, <1>8
      <3>3. QED
        BY <2>2, <3>1, <3>2, <1>4
    <2>3. QED
      BY <2>1, <2>2, <1>1
  <1>10. s2[1].value = 1
    BY <1>1, <1>5, <1>8
  <1>11. Follows(ns, s2)
    BY <1>7, <1>9, <1>10 DEF Follows
  <1>12. s2[n] = e
    BY <1>1, <1>7
  <1>13. /\ s2 \in Seq(E) /\ Len(s2) = n /\ Follows(ns, s2)
         /\ s2[n].type = Top(st).type /\ s2[n].value = Top(st).value /\ s2[n].position = p
    BY <1>1, <1>2, <1>7, <1>11, <1>12
  <1>14. QED
    BY <1>8, <1>13 DEF n, s2, E

\* An entry that is done leaves the others as they are.
LEMMA EntryPopped ==
    ASSUME NEW ns, NEW S, NEW st \in Seq(S), Len(st) > 0, Follows(ns, st),
           NEW d, Placed(st, d)
    PROVE  Pop(st) \in Seq(S) /\ Follows(ns, Pop(st)) /\ Placed(Pop(st), d)
  <1> DEFINE n == Len(st)
             s2 == Pop(st)
  <1>1. /\ s2 \in Seq(S) /\ Len(s2) = n - 1 /\ n \in Nat /\ n > 0
        /\ \A i \in 1 .. n - 1 : s2[i] = st[i]
    BY PopFacts
  <1>2. \A i \in 1 .. n : Fits(ns, st[i]) /\ (i < n => At(ns, st[i], st[i + 1].value))
    BY DEF Follows
  <1>3. \A i \in 1 .. n : d[st[i].value] = i
    BY DEF Placed
  <1>4. st[1].value = 1
    BY <1>1 DEF Follows
  <1> HIDE DEF n, s2
  <1>5. ASSUME NEW i \in 1 .. n - 1
        PROVE  /\ Fits(ns, s2[i]) /\ (i < n - 1 => At(ns, s2[i], s2[i + 1].value))
               /\ d[s2[i].value] = i
    <2>1. i \in 1 .. n /\ i < n /\ (i < n - 1 => i + 1 \in 1 .. n - 1)
      BY <1>1
    <2>2. QED
      BY <2>1, <1>1, <1>2, <1>3
  <1>6. n - 1 > 0 => s2[1].value = 1
    BY <1>1, <1>4
  <1>7. Follows(ns, s2) /\ Placed(s2, d)
    BY <1>1, <1>5, <1>6 DEF Follows, Placed
  <1>8. QED
    BY <1>1, <1>7 DEF s2

(***************************************************************************)
(* What starting a value does: it fails, it is done at once, or it goes on *)
(* the stack with an entry that fits.                                      *)
(***************************************************************************)
Started(n, below) ==
    \/ \E e \in Errors \ {"none", "extra_data"} : Reject(e)
    \/ Goto(below) /\ out' \in Seq(Nat)
    \/ \E e \in StackEntries :
          /\ e.value = n /\ Fits(nodes, e)
          /\ Goto(Append(below, e)) /\ out' \in Seq(Nat)

LEMMA StartFacts ==
    ASSUME Tree(nodes), out \in Seq(Nat), NEW t \in Types, NEW allow \in BOOLEAN,
           NEW n \in Address, NEW below, NEW prefix \in Seq(Nat),
           StartValue(t, allow, n, below, prefix)
    PROVE  Started(n, below)
  <1>1. /\ Base(t) \in Types
        /\ Kind[Base(t)] \in {"builtin", "struct", "variant"} \cup ArrayKinds
    BY BaseFacts
  <1>2. Presence(t) \in Seq(Nat) /\ out \o prefix \in Seq(Nat)
    BY DEF Presence
  <1>3. nodes[n] \in Jvalues
    BY DEF Tree, Address
  <1>4. /\ nodes[n].items \in Seq(Nat) /\ Len(nodes[n].items) \in Nat
    BY <1>3, JvalueFacts
  <1>5. out \o prefix \o Presence(t) \in Seq(Nat)
    BY <1>2
  <1>6. Len(Fields[Base(t)]) \in Nat
    <2>1. Fields[Base(t)] \in Seq([name : Strings, type : Types])
      BY <1>1, TableAssumption
    <2>2. QED
      BY <2>1, LenProperties
  <1> DEFINE written == out \o prefix \o Presence(t)
  <1>7. CASE AbsentOptional(t, n, below, prefix)
    <2>1. <<0>> \in Seq(Nat)
      OBVIOUS
    <2>2. (out \o prefix) \o <<0>> \in Seq(Nat)
      BY <1>2, <2>1
    <2>3. Goto(below) /\ out' \in Seq(Nat)
      BY <1>7, <2>2 DEF AbsentOptional
    <2>4. QED
      BY <2>3 DEF Started
  <1>8. CASE StartBuiltin(t, n, below, prefix)
    <2>1. CASE nodes[n].kind = "string" /\ nodes[n].text \in Scalars
      <3>1. ByteOf(nodes[n].text) \in Nat
        BY <2>1, ByteOfFacts
      <3>2. written \o <<ByteOf(nodes[n].text)>> \in Seq(Nat)
        <4> DEFINE b == ByteOf(nodes[n].text)
        <4> HIDE DEF b
        <4>1. <<b>> \in Seq(Nat)
          BY <3>1 DEF b
        <4> HIDE DEF written
        <4>2. written \in Seq(Nat)
          BY <1>5 DEF written
        <4>3. written \o <<b>> \in Seq(Nat)
          BY <4>1, <4>2
        <4>4. QED
          BY <4>3 DEF b
      <3>3. Goto(below) /\ out' \in Seq(Nat)
        BY <1>8, <2>1, <3>2 DEF StartBuiltin
      <3>4. QED
        BY <3>3 DEF Started
    <2>2. CASE ~(nodes[n].kind = "string" /\ nodes[n].text \in Scalars)
      <3>1. Reject("expected_number")
        BY <1>8, <2>2 DEF StartBuiltin
      <3>2. QED
        BY <3>1 DEF Started, Errors
    <2>3. QED
      BY <2>1, <2>2
  <1>9. CASE StartStruct(t, allow, n, below, prefix)
    <2>1. CASE nodes[n].kind = "object"
      <3> DEFINE e == Entry(Base(t), allow, n, -1)
      <3>1. /\ e \in StackEntries /\ e.type = Base(t) /\ e.value = n /\ e.position = -1
        BY <1>1 DEF Entry, StackEntries
      <3>2. Goto(Append(below, e)) /\ out' \in Seq(Nat)
        BY <1>5, <1>9, <2>1 DEF StartStruct
      <3> HIDE DEF e
      <3>3. Fits(nodes, e)
        BY <1>6, <1>9, <2>1, <3>1 DEF Fits, StartStruct
      <3>4. QED
        BY <3>1, <3>2, <3>3 DEF Started
    <2>2. CASE nodes[n].kind # "object"
      <3>1. Reject("expected_start_object")
        BY <1>9, <2>2 DEF StartStruct
      <3>2. QED
        BY <3>1 DEF Started, Errors
    <2>3. QED
      BY <2>1, <2>2
  <1>10. CASE StartArray(t, n, below, prefix)
    <2>1. CASE nodes[n].kind = "array"
      <3> DEFINE e == Entry(Base(t), FALSE, n, -1)
                 size == Len(nodes[n].items)
      <3>1. /\ e \in StackEntries /\ e.type = Base(t) /\ e.value = n /\ e.position = -1
        BY <1>1 DEF Entry, StackEntries
      <3>2. Goto(Append(below, e)) /\ out' = written \o <<size>>
        BY <1>10, <2>1 DEF StartArray
      <3> HIDE DEF e, size, written
      <3>3. written \in Seq(Nat) /\ <<size>> \in Seq(Nat)
        BY <1>4, <1>5 DEF written, size
      <3>4. out' \in Seq(Nat)
        BY <3>2, <3>3
      <3>5. Fits(nodes, e)
        BY <1>4, <1>10, <2>1, <3>1 DEF Fits, StartArray, ArrayKinds
      <3>6. QED
        BY <3>1, <3>2, <3>4, <3>5 DEF Started
    <2>2. CASE nodes[n].kind # "array"
      <3>1. Reject("expected_start_array")
        BY <1>10, <2>2 DEF StartArray
      <3>2. QED
        BY <3>1 DEF Started, Errors
    <2>3. QED
      BY <2>1, <2>2
  <1>11. CASE StartFixedArray(t, n, below, prefix)
    <2>1. CASE nodes[n].kind # "array"
      <3>1. Reject("expected_start_array")
        BY <1>11, <2>1 DEF StartFixedArray
      <3>2. QED
        BY <3>1 DEF Started, Errors
    <2>2. CASE nodes[n].kind = "array" /\ Len(nodes[n].items) # Size[Base(t)]
      <3>1. Reject("incorrect_size")
        BY <1>11, <2>2 DEF StartFixedArray
      <3>2. QED
        BY <3>1 DEF Started, Errors
    <2>3. CASE nodes[n].kind = "array" /\ Len(nodes[n].items) = Size[Base(t)]
      <3> DEFINE e == Entry(Base(t), FALSE, n, -1)
      <3>1. /\ e \in StackEntries /\ e.type = Base(t) /\ e.value = n /\ e.position = -1
        BY <1>1 DEF Entry, StackEntries
      <3>2. Goto(Append(below, e)) /\ out' \in Seq(Nat)
        BY <1>5, <1>11, <2>3 DEF StartFixedArray
      <3> HIDE DEF e
      <3>3. Fits(nodes, e)
        BY <1>4, <1>11, <2>3, <3>1 DEF Fits, StartFixedArray, ArrayKinds
      <3>4. QED
        BY <3>1, <3>2, <3>3 DEF Started
    <2>4. QED
      BY <2>1, <2>2, <2>3
  <1>12. CASE StartVariant(t, allow, n, below, prefix)
    <2>1. CASE Tagged(n)
      <3> DEFINE e == Entry(Base(t), allow, n, 0)
      <3>1. /\ e \in StackEntries /\ e.type = Base(t) /\ e.value = n /\ e.position = 0
        BY <1>1 DEF Entry, StackEntries
      <3>2. Goto(Append(below, e)) /\ out' \in Seq(Nat)
        BY <1>5, <1>12, <2>1 DEF StartVariant
      <3> HIDE DEF e
      <3>3. Fits(nodes, e)
        BY <1>12, <2>1, <3>1 DEF Fits, StartVariant, Tagged
      <3>4. QED
        BY <3>1, <3>2, <3>3 DEF Started
    <2>2. CASE ~Tagged(n)
      <3>1. Reject("expected_variant")
        BY <1>12, <2>2 DEF StartVariant
      <3>2. QED
        BY <3>1 DEF Started, Errors
    <2>3. QED
      BY <2>1, <2>2
  <1>13. QED
    BY <1>7, <1>8, <1>9, <1>10, <1>11, <1>12 DEF StartValue

\* A turn of the encoder: the stack it leaves still follows the tree.
LEMMA EncoderStep ==
    ASSUME IInv, UNCHANGED building, root' \in Types \cup {""},
           pc' \in {"encode", "failed"}, error' \in Errors \ {"extra_data"},
           skipped_extension' \in BOOLEAN, out' \in Seq(Nat),
           stack' \in Seq(StackEntries), Follows(nodes, stack'),
           NEW d, Layered(nodes, d), Placed(stack', d)
    PROVE  IInv'
  <1>1. /\ doc' = doc /\ reader' = reader /\ nodes' = nodes /\ build' = build
    BY DEF building
  <1>2. TypeOK /\ Tree(nodes)
    BY DEF IInv
  <1>3. Address' = Address /\ \A n \in Address : NodeOK(nodes[n])' <=> NodeOK(nodes[n])
    BY <1>1 DEF Address, NodeOK
  <1>4. TypeOK'
    BY <1>1, <1>2, <1>3 DEF TypeOK, StackEntries
  <1>5. DepthsFit'
    BY <1>1 DEF DepthsFit
  <1>6. QED
    BY <1>1, <1>2, <1>4, <1>5 DEF IInv

\* A value started where the stack below is at it.
LEMMA StartStep ==
    ASSUME IInv, UNCHANGED building, root' \in Types \cup {""},
           NEW n \in Address, NEW below \in Seq(StackEntries), Started(n, below),
           Follows(nodes, below),
           Len(below) > 0 => At(nodes, below[Len(below)], n), Len(below) = 0 => n = 1,
           \E d : Layered(nodes, d) /\ Placed(stack, d) /\ Placed(below, d)
    PROVE  IInv'
  <1>1. TypeOK /\ Tree(nodes) /\ Follows(nodes, stack) /\ error # "extra_data"
    BY DEF IInv
  <1>2. /\ stack \in Seq(StackEntries) /\ out \in Seq(Nat) /\ skipped_extension \in BOOLEAN
        /\ error \in Errors
    BY <1>1 DEF TypeOK, StackEntries
  <1>3. PICK d : Layered(nodes, d) /\ Placed(stack, d) /\ Placed(below, d)
    OBVIOUS
  <1>4. CASE \E e \in Errors \ {"none", "extra_data"} : Reject(e)
    <2>1. /\ stack' = stack /\ out' = out /\ skipped_extension' = skipped_extension
          /\ pc' = "failed" /\ error' \in Errors \ {"extra_data"}
      BY <1>4 DEF Reject, Fail
    <2>2. QED
      BY <2>1, <1>1, <1>2, <1>3, EncoderStep
  <1>5. CASE Goto(below) /\ out' \in Seq(Nat)
    <2>1. /\ stack' = below /\ skipped_extension' = skipped_extension
          /\ pc' = "encode" /\ error' = error
      BY <1>5 DEF Goto
    <2>2. QED
      BY <2>1, <1>1, <1>2, <1>3, <1>5, EncoderStep
  <1>6. ASSUME NEW e \in StackEntries, e.value = n, Fits(nodes, e),
               Goto(Append(below, e)), out' \in Seq(Nat)
        PROVE  IInv'
    <2>1. /\ stack' = Append(below, e) /\ skipped_extension' = skipped_extension
          /\ pc' = "encode" /\ error' = error
      BY <1>6 DEF Goto
    <2>2. \A i \in 1 .. Len(below) : below[i].type \in Types /\ below[i].value \in 1 .. Len(nodes)
      <3>1. \A i \in 1 .. Len(below) : below[i] \in StackEntries
        BY ElementOfSeq
      <3>2. Address = 1 .. Len(nodes)
        BY <1>1, TreeNodes DEF Address
      <3>3. QED
        BY <3>1, <3>2 DEF StackEntries
    <2>3. Follows(nodes, stack') /\ Placed(stack', d)
      BY <1>1, <1>3, <1>6, <2>1, <2>2, EntryPushed
    <2>4. stack' \in Seq(StackEntries)
      BY <2>1, <1>6, AppendFacts
    <2>5. QED
      BY <2>1, <2>3, <2>4, <1>1, <1>2, <1>3, <1>6, EncoderStep
  <1>7. QED
    BY <1>4, <1>5, <1>6 DEF Started


LEMMA NotEmpty ==
    ASSUME NEW S, NEW s \in Seq(S), s # << >>
    PROVE  Len(s) \in Nat /\ Len(s) > 0 /\ Len(s) \in 1 .. Len(s)
  OBVIOUS

\* What a turn finds on top of the stack.
LEMMA TurnFacts ==
    ASSUME IInv, pc = "encode", stack # << >>
    PROVE  /\ Tree(nodes) /\ out \in Seq(Nat) /\ root \in Types \cup {""}
           /\ skipped_extension \in BOOLEAN /\ error \in Errors \ {"extra_data"}
           /\ stack \in Seq(StackEntries) /\ Len(stack) > 0 /\ Follows(nodes, stack)
           /\ Top(stack) \in StackEntries /\ Fits(nodes, Top(stack))
           /\ Address = 1 .. Len(nodes)
           /\ Value = nodes[Top(stack).value] /\ Len(Value.items) \in Nat
           /\ \E d : Layered(nodes, d) /\ Placed(stack, d)
  <1>1. TypeOK /\ Tree(nodes) /\ DepthsFit /\ Follows(nodes, stack) /\ error # "extra_data"
    BY DEF IInv
  <1>2. /\ stack \in Seq(StackEntries) /\ out \in Seq(Nat) /\ skipped_extension \in BOOLEAN
        /\ error \in Errors /\ root \in Types \cup {""}
    BY <1>1 DEF TypeOK, StackEntries
  <1>3. Len(stack) > 0 /\ Len(stack) \in 1 .. Len(stack)
    BY <1>2, NotEmpty
  <1>4. Top(stack) \in StackEntries
    BY <1>2, <1>3, ElementOfSeq DEF Top
  <1>5. Fits(nodes, Top(stack))
    BY <1>1, <1>3 DEF Follows, Top
  <1>6. Address = 1 .. Len(nodes)
    BY <1>1, TreeNodes DEF Address
  <1>7. Value = nodes[Top(stack).value] /\ Len(Value.items) \in Nat
    <2>1. Top(stack).value \in 1 .. Len(nodes)
      BY <1>4, <1>6 DEF StackEntries
    <2>2. nodes[Top(stack).value] \in Jvalues
      BY <1>1, <2>1 DEF Tree
    <2>3. Len(nodes[Top(stack).value].items) \in Nat
      BY <2>2, JvalueFacts
    <2>4. QED
      BY <2>3 DEF Value
  <1>8. QED
    BY <1>1, <1>2, <1>3, <1>4, <1>5, <1>6, <1>7 DEF DepthsFit

\* A field of a struct, or an alternative of a variant, has a type.
LEMMA FieldFacts ==
    ASSUME NEW t \in Types, NEW i \in 1 .. Len(Fields[t])
    PROVE  Fields[t][i].type \in Types /\ Len(Fields[t]) \in Nat
  <1>1. Fields[t] \in Seq([name : Strings, type : Types])
    BY TableAssumption
  <1>2. Fields[t][i] \in [name : Strings, type : Types] /\ Len(Fields[t]) \in Nat
    BY <1>1, ElementOfSeq, LenProperties
  <1>3. QED
    BY <1>2

\* An entry moved on to p, with a value to start there.
LEMMA MoveOn ==
    ASSUME IInv, pc = "encode", stack # << >>, NEW p \in Int, p >= 0,
           \A e : /\ e.type = Top(stack).type /\ e.value = Top(stack).value /\ e.position = p
                  => Fits(nodes, e)
    PROVE  /\ WithPosition(p) \in Seq(StackEntries) /\ Follows(nodes, WithPosition(p))
           /\ Len(WithPosition(p)) = Len(stack)
           /\ WithPosition(p)[Len(stack)].type = Top(stack).type
           /\ WithPosition(p)[Len(stack)].value = Top(stack).value
           /\ WithPosition(p)[Len(stack)].position = p
           /\ \A d : Placed(stack, d) => Placed(WithPosition(p), d)
  <1> DEFINE s2 == Moved(stack, p)
  <1>1. s2 = WithPosition(p)
    BY DEF Moved, WithPosition
  <1>2. stack \in Seq(StackEntries) /\ Len(stack) > 0 /\ Follows(nodes, stack)
    BY TurnFacts
  <1>3. stack \in Seq([type : Types, allow_extensions : BOOLEAN, value : Address, position : Int])
    BY <1>2 DEF StackEntries
  <1>4. /\ s2 \in Seq([type : Types, allow_extensions : BOOLEAN, value : Address, position : Int])
        /\ Len(s2) = Len(stack)
        /\ s2[Len(stack)].type = Top(stack).type
        /\ s2[Len(stack)].value = Top(stack).value
        /\ s2[Len(stack)].position = p
        /\ \A i \in 1 .. Len(stack) : s2[i].type = stack[i].type /\ s2[i].value = stack[i].value
        /\ Follows(nodes, s2)
    BY <1>2, <1>3, EntryMoved
  <1> HIDE DEF s2
  <1>5. \A d : Placed(stack, d) => Placed(s2, d)
    BY <1>4 DEF Placed
  <1>6. s2 \in Seq(StackEntries)
    BY <1>4 DEF StackEntries
  <1>7. QED
    BY <1>1, <1>4, <1>5, <1>6

\* An entry that is done.
LEMMA LeaveStep ==
    ASSUME IInv, pc = "encode", stack # << >>, Leave, UNCHANGED <<building, root>>
    PROVE  IInv'
  <1>1. /\ stack \in Seq(StackEntries) /\ Len(stack) > 0 /\ Follows(nodes, stack)
        /\ out \in Seq(Nat) /\ root \in Types \cup {""}
        /\ skipped_extension \in BOOLEAN /\ error \in Errors \ {"extra_data"}
    BY TurnFacts
  <1>2. PICK d : Layered(nodes, d) /\ Placed(stack, d)
    BY TurnFacts
  <1>3. /\ stack' = Pop(stack) /\ pc' = "encode" /\ out' = out /\ error' = error
        /\ skipped_extension' = skipped_extension /\ root' = root
    BY DEF Leave, Goto
  <1>4. stack' \in Seq(StackEntries) /\ Follows(nodes, stack') /\ Placed(stack', d)
    BY <1>1, <1>2, <1>3, EntryPopped
  <1>5. QED
    BY <1>1, <1>2, <1>3, <1>4, EncoderStep

\* An entry that fails.
LEMMA RejectStep ==
    ASSUME IInv, pc = "encode", stack # << >>, NEW e \in Errors \ {"none", "extra_data"},
           Reject(e), UNCHANGED <<building, root>>
    PROVE  IInv'
  <1>1. /\ stack \in Seq(StackEntries) /\ Follows(nodes, stack)
        /\ out \in Seq(Nat) /\ root \in Types \cup {""} /\ skipped_extension \in BOOLEAN
    BY TurnFacts
  <1>2. PICK d : Layered(nodes, d) /\ Placed(stack, d)
    BY TurnFacts
  <1>3. /\ stack' = stack /\ pc' = "failed" /\ out' = out /\ error' = e
        /\ skipped_extension' = skipped_extension /\ root' = root
    BY DEF Reject, Fail
  <1>4. QED
    BY <1>1, <1>2, <1>3, EncoderStep

\* The child that the moved entry is at is started on top of it.
LEMMA DescendStep ==
    ASSUME IInv, pc = "encode", stack # << >>, UNCHANGED <<building, root>>,
           NEW p \in Int, p >= 0,
           \A e : /\ e.type = Top(stack).type /\ e.value = Top(stack).value /\ e.position = p
                  => Fits(nodes, e),
           NEW n, \A e : /\ e.type = Top(stack).type /\ e.value = Top(stack).value /\ e.position = p
                         => At(nodes, e, n),
           NEW t \in Types, NEW allow \in BOOLEAN, NEW prefix \in Seq(Nat),
           StartValue(t, allow, n, WithPosition(p), prefix)
    PROVE  IInv'
  <1> DEFINE below == WithPosition(p)
             e == below[Len(stack)]
  <1>1. /\ below \in Seq(StackEntries) /\ Follows(nodes, below)
        /\ Len(below) = Len(stack)
        /\ e.type = Top(stack).type /\ e.value = Top(stack).value /\ e.position = p
        /\ \A d : Placed(stack, d) => Placed(below, d)
    BY MoveOn
  <1>2. /\ Tree(nodes) /\ out \in Seq(Nat) /\ Top(stack) \in StackEntries
        /\ Address = 1 .. Len(nodes) /\ Len(stack) > 0 /\ root \in Types \cup {""}
    BY TurnFacts
  <1>3. PICK d : Layered(nodes, d) /\ Placed(stack, d)
    BY TurnFacts
  <1> HIDE DEF below, e
  <1>4. Fits(nodes, e) /\ At(nodes, e, n)
    BY <1>1
  <1>5. e.type \in Types /\ e.value \in 1 .. Len(nodes)
    BY <1>1, <1>2 DEF StackEntries
  <1>6. n \in Address
    BY <1>2, <1>4, <1>5, ChildFacts
  <1>7. Started(n, below)
    BY <1>2, <1>6, StartFacts DEF below
  <1>8. At(nodes, below[Len(below)], n) /\ Len(below) > 0
    BY <1>1, <1>2, <1>4 DEF e
  <1>9. root' \in Types \cup {""} /\ UNCHANGED building
    BY <1>2
  <1>10. \E d1 : Layered(nodes, d1) /\ Placed(stack, d1) /\ Placed(below, d1)
    BY <1>1, <1>3
  <1>11. ~(Len(below) = 0)
    BY <1>8
  <1>12. QED
    BY <1>1, <1>6, <1>7, <1>8, <1>9, <1>10, <1>11, StartStep

\* A struct's turn.
LEMMA ObjectStep == IInv /\ Object => IInv'
  <1> SUFFICES ASSUME IInv, Object PROVE IInv'
    OBVIOUS
  <1> DEFINE type == Top(stack).type
             next == Top(stack).position + 1
             field == Field(type, next)
  <1>1. /\ pc = "encode" /\ stack # << >> /\ Kind[type] = "struct" /\ UNCHANGED <<building, root>>
        /\ IF next = Len(Fields[type]) THEN Leave
           ELSE IF field.name \notin DOMAIN Value.members
             THEN IF Extension(field.type) /\ Top(stack).allow_extensions
                    THEN LeaveOut(next)
                    ELSE Reject("expected_field")
           ELSE Member(type, next)
    BY DEF Object, Turn
  <1>2. /\ stack \in Seq(StackEntries) /\ Len(stack) > 0 /\ Follows(nodes, stack)
        /\ Top(stack) \in StackEntries /\ Fits(nodes, Top(stack))
        /\ Value = nodes[Top(stack).value]
        /\ out \in Seq(Nat) /\ root \in Types \cup {""} /\ error \in Errors \ {"extra_data"}
    BY <1>1, TurnFacts
  <1>3. type \in Types /\ Top(stack).position \in Int /\ Top(stack).allow_extensions \in BOOLEAN
    BY <1>2 DEF StackEntries
  <1>4. Len(Fields[type]) \in Nat
    <2>1. Fields[type] \in Seq([name : Strings, type : Types])
      BY <1>3, TableAssumption
    <2>2. QED
      BY <2>1, LenProperties
  <1>5. nodes[Top(stack).value].kind = "object" /\ next \in 0 .. Len(Fields[type])
    <2>1. /\ nodes[Top(stack).value].kind = "object"
          /\ Top(stack).position \in -1 .. Len(Fields[type]) - 1
      BY <1>1, <1>2 DEF Fits, ArrayKinds
    <2>2. QED
      BY <2>1, <1>4
  <1>6. CASE next = Len(Fields[type])
    BY <1>1, <1>6, LeaveStep
  <1>7. CASE next # Len(Fields[type])
    <2>1. next \in Int /\ next >= 0 /\ next \in -1 .. Len(Fields[type]) - 1
          /\ next + 1 \in 1 .. Len(Fields[type])
      BY <1>4, <1>5, <1>7
    <2>2. ASSUME NEW e, e.type = type, e.value = Top(stack).value, e.position = next
          PROVE  Fits(nodes, e)
      BY <1>1, <1>5, <2>1, <2>2 DEF Fits
    <2>3. CASE field.name \notin DOMAIN Value.members
      <3>1. CASE Extension(field.type) /\ Top(stack).allow_extensions
        <4>1. /\ skipped_extension' = TRUE /\ stack' = WithPosition(next)
              /\ pc' = "encode" /\ out' = out /\ error' = error /\ root' = root
          BY <1>1, <1>7, <2>3, <3>1 DEF LeaveOut
        <4>2. PICK d : Layered(nodes, d) /\ Placed(stack, d)
          BY <1>1, TurnFacts
        <4> HIDE DEF next
        <4>3. /\ stack' \in Seq(StackEntries) /\ Follows(nodes, stack')
              /\ Placed(stack', d)
          BY <1>1, <2>1, <2>2, <4>1, <4>2, MoveOn
        <4>4. QED
          BY <1>1, <1>2, <4>1, <4>2, <4>3, EncoderStep
      <3>2. CASE ~(Extension(field.type) /\ Top(stack).allow_extensions)
        <4>1. Reject("expected_field")
          BY <1>1, <1>7, <2>3, <3>2
        <4>2. QED
          BY <1>1, <4>1, RejectStep DEF Errors
      <3>3. QED
        BY <3>1, <3>2
    <2>4. CASE field.name \in DOMAIN Value.members
      <3>1. CASE skipped_extension
        <4>1. Reject("unexpected_field")
          BY <1>1, <1>7, <2>4, <3>1 DEF Member
        <4>2. QED
          BY <1>1, <4>1, RejectStep DEF Errors
      <3>2. CASE ~skipped_extension
        <4> DEFINE n == Value.members[field.name]
                   allow == AllowIn(type, next, Top(stack).allow_extensions)
        <4>1. StartValue(field.type, allow, n, WithPosition(next), << >>)
          BY <1>1, <1>7, <2>4, <3>2 DEF Member
        <4>2. field.type \in Types /\ allow \in BOOLEAN /\ << >> \in Seq(Nat)
          BY <1>3, <2>1, FieldFacts DEF Field, AllowIn
        <4>3. ASSUME NEW e, e.type = type, e.value = Top(stack).value, e.position = next
              PROVE  At(nodes, e, n)
          BY <1>1, <1>2, <2>1, <2>4, <4>3 DEF At
        <4> HIDE DEF next, n, allow, field, type
        <4>4. \A e : /\ e.type = Top(stack).type /\ e.value = Top(stack).value /\ e.position = next
                     => Fits(nodes, e) /\ At(nodes, e, n)
          BY <2>2, <4>3 DEF type
        <4>5. QED
          BY <1>1, <2>1, <4>1, <4>2, <4>4, DescendStep
      <3>3. QED
        BY <3>1, <3>2
    <2>5. QED
      BY <2>3, <2>4
  <1>8. QED
    BY <1>6, <1>7

\* An array's turn.
LEMMA ElementsStep == IInv /\ Elements => IInv'
  <1> SUFFICES ASSUME IInv, Elements PROVE IInv'
    OBVIOUS
  <1> DEFINE type == Top(stack).type
             next == Top(stack).position + 1
  <1>1. /\ pc = "encode" /\ stack # << >> /\ Kind[type] \in ArrayKinds /\ UNCHANGED <<building, root>>
        /\ IF next = Len(Value.items) THEN Leave
           ELSE StartValue(Element[type], FALSE, Value.items[next + 1], WithPosition(next), << >>)
    BY DEF Elements, Turn, ArrayKinds
  <1>2. /\ Top(stack) \in StackEntries /\ Fits(nodes, Top(stack))
        /\ Value = nodes[Top(stack).value] /\ Len(Value.items) \in Nat
    BY <1>1, TurnFacts
  <1>3. type \in Types /\ Top(stack).position \in Int
    BY <1>2 DEF StackEntries
  <1>4. Value.kind = "array" /\ next \in 0 .. Len(Value.items)
    BY <1>1, <1>2, <1>3 DEF Fits, ArrayKinds
  <1>5. CASE next = Len(Value.items)
    BY <1>1, <1>5, LeaveStep
  <1>6. CASE next # Len(Value.items)
    <2> DEFINE n == Value.items[next + 1]
    <2>1. next \in Int /\ next >= 0 /\ next \in -1 .. Len(Value.items) - 1
      BY <1>2, <1>4, <1>6
    <2>2. ASSUME NEW e, e.type = type, e.value = Top(stack).value, e.position = next
          PROVE  Fits(nodes, e)
      BY <1>1, <1>2, <1>4, <2>1, <2>2 DEF Fits
    <2>3. ASSUME NEW e, e.type = type, e.value = Top(stack).value, e.position = next
          PROVE  At(nodes, e, n)
      BY <1>1, <1>2, <2>1, <2>3 DEF At
    <2>4. StartValue(Element[type], FALSE, n, WithPosition(next), << >>)
      BY <1>1, <1>6
    <2>5. Element[type] \in Types /\ << >> \in Seq(Nat) /\ FALSE \in BOOLEAN
      BY <1>3, TableAssumption
    <2> HIDE DEF next, n
    <2>6. \A e : /\ e.type = Top(stack).type /\ e.value = Top(stack).value /\ e.position = next
                 => Fits(nodes, e) /\ At(nodes, e, n)
      BY <2>2, <2>3
    <2>7. QED
      BY <1>1, <2>1, <2>4, <2>5, <2>6, DescendStep
  <1>7. QED
    BY <1>5, <1>6

\* A variant's turn.
LEMMA VariantStep == IInv /\ Variant => IInv'
  <1> SUFFICES ASSUME IInv, Variant PROVE IInv'
    OBVIOUS
  <1> DEFINE type == Top(stack).type
             found == Alternatives(type, nodes[Value.items[1]].text)
  <1>1. /\ pc = "encode" /\ stack # << >> /\ Kind[type] = "variant" /\ UNCHANGED <<building, root>>
        /\ IF Top(stack).position # 0 THEN Leave
           ELSE IF found = {} THEN Reject("invalid_type_for_variant")
           ELSE \E i \in found :
                  StartValue(Fields[type][i].type, Top(stack).allow_extensions,
                             Value.items[2], WithPosition(1), <<i - 1>>)
    BY DEF Variant, Turn
  <1>2. /\ Top(stack) \in StackEntries /\ Fits(nodes, Top(stack))
        /\ Value = nodes[Top(stack).value]
    BY <1>1, TurnFacts
  <1>3. type \in Types /\ Top(stack).allow_extensions \in BOOLEAN
    BY <1>2 DEF StackEntries
  <1>4. Value.kind = "array" /\ Len(Value.items) = 2
    BY <1>1, <1>2 DEF Fits, ArrayKinds
  <1>5. CASE Top(stack).position # 0
    BY <1>1, <1>5, LeaveStep
  <1>6. CASE Top(stack).position = 0 /\ found = {}
    <2>1. Reject("invalid_type_for_variant")
      BY <1>1, <1>6
    <2>2. QED
      BY <1>1, <2>1, RejectStep DEF Errors
  <1>7. CASE Top(stack).position = 0 /\ found # {}
    <2>1. PICK i \in found : StartValue(Fields[type][i].type, Top(stack).allow_extensions,
                                        Value.items[2], WithPosition(1), <<i - 1>>)
      BY <1>1, <1>7
    <2>2. i \in 1 .. Len(Fields[type]) /\ Fields[type][i].type \in Types
      <3>1. i \in DOMAIN Fields[type] /\ Fields[type] \in Seq([name : Strings, type : Types])
        BY <2>1, <1>3, TableAssumption DEF Alternatives
      <3>2. i \in 1 .. Len(Fields[type])
        BY <3>1, LenProperties
      <3>3. QED
        BY <3>2, <1>3, FieldFacts
    <2>3. <<i - 1>> \in Seq(Nat)
      <3> DEFINE k == i - 1
      <3>1. k \in Nat
        BY <2>2
      <3> HIDE DEF k
      <3>2. <<k>> \in Seq(Nat)
        BY <3>1
      <3>3. QED
        BY <3>2 DEF k
    <2> DEFINE n == Value.items[2]
               prefix == <<i - 1>>
    <2>4. ASSUME NEW e, e.type = type, e.value = Top(stack).value, e.position = 1
          PROVE  Fits(nodes, e) /\ At(nodes, e, n)
      BY <1>1, <1>2, <1>4, <2>4, SMTT(60) DEF Fits, At
    <2>5. /\ StartValue(Fields[type][i].type, Top(stack).allow_extensions, n, WithPosition(1), prefix)
          /\ prefix \in Seq(Nat)
      BY <2>1, <2>3
    <2> HIDE DEF n, prefix
    <2>6. \A e : /\ e.type = Top(stack).type /\ e.value = Top(stack).value /\ e.position = 1
                 => Fits(nodes, e) /\ At(nodes, e, n)
      BY <2>4
    <2>7. 1 \in Int /\ 1 >= 0
      OBVIOUS
    <2>8. QED
      BY <1>1, <1>3, <2>2, <2>5, <2>6, <2>7, DescendStep
  <1>8. QED
    BY <1>5, <1>6, <1>7

\* The encoder starts at the root.
LEMMA EncodeStep ==
    ASSUME IInv, NEW type \in Types, Encode(type)
    PROVE  IInv'
  <1>1. /\ pc = "built" /\ root' = type /\ UNCHANGED building
        /\ StartValue(type, TRUE, 1, << >>, << >>)
    BY DEF Encode
  <1>2. TypeOK /\ Tree(nodes) /\ DepthsFit /\ stack = << >>
    BY <1>1 DEF IInv
  <1>3. out \in Seq(Nat) /\ 1 \in Address
    <2>1. Len(nodes) > 0 /\ Len(nodes) \in Nat
      BY <1>2 DEF Tree
    <2>2. Address = 1 .. Len(nodes)
      BY <1>2, TreeNodes DEF Address
    <2>3. out \in Seq(Nat)
      BY <1>2 DEF TypeOK
    <2>4. QED
      BY <2>1, <2>2, <2>3
  <1> DEFINE none == << >>
  <1>4. none \in Seq(StackEntries) /\ none \in Seq(Nat) /\ Len(none) = 0
    OBVIOUS
  <1>5. stack = none /\ StartValue(type, TRUE, 1, none, none)
    BY <1>1, <1>2
  <1> HIDE DEF none
  <1>6. Started(1, none)
    BY <1>2, <1>3, <1>4, <1>5, StartFacts
  <1>7. Follows(nodes, none) /\ \A d : Placed(none, d)
    BY <1>4 DEF Follows, Placed
  <1>8. \E d : Layered(nodes, d) /\ Placed(stack, d) /\ Placed(none, d)
    BY <1>2, <1>5, <1>7 DEF DepthsFit
  <1>9. ~(Len(none) > 0) /\ root' \in Types \cup {""}
    <2>1. root' = type
      BY <1>1
    <2>2. ~(Len(none) > 0)
      BY <1>4
    <2>3. QED
      BY <2>1, <2>2
  <1>10. QED
    BY <1>1, <1>3, <1>4, <1>6, <1>7, <1>8, <1>9, StartStep

----------------------------------------------------------------------------
(***************************************************************************)
(* The invariant.                                                          *)
(***************************************************************************)

\* Before the first event there is one entry and nothing is encoded.
LEMMA InitInv == Init => IInv
  <1> SUFFICES ASSUME Init PROVE IInv
    OBVIOUS
  <1> DEFINE x == Jvalue("null", "")
             d == [n \in 1 .. 1 |-> 1]
  <1>1. /\ << >> \in MemberMaps /\ DOMAIN << >> = {} /\ Len(<< >>) = 0 /\ << >> \in Seq(Nat)
    <2>1. /\ << >> \in [1 .. Len(<< >>) -> Nat] /\ DOMAIN << >> = 1 .. Len(<< >>)
          /\ Len(<< >>) = 0 /\ << >> \in Seq(Nat)
      BY EmptySeq, LenProperties
    <2>2. << >> \in [{} -> Nat] /\ DOMAIN << >> = {}
      BY <2>1
    <2>3. QED
      BY <2>1, <2>2 DEF MemberMaps
  <1>2. x \in Jvalues /\ DOMAIN x.members = {} /\ Len(x.items) = 0
    BY <1>1 DEF Jvalue, Jvalues, JKinds
  <1>3. pc = "build" /\ root = "" /\ skipped_extension = FALSE /\ error = "none"
    BY DEF Init
  <1>4. doc = << >> /\ stack = << >> /\ out = << >>
    BY DEF Init
  <1>5. Len(stack) = 0
    <2>1. Len(<< >>) = 0
      OBVIOUS
    <2>2. QED
      BY <1>4, <2>1
  <1>6. reader = FreshReader /\ build = <<BuildEntry(1)>> /\ nodes = <<x>>
    BY DEF Init
  <1> HIDE DEF x
  <1>7. nodes \in Seq(Jvalues) /\ Len(nodes) = 1 /\ nodes[1] = x
    <2>1. nodes = <<x>>
      BY <1>6
    <2>2. QED
      BY <1>2, <2>1
  <1>8. \A n \in 1 .. Len(nodes) : nodes[n] = x
    BY <1>7
  <1>9. Tree(nodes)
    BY <1>2, <1>7, <1>8 DEF Tree
  <1>10. /\ Address = 1 .. 1 /\ \A n \in Address : NodeOK(nodes[n])
    <2>1. Len(nodes) = 1 /\ Address = 1 .. Len(nodes)
      BY <1>7, <1>9, TreeNodes DEF Address
    <2>2. \A n \in Address : NodeOK(nodes[n])
      BY <1>9, TreeNodes DEF Address, NodeOK
    <2>3. QED
      BY <2>1, <2>2
  <1>11. Layered(nodes, d)
    <2>1. d[1] = 1 /\ d \in [1 .. 1 -> 1 .. MaxStack]
      BY BoundAssumption
    <2> HIDE DEF d
    <2>2. QED
      BY <2>1, <1>2, <1>7, <1>8 DEF Layered
  <1>12. /\ build \in Seq([value : Address, key : Strings \cup {""}])
        /\ Len(build) = 1 /\ build[1].value = 1
    <2> DEFINE e == BuildEntry(1)
    <2>1. e \in [value : 1 .. 1, key : Strings \cup {""}] /\ e.value = 1
      BY DEF BuildEntry
    <2> HIDE DEF e
    <2>2. build = <<e>>
      BY <1>6 DEF e
    <2> DEFINE E == [value : 1 .. 1, key : Strings \cup {""}]
    <2> HIDE DEF E
    <2>3. e \in E
      BY <2>1 DEF E
    <2>4. build \in Seq(E) /\ Len(build) = 1 /\ build[1] = e
      BY <2>2, <2>3
    <2>5. QED
      BY <1>10, <2>1, <2>4 DEF E
  <1>13. DepthsFit
    <2>1. d[1] = 1
      OBVIOUS
    <2> HIDE DEF d
    <2>2. Placed(build, d)
      <3>1. Len(build) = 1 /\ build[1].value = 1
        BY <1>12
      <3>2. \A i \in 1 .. Len(build) : i = 1
        BY <3>1
      <3>3. QED
        BY <3>1, <3>2, <2>1 DEF Placed
    <2>3. Placed(stack, d)
      BY <1>5 DEF Placed
    <2>4. QED
      BY <1>11, <2>2, <2>3 DEF DepthsFit
  <1>14. reader \in Seq(Contexts)
    BY <1>6 DEF FreshReader, Contexts
  <1>15. TypeOK
    <2>1. /\ doc \in Seq(Tokens(Strings)) /\ out \in Seq(Nat)
          /\ stack \in Seq([type : Types, allow_extensions : BOOLEAN, value : Address, position : Int])
      BY <1>4
    <2>2. pc = "build" /\ root = "" /\ skipped_extension = FALSE /\ error = "none"
      BY <1>3
    <2>3. QED
      BY <1>10, <1>12, <1>14, <2>1, <2>2 DEF TypeOK, Errors
  <1>16. Follows(nodes, stack)
    BY <1>5 DEF Follows
  <1>17. QED
    BY <1>3, <1>4, <1>6, <1>9, <1>13, <1>15, <1>16 DEF IInv

\* Every step keeps the invariant.
LEMMA StepInv == IInv /\ [Next]_vars => IInv'
  <1> SUFFICES ASSUME IInv, [Next]_vars PROVE IInv'
    OBVIOUS
  <1>1. CASE Build
    BY <1>1, BuildStep
  <1>2. CASE SyntaxError
    BY <1>2, ControlStep DEF SyntaxError, Fail
  <1>3. CASE Built
    <2>1. stack = << >>
      BY <1>3 DEF Built, IInv
    <2>2. QED
      BY <1>3, <2>1, ControlStep DEF Built
  <1>4. CASE \E type \in Types : Encode(type)
    BY <1>4, EncodeStep
  <1>5. CASE Object
    BY <1>5, ObjectStep
  <1>6. CASE Elements
    BY <1>6, ElementsStep
  <1>7. CASE Variant
    BY <1>7, VariantStep
  <1>8. CASE Finish
    BY <1>8, ControlStep DEF Finish
  <1>9. CASE UNCHANGED vars
    <2>1. /\ doc' = doc /\ reader' = reader /\ nodes' = nodes /\ build' = build /\ pc' = pc
          /\ root' = root /\ stack' = stack /\ out' = out
          /\ skipped_extension' = skipped_extension /\ error' = error
      BY <1>9 DEF vars, building, encoding
    <2>2. TypeOK' <=> TypeOK
      BY <2>1 DEF TypeOK, Address, NodeOK
    <2>3. DepthsFit' <=> DepthsFit
      BY <2>1 DEF DepthsFit
    <2>4. QED
      BY <2>1, <2>2, <2>3 DEF IInv
  <1>10. QED
    BY <1>1, <1>2, <1>3, <1>4, <1>5, <1>6, <1>7, <1>8, <1>9 DEF Next, Step, Terminated

(***************************************************************************)
(* Types and tree, the layers of its nodes and the paths of both stacks    *)
(* hold in every reachable state, whatever the table and the document.     *)
(***************************************************************************)
THEOREM Inductive == Spec => []IInv
  BY InitInv, StepInv, PTL DEF Spec

(***************************************************************************)
(* Every variable keeps its type: no stack and no node refers to a jvalue  *)
(* that does not exist.                                                    *)
(***************************************************************************)
THEOREM TypeCorrect == Spec => []TypeOK
  <1>1. IInv => TypeOK
    BY DEF IInv
  <1>2. QED
    BY <1>1, Inductive, PTL

(***************************************************************************)
(* The builder's raw pointers stay valid (abieos.hpp:482-581): its stack   *)
(* is a path from the root to what was added last, in step with the        *)
(* reader, so no event finds the stack used up or the wrong container.     *)
(***************************************************************************)
THEOREM PointersStayValid == Spec => []BuilderSound
  <1>1. ASSUME IInv
        PROVE  BuilderSound
    <2>1. error # "extra_data"
      BY <1>1 DEF IInv
    <2>2. ASSUME pc = "build", doc # << >>
          PROVE  /\ Len(reader) = Len(build)
                 /\ \A i \in DOMAIN build :
                      nodes[build[i].value].kind = IF reader[i] = "item" THEN "array" ELSE "object"
                 /\ build # << >> =>
                      /\ build[1].value = 1
                      /\ \A i \in 1 .. Len(build) - 1 :
                           /\ nodes[build[i].value].kind = "object"
                                => build[i].key \in DOMAIN nodes[build[i].value].members
                           /\ build[i + 1].value = Child(build[i])
      <3>1. Path(nodes, reader, build) /\ build \in Seq(BuildEntries)
        BY <1>1, <2>2, BuildFacts
      <3>2. DOMAIN build = 1 .. Len(build) /\ Len(build) \in Nat
        BY <3>1, LenProperties
      <3>3. ASSUME NEW i \in 1 .. Len(build) - 1
            PROVE  /\ nodes[build[i].value].kind = "object"
                        => build[i].key \in DOMAIN nodes[build[i].value].members
                   /\ build[i + 1].value = Child(build[i])
        <4>1. i \in 1 .. Len(build) /\ i < Len(build)
          BY <3>2
        <4>2. Linked(nodes, build[i], build[i + 1].value)
          BY <3>1, <4>1 DEF Path
        <4>3. QED
          BY <4>2 DEF Linked, Child
      <3>4. build # << >> => build[1].value = 1
        <4>1. build # << >> => Len(build) > 0
          BY <3>1, NotEmpty
        <4>2. QED
          BY <3>1, <4>1 DEF Path
      <3>5. QED
        BY <3>1, <3>2, <3>3, <3>4 DEF Path
    <2>3. BuildStackIsAPath
      BY <2>2 DEF BuildStackIsAPath
    <2>4. NeverExtraData
      BY <2>1, <2>2 DEF NeverExtraData
    <2>5. QED
      BY <2>3, <2>4 DEF BuilderSound
  <1>2. QED
    BY <1>1, Inductive, PTL

(***************************************************************************)
(* The encoder's unchecked accesses (abieos.hpp:597-755) are right: every  *)
(* entry's value has the kind its type asks for, its position is in range, *)
(* the stack follows the tree down, and it needs no limit of its own since *)
(* the tree is never deeper than the builder's.                            *)
(***************************************************************************)
THEOREM AccessesInRange == Spec => []EncoderSound
  <1>1. ASSUME IInv
        PROVE  EncoderSound
    <2>1. TypeOK /\ Tree(nodes) /\ DepthsFit /\ Follows(nodes, stack)
      BY <1>1 DEF IInv
    <2>2. stack \in Seq(StackEntries)
      BY <2>1 DEF TypeOK, StackEntries
    <2>3. DOMAIN stack = 1 .. Len(stack) /\ Len(stack) \in Nat
      BY <2>2, LenProperties
    <2>4. \A i \in 1 .. Len(stack) :
             stack[i].type \in Types /\ stack[i].value \in 1 .. Len(nodes)
      <3>1. \A i \in 1 .. Len(stack) : stack[i] \in StackEntries
        BY <2>2, ElementOfSeq
      <3>2. Address = 1 .. Len(nodes)
        BY <2>1, TreeNodes DEF Address
      <3>3. QED
        BY <3>1, <3>2 DEF StackEntries
    <2>5. ValuesFitTypes
      <3>1. ASSUME NEW i \in DOMAIN stack
            PROVE  LET e == stack[i]
                       n == nodes[e.value]
                   IN  CASE Kind[e.type] = "struct" ->
                              n.kind = "object" /\ e.position < Len(Fields[e.type])
                         [] Kind[e.type] = "variant" ->
                              n.kind = "array" /\ e.position < Len(n.items)
                         [] OTHER ->
                              n.kind = "array" /\ e.position < Len(n.items)
        <4> DEFINE e == stack[i]
                   n == nodes[e.value]
        <4>1. Fits(nodes, e) /\ e.type \in Types /\ e.value \in 1 .. Len(nodes)
          BY <2>1, <2>3, <2>4 DEF Follows
        <4>2. Fields[e.type] \in Seq([name : Strings, type : Types])
          BY <4>1, TableAssumption
        <4>3. Len(Fields[e.type]) \in Nat
          BY <4>2, LenProperties
        <4>4. n \in Jvalues
          BY <2>1, <4>1 DEF Tree
        <4>5. Len(n.items) \in Nat
          BY <4>4, JvalueFacts
        <4> HIDE DEF e
        <4>6. CASE Kind[e.type] = "struct"
          BY <4>1, <4>3, <4>6 DEF Fits, ArrayKinds, e
        <4>7. CASE Kind[e.type] # "struct"
          <5>1. n.kind = "array" /\ e.position < Len(n.items)
            <6> DEFINE size == Len(n.items)
            <6>1. /\ n.kind = "array"
                  /\ (e.position \in {0, 1} /\ size = 2) \/ e.position \in -1 .. size - 1
              BY <4>1, <4>7 DEF Fits
            <6>2. size \in Nat
              BY <4>5
            <6> HIDE DEF size
            <6>3. e.position < size
              BY <6>1, <6>2
            <6>4. QED
              BY <6>1, <6>3 DEF size
          <5>2. QED
            BY <4>7, <5>1 DEF e
        <4>8. QED
          BY <4>6, <4>7
      <3>2. QED
        BY <3>1 DEF ValuesFitTypes
    <2>6. EncoderFollowsTree
      <3>1. ASSUME NEW i \in 1 .. Len(stack) - 1
            PROVE  stack[i + 1].value = Current(stack[i])
        <4>1. i \in 1 .. Len(stack) /\ i < Len(stack)
          BY <2>3
        <4>2. At(nodes, stack[i], stack[i + 1].value)
          BY <2>1, <4>1 DEF Follows
        <4>3. QED
          BY <4>2 DEF At, Current, ArrayKinds
      <3>2. stack # << >> => stack[1].value = 1
        <4>1. stack # << >> => Len(stack) > 0
          BY <2>2, NotEmpty
        <4>2. QED
          BY <2>1, <4>1 DEF Follows
      <3>3. QED
        BY <3>1, <3>2 DEF EncoderFollowsTree
    <2>7. EncoderStackBounded
      <3>1. PICK d : Layered(nodes, d) /\ Placed(stack, d)
        BY <2>1 DEF DepthsFit
      <3>2. CASE Len(stack) = 0
        BY <3>2, BoundAssumption DEF EncoderStackBounded
      <3>3. CASE Len(stack) > 0
        <4> DEFINE n == Len(stack)
        <4>1. n \in 1 .. n /\ n \in Nat
          BY <2>3, <3>3
        <4>2. d[stack[n].value] = n /\ stack[n].value \in 1 .. Len(nodes)
          BY <2>4, <3>1, <4>1 DEF Placed
        <4>3. d \in [1 .. Len(nodes) -> 1 .. MaxStack]
          BY <3>1 DEF Layered
        <4> HIDE DEF n
        <4>4. n \in 1 .. MaxStack
          BY <4>2, <4>3
        <4>5. n <= MaxStack
          BY <4>1, <4>4, BoundAssumption
        <4>6. QED
          BY <4>5 DEF EncoderStackBounded, n
      <3>4. QED
        BY <2>3, <3>2, <3>3
    <2>8. QED
      BY <2>5, <2>6, <2>7 DEF EncoderSound
  <1>2. QED
    BY <1>1, Inductive, PTL
==============================================================================
