--------------------------------- MODULE Wire ---------------------------------
(***************************************************************************)
(* When a binary is the binary of a text: a first-order form of the        *)
(* format, without recursion over documents, which the proofs about        *)
(* conversions in a row meet at.  A text and its binary go together if     *)
(* there is a way through both, token by token, at each point of which a   *)
(* stack says what is open.                                                *)
(*                                                                         *)
(* The binary is given as json_to_bin makes it: the bytes without the      *)
(* sizes of arrays, and the sizes with the places where they go.           *)
(***************************************************************************)
EXTENDS AbiSchema, JsonReader

Sizes == [position : Nat, size : Nat]

\* bin is bytes with the sizes in their places.
Joined(bin, bytes, sizes) ==
    /\ bin \in Seq(Nat) /\ Len(bin) = Len(bytes) + Len(sizes)
    /\ \A k \in 1 .. Len(sizes) : bin[sizes[k].position + k] = sizes[k].size
    /\ \A k \in 0 .. Len(sizes), i \in 1 .. Len(bytes) :
          /\ k > 0 => sizes[k].position < i
          /\ k < Len(sizes) => i <= sizes[k + 1].position
          => bin[i + k] = bytes[i]

----------------------------------------------------------------------------
(***************************************************************************)
(* A point of the way: the open values, whether a key was read last, and   *)
(* how many bytes and sizes came before.  An array knows the number of its *)
(* size, a variant its alternative.                                        *)
(***************************************************************************)
Level(t, allow, number) ==
    [type |-> t, allow_extensions |-> allow, position |-> -1,
     size_insertion_index |-> number, variant_type_index |-> 0]

LevelSet == [type : Types, allow_extensions : BOOLEAN, position : Int,
             size_insertion_index : Nat, variant_type_index : Nat]

Point(stack, waiting, bytes, sizes) ==
    [stack |-> stack, waiting |-> waiting, bytes |-> bytes, sizes |-> sizes]

FirstPoint == Point(<< >>, FALSE, 0, 0)

Flag(t) == IF Optional(t) THEN 1 ELSE 0

(***************************************************************************)
(* From a to b by the first token of a value of type t, with the levels    *)
(* below it.                                                               *)
(***************************************************************************)
AbsentMove(t, below, a, tok, b, bytes) ==
    /\ Optional(t) /\ tok = Token("null")
    /\ a.bytes < Len(bytes) /\ bytes[a.bytes + 1] = 0
    /\ b = Point(below, FALSE, a.bytes + 1, a.sizes)

ScalarMove(t, below, at, a, tok, b, bytes) ==
    /\ Kind[Base(t)] = "builtin"
    /\ at < Len(bytes) /\ bytes[at + 1] \in Byte
    /\ tok = [type |-> "string", text |-> TextOf[bytes[at + 1]]]
    /\ b = Point(below, FALSE, at + 1, a.sizes)

OpenMove(t, allow, below, at, a, tok, b) ==
    /\ Kind[Base(t)] \in {"struct", "variant", "fixed_array"}
    /\ tok = Token(IF Kind[Base(t)] = "struct" THEN "start_object" ELSE "start_array")
    /\ LET level == Level(Base(t), allow /\ Kind[Base(t)] # "fixed_array", 0)
       IN  b = Point(Append(below, level), FALSE, at, a.sizes)

ArrayMove(t, below, at, a, tok, b, sizes) ==
    /\ Kind[Base(t)] = "array" /\ tok = Token("start_array")
    /\ a.sizes < Len(sizes) /\ sizes[a.sizes + 1].position = at
    /\ b = Point(Append(below, Level(Base(t), FALSE, a.sizes + 1)), FALSE, at, a.sizes + 1)

ValueMove(t, allow, below, a, tok, b, bytes, sizes) ==
    \/ AbsentMove(t, below, a, tok, b, bytes)
    \/ LET at == a.bytes + Flag(t)
       IN  /\ Optional(t) => a.bytes < Len(bytes) /\ bytes[a.bytes + 1] = 1
           /\ \/ ScalarMove(t, below, at, a, tok, b, bytes)
              \/ OpenMove(t, allow, below, at, a, tok, b)
              \/ ArrayMove(t, below, at, a, tok, b, sizes)

----------------------------------------------------------------------------
\* From a to b by a token inside the innermost open value.
Innermost(a) == a.stack[Len(a.stack)]
MovedTo(a, position) == [a.stack EXCEPT ![Len(a.stack)].position = position]

\* The same bytes, and the innermost value is closed.
Closed(a) == Point(Pop(a.stack), FALSE, a.bytes, a.sizes)

KeyMove(a, tok, b) ==
    LET e    == Innermost(a)
        next == e.position + 1
    IN  /\ Kind[e.type] = "struct" /\ ~a.waiting
        /\ next < Len(Fields[e.type])
        /\ tok = [type |-> "key", text |-> Field(e.type, next).name]
        /\ b = Point(MovedTo(a, next), TRUE, a.bytes, a.sizes)

\* The last bytes of the binary are before a.
AtTheEnd(a, bytes, sizes) == a.bytes = Len(bytes) /\ a.sizes = Len(sizes)

LeavesOut(a) ==
    LET e == Innermost(a)
    IN  /\ Kind[e.type] = "struct" /\ ~a.waiting /\ e.allow_extensions
        /\ e.position + 1 < Len(Fields[e.type])
        /\ Extension(Field(e.type, e.position + 1).type)

ObjectEndMove(a, tok, b, bytes, sizes) ==
    LET e == Innermost(a)
    IN  /\ Kind[e.type] = "struct" /\ ~a.waiting /\ tok = Token("end_object")
        /\ \/ e.position + 1 = Len(Fields[e.type])
           \/ LeavesOut(a) /\ AtTheEnd(a, bytes, sizes)
        /\ b = Closed(a)

FieldMove(a, tok, b, bytes, sizes) ==
    LET e == Innermost(a)
    IN  /\ Kind[e.type] = "struct" /\ a.waiting
        /\ e.position \in 0 .. Len(Fields[e.type]) - 1
        /\ ValueMove(Field(e.type, e.position).type,
                     AllowIn(e.type, e.position, e.allow_extensions),
                     a.stack, a, tok, b, bytes, sizes)

ElementMove(a, tok, b, bytes, sizes) ==
    LET e == Innermost(a)
    IN  /\ Kind[e.type] \in {"array", "fixed_array"}
        /\ ValueMove(Element[e.type], FALSE, MovedTo(a, e.position + 1), a, tok, b, bytes, sizes)

\* The size of an array counts its elements.
ArrayEndMove(a, tok, b, sizes) ==
    LET e == Innermost(a)
    IN  /\ tok = Token("end_array")
        /\ \/ Kind[e.type] = "array" /\ sizes[e.size_insertion_index].size = e.position + 1
           \/ Kind[e.type] = "fixed_array" /\ Size[e.type] = e.position + 1
           \/ Kind[e.type] = "variant" /\ e.position = 1
        /\ b = Closed(a)

NameMove(a, tok, b, bytes) ==
    LET e == Innermost(a)
    IN  /\ Kind[e.type] = "variant" /\ e.position = -1
        /\ a.bytes < Len(bytes) /\ bytes[a.bytes + 1] < Len(Fields[e.type])
        /\ tok = [type |-> "string", text |-> Field(e.type, bytes[a.bytes + 1]).name]
        /\ b = Point([a.stack EXCEPT ![Len(a.stack)].position = 0,
                                     ![Len(a.stack)].variant_type_index = bytes[a.bytes + 1]],
                     FALSE, a.bytes + 1, a.sizes)

AlternativeMove(a, tok, b, bytes, sizes) ==
    LET e == Innermost(a)
    IN  /\ Kind[e.type] = "variant" /\ e.position = 0
        /\ ValueMove(Field(e.type, e.variant_type_index).type, e.allow_extensions,
                     MovedTo(a, 1), a, tok, b, bytes, sizes)

Move(a, tok, b, bytes, sizes) ==
    /\ a.stack # << >>
    /\ \/ KeyMove(a, tok, b)
       \/ ObjectEndMove(a, tok, b, bytes, sizes)
       \/ FieldMove(a, tok, b, bytes, sizes)
       \/ ElementMove(a, tok, b, bytes, sizes)
       \/ ArrayEndMove(a, tok, b, sizes)
       \/ NameMove(a, tok, b, bytes)
       \/ AlternativeMove(a, tok, b, bytes, sizes)

----------------------------------------------------------------------------
\* Sizes that were noted before a go before its bytes, later ones behind.
LiesIn(a, bytes, sizes) ==
    /\ a.stack \in Seq(LevelSet) /\ a.waiting \in BOOLEAN
    /\ a.bytes \in 0 .. Len(bytes) /\ a.sizes \in 0 .. Len(sizes)
    /\ \A k \in 1 .. Len(sizes) :
          IF k <= a.sizes THEN sizes[k].position <= a.bytes ELSE sizes[k].position >= a.bytes

(***************************************************************************)
(* at is a way through the tokens and the bytes.                           *)
(***************************************************************************)
Way(root, tokens, at, bytes, sizes) ==
    /\ at[0] = FirstPoint
    /\ \A i \in 0 .. Len(tokens) : LiesIn(at[i], bytes, sizes)
    /\ Len(tokens) > 0 =>
          ValueMove(root, TRUE, << >>, at[0], tokens[1], at[1], bytes, sizes)
    /\ \A i \in 1 .. Len(tokens) - 1 : Move(at[i], tokens[i + 1], at[i + 1], bytes, sizes)

\* The elements of an array are as many as its size.
WithinSize(e, sizes) ==
    Kind[e.type] = "array" =>
        /\ e.size_insertion_index \in 1 .. Len(sizes)
        /\ e.position < sizes[e.size_insertion_index].size

Codes(root, tokens, bin) ==
    \E at, bytes, sizes :
        /\ bytes \in Seq(Nat) /\ sizes \in Seq(Sizes)
        /\ Joined(bin, bytes, sizes)
        /\ tokens # << >> /\ Way(root, tokens, at, bytes, sizes)
        /\ \A i \in 0 .. Len(tokens) : \A j \in 1 .. Len(at[i].stack) :
              WithinSize(at[i].stack[j], sizes)
        /\ at[Len(tokens)] = Point(<< >>, FALSE, Len(bytes), Len(sizes))
===============================================================================
