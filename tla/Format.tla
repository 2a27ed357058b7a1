-------------------------------- MODULE Format --------------------------------
(***************************************************************************)
(* The binary format as a relation between a JSON document and its bytes,  *)
(* type by type, without stacks, positions or flags: what the conversions  *)
(* to binary, which are loops over explicit stacks, are to compute.        *)
(*                                                                         *)
(* A document is a tree.  An unfinished one, of which only some tokens     *)
(* have been read, is a tree whose innermost values are open.              *)
(***************************************************************************)
EXTENDS AbiSchema, JsonReader

LOCAL INSTANCE SequencesExt

Tree(kind, text) ==
    [kind |-> kind, text |-> text, members |-> << >>, items |-> << >>, open |-> FALSE]

\* The value of a key that was read last.
Unread == Tree("unread", "")

Opened(kind) == [Tree(kind, "") EXCEPT !.open = TRUE]

\* A value becomes an element, or the value of the last key.
Attached(parent, value) ==
    IF parent.kind = "object"
      THEN [parent EXCEPT !.members[Len(parent.members)].value = value]
      ELSE [parent EXCEPT !.items = Append(@, value)]

AttachLast(open, value) ==
    [open EXCEPT ![Len(open)] = Attached(@, value)]

\* The open containers, outermost first, below a list that holds the document.
Containers(tokens) ==
    FoldLeft(LAMBDA open, tok :
        CASE tok.type \in {"null", "string"} -> AttachLast(open, Tree(tok.type, tok.text))
          [] tok.type = "start_object"       -> Append(open, Opened("object"))
          [] tok.type = "start_array"        -> Append(open, Opened("array"))
          [] tok.type = "key"                ->
               [open EXCEPT ![Len(open)].members =
                   Append(@, [key |-> tok.text, value |-> Unread])]
          [] tok.type \in {"end_object", "end_array"} ->
               AttachLast(Pop(open), [open[Len(open)] EXCEPT !.open = FALSE]),
        <<Opened("array")>>, tokens)

\* The document, open where it is unfinished.
Document(tokens) ==
    LET open  == Containers(tokens)
        outer == FoldRight(LAMBDA parent, inner : Attached(parent, inner),
                           Pop(open), open[Len(open)])
    IN  IF outer.items = << >> THEN Unread ELSE outer.items[1]

\* How deep a document is open.
OpenDepth(tokens) == Len(Containers(tokens)) - 1

Whole(value) == value.kind # "unread" /\ ~value.open

----------------------------------------------------------------------------
(***************************************************************************)
(* A value has one binary or none: sets of at most one sequence of bytes.  *)
(***************************************************************************)
Following(first, second) == {b \o c : b \in first, c \in second}

InTurn(binaries) == FoldLeft(Following, {<< >>}, binaries)

(***************************************************************************)
(* Which member gives which field.  The direct conversion wants the fields *)
(* in order, each once; the reorderable one takes them in any order, the   *)
(* last of a repeated key, and ignores the keys that are no field's.       *)
(***************************************************************************)
LastOf(value, name) ==
    LET named == {i \in DOMAIN value.members : value.members[i].key = name}
    IN  CHOOSE i \in named : \A j \in named : j <= i

InOrder(fields, value) ==
    /\ Len(value.members) <= Len(fields)
    /\ \A i \in DOMAIN value.members : value.members[i].key = fields[i].name

Named(value) == {value.members[i].key : i \in DOMAIN value.members}

\* The number of leading fields that have a value.
Given(fields, value) ==
    CHOOSE n \in 0 .. Len(fields) :
        /\ \A i \in 1 .. n : fields[i].name \in Named(value)
        /\ n < Len(fields) => fields[n + 1].name \notin Named(value)

\* What is left out is extensions at the very end of the binary.
MayLeaveOutAfter(fields, n, allow) ==
    n = Len(fields) \/ (allow /\ \A i \in n + 1 .. Len(fields) : Extension(fields[i].type))

Matches(ordered, fields, value, allow) ==
    LET n == Given(fields, value)
    IN  /\ ordered => InOrder(fields, value)
        /\ \A i \in n + 1 .. Len(fields) : fields[i].name \notin Named(value)
        /\ value.open \/ MayLeaveOutAfter(fields, n, allow)

----------------------------------------------------------------------------
(***************************************************************************)
(* The binary of a value of type t; allow says whether the value ends the  *)
(* binary, so that extensions may be missing.  For an unfinished value it  *)
(* is empty once no continuation can have a binary.                        *)
(***************************************************************************)
RECURSIVE Binaries(_, _, _, _)

ItemBinaries(ordered, t, items) ==
    InTurn([i \in DOMAIN items |-> Binaries(ordered, Element[t], FALSE, items[i])])

StructBinaries(ordered, t, allow, value) ==
    LET fields == Fields[t]
    IN  IF Matches(ordered, fields, value, allow)
          THEN InTurn([i \in 1 .. Given(fields, value) |->
                 Binaries(ordered, fields[i].type, AllowIn(t, i - 1, allow),
                          value.members[LastOf(value, fields[i].name)].value)])
          ELSE {}

\* ["type", value]: the index of the first alternative of that name, and the value.
VariantBinaries(ordered, t, allow, value) ==
    LET tag   == value.items[1]
        found == {i \in DOMAIN Fields[t] : Fields[t][i].name = tag.text}
        index == CHOOSE i \in found : \A j \in found : i <= j
    IN  IF value.items = << >> THEN {b \in {<< >>} : value.open}
        ELSE IF tag.kind # "string" \/ found = {} \/ Len(value.items) > 2 THEN {}
        ELSE IF Len(value.items) = 1 THEN {b \in {<< >>} : value.open}
        ELSE Following({<<index - 1>>},
                       Binaries(ordered, Fields[t][index].type, allow, value.items[2]))

BaseBinaries(ordered, t, allow, value) ==
    CASE Kind[t] = "builtin" ->
           {<<b>> : b \in {c \in Byte : value.kind = "string" /\ value.text = TextOf[c]}}
      [] Kind[t] = "array" /\ value.kind = "array" ->
           Following({<<Len(value.items)>>}, ItemBinaries(ordered, t, value.items))
      [] Kind[t] = "fixed_array" /\ value.kind = "array" ->
           {b \in ItemBinaries(ordered, t, value.items) : value.open \/ Len(value.items) = Size[t]}
      [] Kind[t] = "struct" /\ value.kind = "object" ->
           StructBinaries(ordered, t, allow, value)
      [] Kind[t] = "variant" /\ value.kind = "array" ->
           VariantBinaries(ordered, t, allow, value)
      [] OTHER -> {}

Binaries(ordered, t, allow, value) ==
    CASE value.kind = "unread"                -> {<< >>}
      [] Optional(t) /\ value.kind = "null"   -> {<<0>>}
      [] Optional(t) /\ value.kind \notin {"unread", "null"} ->
           Following({<<1>>}, BaseBinaries(ordered, Base(t), allow, value))
      [] OTHER -> BaseBinaries(ordered, Base(t), allow, value)
==============================================================================
