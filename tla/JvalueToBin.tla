----------------------------- MODULE JvalueToBin -----------------------------
(***************************************************************************)
(* abi_type::json_to_bin_reorderable: the conversion that reads the whole  *)
(* text into a tree of jvalues first and walks the tree afterwards, so     *)
(* keys may come in any order (abieos.hpp: receive_event, json_to_jvalue,  *)
(* and the json_to_bin overloads for jvalue_to_bin_state).                 *)
(*                                                                         *)
(* A jvalue is a node: its place in the sequence nodes is its address, and *)
(* the stacks hold addresses as the code's hold pointers.  An assignment   *)
(* obj[key] = {} that replaces a value leaves the old node without a       *)
(* parent, where the code destroys it.                                     *)
(***************************************************************************)
EXTENDS AbiSchema, JsonReader

CONSTANTS
    MaxStack,   \* max_stack_size, 128 in the code
    MaxTokens   \* bound of the model: tokens in a document

ASSUME BoundAssumption == MaxStack \in Nat \ {0} /\ MaxTokens \in Nat

VARIABLES
    doc,                \* the events received so far
    reader,             \* rapidjson: containers open in the text
    pc,                 \* "build" the tree, tree "built", "encode" it, end
    nodes,              \* the jvalues created
    build,              \* json_to_jvalue_state::stack
    root,               \* the abi_type the tree is encoded as, "" before that
    stack,              \* jvalue_to_bin_state::stack
    out,                \* what state.writer has written
    skipped_extension,  \* jvalue_to_bin_state::skipped_extension
    error               \* what check() threw, or "none"

building == <<doc, reader, nodes, build>>
encoding == <<root, stack, out, skipped_extension>>
vars == <<building, pc, encoding, error>>

----------------------------------------------------------------------------
Top(s) == s[Len(s)]

JKinds == {"null", "string", "object", "array"}

\* members maps keys to nodes (std::map), items lists nodes (std::vector).
Jvalue(kind, text) == [kind |-> kind, text |-> text, members |-> << >>, items |-> << >>]

JvalueOf(tok) ==
    CASE tok.type = "start_object" -> Jvalue("object", "")
      [] tok.type = "start_array"  -> Jvalue("array", "")
      [] OTHER                     -> Jvalue(tok.type, tok.text)

\* json_to_jvalue_stack_entry and jvalue_to_bin_stack_entry.
BuildEntry(n) == [value |-> n, key |-> ""]
Entry(t, allow, n, position) ==
    [type |-> t, allow_extensions |-> allow, value |-> n, position |-> position]

Address == DOMAIN nodes

Errors == {"none", "syntax", "expected_field", "expected_number",
           "expected_start_array", "expected_start_object", "expected_variant",
           "extra_data", "incorrect_size", "invalid_type_for_variant",
           "unexpected_field"}

NodeOK(n) ==
    /\ n.kind \in JKinds
    /\ n.text \in Strings \cup {""}
    /\ DOMAIN n.members \subseteq Strings
    /\ \A key \in DOMAIN n.members : n.members[key] \in Address
    /\ n.items \in Seq(Address)

TypeOK ==
    /\ doc \in Seq(Tokens(Strings))
    /\ reader \in Seq(Contexts)
    /\ pc \in {"build", "built", "encode", "done", "failed"}
    /\ \A n \in Address : NodeOK(nodes[n])
    /\ root \in Types \cup {""}
    /\ build \in Seq([value : Address, key : Strings \cup {""}])
    /\ stack \in Seq([type : Types, allow_extensions : BOOLEAN,
                      value : Address, position : Int])
    /\ out \in Seq(Nat)
    /\ skipped_extension \in BOOLEAN
    /\ error \in Errors

Init ==
    /\ doc = << >>
    /\ reader = FreshReader
    /\ pc = "build"
    /\ nodes = <<Jvalue("null", "")>>
    /\ build = <<BuildEntry(1)>>
    /\ root = ""
    /\ stack = << >>
    /\ out = << >>
    /\ skipped_extension = FALSE
    /\ error = "none"

----------------------------------------------------------------------------
(***************************************************************************)
(* json_to_jvalue: reader.Parse pushes the events into receive_event, and  *)
(* gives up when it returns false; the caller then reports a syntax error  *)
(* whatever set_error was told.                                            *)
(***************************************************************************)
Read(tok) ==
    /\ Len(doc) < MaxTokens
    /\ tok.type \in Expected(reader)
    /\ reader' = After(reader, tok.type)
    /\ doc' = Append(doc, tok)

Fail(e) ==
    /\ pc' = "failed"
    /\ error' = e

Refuse(e) == Fail(e) /\ UNCHANGED <<nodes, build>>

\* The value's own entry is gone again: only a container stays on the stack.
Received(tok, n, below) ==
    IF tok.type \in {"start_object", "start_array"}
      THEN Append(below, BuildEntry(n))
      ELSE below

StartRoot(tok) ==
    /\ doc = << >>
    /\ nodes' = <<JvalueOf(tok)>>
    /\ build' = Received(tok, 1, << >>)

\* Faulty: one level less.
TooDeepEarly(b) == Len(b) >= MaxStack

TooDeep(b) == Len(b) > MaxStack

\* Faulty: the new value is linked but not made.
AddChildUnmade(tok) ==
    LET child == Len(nodes) + 1
    IN  /\ nodes' = [nodes EXCEPT ![Top(build).value].items = Append(@, child)]
        /\ build' = Received(tok, child, build)
        /\ UNCHANGED <<pc, error>>

\* Faulty: an insert, which keeps the value a repeated key has already.
AddChildOnce(tok) ==
    LET parent == Top(build).value
        key    == Top(build).key
        child  == Len(nodes) + 1
        linked == IF nodes[parent].kind = "object"
                    THEN IF key \in DOMAIN nodes[parent].members THEN nodes
                         ELSE [nodes EXCEPT ![parent].members =
                                 [k \in DOMAIN @ \cup {key} |-> IF k = key THEN child ELSE @[k]]]
                    ELSE [nodes EXCEPT ![parent].items = Append(@, child)]
    IN  /\ ~TooDeep(Append(build, BuildEntry(child)))
        /\ nodes' = Append(linked, JvalueOf(tok))
        /\ build' = Received(tok, child, build)
        /\ UNCHANGED <<pc, error>>

\* obj[key] = {} or arr.emplace_back(), a new entry, and the event again.
AddChild(tok) ==
    LET parent == Top(build).value
        child  == Len(nodes) + 1
        linked == IF nodes[parent].kind = "object"
                    THEN [nodes EXCEPT ![parent].members =
                            [key \in DOMAIN @ \cup {Top(build).key} |->
                                IF key = Top(build).key THEN child ELSE @[key]]]
                    ELSE [nodes EXCEPT ![parent].items = Append(@, child)]
    IN  IF TooDeep(Append(build, BuildEntry(child)))
          THEN Refuse("syntax")
          ELSE /\ nodes' = Append(linked, JvalueOf(tok))
               /\ build' = Received(tok, child, build)
               /\ UNCHANGED <<pc, error>>

SetKey(tok) ==
    /\ build' = [build EXCEPT ![Len(build)].key = tok.text]
    /\ UNCHANGED <<nodes, pc, error>>

EndContainer ==
    /\ build' = Pop(build)
    /\ UNCHANGED <<nodes, pc, error>>

ReceiveEvent(tok) ==
    IF build = << >> THEN Refuse("extra_data")
    ELSE IF TooDeep(build) THEN Refuse("syntax")
    ELSE \/ StartRoot(tok) /\ UNCHANGED <<pc, error>>
         \/ /\ doc # << >>
            /\ \/ tok.type = "key" /\ SetKey(tok)
               \/ tok.type \in {"end_object", "end_array"} /\ EndContainer
               \/ tok.type \in ValueTokens /\ AddChild(tok)

Build ==
    /\ pc = "build"
    /\ \E tok \in Tokens(Strings) : Read(tok) /\ ReceiveEvent(tok)
    /\ UNCHANGED encoding

(* The text breaks the grammar, ends early, or goes on after the document. *)
SyntaxError ==
    /\ pc = "build"
    /\ Fail("syntax")
    /\ UNCHANGED <<building, encoding>>

Built ==
    /\ pc = "build"
    /\ Complete(reader)
    /\ pc' = "built"
    /\ UNCHANGED <<building, encoding, error>>

----------------------------------------------------------------------------
(***************************************************************************)
(* json_to_bin(bin, type, value).  Value n starts with serializer t; below *)
(* is the stack and prefix what the caller has written.  An object or an   *)
(* array goes on with its first field or element in the same call, which   *)
(* is what the next turn of the loop would do.                             *)
(***************************************************************************)
Reject(e) == Fail(e) /\ UNCHANGED <<stack, out, skipped_extension>>

Goto(newStack) ==
    /\ pc' = "encode"
    /\ stack' = newStack
    /\ UNCHANGED <<skipped_extension, error>>

Presence(t) == IF Optional(t) THEN <<1>> ELSE << >>

AbsentOptional(t, n, below, prefix) ==
    /\ Optional(t) /\ nodes[n].kind = "null"
    /\ out' = out \o prefix \o <<0>>
    /\ Goto(below)

StartBuiltin(t, n, below, prefix) ==
    /\ Kind[Base(t)] = "builtin"
    /\ IF nodes[n].kind = "string" /\ nodes[n].text \in Scalars
         THEN /\ out' = out \o prefix \o Presence(t) \o <<ByteOf(nodes[n].text)>>
              /\ Goto(below)
         ELSE Reject("expected_number")

\* Faulty: the value's kind is not checked.
StartStructUnchecked(t, allow, n, below, prefix) ==
    /\ Kind[Base(t)] = "struct"
    /\ out' = out \o prefix \o Presence(t)
    /\ Goto(Append(below, Entry(Base(t), allow, n, -1)))

StartStruct(t, allow, n, below, prefix) ==
    /\ Kind[Base(t)] = "struct"
    /\ IF nodes[n].kind = "object"
         THEN /\ out' = out \o prefix \o Presence(t)
              /\ Goto(Append(below, Entry(Base(t), allow, n, -1)))
         ELSE Reject("expected_start_object")

\* Sizes are known beforehand here: an array's is written in front.
StartArray(t, n, below, prefix) ==
    /\ Kind[Base(t)] = "array"
    /\ IF nodes[n].kind = "array"
         THEN /\ out' = out \o prefix \o Presence(t) \o <<Len(nodes[n].items)>>
              /\ Goto(Append(below, Entry(Base(t), FALSE, n, -1)))
         ELSE Reject("expected_start_array")

StartFixedArray(t, n, below, prefix) ==
    /\ Kind[Base(t)] = "fixed_array"
    /\ IF nodes[n].kind # "array" THEN Reject("expected_start_array")
       ELSE IF Len(nodes[n].items) # Size[Base(t)] THEN Reject("incorrect_size")
       ELSE /\ out' = out \o prefix \o Presence(t)
            /\ Goto(Append(below, Entry(Base(t), FALSE, n, -1)))

Tagged(n) ==
    /\ nodes[n].kind = "array"
    /\ Len(nodes[n].items) = 2
    /\ nodes[nodes[n].items[1]].kind = "string"

StartVariant(t, allow, n, below, prefix) ==
    /\ Kind[Base(t)] = "variant"
    /\ IF Tagged(n)
         THEN /\ out' = out \o prefix \o Presence(t)
              /\ Goto(Append(below, Entry(Base(t), allow, n, 0)))
         ELSE Reject("expected_variant")

StartValue(t, allow, n, below, prefix) ==
    \/ AbsentOptional(t, n, below, prefix)
    \/ /\ ~(Optional(t) /\ nodes[n].kind = "null")
       /\ \/ StartBuiltin(t, n, below, prefix)
          \/ StartStruct(t, allow, n, below, prefix)
          \/ StartArray(t, n, below, prefix)
          \/ StartFixedArray(t, n, below, prefix)
          \/ StartVariant(t, allow, n, below, prefix)

Encode(type) ==
    /\ pc = "built"
    /\ root' = type
    /\ StartValue(type, TRUE, 1, << >>, << >>)
    /\ UNCHANGED building

----------------------------------------------------------------------------
Turn(kinds) ==
    /\ pc = "encode"
    /\ stack # << >>
    /\ Kind[Top(stack).type] \in kinds

Value == nodes[Top(stack).value]
WithPosition(p) == [stack EXCEPT ![Len(stack)].position = p]

Leave == Goto(Pop(stack)) /\ UNCHANGED out

\* Faulty: the position stays.
LeaveOutAgain(next) == skipped_extension' = TRUE /\ UNCHANGED <<pc, stack, out, error>>

LeaveOut(next) ==
    /\ skipped_extension' = TRUE
    /\ stack' = WithPosition(next)
    /\ UNCHANGED <<pc, out, error>>

Member(type, next) ==
    IF skipped_extension THEN Reject("unexpected_field")
    ELSE StartValue(Field(type, next).type, AllowIn(type, next, Top(stack).allow_extensions),
                    Value.members[Field(type, next).name], WithPosition(next), << >>)

Object ==
    LET type == Top(stack).type
        next == Top(stack).position + 1
        field == Field(type, next)
    IN  /\ Turn({"struct"})
        /\ IF next = Len(Fields[type]) THEN Leave
           ELSE IF field.name \notin DOMAIN Value.members
             THEN IF Extension(field.type) /\ Top(stack).allow_extensions
                    THEN LeaveOut(next)
                    ELSE Reject("expected_field")
           ELSE Member(type, next)
        /\ UNCHANGED <<building, root>>

\* pseudo_array and pseudo_fixed_array differ only in how they start.
Elements ==
    LET next == Top(stack).position + 1
    IN  /\ Turn({"array", "fixed_array"})
        /\ IF next = Len(Value.items) THEN Leave
           ELSE StartValue(Element[Top(stack).type], FALSE, Value.items[next + 1],
                           WithPosition(next), << >>)
        /\ UNCHANGED <<building, root>>

\* std::find_if over the alternatives: the first that has the name.
Alternatives(t, name) == {i \in DOMAIN Fields[t] : Fields[t][i].name = name}

Variant ==
    LET type  == Top(stack).type
        found == Alternatives(type, nodes[Value.items[1]].text)
    IN  /\ Turn({"variant"})
        /\ IF Top(stack).position # 0 THEN Leave
           ELSE IF found = {} THEN Reject("invalid_type_for_variant")
           ELSE \E i \in found :
                  /\ \A j \in found : i <= j
                  /\ StartValue(Fields[type][i].type, Top(stack).allow_extensions,
                                Value.items[2], WithPosition(1), <<i - 1>>)
        /\ UNCHANGED <<building, root>>

Finish ==
    /\ pc = "encode"
    /\ stack = << >>
    /\ pc' = "done"
    /\ UNCHANGED <<building, encoding, error>>

Terminated == pc \in {"done", "failed"} /\ UNCHANGED vars

Step == Build \/ SyntaxError \/ Built \/ (\E type \in Types : Encode(type)) \/ Object \/ Elements \/ Variant \/ Finish

Next == Step \/ Terminated

(***************************************************************************)
(* Sequential code on a finite text never stops between two steps.         *)
(***************************************************************************)
Spec == Init /\ [][Next]_vars /\ WF_vars(Step)

----------------------------------------------------------------------------
(***************************************************************************)
(* The raw pointers of the build stack stay valid: each entry is the last  *)
(* element, or the member under the key just read, of the entry below, so  *)
(* no emplace_back and no obj[key] = {} has moved or destroyed it          *)
(* (abieos.hpp:555, 578).                                                  *)
(***************************************************************************)
Child(entry) ==
    LET node == nodes[entry.value]
    IN  IF node.kind = "object" THEN node.members[entry.key] ELSE node.items[Len(node.items)]

BuildStackIsAPath ==
    pc = "build" /\ doc # << >> /\ build # << >> =>
        /\ build[1].value = 1
        /\ \A i \in 1 .. Len(build) - 1 :
              /\ nodes[build[i].value].kind = "object" => build[i].key \in DOMAIN nodes[build[i].value].members
              /\ build[i + 1].value = Child(build[i])

(***************************************************************************)
(* rapidjson never delivers an event once the tree is complete: the "extra *)
(* data" error of receive_event (abieos.hpp:484) cannot occur, and neither *)
(* can a key or an end reach the wrong kind of container.                  *)
(***************************************************************************)
NeverExtraData ==
    /\ error # "extra_data"
    /\ pc = "build" /\ doc # << >> =>
         /\ Len(reader) = Len(build)
         /\ \A i \in DOMAIN build :
              nodes[build[i].value].kind = IF reader[i] = "item" THEN "array" ELSE "object"

(***************************************************************************)
(* The encoder's std::get on an entry's value finds the alternative it     *)
(* asks for, and arr[position] is in range (abieos.hpp:645, 683, 711,      *)
(* 736-747): the checks made when the entry was pushed still hold.         *)
(***************************************************************************)
ValuesFitTypes ==
    pc = "encode" => \A i \in DOMAIN stack :
        LET e == stack[i]
            n == nodes[e.value]
        IN  CASE Kind[e.type] = "struct" ->
                   n.kind = "object" /\ e.position < Len(Fields[e.type])
              [] Kind[e.type] = "variant" ->
                   n.kind = "array" /\ e.position < Len(n.items)
              [] OTHER ->
                   n.kind = "array" /\ e.position < Len(n.items)

(***************************************************************************)
(* The entry above is the value the entry below is at: the encoder visits  *)
(* the tree it was given and nothing else.                                 *)
(***************************************************************************)
Current(e) ==
    LET n == nodes[e.value]
    IN  IF Kind[e.type] = "struct" THEN n.members[Field(e.type, e.position).name]
        ELSE n.items[e.position + 1]

EncoderFollowsTree ==
    pc = "encode" /\ stack # << >> =>
        /\ stack[1].value = 1
        /\ \A i \in 1 .. Len(stack) - 1 : stack[i + 1].value = Current(stack[i])

(***************************************************************************)
(* What fits into the build stack fits into the encoder's: the encoder     *)
(* needs no limit of its own (its loop, abieos.hpp:600-605, has none).     *)
(***************************************************************************)
EncoderStackBounded == Len(stack) <= MaxStack

(***************************************************************************)
(* Everything the tree builder's pointers rely on (abieos.hpp:482-581):    *)
(* each is a path from the root, and no event finds them used up.          *)
(***************************************************************************)
BuilderSound == BuildStackIsAPath /\ NeverExtraData

(***************************************************************************)
(* Everything the encoder's unchecked accesses rely on (abieos.hpp:597-755)*)
(* as it walks the tree: kinds, positions and the depth of its stack.      *)
(***************************************************************************)
EncoderSound == ValuesFitTypes /\ EncoderFollowsTree /\ EncoderStackBounded

(***************************************************************************)
(* Every text leads to a result or an error.                               *)
(***************************************************************************)
Terminates == <>(pc \in {"done", "failed"})
==============================================================================
