------------------------------ MODULE JsonToBin ------------------------------
(***************************************************************************)
(* abi_type::json_to_bin: the conversion that writes the binary form while *)
(* it reads the JSON text (abieos.hpp, the overloads for                   *)
(* json_to_bin_state).  A loop calls the serializer of the top stack entry *)
(* until the stack is empty; a serializer reads a token or two, writes,    *)
(* and pushes or pops an entry.  Nothing is known of an array's size until *)
(* its end, so sizes are kept aside and spliced in after the loop.         *)
(*                                                                         *)
(* The text is not fixed in advance: whenever the code asks the reader for *)
(* a token, any token that rapidjson can deliver there may come, or the    *)
(* text may turn out to be malformed.  doc records what was read.          *)
(***************************************************************************)
EXTENDS AbiSchema, JsonReader

LOCAL INSTANCE SequencesExt

CONSTANTS
    MaxStack,   \* max_stack_size, 128 in the code
    MaxTokens   \* bound of the model: tokens in a document

ASSUME BoundAssumption == MaxStack \in Nat \ {0} /\ MaxTokens \in Nat

VARIABLES
    root,               \* the abi_type the conversion was called on
    doc,                \* the tokens read so far
    reader,             \* json_token_stream: containers open in the text
    pc,                 \* where the conversion is, see TypeOK
    stack,              \* json_to_bin_state::stack
    out,                \* out_buf, the bytes written through state.writer
    size_insertions,    \* json_to_bin_state::size_insertions
    skipped_extension,  \* json_to_bin_state::skipped_extension
    error,              \* what check() threw, or "none"
    bin                 \* the caller's result

vars == <<root, doc, reader, pc, stack, out, size_insertions,
          skipped_extension, error, bin>>

----------------------------------------------------------------------------
\* index is 0 where the code leaves size_insertion_index alone; it counts from 1.
Entry(t, allow, index) ==
    [type |-> t, allow_extensions |-> allow, position |-> -1,
     size_insertion_index |-> index, variant_type_index |-> 0]

Entries == [type : Types, allow_extensions : BOOLEAN, position : Int,
            size_insertion_index : Nat, variant_type_index : Nat]

Insertions == [position : Nat, size : Nat]

\* expected_number stands for whatever a builtin's from_json throws.
Errors == {"none", "syntax", "expected_end", "expected_field",
           "expected_number", "expected_start_array", "expected_start_object",
           "expected_string", "expected_variant", "incorrect_size",
           "invalid_type_for_variant", "recursion_limit_reached",
           "unexpected_field"}

(***************************************************************************)
(* pc: "begin" before the first serializer call; "loop" at the head of the *)
(* while loop; "object" inside a call that has just pushed a struct and    *)
(* goes on with it, past the loop's depth check.                           *)
(***************************************************************************)
TypeOK ==
    /\ root \in Types
    /\ doc \in Seq(Tokens(Strings))
    /\ reader \in Seq(Contexts)
    /\ pc \in {"begin", "loop", "object", "done", "failed"}
    /\ stack \in Seq(Entries)
    /\ out \in Seq(Nat)
    /\ size_insertions \in Seq(Insertions)
    /\ skipped_extension \in BOOLEAN
    /\ error \in Errors
    /\ pc # "done" => bin = << >>

Init ==
    /\ root \in Types
    /\ doc = << >>
    /\ reader = FreshReader
    /\ pc = "begin"
    /\ stack = << >>
    /\ out = << >>
    /\ size_insertions = << >>
    /\ skipped_extension = FALSE
    /\ error = "none"
    /\ bin = << >>

----------------------------------------------------------------------------
Top == stack[Len(stack)]
WithPosition(p) == [stack EXCEPT ![Len(stack)].position = p]

\* peek_token() followed by eat_token().
Read(tok) ==
    /\ Len(doc) < MaxTokens
    /\ tok.type \in Expected(reader)
    /\ reader' = After(reader, tok.type)
    /\ doc' = Append(doc, tok)

\* check() throws: the state of the conversion is destroyed.
Fail(e) ==
    /\ pc' = "failed"
    /\ error' = e
    /\ UNCHANGED <<stack, out, size_insertions, skipped_extension, bin>>

Return(newStack) ==
    /\ pc' = "loop"
    /\ stack' = newStack
    /\ UNCHANGED <<error, bin>>

----------------------------------------------------------------------------
(***************************************************************************)
(* type->ser->json_to_bin(state, allow, type, true), with below the stack  *)
(* it starts from.  pseudo_extension and pseudo_optional call on at once,  *)
(* so the call ends in the serializer of Base(t).                          *)
(***************************************************************************)
AbsentOptional(t, tok, below) ==
    /\ Optional(t) /\ tok.type = "null"
    /\ out' = Append(out, 0)
    /\ Return(below)
    /\ UNCHANGED <<size_insertions, skipped_extension>>

Presence(t) == IF Optional(t) THEN <<1>> ELSE << >>

StartBuiltin(t, tok, below) ==
    /\ Kind[Base(t)] = "builtin"
    /\ IF tok.type = "string" /\ tok.text \in Scalars
         THEN /\ out' = out \o Presence(t) \o <<ByteOf(tok.text)>>
              /\ Return(below)
              /\ UNCHANGED <<size_insertions, skipped_extension>>
         ELSE Fail("expected_number")

\* The serializer does not return after the push: see pc = "object".
StartStruct(t, allow, tok, below) ==
    /\ Kind[Base(t)] = "struct"
    /\ IF tok.type = "start_object"
         THEN /\ out' = out \o Presence(t)
              /\ stack' = Append(below, Entry(Base(t), allow, 0))
              /\ pc' = "object"
              /\ UNCHANGED <<size_insertions, skipped_extension, error, bin>>
         ELSE Fail("expected_start_object")

\* Faulty: size_insertion_index keeps its initial value.
StartArrayWithoutIndex(t, tok, below) ==
    /\ Kind[Base(t)] = "array" /\ tok.type = "start_array"
    /\ out' = out \o Presence(t)
    /\ size_insertions' = Append(size_insertions, [position |-> Len(out'), size |-> 0])
    /\ Return(Append(below, Entry(Base(t), FALSE, 1)))
    /\ UNCHANGED skipped_extension

StartArray(t, tok, below) ==
    /\ Kind[Base(t)] = "array"
    /\ IF tok.type = "start_array"
         THEN /\ out' = out \o Presence(t)
              /\ size_insertions' = Append(size_insertions, [position |-> Len(out'), size |-> 0])
              /\ Return(Append(below, Entry(Base(t), FALSE, Len(size_insertions'))))
              /\ UNCHANGED skipped_extension
         ELSE Fail("expected_start_array")

StartFixedArray(t, tok, below) ==
    /\ Kind[Base(t)] = "fixed_array"
    /\ IF tok.type = "start_array"
         THEN /\ out' = out \o Presence(t)
              /\ Return(Append(below, Entry(Base(t), FALSE, 0)))
              /\ UNCHANGED <<size_insertions, skipped_extension>>
         ELSE Fail("expected_start_array")

StartVariant(t, allow, tok, below) ==
    /\ Kind[Base(t)] = "variant"
    /\ IF tok.type = "start_array"
         THEN /\ out' = out \o Presence(t)
              /\ Return(Append(below, Entry(Base(t), allow, 0)))
              /\ UNCHANGED <<size_insertions, skipped_extension>>
         ELSE Fail("expected_start_array")

StartValue(t, allow, tok, below) ==
    \/ AbsentOptional(t, tok, below)
    \/ /\ ~(Optional(t) /\ tok.type = "null")
       /\ \/ StartBuiltin(t, tok, below)
          \/ StartStruct(t, allow, tok, below)
          \/ StartArray(t, tok, below)
          \/ StartFixedArray(t, tok, below)
          \/ StartVariant(t, allow, tok, below)

----------------------------------------------------------------------------
Begin ==
    /\ pc = "begin"
    /\ \E tok \in Tokens(Strings) : Read(tok) /\ StartValue(root, TRUE, tok, << >>)
    /\ UNCHANGED root

\* The loop is about to call the serializer of the top entry.
Turn(kind) ==
    /\ pc = "loop"
    /\ stack # << >>
    /\ Len(stack) <= MaxStack
    /\ Kind[Top.type] = kind

RecursionLimit ==
    /\ pc = "loop"
    /\ Len(stack) > MaxStack
    /\ Fail("recursion_limit_reached")
    /\ UNCHANGED <<root, doc, reader>>

\* Faulty: extensions may be left out at any level, or any field may.
MayEndAtAnyLevel(next) == Extension(Field(Top.type, next).type)
MayEndAtAnyField(next) == Top.allow_extensions

MayEndBefore(next) == Extension(Field(Top.type, next).type) /\ Top.allow_extensions

(***************************************************************************)
(* pseudo_object.  Its end is accepted after the last field, or when the   *)
(* next field is an extension that may be left out here.                   *)
(***************************************************************************)
EndObject(tok) ==
    LET next == Top.position + 1
        all  == next = Len(Fields[Top.type])
    IN  /\ tok.type = "end_object"
        /\ IF all \/ MayEndBefore(next)
             THEN /\ Return(Pop(stack))
                  /\ skipped_extension' = (skipped_extension \/ ~all)
                  /\ UNCHANGED <<out, size_insertions>>
             ELSE Fail("expected_field")

FieldKey(tok) ==
    LET next == Top.position + 1
    IN  /\ tok.type = "key"
        /\ IF next >= Len(Fields[Top.type]) \/ skipped_extension
             THEN Fail("unexpected_field")
           ELSE IF tok.text # Field(Top.type, next).name
             THEN Fail("expected_field")
           ELSE /\ Return(WithPosition(next))
                /\ UNCHANGED <<out, size_insertions, skipped_extension>>

FieldValue(tok) ==
    /\ tok.type \notin {"end_object", "key"}
    /\ StartValue(Field(Top.type, Top.position).type,
                  AllowIn(Top.type, Top.position, Top.allow_extensions), tok, stack)

Object ==
    /\ Turn("struct") \/ pc = "object"
    /\ \E tok \in Tokens(Strings) :
           Read(tok) /\ (EndObject(tok) \/ FieldKey(tok) \/ FieldValue(tok))
    /\ UNCHANGED root

----------------------------------------------------------------------------
Elem(tok) == StartValue(Element[Top.type], FALSE, tok, WithPosition(Top.position + 1))

\* Faulty: position is taken for the size.
EndArrayOffByOne(tok) ==
    /\ size_insertions' =
         [size_insertions EXCEPT ![Top.size_insertion_index].size = Top.position]
    /\ Return(Pop(stack))
    /\ UNCHANGED <<out, skipped_extension>>

EndArray(tok) ==
    /\ size_insertions' =
         [size_insertions EXCEPT ![Top.size_insertion_index].size = Top.position + 1]
    /\ Return(Pop(stack))
    /\ UNCHANGED <<out, skipped_extension>>

Array ==
    /\ Turn("array")
    /\ \E tok \in Tokens(Strings) :
           Read(tok) /\ IF tok.type = "end_array" THEN EndArray(tok) ELSE Elem(tok)
    /\ UNCHANGED root

\* Faulty: the entry is not popped.
EndFixedArrayStays(tok) ==
    Return(stack) /\ UNCHANGED <<out, size_insertions, skipped_extension>>

EndFixedArray(tok) ==
    IF Top.position + 1 = Size[Top.type]
      THEN /\ Return(Pop(stack))
           /\ UNCHANGED <<out, size_insertions, skipped_extension>>
      ELSE Fail("incorrect_size")

FixedArray ==
    /\ Turn("fixed_array")
    /\ \E tok \in Tokens(Strings) :
           Read(tok) /\ IF tok.type = "end_array" THEN EndFixedArray(tok) ELSE Elem(tok)
    /\ UNCHANGED root

----------------------------------------------------------------------------
(***************************************************************************)
(* pseudo_variant: ["type", value].  position counts the calls.            *)
(***************************************************************************)
EndVariant(tok) ==
    IF Top.position + 1 = 2
      THEN /\ Return(Pop(stack))
           /\ UNCHANGED <<out, size_insertions, skipped_extension>>
      ELSE Fail("expected_variant")

\* std::find_if over the alternatives: the first that has the name.
Alternatives(t, name) == {i \in DOMAIN Fields[t] : Fields[t][i].name = name}

\* Faulty: the number kept, or the one written, counts from one.
VariantIndexOffByOne(tok) ==
    /\ tok.type = "string"
    /\ \E i \in Alternatives(Top.type, tok.text) :
         /\ out' = Append(out, i - 1)
         /\ Return([stack EXCEPT ![Len(stack)].position = 0,
                                 ![Len(stack)].variant_type_index = i])
         /\ UNCHANGED <<size_insertions, skipped_extension>>

VariantByteOffByOne(tok) ==
    /\ tok.type = "string"
    /\ \E i \in Alternatives(Top.type, tok.text) :
         /\ out' = Append(out, i)
         /\ Return([stack EXCEPT ![Len(stack)].position = 0,
                                 ![Len(stack)].variant_type_index = i - 1])
         /\ UNCHANGED <<size_insertions, skipped_extension>>

VariantType(tok) ==
    LET found == Alternatives(Top.type, tok.text)
    IN  IF tok.type # "string" THEN Fail("expected_string")
        ELSE IF found = {}     THEN Fail("invalid_type_for_variant")
        ELSE \E i \in found :
               /\ \A j \in found : i <= j
               /\ out' = Append(out, i - 1)
               /\ Return([stack EXCEPT ![Len(stack)].position = 0,
                                       ![Len(stack)].variant_type_index = i - 1])
               /\ UNCHANGED <<size_insertions, skipped_extension>>

Variant ==
    /\ Turn("variant")
    /\ \E tok \in Tokens(Strings) :
           /\ Read(tok)
           /\ CASE tok.type = "end_array"    -> EndVariant(tok)
                [] tok.type # "end_array" /\ Top.position = -1 -> VariantType(tok)
                [] tok.type # "end_array" /\ Top.position = 0  ->
                       StartValue(Field(Top.type, Top.variant_type_index).type,
                                  Top.allow_extensions, tok, WithPosition(1))
                [] OTHER -> Fail("expected_variant")
    /\ UNCHANGED root

----------------------------------------------------------------------------
\* The text is malformed or ends where the next token is asked for.
SyntaxError ==
    /\ \/ pc \in {"begin", "object"}
       \/ pc = "loop" /\ stack # << >> /\ Len(stack) <= MaxStack
    /\ Fail("syntax")
    /\ UNCHANGED <<root, doc, reader>>

(***************************************************************************)
(* The bytes between two insertions, then the size: varuint32 sizes are    *)
(* one byte of the model.                                                  *)
(***************************************************************************)
Start(i) == IF i = 1 THEN 0 ELSE size_insertions[i - 1].position

Piece(i) == SubSeq(out, Start(i) + 1, size_insertions[i].position)
            \o <<size_insertions[i].size>>

Splice ==
    FlattenSeq([i \in 1 .. Len(size_insertions) |-> Piece(i)])
    \o SubSeq(out, Start(Len(size_insertions) + 1) + 1, Len(out))

Finish ==
    /\ pc = "loop"
    /\ stack = << >>
    /\ IF Complete(reader)
         THEN /\ pc' = "done"
              /\ bin' = Splice
              /\ UNCHANGED <<stack, out, size_insertions, skipped_extension, error>>
         ELSE Fail("expected_end")
    /\ UNCHANGED <<root, doc, reader>>

Terminated == pc \in {"done", "failed"} /\ UNCHANGED vars

Step == Begin \/ Object \/ Array \/ FixedArray \/ Variant
        \/ RecursionLimit \/ SyntaxError \/ Finish

Next == Step \/ Terminated

Spec == Init /\ [][Next]_vars

----------------------------------------------------------------------------
(***************************************************************************)
(* The text and the stack go down together: an open container of the text  *)
(* has its stack entry, an object a struct, an array one of the three      *)
(* array-like types, and only the innermost object can have read a key     *)
(* whose value is to come.  Nothing in the code compares the two; every    *)
(* serializer takes it for granted (abieos.hpp:790-850).                   *)
(***************************************************************************)
Struct(i) == Kind[stack[i].type] = "struct"

ReaderInStep ==
    /\ pc = "begin" => reader = FreshReader /\ stack = << >>
    /\ pc \in {"loop", "object"} =>
         /\ Len(reader) = Len(stack)
         /\ \A i \in DOMAIN stack :
              IF Struct(i) THEN \/ reader[i] = "name"
                                \/ reader[i] = "value" /\ i = Len(stack)
              ELSE reader[i] = "item"

(***************************************************************************)
(* Every index the serializers use without a check is in range:            *)
(* fields[position] at abieos.hpp:844 once a key was read, fields[position *)
(* + 1] at 821, fields[variant_type_index] at 936,                         *)
(* size_insertions[size_insertion_index] at 869.                           *)
(***************************************************************************)
EntryInBounds(i) ==
    LET e == stack[i]
        below == i < Len(stack)
        n == Len(Fields[e.type])
    IN  CASE Kind[e.type] = "struct" ->
               /\ e.position \in -1 .. n - 1
               /\ below \/ reader[i] = "value" => e.position >= 0
          [] Kind[e.type] = "variant" ->
               /\ e.position \in -1 .. 1
               /\ below => e.position = 1
               /\ e.position >= 0 => e.variant_type_index < n
          [] Kind[e.type] = "array" ->
               /\ e.position >= -1
               /\ e.size_insertion_index \in 1 .. Len(size_insertions)
          [] Kind[e.type] = "fixed_array" -> e.position >= -1
          [] OTHER -> FALSE

IndexesInBounds ==
    pc \in {"loop", "object"} => \A i \in DOMAIN stack : EntryInBounds(i)

(***************************************************************************)
(* The splice walks out_buf forward (abieos.hpp:800): insertion points     *)
(* never go back and never pass the end of what is written.                *)
(***************************************************************************)
InsertionsOrdered ==
    /\ \A i \in DOMAIN size_insertions : size_insertions[i].position <= Len(out)
    /\ \A i, j \in DOMAIN size_insertions :
          i <= j => size_insertions[i].position <= size_insertions[j].position

(***************************************************************************)
(* Two open arrays never share a size (abieos.hpp:860, 869).               *)
(***************************************************************************)
OpenArraysOwnTheirSize ==
    pc \in {"loop", "object"} =>
        \A i, j \in DOMAIN stack :
            i < j /\ Kind[stack[i].type] = "array" /\ Kind[stack[j].type] = "array"
            => stack[i].size_insertion_index < stack[j].size_insertion_index

(***************************************************************************)
(* Once an extension was left out nothing more is written and nothing more *)
(* is opened: the binary ends at the omission, which is what lets a reader *)
(* of the binary see it (abieos.hpp:822-836, 998).                         *)
(***************************************************************************)
ExtensionsTrail ==
    [][skipped_extension =>
          /\ out' = out
          /\ size_insertions' = size_insertions
          /\ Len(stack') <= Len(stack)]_vars

(***************************************************************************)
(* The check after the loop (abieos.hpp:796) cannot fail: when the stack   *)
(* is empty the document is complete.                                      *)
(***************************************************************************)
NeverExpectedEnd == error # "expected_end"

(***************************************************************************)
(* README.md:17, "It will complain about missing attributes if they are    *)
(* out of order": the end of an object is accepted before the last field   *)
(* only if all fields that have not been read are extensions.  The code    *)
(* looks at the next one (abieos.hpp:821-826) and relies on the ABI for    *)
(* the rest: see ExtensionsLast.                                           *)
(***************************************************************************)
OnlyExtensionsLeftOut ==
    [][Len(stack') < Len(stack) /\ Kind[Top.type] = "struct" =>
          \A i \in DOMAIN Fields[Top.type] :
              i > Top.position + 1 => Extension(Fields[Top.type][i].type)]_vars
==============================================================================
