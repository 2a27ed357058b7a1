------------------------------ MODULE BinToJson ------------------------------
(***************************************************************************)
(* abi_type::bin_to_json: the conversion of a binary into JSON text        *)
(* (abieos.hpp, the bin_to_json overloads).  A loop calls the serializer   *)
(* of the top stack entry; the serializer reads from the input, writes     *)
(* punctuation and text, and pushes or pops an entry.                      *)
(*                                                                         *)
(* The text is a sequence of lexemes: the tokens of JsonReader (a key with *)
(* its colon) and commas, which the code places itself.                    *)
(***************************************************************************)
EXTENDS AbiSchema, JsonReader

CONSTANTS
    MaxStack,   \* max_stack_size, 128 in the code
    Inputs      \* bound of the model: the binaries to convert

ASSUME BoundAssumption == MaxStack \in Nat \ {0} /\ Inputs \subseteq Seq(Byte)

VARIABLES
    root,               \* the abi_type the conversion was called on
    input,              \* the caller's bytes
    pos,                \* input_stream::pos, as the number of bytes read
    pc,                 \* "begin", at the head of the "loop", or the end
    stack,              \* bin_to_json_state::stack
    text,               \* what state.writer has written
    skipped_extension,  \* bin_to_json_state::skipped_extension
    error               \* what check() threw, or "none"

vars == <<root, input, pos, pc, stack, text, skipped_extension, error>>

----------------------------------------------------------------------------
Lexemes == Tokens(Strings) \cup {Token("comma")}
Text(type, string) == [type |-> type, text |-> string]

Entry(t, allow, size) ==
    [type |-> t, allow_extensions |-> allow, position |-> -1, array_size |-> size]

Entries == [type : Types, allow_extensions : BOOLEAN, position : Int, array_size : Nat]

Errors == {"none", "overrun", "bad_variant_index", "recursion_limit_reached"}

TypeOK ==
    /\ root \in Types
    /\ input \in Seq(Byte)
    /\ pos \in 0 .. Len(input)
    /\ pc \in {"begin", "loop", "done", "failed"}
    /\ stack \in Seq(Entries)
    /\ text \in Seq(Lexemes)
    /\ skipped_extension \in BOOLEAN
    /\ error \in Errors

Init ==
    /\ root \in Types
    /\ input \in Inputs
    /\ pos = 0
    /\ pc = "begin"
    /\ stack = << >>
    /\ text = << >>
    /\ skipped_extension = FALSE
    /\ error = "none"

----------------------------------------------------------------------------
Top == stack[Len(stack)]
WithPosition(p) == [stack EXCEPT ![Len(stack)].position = p]

Left == Len(input) - pos
ByteAt(i) == input[pos + i]

Fail(e) ==
    /\ pc' = "failed"
    /\ error' = e
    /\ UNCHANGED <<pos, stack, text, skipped_extension>>

\* A call of a serializer returns to the loop, which looks at the stack's size.
Return(read, lexemes, newStack) ==
    IF Len(newStack) > MaxStack THEN Fail("recursion_limit_reached")
    ELSE /\ pos' = pos + read
         /\ text' = text \o lexemes
         /\ stack' = newStack
         /\ pc' = "loop"
         /\ UNCHANGED <<skipped_extension, error>>

(***************************************************************************)
(* The serializer of t is called on a new value, after read bytes were     *)
(* taken and lexemes were written by the same call.  The byte of an        *)
(* optional is read into a bool; one that is neither 0 nor 1 makes its     *)
(* value undefined, so the test can go either way.                         *)
(***************************************************************************)
Presences(byte) == IF byte \in {0, 1} THEN {byte = 1} ELSE BOOLEAN

\* Faulty: a byte too many is taken.
AbsentOptionalTwice(t, read, lexemes, below) ==
    /\ Optional(t) /\ Left > read
    /\ FALSE \in Presences(ByteAt(read + 1))
    /\ Return(read + 2, Append(lexemes, Token("null")), below)

AbsentOptional(t, read, lexemes, below) ==
    /\ Optional(t) /\ Left > read
    /\ FALSE \in Presences(ByteAt(read + 1))
    /\ Return(read + 1, Append(lexemes, Token("null")), below)

Present(t, read) ==
    Optional(t) => Left > read /\ TRUE \in Presences(ByteAt(read + 1))

\* How many bytes an optional takes before its element.
Prefix(t) == IF Optional(t) THEN 1 ELSE 0

StartBuiltin(t, read, lexemes, below) ==
    LET at == read + Prefix(t) + 1
    IN  /\ Kind[Base(t)] = "builtin"
        /\ IF Left < at THEN Fail("overrun")
           ELSE Return(at, Append(lexemes, Text("string", TextOf[ByteAt(at)])), below)

StartStruct(t, allow, read, lexemes, below) ==
    /\ Kind[Base(t)] = "struct"
    /\ Return(read + Prefix(t), Append(lexemes, Token("start_object")),
              Append(below, Entry(Base(t), allow, 0)))

StartArray(t, read, lexemes, below) ==
    LET at == read + Prefix(t) + 1
    IN  /\ Kind[Base(t)] = "array"
        /\ IF Left < at THEN Fail("overrun")
           ELSE Return(at, Append(lexemes, Token("start_array")),
                       Append(below, Entry(Base(t), FALSE, ByteAt(at))))

StartFixedArray(t, read, lexemes, below) ==
    /\ Kind[Base(t)] = "fixed_array"
    /\ Return(read + Prefix(t), Append(lexemes, Token("start_array")),
              Append(below, Entry(Base(t), FALSE, 0)))

StartVariant(t, allow, read, lexemes, below) ==
    /\ Kind[Base(t)] = "variant"
    /\ Return(read + Prefix(t), Append(lexemes, Token("start_array")),
              Append(below, Entry(Base(t), allow, 0)))

StartValue(t, allow, read, lexemes, below) ==
    \/ Optional(t) /\ Left <= read /\ Fail("overrun")
    \/ AbsentOptional(t, read, lexemes, below)
    \/ /\ Present(t, read)
       /\ \/ StartBuiltin(t, read, lexemes, below)
          \/ StartStruct(t, allow, read, lexemes, below)
          \/ StartArray(t, read, lexemes, below)
          \/ StartFixedArray(t, read, lexemes, below)
          \/ StartVariant(t, allow, read, lexemes, below)

----------------------------------------------------------------------------
Begin ==
    /\ pc = "begin"
    /\ StartValue(root, TRUE, 0, << >>, << >>)
    /\ UNCHANGED <<root, input>>

Turn(kind) ==
    /\ pc = "loop"
    /\ stack # << >>
    /\ Kind[Top.type] = kind
    /\ UNCHANGED <<root, input>>

Leave(end) == Return(0, <<Token(end)>>, Pop(stack))

\* Faulty: before the first as well.
CommaAlways(next) == <<Token("comma")>>

Comma(next) == IF next = 0 THEN << >> ELSE <<Token("comma")>>

\* Faulty: at any level; the position stays.
MayLeaveOutAtAnyLevel(next) == Left = 0 /\ Extension(Field(Top.type, next).type)
LeaveOutAgain(next) == skipped_extension' = TRUE /\ UNCHANGED <<pos, pc, stack, text, error>>

MayLeaveOut(next) ==
    Left = 0 /\ Extension(Field(Top.type, next).type) /\ Top.allow_extensions

LeaveOut(next) ==
    /\ skipped_extension' = TRUE
    /\ stack' = WithPosition(next)
    /\ UNCHANGED <<pos, pc, text, error>>

Object ==
    LET next  == Top.position + 1
        field == Field(Top.type, next)
    IN  /\ Turn("struct")
        /\ IF next >= Len(Fields[Top.type]) THEN Leave("end_object")
           ELSE IF MayLeaveOut(next) THEN LeaveOut(next)
           ELSE StartValue(field.type, AllowIn(Top.type, next, Top.allow_extensions), 0,
                           Append(Comma(next), Text("key", field.name)), WithPosition(next))

Elements(size) ==
    LET next == Top.position + 1
    IN  IF next >= size THEN Leave("end_array")
        ELSE StartValue(Element[Top.type], FALSE, 0, Comma(next), WithPosition(next))

Array == Turn("array") /\ Elements(Top.array_size)

\* Faulty: the last element is forgotten.
FixedArrayShort == Turn("fixed_array") /\ Elements(Size[Top.type] - 1)

FixedArray == Turn("fixed_array") /\ Elements(Size[Top.type])

Variant ==
    /\ Turn("variant")
    /\ IF Top.position # -1 THEN Leave("end_array")
       ELSE IF Left = 0 THEN Fail("overrun")
       ELSE IF ByteAt(1) >= Len(Fields[Top.type]) THEN Fail("bad_variant_index")
       ELSE LET alternative == Field(Top.type, ByteAt(1))
            IN  StartValue(alternative.type, Top.allow_extensions, 1,
                           <<Text("string", alternative.name), Token("comma")>>,
                           WithPosition(0))

\* Bytes after the value are not looked at.
Finish ==
    /\ pc = "loop"
    /\ stack = << >>
    /\ pc' = "done"
    /\ UNCHANGED <<root, input, pos, stack, text, skipped_extension, error>>

Terminated == pc \in {"done", "failed"} /\ UNCHANGED vars

Step == Begin \/ Object \/ Array \/ FixedArray \/ Variant \/ Finish

Next == Step \/ Terminated

(***************************************************************************)
(* Sequential code never stops between two steps.                          *)
(***************************************************************************)
Spec == Init /\ [][Next]_vars /\ WF_vars(Step)

----------------------------------------------------------------------------
(***************************************************************************)
(* The text is JSON: commas stand between two values or members and        *)
(* nowhere else, and the tokens form one complete document.  position # 0  *)
(* decides on the comma (abieos.hpp:1003, 1028, 1051) though fields may    *)
(* have been left out before.                                              *)
(***************************************************************************)
Ends   == {"null", "string", "end_object", "end_array"}
Starts == ValueTokens \cup {"key"}

CommasInPlace ==
    \A i \in 1 .. Len(text) :
        IF text[i].type = "comma"
          THEN /\ 1 < i /\ i < Len(text)
               /\ text[i - 1].type \in Ends
               /\ text[i + 1].type \in Starts
          ELSE i < Len(text) => ~(text[i].type \in Ends /\ text[i + 1].type \in Starts)

\* What the reader of JsonReader makes of one more lexeme.
ReadOn(sofar, type) ==
    IF type = "comma" THEN sofar
    ELSE IF sofar.valid /\ type \in Expected(sofar.reader)
      THEN [valid |-> TRUE, reader |-> After(sofar.reader, type)]
      ELSE [valid |-> FALSE, reader |-> sofar.reader]

\* What it has made of the first i lexemes.
Readings[i \in 0 .. Len(text)] ==
    IF i = 0 THEN [valid |-> TRUE, reader |-> FreshReader]
    ELSE ReadOn(Readings[i - 1], text[i].type)

Reading == Readings[Len(text)]

\* The tokens among the first i lexemes.
SayOn(sofar, lexeme) == IF lexeme.type = "comma" THEN sofar ELSE Append(sofar, lexeme)

Spoken[i \in 0 .. Len(text)] == IF i = 0 THEN << >> ELSE SayOn(Spoken[i - 1], text[i])

WritesJson ==
    pc = "done" => CommasInPlace /\ Reading.valid /\ Complete(Reading.reader)

(***************************************************************************)
(* An extension is left out only where the input has ended, and from then  *)
(* on only closing brackets are written (abieos.hpp:998).                  *)
(***************************************************************************)
NothingAfterOmission ==
    [][skipped_extension =>
          /\ Left = 0
          /\ pos' = pos
          /\ \A i \in Len(text) + 1 .. Len(text') :
                text'[i].type \in {"end_object", "end_array"}]_vars

(***************************************************************************)
(* Every input leads to a text or an error.                                *)
(***************************************************************************)
Terminates == <>(pc \in {"done", "failed"})
==============================================================================
