------------------------------ MODULE JsonReader ------------------------------
(***************************************************************************)
(* The token source of every JSON conversion.  rapidjson (a submodule that *)
(* is not part of the sources) turns the text into events and refuses a    *)
(* text that breaks the grammar; json_token_stream hands the events out    *)
(* one by one and json_reader_handler pushes them.  What both rely on is   *)
(* the order in which events can come, which this module states.           *)
(*                                                                         *)
(* A reader is the sequence of the containers it is inside of, outermost   *)
(* first, each with what it waits for:                                     *)
(*    "root"   the document's only value                                   *)
(*    "name"   a key of the object, or its end                             *)
(*    "value"  the value of the key just read                              *)
(*    "item"   an element of the array, or its end                         *)
(* It is empty once the document is complete.                              *)
(***************************************************************************)
EXTENDS Naturals, Sequences

Contexts == {"root", "name", "value", "item"}

ValueTokens == {"null", "string", "start_object", "start_array"}
TokenTypes  == ValueTokens \cup {"key", "end_object", "end_array"}

\* kParseNumbersAsStringsFlag: a number reaches the handler as a string.
Tokens(S) == [type : {"string", "key"}, text : S]
             \cup [type : TokenTypes \ {"string", "key"}, text : {""}]

Token(type) == [type |-> type, text |-> ""]

FreshReader == <<"root">>

\* IterativeParseComplete()
Complete(reader) == reader = << >>

Waiting(reader) == reader[Len(reader)]

\* The tokens IterativeParseNext can deliver; any other text is an error.
Expected(reader) ==
    IF Complete(reader) THEN {}
    ELSE CASE Waiting(reader) \in {"root", "value"} -> ValueTokens
           [] Waiting(reader) = "name"              -> {"key", "end_object"}
           [] Waiting(reader) = "item"              -> ValueTokens \cup {"end_array"}

Pop(s) == SubSeq(s, 1, Len(s) - 1)

\* One whole value has been read, or its container entered.
PastValue(reader) ==
    CASE Waiting(reader) = "root"  -> << >>
      [] Waiting(reader) = "value" -> [reader EXCEPT ![Len(reader)] = "name"]
      [] OTHER                     -> reader

After(reader, type) ==
    CASE type \in {"null", "string"}           -> PastValue(reader)
      [] type = "start_object"                 -> Append(PastValue(reader), "name")
      [] type = "start_array"                  -> Append(PastValue(reader), "item")
      [] type = "key"                          -> [reader EXCEPT ![Len(reader)] = "value"]
      [] type \in {"end_object", "end_array"}  -> Pop(reader)
==============================================================================
