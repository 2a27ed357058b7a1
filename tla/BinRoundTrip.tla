----------------------------- MODULE BinRoundTrip -----------------------------
(***************************************************************************)
(* A binary converted to a text by abi_type::bin_to_json, and the text to  *)
(* a binary again by abi_type::json_to_bin: what tools/                    *)
(* util_generate_json_from_hex.cpp and util_generate_hex_from_json.cpp do  *)
(* one after the other.                                                    *)
(***************************************************************************)
EXTENDS AbiSchema, JsonReader

LOCAL INSTANCE SequencesExt

CONSTANTS MaxStack, Inputs

VARIABLES
    root,
    input, bPos, bPc, bStack, text, bSkipped, bError,       \* BinToJson
    doc, dReader, dPc, dStack, dOut, dSizes, dSkipped, dError, bin

decoder == <<input, bPos, bPc, bStack, text, bSkipped, bError>>
direct  == <<doc, dReader, dPc, dStack, dOut, dSizes, dSkipped, dError, bin>>
vars    == <<root, decoder, direct>>

Decoder == INSTANCE BinToJson WITH
    pos <- bPos, pc <- bPc, stack <- bStack, skipped_extension <- bSkipped, error <- bError

\* No bound on the tokens: the text bounds them.
Direct == INSTANCE JsonToBin WITH
    MaxTokens <- 1000, reader <- dReader, pc <- dPc, stack <- dStack, out <- dOut,
    size_insertions <- dSizes, skipped_extension <- dSkipped, error <- dError

Ended(pc) == pc \in {"done", "failed"}

Written == SelectSeq(text, LAMBDA lexeme : lexeme.type # "comma")

----------------------------------------------------------------------------
Init == Decoder!Init /\ Direct!Init

Decode == Decoder!Step /\ UNCHANGED direct

\* A reader error could only come from the text, which is whole.
Encode ==
    /\ bPc = "done"
    /\ Direct!Step /\ dError' # "syntax"
    /\ doc' = SubSeq(Written, 1, Len(doc'))
    /\ UNCHANGED decoder

Terminated == (bPc = "failed" \/ Ended(dPc)) /\ UNCHANGED vars

Step == Decode \/ Encode

Next == Step \/ Terminated

Spec == Init /\ [][Next]_vars

----------------------------------------------------------------------------
(***************************************************************************)
(* The text bin_to_json writes is accepted by json_to_bin, all of it, and  *)
(* gives the bytes that were read, the trailing ones that bin_to_json      *)
(* ignores left out.  A byte that is no bool comes back as one.            *)
(***************************************************************************)
SameBytes ==
    /\ dPc # "failed"
    /\ dPc = "done" =>
        /\ doc = Written
        /\ Len(bin) = bPos
        /\ \A i \in 1 .. bPos :
              bin[i] = input[i] \/ (input[i] \notin {0, 1} /\ bin[i] \in {0, 1})
==============================================================================
