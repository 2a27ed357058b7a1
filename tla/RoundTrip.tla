------------------------------ MODULE RoundTrip ------------------------------
(***************************************************************************)
(* The three conversions of one abi_type on one document: abi_type's       *)
(* json_to_bin accepts a text, json_to_bin_reorderable converts the same   *)
(* text, and bin_to_json turns the binary back.  The code has no such      *)
(* function; its tests call the three one after the other on every value   *)
(* (test.cpp:563-582, run_check_type), and so does a user of the library.  *)
(***************************************************************************)
EXTENDS AbiSchema, JsonReader

LOCAL INSTANCE SequencesExt

CONSTANTS MaxStack, MaxTokens

VARIABLES
    root, doc,                                              \* shared
    dReader, dPc, dStack, dOut, dSizes, dSkipped, dError, bin,   \* JsonToBin
    jDoc, jReader, jPc, jNodes, jBuild, jRoot, jStack, jOut, jSkipped, jError,
    bInput, bPos, bPc, bStack, bText, bSkipped, bError      \* BinToJson

direct      == <<root, doc, dReader, dPc, dStack, dOut, dSizes, dSkipped, dError, bin>>
reorderable == <<jDoc, jReader, jPc, jNodes, jBuild, jRoot, jStack, jOut, jSkipped, jError>>
decoder     == <<bInput, bPos, bPc, bStack, bText, bSkipped, bError>>
vars        == <<direct, reorderable, decoder>>

Direct == INSTANCE JsonToBin WITH
    reader <- dReader, pc <- dPc, stack <- dStack, out <- dOut,
    size_insertions <- dSizes, skipped_extension <- dSkipped, error <- dError

Reorderable == INSTANCE JvalueToBin WITH
    doc <- jDoc, reader <- jReader, pc <- jPc, nodes <- jNodes, build <- jBuild, root <- jRoot,
    stack <- jStack, out <- jOut, skipped_extension <- jSkipped, error <- jError

Decoder == INSTANCE BinToJson WITH
    Inputs <- {<< >>}, input <- bInput, pos <- bPos, pc <- bPc, stack <- bStack,
    text <- bText, skipped_extension <- bSkipped, error <- bError

Ended(pc) == pc \in {"done", "failed"}

----------------------------------------------------------------------------
Init == Direct!Init /\ Reorderable!Init /\ Decoder!Init /\ bInput = << >>

Convert == Direct!Step /\ UNCHANGED <<reorderable, decoder>>

\* The second conversion reads the text the first one read.
SameText == jDoc' = SubSeq(doc, 1, Len(jDoc'))

ConvertReorderable ==
    /\ dPc = "done"
    /\ \/ Reorderable!Build /\ SameText
       \/ Reorderable!Built \/ Reorderable!Encode(root)
       \/ Reorderable!Object \/ Reorderable!Elements \/ Reorderable!Variant
       \/ Reorderable!Finish
    /\ UNCHANGED <<direct, decoder>>

PassBinary ==
    /\ Ended(jPc)
    /\ bPc = "begin" /\ bInput # bin
    /\ bInput' = bin
    /\ UNCHANGED <<direct, reorderable, bPos, bPc, bStack, bText, bSkipped, bError>>

ConvertBack ==
    /\ Ended(jPc)
    /\ bInput = bin
    /\ Decoder!Step
    /\ UNCHANGED <<direct, reorderable>>

Terminated == (dPc = "failed" \/ Ended(bPc)) /\ UNCHANGED vars

Step == Convert \/ ConvertReorderable \/ PassBinary \/ ConvertBack

Next == Step \/ Terminated

Spec == Init /\ [][Next]_vars

----------------------------------------------------------------------------
\* How deep the document nests.
Depth(tokens) ==
    FoldLeft(LAMBDA sofar, tok :
               LET reader == After(sofar.reader, tok.type)
                   open   == Len(reader)
               IN  [reader |-> reader,
                    deepest |-> IF open > sofar.deepest THEN open ELSE sofar.deepest],
             [reader |-> FreshReader, deepest |-> 0], tokens).deepest

(***************************************************************************)
(* The two conversions to binary agree: what the reorderable one makes of  *)
(* a text the direct one accepts is the same binary.                       *)
(***************************************************************************)
SameBinary == jPc = "done" => jOut = bin

(***************************************************************************)
(* The reorderable conversion accepts every text the direct one accepts,   *)
(* unless the text nests as deep as the stack limit.                       *)
(***************************************************************************)
ReorderableAccepts == dPc = "done" /\ Depth(doc) < MaxStack => jPc # "failed"

(***************************************************************************)
(* Every binary the direct conversion produces can be converted back,      *)
(* within the stack limit, to the very tokens it was made from, with no    *)
(* byte left over.  That is so for types whose extensions take bytes: one  *)
(* that takes none is left out of the text, as test.cpp:1270 expects of    *)
(* "z3":{}.                                                                *)
(***************************************************************************)
BackToTheSameText ==
    /\ dPc = "done" /\ Depth(doc) <= MaxStack => bPc # "failed"
    /\ bPc = "done" =>
         /\ Decoder!Spoken[Len(bText)] = doc
         /\ bPos = Len(bin)
==============================================================================
