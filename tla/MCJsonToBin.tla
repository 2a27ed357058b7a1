----------------------------- MODULE MCJsonToBin -----------------------------
(***************************************************************************)
(* Instance of JsonToBin: every document of at most MaxTokens tokens,      *)
(* against every type of a small table.                                    *)
(***************************************************************************)
EXTENDS JsonToBin, MCSchema

FullTypes    == DOMAIN FullTable
FullKind     == TableKind(FullTable)
FullElement  == TableElement(FullTable)
FullSize     == TableSize(FullTable)
FullFields   == TableFields(FullTable)

OddTypes    == DOMAIN ExtensionFirstTable
OddKind     == TableKind(ExtensionFirstTable)
OddElement  == TableElement(ExtensionFirstTable)
OddSize     == TableSize(ExtensionFirstTable)
OddFields   == TableFields(ExtensionFirstTable)

(***************************************************************************)
(* json_to_bin implements Conversion: the bytes are those of Format for    *)
(* the document that was read, extensions left out only at the end of the  *)
(* binary, and a document is refused as soon as, and only if, no           *)
(* continuation of what was read has a binary (abieos.hpp:781-960).        *)
(***************************************************************************)
Promised == INSTANCE Conversion WITH
    Ordered <- TRUE, DepthLimit <- MaxStack + 1, type <- root, result <- bin,
    status <- CASE pc = "done"   -> "done"
                [] pc = "failed" -> (CASE error = "syntax" -> "malformed"
                                       [] error = "recursion_limit_reached" -> "too_deep"
                                       [] OTHER -> "refused")
                [] OTHER -> "reading"

ImplementsConversion == Promised!Spec
==============================================================================
