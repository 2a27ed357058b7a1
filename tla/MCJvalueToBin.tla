---------------------------- MODULE MCJvalueToBin ----------------------------
(***************************************************************************)
(* Instance of JvalueToBin: every document of at most MaxTokens tokens,    *)
(* against every type of a small table.                                    *)
(***************************************************************************)
EXTENDS JvalueToBin, MCSchema

FewTypes    == DOMAIN FewTable
FewKind     == TableKind(FewTable)
FewElement  == TableElement(FewTable)
FewSize     == TableSize(FewTable)
FewFields   == TableFields(FewTable)

(***************************************************************************)
(* json_to_bin_reorderable implements Conversion: keys in any order, the   *)
(* last of a repeated one, unknown ones ignored, and otherwise the bytes   *)
(* of Format; it refuses only what has none (abieos.hpp:595-760).          *)
(***************************************************************************)
Promised == INSTANCE Conversion WITH
    Ordered <- FALSE, DepthLimit <- MaxStack, type <- root,
    result <- IF pc = "done" THEN out ELSE << >>,
    status <- CASE pc = "done"   -> "done"
                [] pc = "failed" -> (IF error = "syntax" THEN "malformed" ELSE "refused")
                [] OTHER -> "reading"

ImplementsConversion == Promised!Spec
==============================================================================
