----------------------------- MODULE MCBinToJson -----------------------------
(***************************************************************************)
(* Instance of BinToJson: every binary of at most six bytes, against every *)
(* type of a small table.                                                  *)
(***************************************************************************)
EXTENDS BinToJson, MCSchema

FullTypes    == DOMAIN FullTable
FullKind     == TableKind(FullTable)
FullElement  == TableElement(FullTable)
FullSize     == TableSize(FullTable)
FullFields   == TableFields(FullTable)

OddTypes    == DOMAIN ExtensionFirstTable
OddKind     == TableKind(ExtensionFirstTable)
OddElement  == TableElement(ExtensionFirstTable)
OddSize     == TableSize(ExtensionFirstTable)
OddFields   == TableFields(ExtensionFirstTable)

SixBytes == UNION {[1 .. n -> Byte] : n \in 0 .. 6}
==============================================================================
