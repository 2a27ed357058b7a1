---------------------------- MODULE MCBinRoundTrip ----------------------------
(***************************************************************************)
(* Instance of BinRoundTrip: every binary of at most five bytes.           *)
(***************************************************************************)
EXTENDS BinRoundTrip, MCSchema

FullTypes    == DOMAIN FullTable
FullKind     == TableKind(FullTable)
FullElement  == TableElement(FullTable)
FullSize     == TableSize(FullTable)
FullFields   == TableFields(FullTable)

FiveBytes == UNION {[1 .. n -> Byte] : n \in 0 .. 5}
==============================================================================
