----------------------------- MODULE MCRoundTrip -----------------------------
(***************************************************************************)
(* Instances of RoundTrip over the tables of MCSchema.                     *)
(***************************************************************************)
EXTENDS RoundTrip, MCSchema

FullTypes    == DOMAIN FullTable
FullKind     == TableKind(FullTable)
FullElement  == TableElement(FullTable)
FullSize     == TableSize(FullTable)
FullFields   == TableFields(FullTable)
==============================================================================
