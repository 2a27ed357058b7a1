-------------------------- MODULE MCAssetArithmetic --------------------------
(***************************************************************************)
(* Two objects over a four-bit integer, a valid and an invalid symbol; the *)
(* numbers are both limits, both caps and their neighbours.                *)
(***************************************************************************)
EXTENDS AssetArithmetic

SomeNumbers == {-8, -4, -3, -1, 0, 2, 3, 7}
==============================================================================
