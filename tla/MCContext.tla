------------------------------ MODULE MCContext ------------------------------
(***************************************************************************)
(* Instance of Context: two contracts and two ABIs that share one of their *)
(* two types, with two texts.                                              *)
(***************************************************************************)
EXTENDS Context, TLC

SmallContracts == {"token", "system"}
SmallAbis      == {"old", "new"}
SmallTypeNames == {"transfer", "issue"}
SmallTexts     == {"good", "bad"}

SmallDefines == ("old" :> {"transfer"}) @@ ("new" :> {"transfer", "issue"})
SmallFits == [a \in SmallAbis |-> [t \in SmallTypeNames |-> {"good"}]]
==============================================================================
