----------------------------- MODULE MCHistory -----------------------------
(***************************************************************************)
(* Instances of History: three values, of which the third is one of the    *)
(* others but for digits that are not stored.                              *)
(***************************************************************************)
EXTENDS History, TLC

CONSTANTS v1, v2, v3

LosesDigits == (v1 :> v1) @@ (v2 :> v2) @@ (v3 :> v2)
=============================================================================
