--------------------------- MODULE MCRegroupLoop ---------------------------
(***************************************************************************)
(* RegroupLoop on every list of at most MaxHeld packs of three messages,   *)
(* two of them of two packs and one of three.                              *)
(***************************************************************************)
EXTENDS RegroupLoop

MCTotals == <<2, 3, 2>>
=============================================================================
