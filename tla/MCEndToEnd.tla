----------------------------- MODULE MCEndToEnd -----------------------------
(***************************************************************************)
(* EndToEnd for TLC: nothing tells the requests apart.                     *)
(***************************************************************************)
EXTENDS EndToEndInvariant, TLC

RequestSymmetry == Permutations(Requests)
=============================================================================
