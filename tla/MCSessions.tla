----------------------------- MODULE MCSessions -----------------------------
(* An instance of Sessions for TLC. *)
EXTENDS Sessions, TLC

CONSTANTS c1, c2

MCSymmetry == Permutations(Calls)
=============================================================================
