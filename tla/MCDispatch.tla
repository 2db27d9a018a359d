----------------------------- MODULE MCDispatch -----------------------------
(* Instances of Dispatch for TLC. *)
EXTENDS Dispatch, TLC

CONSTANTS p1, p2, r1, r2, w1, w2

MCSymmetry == Permutations(Providers) \cup Permutations(Requests) \cup Permutations(Workers)
=============================================================================
