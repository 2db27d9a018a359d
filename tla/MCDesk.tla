------------------------------- MODULE MCDesk -------------------------------
(* An instance of Desk for TLC. *)
EXTENDS Desk, TLC

CONSTANTS admin, user, t1, w1, w2, c1, c2

MCSymmetry == Permutations(Calls) \cup Permutations(Words)
=============================================================================
