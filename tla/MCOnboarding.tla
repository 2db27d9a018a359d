---------------------------- MODULE MCOnboarding ----------------------------
(* An instance of Onboarding for TLC. *)
EXTENDS Onboarding, TLC

CONSTANTS r1, r2

MCSymmetry == Permutations(Requests)
=============================================================================
