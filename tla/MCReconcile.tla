---------------------------- MODULE MCReconcile ----------------------------
(* An instance of Reconcile for TLC. *)
EXTENDS Reconcile, TLC

CONSTANTS s1, s2

MCRank == (s1 :> 1) @@ (s2 :> 2)
=============================================================================
