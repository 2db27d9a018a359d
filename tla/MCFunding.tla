----------------------------- MODULE MCFunding ------------------------------
(* Instances of Funding for TLC. *)
EXTENDS Funding, TLC

CONSTANTS card, hosted, h1, h2

MCAmount == (card :> 2) @@ (hosted :> 1)
=============================================================================
