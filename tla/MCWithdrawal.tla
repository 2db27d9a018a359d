---------------------------- MODULE MCWithdrawal ----------------------------
(* Instances of Withdrawal for TLC. *)
EXTENDS Withdrawal, TLC

CONSTANTS w1, w2, h1, h2

\* The opening balance covers either request and not both.
MCAmount == (w1 :> 1) @@ (w2 :> 2)
=============================================================================
