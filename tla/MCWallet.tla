------------------------------ MODULE MCWallet ------------------------------
(* An instance of Wallet for TLC. *)
EXTENDS Wallet, TLC

CONSTANTS card, w1, h1, h2

MCFAmount == [i \in Intents |-> 4]
MCWAmount == [w \in Withdrawals |-> 1]
=============================================================================
