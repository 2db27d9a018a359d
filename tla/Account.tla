------------------------------ MODULE Account -------------------------------
(***************************************************************************)
(* What Funding and Withdrawal share: the wallet of one profile, and the   *)
(* server's executions that work on it beside the requests themselves.     *)
(***************************************************************************)
EXTENDS Integers

CONSTANTS
  Handlers,        \* concurrent executions of the webhook endpoint and of confirm
  OpeningBalance   \* balanceMinor of the wallet row before the requests

ASSUME AccountAssumption == OpeningBalance \in Nat

VARIABLE balance   \* wallet_accounts.balance_minor
=============================================================================
