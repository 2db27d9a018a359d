---------------------------- MODULE WalletLedger ----------------------------
(***************************************************************************)
(* What the wallet promises, without requests, webhooks or transactions:   *)
(* the rows of wallet_transactions are posted once each and never taken    *)
(* back, a refund answers a debit, and every row moves the balance by its  *)
(* own amount, in the step that posts it, and nothing else moves it.       *)
(***************************************************************************)
EXTENDS Integers

CONSTANTS
  Intents, Withdrawals,   \* what a row may be about
  FAmount, WAmount,       \* their amounts
  OpeningBalance

VARIABLES
  balance,
  entries   \* the references posted so far

lvars == <<balance, entries>>

Entry == ({"topup"} \X Intents) \cup ({"debit", "reversal"} \X Withdrawals)

\* CREDIT rows add, DEBIT rows subtract.
Signed(e) == IF e[1] = "topup" THEN FAmount[e[2]]
             ELSE IF e[1] = "reversal" THEN WAmount[e[2]] ELSE -WAmount[e[2]]

Init == balance = OpeningBalance /\ entries = {}

Post(e) ==
  /\ e \notin entries
  /\ e[1] = "reversal" => <<"debit", e[2]>> \in entries
  /\ entries' = entries \cup {e}
  /\ balance' = balance + Signed(e)

Next == \E e \in Entry : Post(e)

Spec == Init /\ [][Next]_lvars
=============================================================================
