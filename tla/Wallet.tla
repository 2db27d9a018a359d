------------------------------- MODULE Wallet -------------------------------
(***************************************************************************)
(* The wallet of one profile: Funding and Withdrawal on one balance and    *)
(* one ledger, with the same webhook endpoint behind both, and the         *)
(* refinement they together are: WalletLedger.                             *)
(***************************************************************************)
EXTENDS Withdrawal, Funding, Functions

fundingOnly    == <<topups, row, fpc, charge, collected, chargeAnswer, chargeEvents,
                    finalizing>>
withdrawalOnly == <<debits, reversals, wstatus, wpc, transfer, transferAnswer,
                    transferEvents, reversing>>
vars           == <<balance, fundingOnly, withdrawalOnly>>

WalletInit == FundingInit /\ Init

FundingStep    == FundingNext /\ UNCHANGED withdrawalOnly
WithdrawalStep == Next /\ UNCHANGED fundingOnly

WalletNext == FundingStep \/ WithdrawalStep

WalletSpec == WalletInit /\ [][WalletNext]_vars

\* The withdrawal side's fairness; funding requests and their webhooks owe nothing.
WalletFairSpec == WalletSpec /\ Fairness

-----------------------------------------------------------------------------
\* The rows of wallet_transactions.
entries == ({"topup"} \X topups) \cup ({"debit"} \X debits) \cup ({"reversal"} \X reversals)

Ledger == INSTANCE WalletLedger

\* Funding and withdrawals, with all their races, retries and crashes, post every
\* row at most once, refund only what was debited, and move the balance by a row's
\* amount exactly when the row appears (the unique index on reference and the
\* transactions around it).
ImplementsLedger == Ledger!Spec

\* At every moment the balance is what the rows of wallet_transactions add up to: the
\* column and the ledger are written together, through every interleaving of relative
\* increments, aborted transactions and crashes, so the one can be audited by the other.
BalanceIsPosted ==
  balance = OpeningBalance + SumFunctionOnSet(FAmount, topups)
              + SumFunctionOnSet(WAmount, reversals) - SumFunctionOnSet(WAmount, debits)
=============================================================================
