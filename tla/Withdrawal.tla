----------------------------- MODULE Withdrawal -----------------------------
(***************************************************************************)
(* Wallet withdrawals: createWalletWithdrawal (wallet.service.ts:427) as a *)
(* process per request, the Paystack transfer it asks for, the transfer    *)
(* webhooks (handlePaystackWebhookEvent) and the refund transaction they   *)
(* share, markWithdrawalFailedAndReverse.                                  *)
(*                                                                         *)
(* Postgres runs at READ COMMITTED and no statement here takes a lock      *)
(* before it writes, so a transaction is two steps: what it reads, then    *)
(* its writes and commit.  An external call is a request, an answer that   *)
(* may be lost, and whatever Paystack does in between.  The definitions    *)
(* marked as bugs are not part of the specification: they are mistakes     *)
(* this code could have, for which some property below must fail.          *)
(***************************************************************************)
EXTENDS Account

CONSTANTS
  Withdrawals,     \* withdrawal requests, each under an idempotency key of its own
  WAmount          \* amountMinor of each request

ASSUME WithdrawalAssumption ==
  /\ WAmount \in [Withdrawals -> Nat \ {0}]
  /\ Withdrawals \cap Handlers = {}

VARIABLES
  debits,          \* withdrawals whose row WLT_WITHDRAW_<id> is in wallet_transactions
  reversals,       \* withdrawals whose row WLT_WITHDRAW_REV_<id> is there
  wstatus,         \* wallet_withdrawals.status, "none" before the row exists
  wpc,             \* where the request's handler stands
  transfer,        \* Paystack's state of the transfer with the request's reference
  transferAnswer,  \* what Paystack answers to initiateTransfer
  transferEvents,  \* transfer webhooks Paystack emitted: delivered late, again, in any order
  reversing        \* open refund transactions <<process, withdrawal, what its reads decided>>

localVars    == <<debits, reversals, wstatus, wpc, reversing>>
paystackVars == <<transfer, transferAnswer, transferEvents>>
wvars        == <<balance, localVars, paystackVars>>

Phases == {"start", "debit", "send", "waiting", "answered", "reverseInTry",
           "reverseInCatch", "ok", "error", "rejected", "crashed"}
Running == Phases \ {"ok", "error", "rejected", "crashed"}
TransferStates == {"none", "sent", "rejected", "pending", "success", "failed", "reversed"}
Final == {"success", "failed", "reversed"}

Init ==
  /\ balance = OpeningBalance
  /\ debits = {} /\ reversals = {} /\ reversing = {}
  /\ wstatus = [w \in Withdrawals |-> "none"]
  /\ wpc = [w \in Withdrawals |-> "start"]
  /\ transfer = [w \in Withdrawals |-> "none"]
  /\ transferAnswer = [w \in Withdrawals |-> "none"]
  /\ transferEvents = {}

-----------------------------------------------------------------------------
(* The request: guards and the balance check, the debit transaction. *)

\* The checks up to the balance read of the transaction.  The bank account may
\* not resolve, or the phone not be verified: the request is refused.
ReadBalance(w) ==
  /\ wpc[w] = "start"
  /\ \E next \in {"debit", "rejected"} :
       /\ next = "debit" => balance >= WAmount[w]
       /\ wpc' = [wpc EXCEPT ![w] = next]
  /\ UNCHANGED <<balance, debits, reversals, wstatus, reversing, paystackVars>>

\* The writes of the transaction; the decrement is relative to the current row.
Debit(w) ==
  /\ wpc[w] = "debit"
  /\ debits' = debits \cup {w}
  /\ balance' = balance - WAmount[w]
  /\ wstatus' = [wstatus EXCEPT ![w] = "processing"]
  /\ wpc' = [wpc EXCEPT ![w] = "send"]
  /\ UNCHANGED <<reversals, reversing, paystackVars>>

\* Bug: the transfer is asked for before the wallet is debited.
SendBeforeDebit(w) ==
  /\ wpc[w] = "debit"
  /\ wpc' = [wpc EXCEPT ![w] = "waiting"]
  /\ transfer' = [transfer EXCEPT ![w] = "sent"]
  /\ UNCHANGED <<balance, debits, reversals, wstatus, reversing, transferAnswer, transferEvents>>

SendTransfer(w) ==
  /\ wpc[w] = "send"
  /\ wpc' = [wpc EXCEPT ![w] = "waiting"]
  /\ transfer' = [transfer EXCEPT ![w] = "sent"]
  /\ UNCHANGED <<balance, debits, reversals, wstatus, reversing, transferAnswer, transferEvents>>

-----------------------------------------------------------------------------
(* Paystack (external). *)

Emit(w, s) == IF s \in Final THEN {<<s, w>>} ELSE {}

\* The transfer request arrives, possibly after the caller stopped waiting.
Accept(w) ==
  /\ transfer[w] = "sent"
  /\ \E s \in {"pending", "success", "failed"} :
       /\ transfer' = [transfer EXCEPT ![w] = s]
       /\ transferAnswer' = [transferAnswer EXCEPT ![w] = s]
       /\ transferEvents' = transferEvents \cup Emit(w, s)
  /\ UNCHANGED <<balance, localVars>>

\* Refused with an HTTP error, or lost on the way: there is no transfer.
Reject(w) ==
  /\ transfer[w] = "sent"
  /\ transfer' = [transfer EXCEPT ![w] = "rejected"]
  /\ transferAnswer' = [transferAnswer EXCEPT ![w] = "error"]
  /\ UNCHANGED <<balance, localVars, transferEvents>>

\* The bank pays, refuses, or sends back what had been paid.
Settle(w) ==
  /\ \E s \in Final :
       /\ transfer[w] = "pending" \/ (transfer[w] = "success" /\ s = "reversed")
       /\ transfer' = [transfer EXCEPT ![w] = s]
       /\ transferEvents' = transferEvents \cup Emit(w, s)
  /\ UNCHANGED <<balance, localVars, transferAnswer>>

-----------------------------------------------------------------------------
(* The request again: the answer, its timeout, the last update. *)

\* Bug: a timeout reaches the caller without the catch block.
TimeoutWithoutRefund(w) ==
  /\ wpc[w] = "waiting"
  /\ wpc' = [wpc EXCEPT ![w] = "error"]
  /\ UNCHANGED <<balance, debits, reversals, wstatus, reversing, paystackVars>>

\* PAYSTACK_REQUEST_TIMEOUT_MS passed or the connection broke; the answer, if
\* there was one, is lost.
Timeout(w) ==
  /\ wpc[w] = "waiting"
  /\ wpc' = [wpc EXCEPT ![w] = "reverseInCatch"]
  /\ UNCHANGED <<balance, debits, reversals, wstatus, reversing, paystackVars>>

ReceiveAnswer(w) ==
  /\ wpc[w] = "waiting"
  /\ transferAnswer[w] # "none"
  /\ wpc' = [wpc EXCEPT ![w] = IF transferAnswer[w] = "error" THEN "reverseInCatch"
                               ELSE IF transferAnswer[w] = "failed" THEN "reverseInTry"
                               ELSE "answered"]
  /\ UNCHANGED <<balance, debits, reversals, wstatus, reversing, paystackVars>>

\* Bug: an accepted transfer counts as paid.
AcceptedIsPaid(w) == IF transferAnswer[w] \in {"pending", "success"}
                       THEN "succeeded" ELSE "processing"

Outcome(w) == IF transferAnswer[w] = "success" THEN "succeeded" ELSE "processing"

\* The row is overwritten, whatever a webhook has made of it meanwhile.
SaveOutcome(w) ==
  /\ wpc[w] = "answered"
  /\ wstatus' = [wstatus EXCEPT ![w] = Outcome(w)]
  /\ wpc' = [wpc EXCEPT ![w] = "ok"]
  /\ UNCHANGED <<balance, debits, reversals, reversing, paystackVars>>

\* Saving the bank account or the row fails after Paystack accepted.
SaveFails(w) ==
  /\ wpc[w] = "answered"
  /\ wpc' = [wpc EXCEPT ![w] = "reverseInCatch"]
  /\ UNCHANGED <<balance, debits, reversals, wstatus, reversing, paystackVars>>

-----------------------------------------------------------------------------
(* markWithdrawalFailedAndReverse, run by requests and by webhooks. *)

\* What the transaction of process p read and so will write.
Reads(p, w) == <<p, w, IF w \in reversals THEN "mark" ELSE "post">>

\* The writes: a refund and the status, or the status alone; a refund row that
\* another transaction inserted meanwhile breaks the unique index and aborts.
NeverAborts(t) == FALSE   \* bug: no unique index on wallet_transactions.reference

Aborts(t) == t[3] = "post" /\ t[2] \in reversals

\* Bug: the status and the refund are written without a transaction around them,
\* and the process may die in between.
CommitInTwoSteps(t) ==
  /\ reversing' = reversing \ {t}
  /\ wstatus' = [wstatus EXCEPT ![t[2]] = "reversed"]
  /\ \/ UNCHANGED <<balance, reversals>>
     \/ /\ t[2] \notin reversals
        /\ reversals' = reversals \cup {t[2]}
        /\ balance' = balance + WAmount[t[2]]
  /\ UNCHANGED <<debits, paystackVars>>

CommitReversal(t) ==
  /\ reversing' = reversing \ {t}
  /\ IF Aborts(t)
       THEN UNCHANGED <<balance, reversals, wstatus>>
       ELSE /\ wstatus' = [wstatus EXCEPT ![t[2]] = "reversed"]
            /\ IF t[3] = "post"
                 THEN /\ reversals' = reversals \cup {t[2]}
                      /\ balance' = balance + WAmount[t[2]]
                 ELSE UNCHANGED <<balance, reversals>>
  /\ UNCHANGED <<debits, paystackVars>>

Idle(p) == \A t \in reversing : t[1] # p

\* The call inside try throws afterwards, so the catch block calls it again.
AfterReversal(phase) == IF phase = "reverseInTry" THEN "reverseInCatch" ELSE "error"

RequestReverse(w) ==
  /\ wpc[w] \in {"reverseInTry", "reverseInCatch"}
  /\ Idle(w)
  /\ IF wstatus[w] = "reversed"
       THEN /\ wpc' = [wpc EXCEPT ![w] = AfterReversal(@)]
            /\ UNCHANGED reversing
       ELSE /\ reversing' = reversing \cup {Reads(w, w)}
            /\ UNCHANGED wpc
  /\ UNCHANGED <<balance, debits, reversals, wstatus, paystackVars>>

RequestCommit(w) ==
  /\ \E t \in reversing : t[1] = w /\ CommitReversal(t)
  /\ wpc' = [wpc EXCEPT ![w] = AfterReversal(@)]

-----------------------------------------------------------------------------
(* The webhook endpoint. *)

\* Bug: the UPDATE does not look at the status the row has.
HookSucceededAlways(w) ==
  /\ <<"success", w>> \in transferEvents
  /\ wstatus' = [wstatus EXCEPT ![w] = "succeeded"]
  /\ UNCHANGED <<balance, debits, reversals, wpc, reversing, paystackVars>>

\* transfer.success: one conditional UPDATE.
HookSucceeded(w) ==
  /\ <<"success", w>> \in transferEvents
  /\ wstatus[w] \in {"processing", "pending"}
  /\ wstatus' = [wstatus EXCEPT ![w] = "succeeded"]
  /\ UNCHANGED <<balance, debits, reversals, wpc, reversing, paystackVars>>

\* Bug: every event named transfer.* is taken for a failure.
AnyTransferEvent(w) == \E s \in Final : <<s, w>> \in transferEvents

FailureEvent(w) == \E s \in {"failed", "reversed"} : <<s, w>> \in transferEvents

\* transfer.failed and transfer.reversed; a row already reversed is left alone.
HookFailed(h, w) ==
  /\ FailureEvent(w)
  /\ wstatus[w] \notin {"none", "reversed"}
  /\ Idle(h)
  /\ reversing' = reversing \cup {Reads(h, w)}
  /\ UNCHANGED <<balance, debits, reversals, wstatus, wpc, paystackVars>>

HookCommit(h, w) ==
  /\ \E t \in reversing : t[1] = h /\ t[2] = w /\ CommitReversal(t)
  /\ UNCHANGED wpc

-----------------------------------------------------------------------------
(* The server process dies, or its database fails the error path too: open   *)
(* transactions roll back and the handler takes no further step.             *)

RequestCrash(w) ==
  /\ wpc[w] \in Running \ {"start"}
  /\ wpc' = [wpc EXCEPT ![w] = "crashed"]
  /\ reversing' = {t \in reversing : t[1] # w}
  /\ UNCHANGED <<balance, debits, reversals, wstatus, paystackVars>>

HookCrash(h) ==
  /\ ~ Idle(h)
  /\ reversing' = {t \in reversing : t[1] # h}
  /\ UNCHANGED <<balance, debits, reversals, wstatus, wpc, paystackVars>>

-----------------------------------------------------------------------------
Request(w) ==
  \/ ReadBalance(w) \/ Debit(w) \/ SendTransfer(w)
  \/ ReceiveAnswer(w) \/ SaveOutcome(w) \/ SaveFails(w)
  \/ RequestReverse(w) \/ RequestCommit(w)

Paystack(w) == Accept(w) \/ Reject(w) \/ Settle(w)

Next ==
  \/ \E w \in Withdrawals :
       Request(w) \/ Timeout(w) \/ Paystack(w) \/ HookSucceeded(w) \/ RequestCrash(w)
  \/ \E h \in Handlers, w \in Withdrawals : HookFailed(h, w) \/ HookCommit(h, w)
  \/ \E h \in Handlers : HookCrash(h)

Spec == Init /\ [][Next]_wvars

\* Node runs a request to its end unless the process dies, the HTTP client gives
\* up after its timeout, and Paystack repeats a webhook until it is answered 200,
\* so one execution of it in the end neither crashes nor aborts.
Fairness ==
  /\ \A w \in Withdrawals : /\ WF_wvars(Request(w) \/ Timeout(w))
                             /\ SF_wvars(\E h \in Handlers : HookFailed(h, w))
                             /\ SF_wvars(\E h \in Handlers : HookCommit(h, w))

FairSpec == Spec /\ Fairness

-----------------------------------------------------------------------------
(* Properties. *)

\* Every table cell and every handler holds a value of its type, and a process
\* runs one refund transaction at a time.
TypeOK ==
  /\ balance \in Int
  /\ debits \subseteq Withdrawals /\ reversals \subseteq Withdrawals
  /\ wstatus \in [Withdrawals -> {"none", "processing", "succeeded", "reversed"}]
  /\ wpc \in [Withdrawals -> Phases]
  /\ transfer \in [Withdrawals -> TransferStates]
  /\ transferAnswer \in [Withdrawals -> {"none", "error", "pending", "success", "failed"}]
  /\ transferEvents \subseteq Final \X Withdrawals
  /\ reversing \subseteq (Withdrawals \cup Handlers) \X Withdrawals \X {"post", "mark"}

\* Money leaves for the bank only after the wallet was debited for it, and is
\* refunded only if it was debited: the order of the debit transaction and
\* initiateTransfer, across crashes and lost answers.
PayoutIsDebited ==
  /\ reversals \subseteq debits
  /\ \A w \in Withdrawals : transfer[w] # "none" => w \in debits

\* A row says 'reversed' only when its refund is in the ledger and 'succeeded'
\* only when Paystack said so, whichever of the request and the webhooks wrote it
\* last.
StatusIsBacked ==
  \A w \in Withdrawals :
    /\ wstatus[w] = "reversed" => w \in reversals
    /\ wstatus[w] = "succeeded" => <<"success", w>> \in transferEvents

\* Paystack told us that the transfer did not, or will not stay, paid.
TransferFailed(w) == <<"failed", w>> \in transferEvents \/ <<"reversed", w>> \in transferEvents

\* The withdrawal's request ended, or is ending, in its error path.
ErrorPath(w) == wpc[w] \in {"reverseInTry", "reverseInCatch", "error", "crashed"}

\* A withdrawal that was answered as accepted is refunded only if its transfer
\* failed or came back: paid and refunded both can happen to a request that
\* ended in an error (a timeout after Paystack accepted), and to no other.
RefundIsJustified ==
  \A w \in reversals : TransferFailed(w) \/ ErrorPath(w)

\* Once the request is over no webhook, late or repeated, takes a row out of
\* 'reversed'; only the request's own last update overwrites it.
ReversedIsFinal ==
  [][\A w \in Withdrawals :
       (wstatus[w] = "reversed" /\ wpc[w] # "answered") => wstatus'[w] = "reversed"]_wvars

\* A transfer the bank refused ends in a refund, through crashes of the request
\* and of the handlers, duplicates and races between them.
FailedTransferIsRefunded ==
  \A w \in Withdrawals : (<<"failed", w>> \in transferEvents) ~> (w \in reversals)

\* Debited money ends up with Paystack or back in the wallet, unless the process
\* died: no error path of the request keeps it.
DebitIsSettled ==
  \A w \in Withdrawals :
    (w \in debits) ~> \/ w \in reversals \/ wpc[w] = "crashed"
                      \/ transfer[w] \in {"pending", "success", "failed", "reversed"}

\* 'Insufficient wallet balance' (wallet.service.ts:522): no withdrawal overdraws
\* the wallet.
NoOverdraft == balance >= 0
=============================================================================
