------------------------------ MODULE Funding -------------------------------
(***************************************************************************)
(* Wallet funding: createWalletFunding (wallet.service.ts:199) with a      *)
(* saved card or through Paystack's checkout page, confirmWalletFunding,   *)
(* the charge.success webhook, and the crediting transaction all three     *)
(* run, finalizeFundingIntent.                                             *)
(*                                                                         *)
(* As in Withdrawal, a transaction is two steps, its reads and its commit, *)
(* and an external call is a request and an answer that may be lost; the   *)
(* definitions marked as bugs are not part of the specification.           *)
(***************************************************************************)
EXTENDS Account

CONSTANTS
  CardIntents,     \* funding requests that charge a saved card
  HostedIntents,   \* funding requests that send the user to a checkout page
  FAmount,         \* amountMinor of each request
  Collectable      \* amounts Paystack may report for a charge

Intents == CardIntents \cup HostedIntents

ASSUME FundingAssumption ==
  /\ CardIntents \cap HostedIntents = {}
  /\ Intents \cap Handlers = {}
  /\ FAmount \in [Intents -> Nat \ {0}]
  /\ Collectable \subseteq Nat

VARIABLES
  topups,          \* intents whose row WLT_TOPUP_<id> is in wallet_transactions
  intent,          \* payment_intents.status, "none" before the row exists
  confirmed,       \* payment_intents.confirmed_at is set
  rawWebhook,      \* what answer payment_intents.raw_webhook holds, "none" before one
  fpc,             \* where the request's handler stands
  charge,          \* Paystack's state of the charge with the request's reference
  collected,       \* the amount Paystack reports for it, 0 before it succeeds
  chargeAnswer,    \* what Paystack answers to chargeAuthorization
  chargeEvents,    \* charge.success webhooks not yet acknowledged
  finalizing       \* open calls <<process, intent, what they will write, their answer>>

row          == <<intent, confirmed, rawWebhook>>
requestVars  == <<row, fpc>>
chargeVars   == <<charge, collected, chargeAnswer, chargeEvents>>
fvars        == <<balance, topups, requestVars, chargeVars, finalizing>>

FundingPhases == {"start", "create", "waiting", "finalize", "ok", "error", "crashed"}
Statuses == {"none", "initialized", "pending", "succeeded", "failed"}
ChargeStates == {"none", "sent", "rejected", "pending", "success", "failed"}

FundingInit ==
  /\ balance = OpeningBalance
  /\ topups = {} /\ finalizing = {} /\ chargeEvents = {}
  /\ intent = [i \in Intents |-> "none"]
  /\ confirmed = [i \in Intents |-> FALSE]
  /\ rawWebhook = [i \in Intents |-> "none"]
  /\ fpc = [i \in Intents |-> "start"]
  /\ charge = [i \in Intents |-> "none"]
  /\ collected = [i \in Intents |-> 0]
  /\ chargeAnswer = [i \in Intents |-> "none"]

-----------------------------------------------------------------------------
(* Paystack (external). *)

\* The charge of i reaches state s; one that succeeds collects some amount and
\* emits a webhook.
Charge(i, s) ==
  /\ charge' = [charge EXCEPT ![i] = s]
  /\ IF s = "success"
       THEN /\ \E a \in Collectable : collected' = [collected EXCEPT ![i] = a]
            /\ chargeEvents' = chargeEvents \cup {i}
       ELSE UNCHANGED <<collected, chargeEvents>>

\* The user pays, or tries again, on the checkout page the answer pointed to.
PayCheckout(i) ==
  /\ i \in HostedIntents
  /\ fpc[i] = "ok"
  /\ charge[i] \in {"none", "failed"}
  /\ \E s \in {"pending", "success", "failed"} : Charge(i, s)
  /\ UNCHANGED <<balance, topups, requestVars, chargeAnswer, finalizing>>

\* The card charge arrives, possibly after the caller stopped waiting.
AcceptCharge(i) ==
  /\ charge[i] = "sent"
  /\ \E s \in {"pending", "success", "failed"} :
       Charge(i, s) /\ chargeAnswer' = [chargeAnswer EXCEPT ![i] = s]
  /\ UNCHANGED <<balance, topups, requestVars, finalizing>>

\* Refused with an HTTP error, or lost on the way.
RejectCharge(i) ==
  /\ charge[i] = "sent"
  /\ charge' = [charge EXCEPT ![i] = "rejected"]
  /\ chargeAnswer' = [chargeAnswer EXCEPT ![i] = "error"]
  /\ UNCHANGED <<balance, topups, requestVars, collected, chargeEvents, finalizing>>

SettleCharge(i) ==
  /\ charge[i] = "pending"
  /\ \E s \in {"success", "failed"} : Charge(i, s)
  /\ UNCHANGED <<balance, topups, requestVars, chargeAnswer, finalizing>>

-----------------------------------------------------------------------------
(* finalizeFundingIntent, run by requests, confirm and the webhook. *)

\* Bug: a charge under way counts as paid.
PendingIsPaid(s) == IF s \in {"pending", "success"} THEN "succeeded" ELSE "failed"

\* mapPaystackStatusToPaymentIntentStatus over the charge states of this model.
MapStatus(s) == IF s = "success" THEN "succeeded"
                ELSE IF s \in {"none", "failed", "rejected"} THEN "failed"
                ELSE "pending"

\* An answer about a successful charge shows the amount collected, or no amount that
\* extractPaystackAmount can read; any answer of Paystack may be the one or the other.
Answers == {"priced", "silent"}

AnyAmount(i, answer) == TRUE      \* bug: the reported amount is not compared

\* Only an amount that is there is compared.
AmountMatches(i, answer) == answer = "silent" \/ collected[i] = FAmount[i]

CreditReads(p, i, answer) == <<p, i, IF i \in topups THEN "mark" ELSE "post", answer>>

\* A credit row that another transaction inserted meanwhile breaks the unique
\* index; Postgres fails every later statement, so the transaction rolls back.
CreditNeverAborts(t) == FALSE   \* bug: no unique index on wallet_transactions.reference

CreditAborts(t) == t[3] = "post" /\ t[2] \in topups

CommitCredit(t) ==
  /\ finalizing' = finalizing \ {t}
  /\ IF CreditAborts(t)
       THEN UNCHANGED <<balance, topups, row>>
       ELSE /\ IF t[3] = "post"
                 THEN /\ topups' = topups \cup {t[2]}
                      /\ balance' = balance + FAmount[t[2]]
                 ELSE UNCHANGED <<balance, topups>>
            /\ intent' = [intent EXCEPT ![t[2]] = "succeeded"]
            /\ confirmed' = [confirmed EXCEPT ![t[2]] = TRUE]
            /\ rawWebhook' = [rawWebhook EXCEPT ![t[2]] = t[4]]

NoneOpen(p) == \A t \in finalizing : t[1] # p

-----------------------------------------------------------------------------
(* The request. *)

Goto(i, phase) == fpc' = [fpc EXCEPT ![i] = phase]

\* initializeTransaction: an answer with a checkout URL, or an error.
Initialize(i) ==
  /\ i \in HostedIntents /\ fpc[i] = "start"
  /\ \E phase \in {"create", "error"} : Goto(i, phase)
  /\ UNCHANGED <<balance, topups, row, chargeVars, finalizing>>

\* chargeAuthorization, before any row about the charge exists.
SendCharge(i) ==
  /\ i \in CardIntents /\ fpc[i] = "start"
  /\ Goto(i, "waiting")
  /\ charge' = [charge EXCEPT ![i] = "sent"]
  /\ UNCHANGED <<balance, topups, row, collected, chargeAnswer,
                 chargeEvents, finalizing>>

ChargeTimeout(i) ==
  /\ fpc[i] = "waiting"
  /\ Goto(i, "error")
  /\ UNCHANGED <<balance, topups, row, chargeVars, finalizing>>

ChargeAnswered(i) ==
  /\ fpc[i] = "waiting"
  /\ chargeAnswer[i] # "none"
  /\ Goto(i, IF chargeAnswer[i] = "error" THEN "error" ELSE "create")
  /\ UNCHANGED <<balance, topups, row, chargeVars, finalizing>>

\* paymentIntent.create: a checkout starts INITIALIZED; a card charge takes the
\* status of the answer and, when it succeeded, is credited by the request.
CreateIntent(i) ==
  /\ fpc[i] = "create"
  /\ IF i \in HostedIntents
       THEN /\ intent' = [intent EXCEPT ![i] = "initialized"]
            /\ Goto(i, "ok")
       ELSE /\ intent' = [intent EXCEPT ![i] = MapStatus(chargeAnswer[i])]
            /\ Goto(i, IF MapStatus(chargeAnswer[i]) = "succeeded" THEN "finalize" ELSE "ok")
  /\ UNCHANGED <<balance, topups, confirmed, rawWebhook, chargeVars, finalizing>>

RequestFinalize(i) ==
  /\ fpc[i] = "finalize" /\ NoneOpen(i)
  /\ \E answer \in Answers :
       IF AmountMatches(i, answer)
         THEN finalizing' = finalizing \cup {CreditReads(i, i, answer)} /\ UNCHANGED fpc
         ELSE Goto(i, "error") /\ UNCHANGED finalizing
  /\ UNCHANGED <<balance, topups, row, chargeVars>>

FundingCommit(i) ==
  /\ \E t \in finalizing :
       /\ t[1] = i
       /\ CommitCredit(t)
       /\ Goto(i, IF CreditAborts(t) THEN "error" ELSE "ok")
  /\ UNCHANGED chargeVars

-----------------------------------------------------------------------------
(* The webhook endpoint and confirmWalletFunding. *)

\* Bug: the webhook answers 200 whatever finalizeFundingByReference throws.
DropOnAnyError(i) ==
  /\ i \in chargeEvents
  /\ intent[i] = "none" \/ ~ AmountMatches(i, "priced")
  /\ chargeEvents' = chargeEvents \ {i}
  /\ UNCHANGED <<balance, topups, requestVars, charge, collected, chargeAnswer, finalizing>>

\* A webhook for a reference no row has yet is acknowledged and forgotten.
DropUnknown(i) ==
  /\ i \in chargeEvents
  /\ intent[i] = "none"
  /\ chargeEvents' = chargeEvents \ {i}
  /\ UNCHANGED <<balance, topups, requestVars, charge, collected, chargeAnswer, finalizing>>

\* Bug: an intent that confirm marked FAILED is taken for settled.
HookSkipsFailed(h, i) ==
  /\ i \in chargeEvents
  /\ intent[i] \notin {"none", "failed"}
  /\ NoneOpen(h)
  /\ \E answer \in Answers :
       AmountMatches(i, answer) /\ finalizing' = finalizing \cup {CreditReads(h, i, answer)}
  /\ UNCHANGED <<balance, topups, requestVars, chargeVars>>

\* An amount that does not match throws: nothing changes and Paystack retries.
HookCharged(h, i) ==
  /\ i \in chargeEvents
  /\ intent[i] # "none"
  /\ NoneOpen(h)
  /\ \E answer \in Answers :
       AmountMatches(i, answer) /\ finalizing' = finalizing \cup {CreditReads(h, i, answer)}
  /\ UNCHANGED <<balance, topups, requestVars, chargeVars>>

\* confirm: return early on a confirmed row, otherwise ask Paystack; a charge that
\* is not successful, or not yet, will be written down as FAILED.
Confirm(h, i) ==
  /\ intent[i] # "none"
  /\ ~ (intent[i] = "succeeded" /\ confirmed[i])
  /\ NoneOpen(h)
  /\ IF MapStatus(charge[i]) = "succeeded"
       THEN \E answer \in Answers :
              /\ AmountMatches(i, answer)
              /\ finalizing' = finalizing \cup {CreditReads(h, i, answer)}
       ELSE finalizing' = finalizing \cup {<<h, i, "fail", "failing">>}
  /\ UNCHANGED <<balance, topups, requestVars, chargeVars>>

\* A handler commits; the webhook's 200 may be lost, so the event may stay.
HandlerCommit(h, i) ==
  /\ \E t \in finalizing :
       /\ t[1] = h /\ t[2] = i /\ t[3] # "fail"
       /\ CommitCredit(t)
       /\ chargeEvents' \in {chargeEvents} \cup
                            (IF CreditAborts(t) THEN {} ELSE {chargeEvents \ {i}})
  /\ UNCHANGED <<fpc, charge, collected, chargeAnswer>>

\* The update is unconditional: it also overwrites a row credited meanwhile, and the
\* answer that credited it.
ConfirmFails(h) ==
  /\ \E t \in finalizing :
       /\ t[1] = h /\ t[3] = "fail"
       /\ finalizing' = finalizing \ {t}
       /\ intent' = [intent EXCEPT ![t[2]] = "failed"]
       /\ rawWebhook' = [rawWebhook EXCEPT ![t[2]] = t[4]]
  /\ UNCHANGED <<balance, topups, confirmed, fpc, chargeVars>>

-----------------------------------------------------------------------------
(* The server process dies: open transactions roll back. *)

FundingCrash(i) ==
  /\ fpc[i] \in {"create", "waiting", "finalize"}
  /\ Goto(i, "crashed")
  /\ finalizing' = {t \in finalizing : t[1] # i}
  /\ UNCHANGED <<balance, topups, row, chargeVars>>

HandlerCrash(h) ==
  /\ ~ NoneOpen(h)
  /\ finalizing' = {t \in finalizing : t[1] # h}
  /\ UNCHANGED <<balance, topups, requestVars, chargeVars>>

-----------------------------------------------------------------------------
FundingRequest(i) ==
  \/ Initialize(i) \/ SendCharge(i) \/ ChargeAnswered(i) \/ CreateIntent(i)
  \/ RequestFinalize(i) \/ FundingCommit(i)

PaystackCharges(i) == PayCheckout(i) \/ AcceptCharge(i) \/ RejectCharge(i) \/ SettleCharge(i)

FundingNext ==
  \/ \E i \in Intents :
       \/ FundingRequest(i) \/ ChargeTimeout(i) \/ FundingCrash(i)
       \/ PaystackCharges(i) \/ DropUnknown(i)
  \/ \E h \in Handlers, i \in Intents :
       HookCharged(h, i) \/ Confirm(h, i) \/ HandlerCommit(h, i)
  \/ \E h \in Handlers : ConfirmFails(h) \/ HandlerCrash(h)

FundingSpec == FundingInit /\ [][FundingNext]_fvars

\* Node runs a handler to its end unless the process dies, and Paystack repeats a
\* webhook until it is answered 200, so one execution of it in the end commits.
FundingFairness ==
  /\ \A i \in Intents : /\ SF_fvars(\E h \in Handlers : HookCharged(h, i))
                        /\ SF_fvars(\E h \in Handlers : HandlerCommit(h, i))
  /\ \A h \in Handlers : WF_fvars(ConfirmFails(h))

FundingFairSpec == FundingSpec /\ FundingFairness

-----------------------------------------------------------------------------
(* Properties. *)

\* Every table cell and every handler holds a value of its type.
FundingTypeOK ==
  /\ balance \in Int
  /\ topups \subseteq Intents /\ chargeEvents \subseteq Intents
  /\ intent \in [Intents -> Statuses]
  /\ confirmed \in [Intents -> BOOLEAN]
  /\ fpc \in [Intents -> FundingPhases]
  /\ charge \in [Intents -> ChargeStates]
  /\ collected \in [Intents -> Nat]
  /\ chargeAnswer \in [Intents -> {"none", "error", "pending", "success", "failed"}]
  /\ rawWebhook \in [Intents -> {"none", "failing"} \cup Answers]
  /\ finalizing \subseteq (Intents \cup Handlers) \X Intents \X {"post", "mark", "fail"}
                              \X ({"failing"} \cup Answers)

\* The wallet is credited only for a charge that succeeded, whichever of the request,
\* confirm and the webhook gets there first; and a credit that is not the amount
\* collected shows in the row: the answer kept there names no amount, because that was
\* the answer which credited it, or because a late failure has overwritten it.
CreditIsCollected ==
  \A i \in topups :
    /\ charge[i] = "success"
    /\ collected[i] = FAmount[i] \/ rawWebhook[i] \in {"silent", "failing"}

\* What confirm's early return and every reader of the row rely on: a row marked
\* SUCCEEDED was paid, and one that is confirmed was credited, although the row
\* of a card charge is created SUCCEEDED before its credit.
IntentIsBacked ==
  \A i \in Intents :
    /\ intent[i] = "succeeded" => charge[i] = "success"
    /\ confirmed[i] <=> i \in topups

\* The webhook of a checkout payment is acknowledged only once the money is in the
\* wallet: the row exists before the user can pay, so it is never dropped as an
\* unknown reference.  (A saved-card charge has no such promise: its row is
\* created after the charge.)
AcknowledgedIsCredited ==
  \A i \in HostedIntents :
    (charge[i] = "success" /\ i \notin chargeEvents) => i \in topups

\* A payment of the right amount on the checkout page is credited in the end, through handler crashes,
\* aborted commits and confirm calls that wrote FAILED before the money arrived.
PaidCheckoutIsCredited ==
  \A i \in HostedIntents :
    (charge[i] = "success" /\ collected[i] = FAmount[i]) ~> (i \in topups)
=============================================================================
