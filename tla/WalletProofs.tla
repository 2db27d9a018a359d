---------------------------- MODULE WalletProofs ----------------------------
(***************************************************************************)
(* The safety of funding and of withdrawals, each by itself and both on    *)
(* one balance, for any number of requests and handlers; that together     *)
(* they implement the ledger of WalletLedger; and what an idempotency key  *)
(* promises their clients, for any number of calls, keys and payloads.     *)
(***************************************************************************)
EXTENDS Wallet, Idempotency, LibraryProofs

USE AccountAssumption, FundingAssumption, WithdrawalAssumption

-----------------------------------------------------------------------------
(* Withdrawals. *)

\* How far a request is tells whether its debit is committed, and nothing else
\* happens to a withdrawal before that.
PhaseInv ==
  \A w \in Withdrawals :
    /\ wpc[w] \in {"start", "debit", "rejected"} => w \notin debits
    /\ w \notin debits => wpc[w] \in {"start", "debit", "rejected", "crashed"}
    /\ w \in debits <=> wstatus[w] # "none"

\* What an open refund transaction knows: its withdrawal was debited and has a
\* reason to be refunded, it belongs to a request in its error path or to a
\* handler, and the refund it read as posted is.  A process has one at a time.
OneEach == \A t, u \in reversing : t[1] = u[1] => t = u

RefundInv ==
  \A t \in reversing :
    /\ t[2] \in debits
    /\ TransferFailed(t[2]) \/ ErrorPath(t[2])
    /\ t[1] \in Withdrawals => /\ t[2] = t[1]
                               /\ wpc[t[1]] \in {"reverseInTry", "reverseInCatch"}
    /\ t[3] = "mark" => t[2] \in reversals

\* Paystack answers that a transfer succeeded only after emitting its webhook.
TransferInv ==
  \A w \in Withdrawals : transferAnswer[w] = "success" => <<"success", w>> \in transferEvents

WithdrawalInv ==
  /\ TypeOK
  /\ PhaseInv
  /\ OneEach
  /\ RefundInv
  /\ TransferInv
  /\ PayoutIsDebited
  /\ StatusIsBacked
  /\ RefundIsJustified

\* What the commit of a refund transaction leaves behind when it does not abort: the
\* refund is posted, by this transaction or by the one it had seen.
LEMMA RefundEffect ==
  ASSUME TypeOK, NEW t \in reversing, CommitReversal(t), ~ Aborts(t),
         t[3] = "mark" => t[2] \in reversals
  PROVE  /\ reversing' = reversing \ {t} /\ UNCHANGED <<debits, paystackVars>>
         /\ wstatus' = [wstatus EXCEPT ![t[2]] = "reversed"]
         /\ reversals' = reversals \cup {t[2]} /\ balance' \in Int
<1>1. t[2] \in Withdrawals /\ t[3] \in {"post", "mark"}
  BY DEF TypeOK
<1>2. balance \in Int /\ WAmount[t[2]] \in Int
  BY <1>1 DEF TypeOK
<1>3. CASE t[3] = "post"
  BY <1>2, <1>3 DEF CommitReversal
<1>4. CASE t[3] = "mark"
  BY <1>2, <1>4 DEF CommitReversal
<1> QED
  BY <1>1, <1>3, <1>4

LEMMA InitWithdrawal == Init => WithdrawalInv
BY DEF Init, WithdrawalInv, TypeOK, PhaseInv, OneEach, RefundInv, TransferInv, PayoutIsDebited,
       StatusIsBacked, RefundIsJustified, Phases, TransferStates

LEMMA NextWithdrawal == WithdrawalInv /\ [Next]_wvars => WithdrawalInv'
<1> SUFFICES ASSUME WithdrawalInv, [Next]_wvars PROVE WithdrawalInv'
  OBVIOUS
<1> USE DEF WithdrawalInv, TypeOK, PhaseInv, OneEach, RefundInv, TransferInv, PayoutIsDebited,
            StatusIsBacked, RefundIsJustified, ErrorPath, TransferFailed, FailureEvent,
            Phases, TransferStates, Final, localVars, paystackVars
<1>1. ASSUME NEW w \in Withdrawals, ReadBalance(w) PROVE WithdrawalInv'
  BY <1>1 DEF ReadBalance
<1>2. ASSUME NEW w \in Withdrawals, Debit(w) PROVE WithdrawalInv'
  BY <1>2 DEF Debit
<1>3. ASSUME NEW w \in Withdrawals, SendTransfer(w) PROVE WithdrawalInv'
  BY <1>3 DEF SendTransfer
<1>4. ASSUME NEW w \in Withdrawals, Paystack(w) PROVE WithdrawalInv'
  BY <1>4 DEF Paystack, Accept, Reject, Settle, Emit
<1>5. ASSUME NEW w \in Withdrawals, Timeout(w) \/ ReceiveAnswer(w) PROVE WithdrawalInv'
  BY <1>5 DEF Timeout, ReceiveAnswer
<1>6. ASSUME NEW w \in Withdrawals, SaveOutcome(w) \/ SaveFails(w) PROVE WithdrawalInv'
  BY <1>6 DEF SaveOutcome, SaveFails, Outcome
<1>7. ASSUME NEW w \in Withdrawals, RequestReverse(w) PROVE WithdrawalInv'
  <2>1. CASE wstatus[w] = "reversed"
    BY <1>7, <2>1 DEF RequestReverse, AfterReversal, Idle
  <2>2. CASE wstatus[w] # "reversed"
    BY <1>7, <2>2 DEF RequestReverse, Reads, Idle
  <2> QED
    BY <2>1, <2>2
<1>8. ASSUME NEW w \in Withdrawals, RequestCommit(w) PROVE WithdrawalInv'
  <2>1. PICK t \in reversing : t[1] = w /\ CommitReversal(t)
    BY <1>8 DEF RequestCommit
  <2>2. /\ t \in (Withdrawals \cup Handlers) \X Withdrawals \X {"post", "mark"}
        /\ t[2] = w /\ w \in debits /\ wpc[w] \in {"reverseInTry", "reverseInCatch"}
    BY <2>1
  <2>3. wpc' = [wpc EXCEPT ![w] = AfterReversal(@)]
    BY <1>8 DEF RequestCommit
  <2>4. CASE Aborts(t)
    BY <2>1, <2>2, <2>3, <2>4 DEF CommitReversal, AfterReversal
  <2>5. CASE ~ Aborts(t)
    <3>1. /\ reversing' = reversing \ {t} /\ UNCHANGED <<debits, paystackVars>>
          /\ wstatus' = [wstatus EXCEPT ![w] = "reversed"]
          /\ reversals' = reversals \cup {w} /\ balance' \in Int
      BY <2>1, <2>5, RefundEffect
    <3>2. TransferFailed(w) \/ ErrorPath(w)
      BY <2>1
    <3> HIDE DEF Phases, TransferStates
    <3>3. TypeOK' /\ OneEach' /\ TransferInv'
      BY <2>2, <2>3, <3>1 DEF Phases, AfterReversal
    <3>4. PhaseInv' /\ PayoutIsDebited' /\ StatusIsBacked'
      BY <2>2, <2>3, <3>1 DEF AfterReversal
    <3>5. RefundInv' /\ RefundIsJustified'
      BY <2>1, <2>2, <2>3, <3>1, <3>2 DEF AfterReversal
    <3> QED
      BY <3>3, <3>4, <3>5
  <2> QED
    BY <2>4, <2>5
<1>9. ASSUME NEW w \in Withdrawals, HookSucceeded(w) PROVE WithdrawalInv'
  BY <1>9 DEF HookSucceeded
<1>10. ASSUME NEW h \in Handlers, NEW w \in Withdrawals, HookFailed(h, w) PROVE WithdrawalInv'
  BY <1>10 DEF HookFailed, Reads, Idle
<1>11. ASSUME NEW h \in Handlers, NEW w \in Withdrawals, HookCommit(h, w) PROVE WithdrawalInv'
  <2>1. PICK t \in reversing : t[1] = h /\ t[2] = w /\ CommitReversal(t)
    BY <1>11 DEF HookCommit
  <2>2. UNCHANGED wpc
    BY <1>11 DEF HookCommit
  <2>3. CASE Aborts(t)
    BY <2>1, <2>2, <2>3 DEF CommitReversal
  <2>4. CASE ~ Aborts(t)
    <3>1. /\ reversing' = reversing \ {t} /\ UNCHANGED <<debits, paystackVars>>
          /\ wstatus' = [wstatus EXCEPT ![w] = "reversed"]
          /\ reversals' = reversals \cup {w} /\ balance' \in Int
      BY <2>1, <2>4, RefundEffect
    <3>2. TransferFailed(w) \/ ErrorPath(w)
      BY <2>1
    <3> HIDE DEF Phases, TransferStates
    <3>3. TypeOK' /\ OneEach' /\ TransferInv'
      BY <2>2, <3>1 DEF Phases
    <3>4. PhaseInv' /\ PayoutIsDebited' /\ StatusIsBacked'
      <4>1. PhaseInv'
        BY <2>1, <2>2, <3>1
      <4>2. PayoutIsDebited'
        <5>1. w \in debits
          BY <2>1
        <5> QED
          BY <3>1, <5>1
      <4>3. StatusIsBacked'
        BY <3>1
      <4> QED
        BY <4>1, <4>2, <4>3
    <3>5. RefundInv' /\ RefundIsJustified'
      BY <2>1, <2>2, <3>1, <3>2
    <3> QED
      BY <3>3, <3>4, <3>5
  <2> QED
    BY <2>3, <2>4
<1>12. ASSUME NEW w \in Withdrawals, RequestCrash(w) PROVE WithdrawalInv'
  BY <1>12 DEF RequestCrash, Running
<1>13. ASSUME NEW h \in Handlers, HookCrash(h) PROVE WithdrawalInv'
  BY <1>13 DEF HookCrash
<1>14. CASE UNCHANGED wvars
  BY <1>14 DEF wvars
<1> QED
  BY <1>1, <1>2, <1>3, <1>4, <1>5, <1>6, <1>7, <1>8, <1>9, <1>10, <1>11, <1>12,
     <1>13, <1>14 DEF Next, Request

\* Types, and the three facts that tie a withdrawal's debit, transfer, refund and
\* status together, whatever the number of requests and handlers and however they
\* race, time out and crash.
THEOREM WithdrawalSafety == Spec => [](TypeOK /\ PayoutIsDebited /\ StatusIsBacked /\ RefundIsJustified)
<1>1. Spec => []WithdrawalInv
  BY InitWithdrawal, NextWithdrawal, PTL DEF Spec
<1> QED
  BY <1>1, PTL DEF WithdrawalInv

\* One step of ReversedIsFinal: only the request's own last update, and no webhook,
\* takes a withdrawal out of 'reversed'.
LEMMA ReversedStep ==
  ASSUME WithdrawalInv, [Next]_wvars, NEW w \in Withdrawals,
         wstatus[w] = "reversed", wpc[w] # "answered"
  PROVE  wstatus'[w] = "reversed"
<1> USE DEF WithdrawalInv, TypeOK, PhaseInv
<1>1. ASSUME NEW v \in Withdrawals, Debit(v) PROVE wstatus'[w] = "reversed"
  BY <1>1 DEF Debit
<1>2. ASSUME NEW v \in Withdrawals, SaveOutcome(v) PROVE wstatus'[w] = "reversed"
  BY <1>2 DEF SaveOutcome
<1>3. ASSUME NEW v \in Withdrawals, HookSucceeded(v) PROVE wstatus'[w] = "reversed"
  BY <1>3 DEF HookSucceeded
<1>4. ASSUME NEW t \in reversing, CommitReversal(t) PROVE wstatus'[w] = "reversed"
  BY <1>4 DEF CommitReversal
<1>5. ASSUME UNCHANGED wstatus PROVE wstatus'[w] = "reversed"
  BY <1>5
<1> QED
  BY <1>1, <1>2, <1>3, <1>4, <1>5
     DEF Next, Request, Paystack, ReadBalance, SendTransfer, Accept, Reject, Settle,
         Timeout, ReceiveAnswer, SaveFails, RequestReverse, RequestCommit, HookFailed,
         HookCommit, RequestCrash, HookCrash, localVars, wvars

\* A refunded withdrawal stays refunded in the eyes of its owner, for every instance.
THEOREM ReversedStays == Spec => ReversedIsFinal
<1>1. WithdrawalInv /\ [Next]_wvars =>
        [\A w \in Withdrawals :
           (wstatus[w] = "reversed" /\ wpc[w] # "answered") => wstatus'[w] = "reversed"]_wvars
  BY ReversedStep
<1>2. Spec => []WithdrawalInv
  BY InitWithdrawal, NextWithdrawal, PTL DEF Spec
<1> QED
  BY <1>1, <1>2, PTL DEF Spec, ReversedIsFinal

-----------------------------------------------------------------------------
(* Funding. *)

\* A request finalizes only a card charge that Paystack answered to have succeeded,
\* and such a charge has, as has one that a webhook reports; before the request
\* starts there is no charge.
ChargeInv ==
  /\ \A i \in chargeEvents : charge[i] = "success"
  /\ \A i \in Intents :
       /\ chargeAnswer[i] = "success" => charge[i] = "success"
       /\ fpc[i] = "finalize" => chargeAnswer[i] = "success"
       /\ fpc[i] = "start" => charge[i] = "none"

\* The row of a checkout exists before its user is sent to the checkout page.
CheckoutInv ==
  \A i \in HostedIntents :
    (fpc[i] = "ok" \/ charge[i] # "none") => intent[i] # "none"

\* An open call that will credit or mark has seen the money, of the right amount unless
\* its answer shows none, and the credit row if it will only mark; a request has its own,
\* and does not write FAILED.
FinalizeInv ==
  \A t \in finalizing :
    /\ t[1] \in Intents => t[2] = t[1] /\ t[3] # "fail"
    /\ t[3] # "fail" => charge[t[2]] = "success" /\ AmountMatches(t[2], t[4])
    /\ t[3] = "fail" => t[4] = "failing"
    /\ t[3] = "mark" => t[2] \in topups

FundingInv ==
  /\ FundingTypeOK
  /\ ChargeInv
  /\ CheckoutInv
  /\ FinalizeInv
  /\ CreditIsCollected
  /\ IntentIsBacked
  /\ AcknowledgedIsCredited

\* What the commit of a crediting transaction leaves behind when it does not abort.
LEMMA CreditEffect ==
  ASSUME FundingInv, NEW t \in finalizing, CommitCredit(t), ~ CreditAborts(t), t[3] # "fail"
  PROVE  /\ finalizing' = finalizing \ {t} /\ balance' \in Int
         /\ topups' = topups \cup {t[2]}
         /\ intent' = [intent EXCEPT ![t[2]] = "succeeded"]
         /\ confirmed' = [confirmed EXCEPT ![t[2]] = TRUE]
         /\ rawWebhook' = [rawWebhook EXCEPT ![t[2]] = t[4]]
<1>1. t[2] \in Intents /\ t[3] \in {"post", "mark"}
  BY DEF FundingInv, FundingTypeOK
<1>2. balance \in Int /\ FAmount[t[2]] \in Int
  BY <1>1 DEF FundingInv, FundingTypeOK
<1>3. CASE t[3] = "post"
  BY <1>2, <1>3 DEF CommitCredit
<1>4. CASE t[3] = "mark"
  BY <1>2, <1>4 DEF CommitCredit, FundingInv, FinalizeInv
<1> QED
  BY <1>1, <1>3, <1>4

LEMMA InitFunding == FundingInit => FundingInv
BY DEF FundingInit, FundingInv, FundingTypeOK, ChargeInv, CheckoutInv, FinalizeInv, CreditIsCollected,
       IntentIsBacked, AcknowledgedIsCredited, FundingPhases, Statuses, ChargeStates, Intents

LEMMA NextFunding == FundingInv /\ [FundingNext]_fvars => FundingInv'
<1> SUFFICES ASSUME FundingInv, [FundingNext]_fvars PROVE FundingInv'
  OBVIOUS
<1> USE DEF FundingInv, FundingTypeOK, ChargeInv, CheckoutInv, FinalizeInv, CreditIsCollected,
            IntentIsBacked, AcknowledgedIsCredited, AmountMatches, Answers, FundingPhases,
            Statuses, ChargeStates, row, requestVars, chargeVars
<1>0. HostedIntents \subseteq Intents
  BY DEF Intents
<1> USE <1>0
<1>1. ASSUME NEW i \in Intents, PayCheckout(i) PROVE FundingInv'
  BY <1>1 DEF PayCheckout, Charge
<1>2. ASSUME NEW i \in Intents, AcceptCharge(i) PROVE FundingInv'
  BY <1>2 DEF AcceptCharge, Charge
<1>3. ASSUME NEW i \in Intents, RejectCharge(i) \/ SettleCharge(i) PROVE FundingInv'
  <2>1. FundingTypeOK'
    BY <1>3 DEF RejectCharge, SettleCharge, Charge
  <2>2. ChargeInv' /\ CheckoutInv'
    BY <1>3 DEF RejectCharge, SettleCharge, Charge
  <2>3. FinalizeInv'
    BY <1>3 DEF RejectCharge, SettleCharge, Charge
  <2>4. CreditIsCollected' /\ IntentIsBacked'
    BY <1>3 DEF RejectCharge, SettleCharge, Charge
  <2>5. AcknowledgedIsCredited'
    BY <1>3 DEF RejectCharge, SettleCharge, Charge
  <2> QED
    BY <2>1, <2>2, <2>3, <2>4, <2>5
<1>4. ASSUME NEW i \in Intents, Initialize(i) \/ SendCharge(i) PROVE FundingInv'
  <2>1. CASE Initialize(i)
    BY <2>1 DEF Initialize, Goto
  <2>2. CASE SendCharge(i)
    <3>1. i \notin HostedIntents
      BY <2>2 DEF SendCharge
    <3>2. /\ fpc' = [fpc EXCEPT ![i] = "waiting"]
          /\ charge' = [charge EXCEPT ![i] = "sent"]
          /\ fpc[i] = "start"
          /\ UNCHANGED <<balance, topups, row, collected, chargeAnswer,
                         chargeEvents, finalizing>>
      BY <2>2 DEF SendCharge, Goto
    <3>3. FundingTypeOK' /\ CheckoutInv'
      BY <3>1, <3>2
    <3>4. charge[i] # "success"
      BY <3>2
    <3> QED
      BY <3>1, <3>2, <3>3, <3>4
  <2> QED
    BY <1>4, <2>1, <2>2
<1>5. ASSUME NEW i \in Intents, ChargeTimeout(i) \/ ChargeAnswered(i) PROVE FundingInv'
  <2>1. FundingTypeOK'
    BY <1>5 DEF ChargeTimeout, ChargeAnswered, Goto
  <2>2. ChargeInv' /\ CheckoutInv'
    BY <1>5 DEF ChargeTimeout, ChargeAnswered, Goto
  <2>3. FinalizeInv'
    BY <1>5 DEF ChargeTimeout, ChargeAnswered, Goto
  <2>4. CreditIsCollected' /\ IntentIsBacked'
    BY <1>5 DEF ChargeTimeout, ChargeAnswered, Goto
  <2>5. AcknowledgedIsCredited'
    BY <1>5 DEF ChargeTimeout, ChargeAnswered, Goto
  <2> QED
    BY <2>1, <2>2, <2>3, <2>4, <2>5
<1>6. ASSUME NEW i \in Intents, CreateIntent(i) PROVE FundingInv'
  <2>1. FundingTypeOK'
    BY <1>6 DEF CreateIntent, MapStatus, Goto
  <2>2. ChargeInv' /\ CheckoutInv'
    BY <1>6 DEF CreateIntent, MapStatus, Goto
  <2>3. FinalizeInv'
    BY <1>6 DEF CreateIntent, MapStatus, Goto
  <2>4. CreditIsCollected' /\ IntentIsBacked'
    BY <1>6 DEF CreateIntent, MapStatus, Goto
  <2>5. AcknowledgedIsCredited'
    BY <1>6 DEF CreateIntent, MapStatus, Goto
  <2> QED
    BY <2>1, <2>2, <2>3, <2>4, <2>5
<1>7. ASSUME NEW i \in Intents, RequestFinalize(i) PROVE FundingInv'
  <2>1. FundingTypeOK'
    BY <1>7 DEF RequestFinalize, CreditReads, Goto
  <2>2. ChargeInv' /\ CheckoutInv'
    BY <1>7 DEF RequestFinalize, CreditReads, Goto
  <2>3. FinalizeInv'
    BY <1>7 DEF RequestFinalize, CreditReads, Goto
  <2>4. CreditIsCollected' /\ IntentIsBacked'
    BY <1>7 DEF RequestFinalize, CreditReads, Goto
  <2>5. AcknowledgedIsCredited'
    BY <1>7 DEF RequestFinalize, CreditReads, Goto
  <2> QED
    BY <2>1, <2>2, <2>3, <2>4, <2>5
<1>8. ASSUME NEW i \in Intents, DropUnknown(i) PROVE FundingInv'
  BY <1>8 DEF DropUnknown
<1>9. ASSUME NEW i \in Intents, FundingCrash(i) PROVE FundingInv'
  BY <1>9 DEF FundingCrash, Goto
<1>10. ASSUME NEW h \in Handlers, NEW i \in Intents, HookCharged(h, i) PROVE FundingInv'
  <2>1. FundingTypeOK'
    BY <1>10 DEF HookCharged, CreditReads
  <2>2. ChargeInv' /\ CheckoutInv'
    BY <1>10 DEF HookCharged, CreditReads
  <2>3. FinalizeInv'
    BY <1>10 DEF HookCharged, CreditReads
  <2>4. CreditIsCollected' /\ IntentIsBacked'
    BY <1>10 DEF HookCharged, CreditReads
  <2>5. AcknowledgedIsCredited'
    BY <1>10 DEF HookCharged, CreditReads
  <2> QED
    BY <2>1, <2>2, <2>3, <2>4, <2>5
<1>11. ASSUME NEW h \in Handlers, NEW i \in Intents, Confirm(h, i) PROVE FundingInv'
  BY <1>11 DEF Confirm, CreditReads, MapStatus
<1>12. ASSUME NEW h \in Handlers, ConfirmFails(h) PROVE FundingInv'
  BY <1>12 DEF ConfirmFails
<1>13. ASSUME NEW h \in Handlers, HandlerCrash(h) PROVE FundingInv'
  BY <1>13 DEF HandlerCrash
<1>14. ASSUME NEW i \in Intents, FundingCommit(i) PROVE FundingInv'
  <2>1. PICK t \in finalizing :
           t[1] = i /\ CommitCredit(t) /\ Goto(i, IF CreditAborts(t) THEN "error" ELSE "ok")
    BY <1>14 DEF FundingCommit
  <2>2. UNCHANGED <<charge, collected, chargeAnswer, chargeEvents>>
    BY <1>14 DEF FundingCommit
  <2>3. CASE CreditAborts(t)
    BY <2>1, <2>2, <2>3 DEF CommitCredit, Goto
  <2>4. CASE ~ CreditAborts(t)
    <3>1. /\ finalizing' = finalizing \ {t} /\ balance' \in Int
          /\ topups' = topups \cup {t[2]}
          /\ intent' = [intent EXCEPT ![t[2]] = "succeeded"]
          /\ confirmed' = [confirmed EXCEPT ![t[2]] = TRUE]
          /\ rawWebhook' = [rawWebhook EXCEPT ![t[2]] = t[4]]
      BY <2>1, <2>4, CreditEffect
    <3>2. t[2] \in Intents /\ charge[t[2]] = "success" /\ AmountMatches(t[2], t[4])
      BY <2>1
    <3>3. FundingTypeOK'
      BY <2>1, <2>2, <2>4, <3>1, <3>2 DEF Goto
    <3>4. ChargeInv' /\ CheckoutInv'
      BY <2>1, <2>2, <2>4, <3>1, <3>2 DEF Goto
    <3>5. FinalizeInv'
      BY <2>1, <2>2, <2>4, <3>1, <3>2 DEF Goto
    <3>6. CreditIsCollected' /\ IntentIsBacked'
      BY <2>1, <2>2, <2>4, <3>1, <3>2 DEF Goto
    <3>7. AcknowledgedIsCredited'
      BY <2>1, <2>2, <2>4, <3>1, <3>2 DEF Goto
    <3> QED
      BY <3>3, <3>4, <3>5, <3>6, <3>7
  <2> QED
    BY <2>3, <2>4
<1>15. ASSUME NEW h \in Handlers, NEW i \in Intents, HandlerCommit(h, i) PROVE FundingInv'
  <2>1. PICK t \in finalizing :
           /\ t[2] = i /\ t[3] # "fail" /\ CommitCredit(t)
           /\ chargeEvents' \in {chargeEvents} \cup
                                (IF CreditAborts(t) THEN {} ELSE {chargeEvents \ {i}})
    BY <1>15 DEF HandlerCommit
  <2>2. UNCHANGED <<fpc, charge, collected, chargeAnswer>>
    BY <1>15 DEF HandlerCommit
  <2>3. CASE CreditAborts(t)
    BY <2>1, <2>2, <2>3 DEF CommitCredit, Goto
  <2>4. CASE ~ CreditAborts(t)
    <3>1. /\ finalizing' = finalizing \ {t} /\ balance' \in Int
          /\ topups' = topups \cup {t[2]}
          /\ intent' = [intent EXCEPT ![t[2]] = "succeeded"]
          /\ confirmed' = [confirmed EXCEPT ![t[2]] = TRUE]
          /\ rawWebhook' = [rawWebhook EXCEPT ![t[2]] = t[4]]
      BY <2>1, <2>4, CreditEffect
    <3>2. t[2] \in Intents /\ charge[t[2]] = "success" /\ AmountMatches(t[2], t[4])
      BY <2>1
    <3>3. FundingTypeOK'
      BY <2>1, <2>2, <2>4, <3>1, <3>2 DEF Goto
    <3>4. ChargeInv' /\ CheckoutInv'
      BY <2>1, <2>2, <2>4, <3>1, <3>2 DEF Goto
    <3>5. FinalizeInv'
      BY <2>1, <2>2, <2>4, <3>1, <3>2 DEF Goto
    <3>6. CreditIsCollected' /\ IntentIsBacked'
      BY <2>1, <2>2, <2>4, <3>1, <3>2 DEF Goto
    <3>7. AcknowledgedIsCredited'
      BY <2>1, <2>2, <2>4, <3>1, <3>2 DEF Goto
    <3> QED
      BY <3>3, <3>4, <3>5, <3>6, <3>7
  <2> QED
    BY <2>3, <2>4
<1>16. CASE UNCHANGED fvars
  BY <1>16 DEF fvars
<1> QED
  BY <1>1, <1>2, <1>3, <1>4, <1>5, <1>6, <1>7, <1>8, <1>9, <1>10, <1>11, <1>12,
     <1>13, <1>14, <1>15, <1>16 DEF FundingNext, FundingRequest, PaystackCharges

\* Types, and: what is credited Paystack collected, to exactly the amount unless the answer
\* that the row keeps names none; a row that says so was paid and credited, and a checkout's
\* webhook is never acknowledged in vain, whatever the number of requests and handlers.
THEOREM FundingSafety ==
  FundingSpec => [](FundingTypeOK /\ CreditIsCollected /\ IntentIsBacked /\ AcknowledgedIsCredited)
<1>1. FundingSpec => []FundingInv
  BY InitFunding, NextFunding, PTL DEF FundingSpec
<1> QED
  BY <1>1, PTL DEF FundingInv

-----------------------------------------------------------------------------
(* Both on one balance. *)

WalletInv == WithdrawalInv /\ FundingInv

\* What of it the ledger rests on: a request debits at most once, a refund is only open
\* for a debited withdrawal, and open transactions are about requests that exist.
DebitInv ==
  /\ balance \in Int
  /\ debits \subseteq Withdrawals
  /\ \A w \in Withdrawals : wpc[w] = "debit" => w \notin debits
  /\ \A t \in reversing : t[2] \in debits
  /\ \A t \in finalizing : t[2] \in Intents

LEMMA DebitsAreKept == WalletInv => DebitInv
BY DEF WalletInv, WithdrawalInv, TypeOK, PhaseInv, RefundInv, FundingInv, FundingTypeOK, DebitInv

\* A step of the funding side posts one credit, or leaves the ledger alone.
LEMMA FundingPosts ==
  ASSUME DebitInv, FundingNext
  PROVE  \/ UNCHANGED <<balance, topups>>
         \/ \E i \in Intents : i \notin topups /\ topups' = topups \cup {i}
                               /\ balance' = balance + FAmount[i]
<1> DEFINE Posts == \E i \in Intents : i \notin topups /\ topups' = topups \cup {i}
                               /\ balance' = balance + FAmount[i]
<1>1. ASSUME NEW t \in finalizing, CommitCredit(t) PROVE UNCHANGED <<balance, topups>> \/ Posts
  <2>1. CASE t[3] = "post" /\ t[2] \notin topups
    <3>1. t[2] \in Intents
      BY DEF DebitInv
    <3>2. topups' = topups \cup {t[2]} /\ balance' = balance + FAmount[t[2]]
      BY <1>1, <2>1 DEF CommitCredit, CreditAborts
    <3> QED
      BY <2>1, <3>1, <3>2
  <2>2. CASE ~ (t[3] = "post" /\ t[2] \notin topups)
    BY <1>1, <2>2 DEF CommitCredit, CreditAborts
  <2> QED
    BY <2>1, <2>2
<1>2. CASE \E t \in finalizing : CommitCredit(t)
  BY <1>1, <1>2
<1>3. CASE UNCHANGED <<balance, topups>>
  BY <1>3
<1> QED
  BY <1>2, <1>3
     DEF FundingNext, FundingRequest, PaystackCharges, PayCheckout, AcceptCharge, RejectCharge,
         SettleCharge, Initialize, SendCharge, ChargeTimeout, ChargeAnswered,
         CreateIntent, RequestFinalize, FundingCommit, DropUnknown,
         HookCharged, Confirm, HandlerCommit, ConfirmFails, FundingCrash,
         HandlerCrash

\* A step of the withdrawal side posts one debit, or one refund of a debit, or leaves
\* the ledger alone.
LEMMA WithdrawalPosts ==
  ASSUME DebitInv, Next
  PROVE  \/ UNCHANGED <<balance, debits, reversals>>
         \/ \E w \in Withdrawals : /\ w \notin debits /\ debits' = debits \cup {w}
                                  /\ balance' = balance - WAmount[w]
                                  /\ UNCHANGED reversals
         \/ \E w \in debits : /\ w \notin reversals /\ reversals' = reversals \cup {w}
                             /\ balance' = balance + WAmount[w]
                             /\ UNCHANGED debits
<1> DEFINE Debits == \E w \in Withdrawals : /\ w \notin debits /\ debits' = debits \cup {w}
                                          /\ balance' = balance - WAmount[w]
                                          /\ UNCHANGED reversals
           Refunds == \E w \in debits : /\ w \notin reversals
                                      /\ reversals' = reversals \cup {w}
                                      /\ balance' = balance + WAmount[w]
                                      /\ UNCHANGED debits
<1>1. ASSUME NEW w \in Withdrawals, Debit(w) PROVE Debits
  BY <1>1 DEF Debit, DebitInv
<1>2. ASSUME NEW t \in reversing, CommitReversal(t)
      PROVE  UNCHANGED <<balance, debits, reversals>> \/ Refunds
  <2>1. CASE t[3] = "post" /\ t[2] \notin reversals
    <3>1. t[2] \in debits
      BY DEF DebitInv
    <3>2. /\ reversals' = reversals \cup {t[2]} /\ balance' = balance + WAmount[t[2]]
          /\ UNCHANGED debits
      BY <1>2, <2>1 DEF CommitReversal, Aborts
    <3> QED
      BY <2>1, <3>1, <3>2
  <2>2. CASE ~ (t[3] = "post" /\ t[2] \notin reversals)
    BY <1>2, <2>2 DEF CommitReversal, Aborts
  <2> QED
    BY <2>1, <2>2
<1>3. CASE UNCHANGED <<balance, debits, reversals>>
  BY <1>3
<1>4. CASE \E w \in Withdrawals : Debit(w)
  BY <1>1, <1>4
<1>5. CASE \E t \in reversing : CommitReversal(t)
  BY <1>2, <1>5
<1> QED
  BY <1>3, <1>4, <1>5
     DEF Next, Request, Paystack, ReadBalance, SendTransfer, Accept,
         Reject, Settle, Timeout, ReceiveAnswer, SaveOutcome, SaveFails,
         RequestReverse, RequestCommit, HookSucceeded, HookFailed, HookCommit,
         RequestCrash, HookCrash, localVars, paystackVars

\* Either side leaves the other alone, but for the balance.
LEMMA InitWallet == WalletInit => WalletInv
BY InitWithdrawal, InitFunding DEF WalletInit, WalletInv

LEMMA NextWallet == WalletInv /\ [WalletNext]_vars => WalletInv'
<1> SUFFICES ASSUME WalletInv, [WalletNext]_vars PROVE WalletInv'
  OBVIOUS
<1>1. ASSUME UNCHANGED withdrawalOnly, balance' \in Int PROVE WithdrawalInv'
  BY <1>1 DEF withdrawalOnly, WalletInv, WithdrawalInv, TypeOK, PhaseInv, OneEach, RefundInv,
              TransferInv, PayoutIsDebited, StatusIsBacked, RefundIsJustified, TransferFailed,
              ErrorPath, FailureEvent
<1>2. ASSUME UNCHANGED fundingOnly, balance' \in Int PROVE FundingInv'
  BY <1>2 DEF fundingOnly, WalletInv, FundingInv, FundingTypeOK, ChargeInv, CheckoutInv,
              FinalizeInv, CreditIsCollected, IntentIsBacked, AcknowledgedIsCredited,
              AmountMatches, row
<1>3. CASE FundingStep
  <2>1. FundingInv'
    BY <1>3, NextFunding DEF FundingStep, WalletInv
  <2>2. balance' \in Int
    BY <2>1 DEF FundingInv, FundingTypeOK
  <2> QED
    BY <1>1, <1>3, <2>1, <2>2 DEF FundingStep, WalletInv
<1>4. CASE WithdrawalStep
  <2>1. WithdrawalInv'
    BY <1>4, NextWithdrawal DEF WithdrawalStep, WalletInv
  <2>2. balance' \in Int
    BY <2>1 DEF WithdrawalInv, TypeOK
  <2> QED
    BY <1>2, <1>4, <2>1, <2>2 DEF WithdrawalStep, WalletInv
<1>5. CASE UNCHANGED vars
  <2>1. balance' \in Int
    BY <1>5 DEF vars, WalletInv, WithdrawalInv, TypeOK
  <2> QED
    BY <1>1, <1>2, <1>5, <2>1 DEF vars, WalletInv
<1> QED
  BY <1>3, <1>4, <1>5 DEF WalletNext

LEMMA WalletInvariant == WalletSpec => []WalletInv
BY InitWallet, NextWallet, PTL DEF WalletSpec

\* All of the above hold of the wallet as it is, where funding and withdrawals change the
\* same balance under each other's requests.
THEOREM WalletSafety ==
  WalletSpec => [](/\ PayoutIsDebited /\ StatusIsBacked /\ RefundIsJustified
                   /\ CreditIsCollected /\ IntentIsBacked /\ AcknowledgedIsCredited)
<1>1. WalletInv => /\ PayoutIsDebited /\ StatusIsBacked /\ RefundIsJustified
                   /\ CreditIsCollected /\ IntentIsBacked /\ AcknowledgedIsCredited
  BY DEF WalletInv, WithdrawalInv, FundingInv
<1> QED
  BY <1>1, WalletInvariant, PTL

\* Funding takes no refund back either.
THEOREM WalletReversedStays == WalletSpec => ReversedIsFinal
<1>1. WalletInv /\ [WalletNext]_vars =>
        [\A w \in Withdrawals :
           (wstatus[w] = "reversed" /\ wpc[w] # "answered") => wstatus'[w] = "reversed"]_wvars
  BY ReversedStep DEF WalletInv, WalletNext, FundingStep, WithdrawalStep, vars, fundingOnly,
                      withdrawalOnly, wvars, localVars, paystackVars
<1> QED
  BY <1>1, WalletInvariant, PTL DEF WalletSpec, ReversedIsFinal

-----------------------------------------------------------------------------
LEMMA InitLedger == WalletInit => Ledger!Init
BY DEF WalletInit, FundingInit, Init, Ledger!Init, entries

LEMMA StepLedger == DebitInv /\ [WalletNext]_vars => [Ledger!Next]_(Ledger!lvars)
<1> SUFFICES ASSUME DebitInv, [WalletNext]_vars PROVE [Ledger!Next]_(Ledger!lvars)
  OBVIOUS
<1> USE DEF Ledger!Next, Ledger!Post, Ledger!Signed, Ledger!Entry, Ledger!lvars
<1>1. CASE FundingStep
  <2>1. UNCHANGED <<debits, reversals>>
    BY <1>1 DEF FundingStep, withdrawalOnly
  <2>2. CASE UNCHANGED <<balance, topups>>
    BY <2>1, <2>2 DEF entries
  <2>3. ASSUME NEW i \in Intents, i \notin topups, topups' = topups \cup {i},
               balance' = balance + FAmount[i]
        PROVE  Ledger!Next
    <3>1. entries' = entries \cup {<<"topup", i>>} /\ <<"topup", i>> \notin entries
      BY <2>1, <2>3 DEF entries
    <3> QED
      BY <2>3, <3>1
  <2> QED
    BY <1>1, <2>2, <2>3, FundingPosts DEF FundingStep
<1>2. CASE WithdrawalStep
  <2>1. UNCHANGED topups
    BY <1>2 DEF WithdrawalStep, fundingOnly
  <2>2. CASE UNCHANGED <<balance, debits, reversals>>
    BY <2>1, <2>2 DEF entries
  <2>3. ASSUME NEW w \in Withdrawals, w \notin debits, debits' = debits \cup {w},
               balance' = balance - WAmount[w], UNCHANGED reversals
        PROVE  Ledger!Next
    <3>1. entries' = entries \cup {<<"debit", w>>} /\ <<"debit", w>> \notin entries
      BY <2>1, <2>3 DEF entries
    <3>2. balance' = balance + (-WAmount[w])
      BY <2>3 DEF DebitInv
    <3> QED
      BY <3>1, <3>2
  <2>4. ASSUME NEW w \in debits, w \notin reversals, reversals' = reversals \cup {w},
               balance' = balance + WAmount[w], UNCHANGED debits
        PROVE  Ledger!Next
    <3>1. /\ entries' = entries \cup {<<"reversal", w>>} /\ <<"reversal", w>> \notin entries
          /\ <<"debit", w>> \in entries /\ w \in Withdrawals
      BY <2>1, <2>4 DEF entries, DebitInv
    <3> QED
      BY <2>4, <3>1
  <2> QED
    BY <1>2, <2>2, <2>3, <2>4, WithdrawalPosts DEF WithdrawalStep
<1>3. CASE UNCHANGED vars
  BY <1>3 DEF vars, fundingOnly, withdrawalOnly, entries
<1> QED
  BY <1>1, <1>2, <1>3 DEF WalletNext

\* Every behaviour of the wallet, with its races, retries and crashes, is a behaviour
\* of the abstract ledger: rows once each, refunds of debits only, and the balance
\* moved by every row exactly when the row appears.
THEOREM WalletImplementsLedger == WalletSpec => ImplementsLedger
<1>1. WalletSpec => []DebitInv
  BY WalletInvariant, DebitsAreKept, PTL
<1> QED
  BY <1>1, InitLedger, StepLedger, PTL DEF WalletSpec, ImplementsLedger, Ledger!Spec

-----------------------------------------------------------------------------
(* The balance and the rows behind it. *)

\* At any moment there are finitely many rows, however many there may be.
PostedInv ==
  /\ IsFiniteSet(topups) /\ IsFiniteSet(debits) /\ IsFiniteSet(reversals)
  /\ topups \subseteq Intents /\ reversals \subseteq Withdrawals
  /\ BalanceIsPosted

LEMMA InitPosted == WalletInit => PostedInv
<1>1. OpeningBalance = ((OpeningBalance + 0) + 0) - 0
  OBVIOUS
<1> QED
  BY <1>1, SumOfNone, FS_EmptySet DEF WalletInit, FundingInit, Init, PostedInv, BalanceIsPosted

\* The three sums are integers, and so is what they leave.
LEMMA SumsAreInts ==
  ASSUME DebitInv, PostedInv
  PROVE  /\ SumFunctionOnSet(FAmount, topups) \in Int
         /\ SumFunctionOnSet(WAmount, reversals) \in Int
         /\ SumFunctionOnSet(WAmount, debits) \in Int
<1>1. /\ \A i \in topups : FAmount[i] \in Int
      /\ \A w \in reversals \cup debits : WAmount[w] \in Int
  BY DEF DebitInv, PostedInv
<1> QED
  BY <1>1, SumType DEF PostedInv

\* A step that posts a row adds its amount to one sum and to the balance, and one that
\* posts none changes neither.
LEMMA NextPosted == DebitInv /\ PostedInv /\ [WalletNext]_vars => PostedInv'
<1> SUFFICES ASSUME DebitInv, PostedInv, [WalletNext]_vars PROVE PostedInv'
  OBVIOUS
<1> DEFINE in == SumFunctionOnSet(FAmount, topups)
           back == SumFunctionOnSet(WAmount, reversals)
           out == SumFunctionOnSet(WAmount, debits)
<1>1. /\ in \in Int /\ back \in Int /\ out \in Int /\ OpeningBalance \in Int
      /\ balance = OpeningBalance + in + back - out
  BY SumsAreInts DEF PostedInv, BalanceIsPosted
<1>2. CASE UNCHANGED <<balance, topups, debits, reversals>>
  BY <1>2 DEF PostedInv, BalanceIsPosted
<1>3. ASSUME NEW i \in Intents, i \notin topups, topups' = topups \cup {i},
             balance' = balance + FAmount[i], UNCHANGED <<debits, reversals>>
      PROVE  PostedInv'
  <2>1. /\ SumFunctionOnSet(FAmount, topups)' = in + FAmount[i] /\ FAmount[i] \in Int
        /\ IsFiniteSet(topups')
    BY <1>3, SumAdd DEF PostedInv
  <2> HIDE DEF in, back, out
  <2>2. balance' = OpeningBalance + (in + FAmount[i]) + back - out
    BY <1>1, <1>3, <2>1
  <2> QED
    BY <1>3, <2>1, <2>2 DEF PostedInv, BalanceIsPosted, back, out
<1>4. ASSUME NEW w \in Withdrawals, w \notin debits, debits' = debits \cup {w},
             balance' = balance - WAmount[w], UNCHANGED <<topups, reversals>>
      PROVE  PostedInv'
  <2>1. /\ SumFunctionOnSet(WAmount, debits)' = out + WAmount[w] /\ WAmount[w] \in Int
        /\ IsFiniteSet(debits')
    BY <1>4, SumAdd DEF PostedInv, DebitInv
  <2> HIDE DEF in, back, out
  <2>2. balance' = OpeningBalance + in + back - (out + WAmount[w])
    BY <1>1, <1>4, <2>1
  <2> QED
    BY <1>4, <2>1, <2>2 DEF PostedInv, BalanceIsPosted, in, back
<1>5. ASSUME NEW w \in debits, w \notin reversals, reversals' = reversals \cup {w},
             balance' = balance + WAmount[w], UNCHANGED <<topups, debits>>
      PROVE  PostedInv'
  <2>1. /\ SumFunctionOnSet(WAmount, reversals)' = back + WAmount[w] /\ WAmount[w] \in Int
        /\ IsFiniteSet(reversals') /\ w \in Withdrawals
    BY <1>5, SumAdd DEF PostedInv, DebitInv
  <2> HIDE DEF in, back, out
  <2>2. balance' = OpeningBalance + in + (back + WAmount[w]) - out
    BY <1>1, <1>5, <2>1
  <2> QED
    BY <1>5, <2>1, <2>2 DEF PostedInv, BalanceIsPosted, in, out
<1>6. CASE FundingStep
  BY <1>2, <1>3, <1>6, FundingPosts DEF FundingStep, withdrawalOnly
<1>7. CASE WithdrawalStep
  BY <1>2, <1>4, <1>5, <1>7, WithdrawalPosts DEF WithdrawalStep, fundingOnly
<1>8. CASE UNCHANGED vars
  BY <1>2, <1>8 DEF vars, fundingOnly, withdrawalOnly
<1> QED
  BY <1>6, <1>7, <1>8 DEF WalletNext

\* For any requests and amounts, the balance column is at every moment the sum of the rows
\* of wallet_transactions: nothing in createWalletWithdrawal, finalizeFundingIntent or
\* markWithdrawalFailedAndReverse moves the one without the other.
THEOREM WalletIsAudited == WalletSpec => []BalanceIsPosted
<1>1. WalletSpec => []DebitInv
  BY WalletInvariant, DebitsAreKept, PTL
<1>2. WalletSpec => []PostedInv
  BY <1>1, InitPosted, NextPosted, PTL DEF WalletSpec
<1> QED
  BY <1>2, PTL DEF PostedInv

-----------------------------------------------------------------------------
(* Idempotency keys. *)

USE IdempotencyAssumption

\* Calls that created the row of their key and whose action runs or took effect.
Owns(c) == cpc[c] \in {"act", "complete", "fail"} \/ c \in effects

\* A key has one owner, whose payload its row holds; the owner's effect comes between
\* the row and its completion.
OwnerInv ==
  /\ \A c, d \in Calls : Owns(c) /\ Owns(d) /\ KeyOf[c] = KeyOf[d] => c = d
  /\ \A c \in Calls : Owns(c) => status[KeyOf[c]] # "none" /\ SamePayload(c)
  /\ \A c \in Calls : /\ cpc[c] = "act" => c \notin effects
                      /\ cpc[c] = "complete" => c \in effects

\* A completed row holds the outcome of its owner, and only calls that returned are
\* answered.
ResponseInv ==
  /\ \A k \in Keys : status[k] = "completed" =>
       /\ response[k] \in effects
       /\ KeyOf[response[k]] = k /\ hash[k] = HashOf[response[k]]
  /\ \A c \in Calls : answer[c] # NoCall => cpc[c] = "returned"

IdempotencyInv == IdempotencyTypeOK /\ OwnerInv /\ ResponseInv /\ EffectOnce /\ AnswerIsOwn

LEMMA InitIdempotency == IdempotencyInit => IdempotencyInv
BY DEF IdempotencyInit, IdempotencyInv, IdempotencyTypeOK, OwnerInv, ResponseInv, EffectOnce, AnswerIsOwn, Owns, CallPhases

LEMMA NextIdempotency == IdempotencyInv /\ [IdempotencyNext]_ivars => IdempotencyInv'
<1> SUFFICES ASSUME IdempotencyInv, [IdempotencyNext]_ivars PROVE IdempotencyInv'
  OBVIOUS
<1> USE DEF IdempotencyInv, IdempotencyTypeOK, OwnerInv, ResponseInv, EffectOnce, AnswerIsOwn, Owns,
            SamePayload, CallPhases, keyTable, CallGoes
<1>1. ASSUME NEW c \in Calls, Lookup(c) PROVE IdempotencyInv'
  <2>1. CASE status[KeyOf[c]] = "none"
    BY <1>1, <2>1 DEF Lookup
  <2>2. CASE Decide(c) /\ cpc[c] = "start"
    BY <2>2 DEF Decide
  <2> QED
    BY <1>1, <2>1, <2>2 DEF Lookup
<1>2. ASSUME NEW c \in Calls, Create(c) PROVE IdempotencyInv'
  BY <1>2 DEF Create
<1>3. ASSUME NEW c \in Calls, Reread(c) PROVE IdempotencyInv'
  BY <1>3 DEF Reread, Decide
<1>4. ASSUME NEW c \in Calls, ActionReturns(c) PROVE IdempotencyInv'
  BY <1>4 DEF ActionReturns
<1>5. ASSUME NEW c \in Calls, ActionThrows(c) PROVE IdempotencyInv'
  BY <1>5 DEF ActionThrows
<1>6. ASSUME NEW c \in Calls, SaveCompleted(c) PROVE IdempotencyInv'
  BY <1>6 DEF SaveCompleted
<1>7. ASSUME NEW c \in Calls, SaveCompletedFails(c) PROVE IdempotencyInv'
  BY <1>7 DEF SaveCompletedFails
<1>8. ASSUME NEW c \in Calls, SaveFailed(c) PROVE IdempotencyInv'
  BY <1>8 DEF SaveFailed
<1>9. ASSUME NEW c \in Calls, Crash(c) PROVE IdempotencyInv'
  BY <1>9 DEF Crash, UnderWay
<1>10. CASE UNCHANGED ivars
  BY <1>10 DEF ivars
<1> QED
  BY <1>1, <1>2, <1>3, <1>4, <1>5, <1>6, <1>7, <1>8, <1>9, <1>10 DEF IdempotencyNext

\* Under one key the action takes effect at most once, and every answer is the
\* outcome of that run for the same payload.
THEOREM IdempotencySafety == IdempotencySpec => [](IdempotencyTypeOK /\ EffectOnce /\ AnswerIsOwn)
<1>1. IdempotencySpec => []IdempotencyInv
  BY InitIdempotency, NextIdempotency, PTL DEF IdempotencySpec
<1> QED
  BY <1>1, PTL DEF IdempotencyInv

-----------------------------------------------------------------------------
LEMMA StepOnceOnly == IdempotencyInv /\ [IdempotencyNext]_ivars => [Promise!Next]_(Promise!ovars)
<1> SUFFICES ASSUME IdempotencyInv, [IdempotencyNext]_ivars PROVE [Promise!Next]_(Promise!ovars)
  OBVIOUS
<1> USE DEF IdempotencyInv, IdempotencyTypeOK, Promise!Next, Promise!ovars, keyTable, CallGoes
<1>1. ASSUME NEW c \in Calls, c \notin effects, effects' = effects \cup {c}, Owns(c),
             UNCHANGED answer
      PROVE  Promise!Next
  BY <1>1 DEF OwnerInv, Owns, Promise!Apply
<1>2. ASSUME NEW c \in Calls, NEW d \in effects, cpc[c] # "returned",
             KeyOf[c] = KeyOf[d], HashOf[c] = HashOf[d],
             answer' = [answer EXCEPT ![c] = d], UNCHANGED effects
      PROVE  Promise!Next
  BY <1>2 DEF ResponseInv, Promise!Reply, Promise!SameRequest
<1>3. ASSUME NEW c \in Calls, ActionReturns(c) \/ ActionThrows(c)
      PROVE  [Promise!Next]_(Promise!ovars)
  <2>1. c \notin effects /\ Owns(c) /\ UNCHANGED answer
    BY <1>3 DEF ActionReturns, ActionThrows, OwnerInv, Owns
  <2>2. effects' = effects \cup {c} \/ UNCHANGED effects
    BY <1>3 DEF ActionReturns, ActionThrows
  <2> QED
    BY <2>1, <2>2, <1>1
<1>4. ASSUME NEW c \in Calls, Decide(c), cpc[c] # "returned"
      PROVE  [Promise!Next]_(Promise!ovars)
  <2>1. CASE SamePayload(c) /\ status[KeyOf[c]] = "completed"
    <3>1. /\ response[KeyOf[c]] \in effects
          /\ KeyOf[response[KeyOf[c]]] = KeyOf[c]
          /\ HashOf[response[KeyOf[c]]] = HashOf[c]
      BY <2>1 DEF ResponseInv, SamePayload
    <3>2. answer' = [answer EXCEPT ![c] = response[KeyOf[c]]] /\ UNCHANGED effects
      BY <1>4, <2>1 DEF Decide
    <3> QED
      BY <1>2, <1>4, <3>1, <3>2
  <2>2. CASE ~ (SamePayload(c) /\ status[KeyOf[c]] = "completed")
    BY <1>4, <2>2 DEF Decide
  <2> QED
    BY <2>1, <2>2
<1>5. ASSUME NEW c \in Calls, SaveCompleted(c) PROVE [Promise!Next]_(Promise!ovars)
  <2>1. c \in effects /\ cpc[c] # "returned"
    BY <1>5 DEF SaveCompleted, OwnerInv
  <2> QED
    BY <1>2, <1>5, <2>1 DEF SaveCompleted
<1>6. CASE UNCHANGED <<effects, answer>>
  BY <1>6
<1> QED
  BY <1>3, <1>4, <1>5, <1>6
     DEF IdempotencyNext, Lookup, Create, Reread, SaveCompletedFails, SaveFailed, Crash, ivars

\* The wrapper implements what an idempotency key promises its clients.
THEOREM WrapperKeepsPromise == IdempotencySpec => ImplementsOnceOnly
<1>1. IdempotencyInit => Promise!Init
  BY DEF IdempotencyInit, Promise!Init
<1>2. IdempotencySpec => []IdempotencyInv
  BY InitIdempotency, NextIdempotency, PTL DEF IdempotencySpec
<1> QED
  BY <1>1, <1>2, StepOnceOnly, PTL DEF IdempotencySpec, ImplementsOnceOnly, Promise!Spec
=============================================================================
