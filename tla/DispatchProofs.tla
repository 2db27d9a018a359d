--------------------------- MODULE DispatchProofs ---------------------------
(***************************************************************************)
(* The safety of Dispatch, and that it implements Matching, for any number *)
(* of providers, mutations in flight and jobs, and any amounts; and that   *)
(* of Reconcile, which gets the shipments broadcast, for any number of     *)
(* shipments and attempts and any setting of the batch.                    *)
(***************************************************************************)
EXTENDS Dispatch, Reconcile, TLAPS

\* What a mutation has read and still relies on when it writes.
ReadsHold ==
  \A r \in Requests :
    /\ doing[r].op \in {"decline", "countering", "counter"} => doing[r].p \in Providers
    /\ doing[r].op = "counter" => doing[r].amount \in CounterAmounts \ {0}
    /\ doing[r].op \in {"driving", "drive"} => assignee # NoProvider

\* A counter offer has an amount.
CountersHaveAmounts ==
  \A p \in Providers : offer[p] = "countered" => counter[p] # 0

\* The assignment is one row.
OneRow == assignee = NoProvider <=> astatus = "none"

SafeInv == OneWinner /\ PriceIsAgreed /\ ProgressIsBacked

IInv == TypeOK /\ SafeInv /\ ReadsHold /\ CountersHaveAmounts /\ OneRow

USE DispatchAssumption DEF pricing

LEMMA InitInv == Init => IInv
<1> SUFFICES ASSUME Init PROVE IInv
  OBVIOUS
<1>1. edited \in BOOLEAN /\ PriceIsAgreed
  BY DEF Init, PriceIsAgreed
<1>2. TypeOK
  BY <1>1 DEF Init, TypeOK, Statuses, OfferStatuses, Mutations, Idle, Free
<1>3. OneWinner /\ ProgressIsBacked /\ ReadsHold /\ CountersHaveAmounts /\ OneRow
  BY DEF Init, OneWinner, ProgressIsBacked, ReadsHold, CountersHaveAmounts, OneRow, Idle
<1> QED
  BY <1>1, <1>2, <1>3 DEF IInv, SafeInv

-----------------------------------------------------------------------------
\* A dispatch job sends offers to providers without one, and touches no price and no
\* assignment.
LEMMA JobInv ==
  ASSUME IInv, NEW w \in Workers,
         JobReads(w) \/ JobBatch(w) \/ JobCommits(w) \/ JobCrashes(w)
  PROVE  IInv'
<1> USE DEF IInv, SafeInv, OneWinner, PriceIsAgreed, ProgressIsBacked, ReadsHold,
            CountersHaveAmounts, OneRow, shipment, assignment, offers
<1>1. CASE JobReads(w) \/ JobBatch(w) \/ JobCrashes(w)
  <2>1. TypeOK'
    BY <1>1 DEF TypeOK, JobReads, JobBatch, JobCrashes, EligibleSets, Free
  <2>2. UNCHANGED <<shipment, offers, assignment, doing>>
    BY <1>1 DEF JobReads, JobBatch, JobCrashes
  <2> QED
    BY <2>1, <2>2
<1>2. CASE JobCommits(w)
  <2>1. TypeOK'
    BY <1>2 DEF TypeOK, JobCommits, SendOffers, Statuses, OfferStatuses, Free
  <2>2. UNCHANGED <<pricing, counter, assignment, doing>> /\ status' \in {status, "broadcasting"}
    BY <1>2 DEF JobCommits
  <2>3. \A p \in Providers :
          /\ offer'[p] \in {"accepted", "countered"} => offer'[p] = offer[p]
          /\ offer[p] = "accepted" => batch' = batch
    BY <1>2 DEF JobCommits, SendOffers, TypeOK
  <2>4. OneWinner'
    BY <2>2, <2>3
  <2>5. CountersHaveAmounts'
    BY <2>2, <2>3
  <2>6. ReadsHold' /\ PriceIsAgreed' /\ ProgressIsBacked' /\ OneRow'
    BY <2>2
  <2> QED
    BY <2>1, <2>4, <2>5, <2>6
<1> QED
  BY <1>1, <1>2

-----------------------------------------------------------------------------
\* What the two acceptances share: a free shipment, or the winner's own one.
LEMMA AssignWins ==
  ASSUME TypeOK, OneWinner, NEW p \in Providers, CanAssign(p), Assign(p)
  PROVE  /\ OneWinner'
         /\ \A q \in Providers : offer'[q] = "countered" => FALSE
<1>1. \A q \in Providers : offer'[q] = IF q = p THEN "accepted" ELSE
                                      IF offer[q] \in {"sent", "countered"} THEN "cancelled"
                                      ELSE offer[q]
  BY DEF Assign
<1>2. \A q \in Providers : offer[q] = "accepted" => q = p
  BY DEF OneWinner, CanAssign
<1> QED
  BY <1>1, <1>2 DEF OneWinner, Assign

LEMMA AcceptInv ==
  ASSUME IInv, NEW p \in Providers, Accept(p) \/ OwnerAccepts(p)
  PROVE  IInv'
<1> USE DEF IInv, SafeInv
<1>1. CanAssign(p) /\ Assign(p) /\ UNCHANGED <<counter, doing, job>>
  BY DEF Accept, OwnerAccepts
<1>2. TypeOK'
  <2>1. edited' \in BOOLEAN
    BY DEF Accept, OwnerAccepts, TypeOK
  <2>2. price' \in Nat /\ agreed' \in Nat
    BY DEF Accept, OwnerAccepts, TypeOK
  <2> QED
    BY <1>1, <2>1, <2>2 DEF TypeOK, Assign, Statuses, OfferStatuses
<1>3. OneWinner' /\ CountersHaveAmounts'
  BY <1>1, AssignWins DEF CountersHaveAmounts
<1>4. PriceIsAgreed'
  BY <1>1 DEF PriceIsAgreed, Accept, OwnerAccepts, Assign, CanAssign
<1>5. ProgressIsBacked' /\ ReadsHold' /\ OneRow'
  BY <1>1 DEF ProgressIsBacked, ReadsHold, OneRow, Assign
<1> QED
  BY <1>2, <1>3, <1>4, <1>5

-----------------------------------------------------------------------------
\* A handler's reads change nothing but what it is about to do.
LEMMA ReadInv ==
  ASSUME IInv, NEW r \in Requests,
         \/ \E p \in Providers : ProviderReads(r, p) \/ OwnerReads(r, p)
         \/ CounterReads(r) \/ DriverStarts(r) \/ DriverReads(r)
         \/ CancelReads(r) \/ EditReads(r) \/ Abandon(r)
  PROVE  IInv'
<1> USE DEF IInv, SafeInv, shipment, offers, assignment
<1>1. UNCHANGED <<shipment, offers, assignment, job>>
  BY DEF ProviderReads, OwnerReads, CounterReads, DriverStarts, DriverReads,
         CancelReads, EditReads, Abandon, Begin
<1>2. PICK m \in Mutations :
        /\ doing' = [doing EXCEPT ![r] = m]
        /\ m.op \in {"decline", "countering", "counter"} => m.p \in Providers
        /\ m.op = "counter" => m.amount \in CounterAmounts \ {0}
        /\ m.op \in {"driving", "drive"} => assignee # NoProvider
  <2> DEFINE Fits(m) ==
        /\ doing' = [doing EXCEPT ![r] = m]
        /\ m.op \in {"decline", "countering", "counter"} => m.p \in Providers
        /\ m.op = "counter" => m.amount \in CounterAmounts \ {0}
        /\ m.op \in {"driving", "drive"} => assignee # NoProvider
  <2>0. doing[r] \in Mutations /\ Idle \in Mutations
    BY DEF TypeOK, Mutations, Idle, Statuses
  <2>1. ASSUME NEW p \in Providers, ProviderReads(r, p) \/ OwnerReads(r, p)
        PROVE  \E m \in Mutations : Fits(m)
    <3>1. PICK op \in {"decline", "countering"} :
            doing' = [doing EXCEPT ![r] = [Idle EXCEPT !.op = op, !.p = p]]
      BY <2>1 DEF ProviderReads, OwnerReads, Begin
    <3>2. [Idle EXCEPT !.op = op, !.p = p] \in Mutations
      BY DEF Idle, Mutations, Statuses
    <3> QED
      BY <3>1, <3>2 DEF Idle
  <2>2. CASE CounterReads(r)
    <3>1. PICK a \in CounterAmounts :
            /\ a > price
            /\ doing' = [doing EXCEPT ![r] = [@ EXCEPT !.op = "counter", !.amount = a]]
      BY <2>2 DEF CounterReads
    <3> DEFINE m == [doing[r] EXCEPT !.op = "counter", !.amount = a]
    <3>2. m \in Mutations /\ m.op = "counter" /\ m.amount = a /\ m.p = doing[r].p
      BY <2>0 DEF Mutations
    <3>3. a # 0
      BY <3>1 DEF TypeOK
    <3>4. doing[r].p \in Providers
      BY <2>2 DEF CounterReads, ReadsHold
    <3> QED
      BY <3>1, <3>2, <3>3, <3>4
  <2>3. CASE DriverStarts(r)
    <3>1. PICK to \in Progress : doing' = [doing EXCEPT ![r] = [Idle EXCEPT !.op = "driving", !.to = to]]
      BY <2>3 DEF DriverStarts, Begin
    <3>2. [Idle EXCEPT !.op = "driving", !.to = to] \in Mutations
      BY DEF Idle, Mutations, Statuses, Progress
    <3> QED
      BY <2>3, <3>1, <3>2 DEF Idle, DriverStarts
  <2>4. CASE DriverReads(r)
    <3> DEFINE m == [doing[r] EXCEPT !.op = "drive"]
    <3>1. m \in Mutations /\ m.op = "drive"
      BY <2>0 DEF Mutations
    <3> QED
      BY <2>4, <3>1 DEF DriverReads, ReadsHold
  <2>5. CASE CancelReads(r)
    <3> DEFINE m == [Idle EXCEPT !.op = "cancel"]
    <3>1. m \in Mutations /\ m.op = "cancel"
      BY <2>0 DEF Mutations, Idle
    <3> QED
      BY <2>5, <3>1 DEF CancelReads, Begin
  <2>6. CASE EditReads(r)
    <3> DEFINE m == [Idle EXCEPT !.op = "edit"]
    <3>1. m \in Mutations /\ m.op = "edit"
      BY <2>0 DEF Mutations, Idle
    <3> QED
      BY <2>6, <3>1 DEF EditReads, Begin
  <2>7. CASE Abandon(r)
    BY <2>7, <2>0 DEF Abandon, End, Idle
  <2> QED
    BY <2>1, <2>2, <2>3, <2>4, <2>5, <2>6, <2>7
<1>3. TypeOK'
  BY <1>1, <1>2 DEF TypeOK
<1>4. ReadsHold'
  BY <1>1, <1>2 DEF ReadsHold, TypeOK
<1> QED
  BY <1>1, <1>3, <1>4
     DEF OneWinner, PriceIsAgreed, ProgressIsBacked, CountersHaveAmounts, OneRow

\* A handler that ends leaves the other handlers' reads as they were.
LEMMA EndKeepsReads ==
  ASSUME TypeOK, ReadsHold, NEW r \in Requests, End(r),
         assignee # NoProvider => assignee' # NoProvider
  PROVE  doing' \in [Requests -> Mutations] /\ ReadsHold'
BY DEF TypeOK, ReadsHold, End, Idle, Mutations, Statuses

\* A late decline or counter offer of a provider cannot make it a winner; a late
\* report of the driver finds the assignment it read.
LEMMA WriteInv ==
  ASSUME IInv, NEW r \in Requests,
         \/ CounterWrites(r) \/ DeclineWrites(r) \/ DriverWrites(r)
         \/ CancelWrites(r) \/ EditWrites(r)
  PROVE  IInv'
<1> USE DEF IInv, SafeInv, shipment, offers, assignment
<1>1. End(r) /\ UNCHANGED <<batch, assignee, agreed, job>>
  BY DEF CounterWrites, DeclineWrites, DriverWrites, CancelWrites, EditWrites
<1>2. doing' \in [Requests -> Mutations] /\ ReadsHold'
  BY <1>1, EndKeepsReads
<1>3. doing[r] \in Mutations
  BY DEF TypeOK
<1>4. CASE CounterWrites(r) \/ DeclineWrites(r)
  <2>1. doing[r].p \in Providers /\ UNCHANGED <<shipment, assignment>>
    BY <1>4 DEF ReadsHold, CounterWrites, DeclineWrites
  <2>2. doing[r].op = "counter" => doing[r].amount \in Nat \ {0}
    BY DEF ReadsHold
  <2>3. TypeOK'
    BY <1>1, <1>2, <1>4, <2>1, <2>2 DEF TypeOK, CounterWrites, DeclineWrites, OfferStatuses
  <2>4. CountersHaveAmounts' /\ OneWinner'
    BY <1>1, <1>4, <2>1, <2>2
       DEF TypeOK, CounterWrites, DeclineWrites, CountersHaveAmounts, OneWinner
  <2> QED
    BY <1>1, <1>2, <2>1, <2>3, <2>4 DEF PriceIsAgreed, ProgressIsBacked, OneRow
<1>5. CASE DriverWrites(r)
  <2>1. assignee # NoProvider /\ doing[r].to \in Statuses
    BY <1>3, <1>5 DEF ReadsHold, DriverWrites, Mutations
  <2>2. TypeOK'
    BY <1>1, <1>2, <1>5, <2>1 DEF TypeOK, DriverWrites
  <2> QED
    BY <1>1, <1>2, <1>5, <2>1, <2>2
       DEF DriverWrites, OneWinner, PriceIsAgreed, ProgressIsBacked, CountersHaveAmounts, OneRow
<1>6. CASE CancelWrites(r)
  <2>1. TypeOK'
    BY <1>1, <1>2, <1>6 DEF TypeOK, CancelWrites, Statuses
  <2> QED
    BY <1>1, <1>2, <1>6, <2>1
       DEF CancelWrites, OneWinner, PriceIsAgreed, ProgressIsBacked, CountersHaveAmounts, OneRow
<1>7. CASE EditWrites(r)
  <2>1. TypeOK'
    BY <1>1, <1>2, <1>7 DEF TypeOK, EditWrites
  <2> QED
    BY <1>1, <1>2, <1>7, <2>1
       DEF EditWrites, OneWinner, PriceIsAgreed, ProgressIsBacked, CountersHaveAmounts, OneRow
<1> QED
  BY <1>4, <1>5, <1>6, <1>7

LEMMA NextInv == IInv /\ [Next]_dvars => IInv'
<1> SUFFICES ASSUME IInv, [Next]_dvars PROVE IInv'
  OBVIOUS
<1>1. ASSUME NEW w \in Workers, JobReads(w) \/ JobBatch(w) \/ JobCommits(w) \/ JobCrashes(w)
      PROVE  IInv'
  BY <1>1, JobInv
<1>2. ASSUME NEW p \in Providers, Accept(p) \/ OwnerAccepts(p) PROVE IInv'
  BY <1>2, AcceptInv
<1>3. ASSUME NEW r \in Requests, Mutation(r) PROVE IInv'
  BY <1>3, ReadInv, WriteInv DEF Mutation
<1>4. CASE UNCHANGED dvars
  BY <1>4 DEF dvars, shipment, offers, assignment, IInv, SafeInv, TypeOK, OneWinner,
              PriceIsAgreed, ProgressIsBacked, ReadsHold, CountersHaveAmounts, OneRow
<1> QED
  BY <1>1, <1>2, <1>3, <1>4 DEF Next

-----------------------------------------------------------------------------
\* Every column has its type, one provider at most is told that it won, the shipment
\* costs what was agreed unless its customer has edited the price since, and its status
\* never runs ahead of its assignment (dispatch.service.ts:629-722, 896-1031,
\* 1033-1175, shipments.service.ts:948-1086).
THEOREM Safety == Spec => [](TypeOK /\ OneWinner /\ PriceIsAgreed /\ ProgressIsBacked)
<1>1. IInv => TypeOK /\ OneWinner /\ PriceIsAgreed /\ ProgressIsBacked
  BY DEF IInv, SafeInv
<1> QED
  BY <1>1, InitInv, NextInv, PTL DEF Spec

\* No late acceptance reopens or reprices delivered work (the check on the assignment's
\* status, dispatch.service.ts:1436-1502).
THEOREM DeliveredStays == Spec => DeliveredIsSettled
<1>1. IInv /\ [Next]_dvars => [astatus = "completed" => UNCHANGED assignment]_dvars
  <2> SUFFICES ASSUME IInv, Next, astatus = "completed" PROVE UNCHANGED assignment
    OBVIOUS
  <2>1. assignee # NoProvider
    BY DEF IInv, OneRow
  <2>2. ASSUME NEW p \in Providers PROVE ~ Accept(p) /\ ~ OwnerAccepts(p)
    BY <2>1 DEF Accept, OwnerAccepts, CanAssign
  <2>3. ASSUME NEW w \in Workers, JobReads(w) \/ JobBatch(w) \/ JobCommits(w) \/ JobCrashes(w)
        PROVE  UNCHANGED assignment
    BY <2>3 DEF JobReads, JobBatch, JobCommits, JobCrashes
  <2>4. ASSUME NEW r \in Requests, Mutation(r) PROVE UNCHANGED assignment
    BY <2>4 DEF Mutation, ProviderReads, OwnerReads, CounterReads, CounterWrites, DeclineWrites,
                DriverStarts, DriverReads, DriverWrites, CancelReads, CancelWrites, EditReads,
                EditWrites, Abandon, Begin, assignment
  <2> QED
    BY <2>2, <2>3, <2>4 DEF Next
<1> QED
  BY <1>1, InitInv, NextInv, PTL DEF Spec, DeliveredIsSettled

-----------------------------------------------------------------------------
\* Every step of Dispatch is a step of the matching, or leaves it alone.
LEMMA NextMatches == IInv /\ [Next]_dvars => [Promise!Next]_(Promise!mvars)
<1> SUFFICES ASSUME IInv, [Next]_dvars PROVE [Promise!Next]_(Promise!mvars)
  OBVIOUS
<1> USE DEF IInv, SafeInv, Promise!mvars, delivered, shipment, offers, assignment
<1>1. ASSUME NEW w \in Workers, JobReads(w) \/ JobBatch(w) \/ JobCommits(w) \/ JobCrashes(w)
      PROVE  UNCHANGED Promise!mvars
  BY <1>1 DEF JobReads, JobBatch, JobCommits, JobCrashes
<1>2. ASSUME NEW p \in Providers, Accept(p)
      PROVE  UNCHANGED Promise!mvars \/ Promise!TakePrice(p)
  <2>1. CASE assignee = NoProvider
    BY <1>2, <2>1 DEF Accept, Assign, OneRow, PriceIsAgreed, Promise!TakePrice
  <2>2. CASE assignee # NoProvider
    BY <1>2, <2>2 DEF Accept, Assign, CanAssign
  <2> QED
    BY <2>1, <2>2
<1>3. ASSUME NEW p \in Providers, OwnerAccepts(p) PROVE Promise!TakeCounter(p)
  BY <1>3 DEF OwnerAccepts, Assign, CanAssign, OneRow, CountersHaveAmounts, Promise!TakeCounter
<1>4. ASSUME NEW r \in Requests, CounterWrites(r)
      PROVE  \E p \in Providers, a \in CounterAmounts : Promise!Ask(p, a)
  <2>1. doing[r].p \in Providers /\ doing[r].amount \in CounterAmounts
    BY <1>4 DEF CounterWrites, ReadsHold
  <2>2. Promise!Ask(doing[r].p, doing[r].amount)
    BY <1>4 DEF CounterWrites, Promise!Ask
  <2> QED
    BY <2>1, <2>2
<1>5. ASSUME NEW r \in Requests, DriverWrites(r)
      PROVE  UNCHANGED Promise!mvars \/ Promise!Deliver
  <2>1. assignee # NoProvider
    BY <1>5 DEF DriverWrites, ReadsHold
  <2> QED
    BY <1>5, <2>1 DEF DriverWrites, Promise!Deliver
<1>6. ASSUME NEW r \in Requests, EditWrites(r) PROVE Promise!Reprice
  BY <1>6 DEF EditWrites, Promise!Reprice
<1>7. ASSUME NEW r \in Requests, Mutation(r),
             ~ CounterWrites(r), ~ DriverWrites(r), ~ EditWrites(r)
      PROVE  UNCHANGED Promise!mvars
  BY <1>7 DEF Mutation, ProviderReads, OwnerReads, CounterReads, DeclineWrites, DriverStarts,
              DriverReads, CancelReads, CancelWrites, EditReads, Abandon, Begin
<1>8. CASE UNCHANGED dvars
  BY <1>8 DEF dvars
<1> QED
  BY <1>1, <1>2, <1>3, <1>4, <1>5, <1>6, <1>7, <1>8 DEF Next, Promise!Next

\* Offers, locks, jobs and late handlers together promise no less than the matching:
\* one winner, that keeps the shipment at the price on it or at one it asked for and
\* the customer accepted (dispatch.service.ts:629-1175).
THEOREM DispatchImplementsMatching == Spec => ImplementsMatching
<1>1. Init => Promise!Init
  BY DEF Init, Promise!Init, delivered
<1> QED
  BY <1>1, InitInv, NextInv, NextMatches, PTL DEF Spec, ImplementsMatching, Promise!Spec
-----------------------------------------------------------------------------
(* Getting the shipments broadcast. *)

\* What was chosen for a broadcast was due when it was, and has been since: by a job of
\* the queue, or by the sweep as the first of what it has left.  A shipment has been
\* nothing before it exists, and no update changes one that does not.
DueInv ==
  /\ \A s \in Shipments :
       /\ stage[s] = "none" => ~wasDue[s]
       /\ due[s] \/ jobAt[s] # "idle" => wasDue[s]
       /\ sweepAt # "idle" /\ Current(s) => wasDue[s]
       /\ update # NoUpdate /\ update[1] = s => stage[s] # "none"
  /\ sweepAt # "idle" => pass # <<>>

\* Whoever will insert an event has the row, alone, and what it found there still holds.
LockInv ==
  \A s \in Shipments :
    /\ ~(jobAt[s] \in Holding /\ Current(s) /\ sweepAt \in Holding)
    /\ jobAt[s] = "insert" \/ (Current(s) /\ sweepAt = "insert") => sent[s] = 0 /\ ~told[s]

\* The columns these rest on.
ColumnsOK ==
  /\ stage \in [Shipments -> Stages]
  /\ due \in [Shipments -> BOOLEAN] /\ wasDue \in [Shipments -> BOOLEAN]
  /\ sent \in [Shipments -> Nat] /\ told \in [Shipments -> BOOLEAN]
  /\ jobAt \in [Shipments -> Phases] /\ sweepAt \in Phases

ReconcileInv == ColumnsOK /\ DueInv /\ LockInv /\ BroadcastIsDue

LEMMA InitReconcile == ReconcileInit => ReconcileInv
BY DEF ReconcileInit, ReconcileInv, ColumnsOK, DueInv, LockInv, BroadcastIsDue, Current, Stages,
       Phases, Holding

\* A boolean column changes in one row.
LEMMA ColumnChanges ==
  ASSUME NEW column \in [Shipments -> BOOLEAN], NEW s \in Shipments, NEW b \in BOOLEAN
  PROVE  LET new == [column EXCEPT ![s] = b]
         IN  /\ new \in [Shipments -> BOOLEAN] /\ (new[s] <=> b)
             /\ \A t \in Shipments : t # s => new[t] = column[t]
<1> DEFINE new == [column EXCEPT ![s] = b]
<1>1. new \in [Shipments -> BOOLEAN]
  BY Zenon
<1>2. new[s] <=> b
  BY Zenon
<1>3. \A t \in Shipments : t # s => new[t] = column[t]
  OBVIOUS
<1> QED
  BY <1>1, <1>2, <1>3

\* A transaction that has the row of s writes the event it has found missing, and lets go.
LEMMA BroadcastStep ==
  ASSUME ReconcileInv, NEW s \in Shipments, NEW at \in Holding, Broadcast(s, at),
         \/ /\ at = jobAt[s] /\ jobAt' = [jobAt EXCEPT ![s] = "idle"] /\ UNCHANGED sweep
         \/ /\ Current(s) /\ at = sweepAt /\ sweepAt' = "idle" /\ UNCHANGED jobAt
  PROVE  /\ ReconcileInv'
         /\ \A t \in Shipments :
              sent'[t] # sent[t] => sent[t] = 0 /\ ~told[t] /\ sent'[t] = 1
<1> USE DEF ReconcileInv, Holding, Phases
<1>1. /\ stage' \in {stage, [stage EXCEPT ![s] = "broadcasting"]}
      /\ UNCHANGED <<due, wasDue, told, update>>
      /\ sent' = IF at = "insert" THEN [sent EXCEPT ![s] = @ + 1] ELSE sent
  BY DEF Broadcast, SetTo, times, updating
<1>2. at = "insert" => sent[s] = 0 /\ ~told[s]
  BY DEF LockInv
<1>3. ColumnsOK'
  <2>1. stage' \in [Shipments -> Stages] /\ sent' \in [Shipments -> Nat]
    BY <1>1 DEF ColumnsOK, Stages
  <2>2. jobAt' \in [Shipments -> Phases] /\ sweepAt' \in Phases
    BY DEF ColumnsOK, sweep
  <2> QED
    BY <1>1, <2>1, <2>2 DEF ColumnsOK
<1>4. \A t \in Shipments : sent'[t] # sent[t] => t = s /\ at = "insert" /\ sent'[s] = 1
  BY <1>1, <1>2 DEF ColumnsOK
<1>5. wasDue[s]
  BY DEF DueInv
<1>6. BroadcastIsDue'
  BY <1>1, <1>4, <1>5 DEF BroadcastIsDue
<1>7. DueInv'
  BY <1>1 DEF ColumnsOK, DueInv, sweep, Current
<1>8. LockInv'
  <2> SUFFICES ASSUME NEW t \in Shipments
               PROVE  /\ ~(jobAt'[t] \in Holding /\ Current(t)' /\ sweepAt' \in Holding)
                      /\ jobAt'[t] = "insert" \/ (Current(t)' /\ sweepAt' = "insert")
                           => sent'[t] = 0 /\ ~told'[t]
    BY DEF LockInv
  <2>1. CASE at = jobAt[s] /\ jobAt' = [jobAt EXCEPT ![s] = "idle"] /\ UNCHANGED sweep
    <3>1. Current(t)' = Current(t) /\ sweepAt' = sweepAt
      BY <2>1 DEF sweep, Current
    <3>2. CASE t = s
      BY <1>1, <2>1, <3>1, <3>2 DEF ColumnsOK, LockInv
    <3>3. CASE t # s
      BY <1>1, <1>4, <2>1, <3>1, <3>3 DEF ColumnsOK, LockInv
    <3> QED
      BY <3>2, <3>3
  <2>2. CASE Current(s) /\ at = sweepAt /\ sweepAt' = "idle" /\ UNCHANGED jobAt
    <3>1. CASE t = s
      BY <1>1, <2>2, <3>1 DEF ColumnsOK, LockInv
    <3>2. CASE t # s
      BY <1>1, <1>4, <2>2, <3>2 DEF ColumnsOK, LockInv
    <3> QED
      BY <3>1, <3>2
  <2> QED
    BY <2>1, <2>2
<1> QED
  BY <1>2, <1>3, <1>4, <1>6, <1>7, <1>8

\* Customers, administrators, drivers and time.
LEMMA WorldStep ==
  ASSUME ReconcileInv, World
  PROVE  ReconcileInv' /\ UNCHANGED sent
<1> USE DEF ReconcileInv, ColumnsOK
<1>1. UNCHANGED <<sent, jobAt, sweep>>
  BY DEF World, Create, ComesDue, UpdateReads, UpdateWrites, Leaves, Drivers, table, events, queue
<1>2. ASSUME NEW s \in Shipments, NEW now \in BOOLEAN, NEW queued \in BOOLEAN,
             Create(s, now, queued)
      PROVE  ReconcileInv'
  <2>1. /\ stage[s] = "none" /\ stage' = [stage EXCEPT ![s] = "created"]
        /\ due' = [due EXCEPT ![s] = now] /\ wasDue' = [wasDue EXCEPT ![s] = now]
        /\ UNCHANGED <<told, update>>
    BY <1>2 DEF Create, events, updating
  <2>2. /\ due' \in [Shipments -> BOOLEAN] /\ wasDue' \in [Shipments -> BOOLEAN]
        /\ (due'[s] <=> now) /\ (wasDue'[s] <=> now)
        /\ \A t \in Shipments : t # s => due'[t] = due[t] /\ wasDue'[t] = wasDue[t]
    BY <2>1, ColumnChanges
  <2>3. ~wasDue[s] /\ jobAt[s] = "idle" /\ ~(sent[s] > 0) /\ ~(sweepAt # "idle" /\ Current(s))
    BY <2>1 DEF DueInv, BroadcastIsDue
  <2>4. DueInv'
    BY <1>1, <2>1, <2>2, <2>3 DEF DueInv, Current, sweep
  <2>5. BroadcastIsDue' /\ LockInv'
    BY <1>1, <2>1, <2>2, <2>3 DEF BroadcastIsDue, LockInv, Current, sweep
  <2> QED
    BY <1>1, <2>1, <2>2, <2>4, <2>5 DEF Stages, sweep
<1>3. ASSUME NEW s \in Shipments, ComesDue(s) PROVE ReconcileInv'
  <2>1. /\ stage[s] = "created" /\ due' = [due EXCEPT ![s] = TRUE]
        /\ wasDue' = [wasDue EXCEPT ![s] = TRUE] /\ UNCHANGED <<stage, told, update>>
    BY <1>3 DEF ComesDue, events, updating
  <2>2. /\ due' \in [Shipments -> BOOLEAN] /\ wasDue' \in [Shipments -> BOOLEAN]
        /\ wasDue'[s] /\ \A t \in Shipments : t # s => due'[t] = due[t] /\ wasDue'[t] = wasDue[t]
    BY <2>1, ColumnChanges
  <2>3. DueInv' /\ BroadcastIsDue' /\ LockInv'
    BY <1>1, <2>1, <2>2 DEF DueInv, BroadcastIsDue, LockInv, Current, sweep
  <2> QED
    BY <1>1, <2>1, <2>2, <2>3 DEF sweep
<1>4. ASSUME NEW s \in Shipments, UpdateReads(s) PROVE ReconcileInv'
  <2>1. /\ stage[s] # "none" /\ update' = <<s, stage[s] = "broadcasting">>
        /\ UNCHANGED <<stage, due, wasDue, told>>
    BY <1>4 DEF UpdateReads, times, events
  <2>2. update'[1] = s
    BY <2>1
  <2>3. DueInv' /\ BroadcastIsDue' /\ LockInv'
    BY <1>1, <2>1, <2>2 DEF DueInv, BroadcastIsDue, LockInv, Current, sweep
  <2> QED
    BY <1>1, <2>1, <2>3 DEF sweep
<1>5. ASSUME NEW s \in Shipments, NEW to \in Stages, NEW now \in BOOLEAN, UpdateWrites(s, to, now)
      PROVE  ReconcileInv'
  <2>1. /\ update # NoUpdate /\ update[1] = s /\ RowIsFree(s) /\ update' = NoUpdate
        /\ stage' = IF stage[s] = "taken" \/ to = "none" THEN stage
                    ELSE [stage EXCEPT ![s] = to]
        /\ told' = told \/ told' = [told EXCEPT ![s] = TRUE]
        /\ due' = [due EXCEPT ![s] = now]
        /\ wasDue' = IF now THEN [wasDue EXCEPT ![s] = TRUE] ELSE wasDue
    BY <1>5 DEF UpdateWrites, SetTo
  <2>2. /\ due' \in [Shipments -> BOOLEAN] /\ (due'[s] <=> now)
        /\ \A t \in Shipments : t # s => due'[t] = due[t]
    BY <2>1, ColumnChanges
  <2>3. /\ wasDue' \in [Shipments -> BOOLEAN] /\ (now => wasDue'[s])
        /\ \A t \in Shipments : wasDue[t] => wasDue'[t]
        /\ \A t \in Shipments : t # s => wasDue'[t] = wasDue[t]
    <3>1. CASE now
      BY <2>1, <3>1, ColumnChanges
    <3>2. CASE ~now
      BY <2>1, <3>2
    <3> QED
      BY <3>1, <3>2
  <2>4. /\ told' \in [Shipments -> BOOLEAN]
        /\ \A t \in Shipments : t # s => told'[t] = told[t]
    <3>1. CASE told' = told
      BY <3>1
    <3>2. CASE told' = [told EXCEPT ![s] = TRUE]
      BY <3>2, ColumnChanges
    <3> QED
      BY <2>1, <3>1, <3>2
  <2>5. stage' \in [Shipments -> Stages] /\ \A t \in Shipments : t # s => stage'[t] = stage[t]
    BY <2>1
  <2>6. stage'[s] # "none"
    BY <2>1 DEF DueInv
  <2>7. DueInv'
    BY <1>1, <2>1, <2>2, <2>3, <2>5, <2>6 DEF DueInv, Current, sweep
  <2>8. BroadcastIsDue'
    BY <1>1, <2>3 DEF BroadcastIsDue
  <2>9. LockInv'
    BY <1>1, <2>1, <2>4 DEF LockInv, RowIsFree, Holding, Current, sweep
  <2>10. ColumnsOK'
    <3>1. sent' \in [Shipments -> Nat]
      BY <1>1
    <3>2. jobAt' \in [Shipments -> Phases] /\ sweepAt' \in Phases
      BY <1>1 DEF sweep
    <3>3. due' \in [Shipments -> BOOLEAN] /\ wasDue' \in [Shipments -> BOOLEAN]
      BY <2>2, <2>3, Zenon
    <3> QED
      BY <2>4, <2>5, <3>1, <3>2, <3>3, Zenon
  <2> QED
    BY <2>7, <2>8, <2>9, <2>10
<1>6. ASSUME NEW s \in Shipments, NEW to \in {"other", "taken"}, Leaves(s, to) \/ Drivers(s)
      PROVE  ReconcileInv'
  <2>1. /\ stage' \in {stage, [stage EXCEPT ![s] = to]}
        /\ UNCHANGED <<due, wasDue, told, update>>
    BY <1>6 DEF Leaves, Drivers, table, times, events, updating
  <2>2. DueInv' /\ BroadcastIsDue' /\ LockInv'
    BY <1>1, <2>1 DEF DueInv, BroadcastIsDue, LockInv, Current, sweep
  <2> QED
    BY <1>1, <2>1, <2>2 DEF Stages, sweep
<1> QED
  BY <1>1, <1>2, <1>3, <1>4, <1>5, <1>6 DEF World

\* The worker's steps that write nothing about a shipment.
LEMMA ChoiceStep ==
  ASSUME ReconcileInv, UNCHANGED table,
         \/ \E s \in Shipments : QueuedReads(s) \/ QueuedLocks(s) \/ QueuedStops(s) \/ QueuedFails(s)
         \/ \E s \in Shipments : SweepReads(s) \/ SweepLocks(s) \/ SweepStops(s)
         \/ SweepStarts \/ SweepFails
  PROVE  ReconcileInv'
<1> USE DEF ReconcileInv, ColumnsOK, Phases, Holding, table, times, events, updating, queue
<1>1. ASSUME NEW s \in Shipments,
             QueuedReads(s) \/ QueuedLocks(s) \/ QueuedStops(s) \/ QueuedFails(s)
      PROVE  ReconcileInv'
  <2>1. PICK at \in Phases :
          /\ jobAt' = [jobAt EXCEPT ![s] = at] /\ UNCHANGED sweep
          /\ at # "idle" => due[s] \/ jobAt[s] # "idle"
          /\ at \in Holding => RowIsFree(s) /\ at = Looked(s)
    <3>1. CASE QueuedReads(s)
      <4>1. CASE Eligible(s)
        BY <3>1, <4>1 DEF QueuedReads, Eligible
      <4>2. CASE ~Eligible(s)
        <5>1. jobAt[s] = "idle" /\ jobAt' = [jobAt EXCEPT ![s] = "idle"]
          BY <3>1, <4>2 DEF QueuedReads
        <5> QED
          BY <3>1, <5>1 DEF QueuedReads
      <4> QED
        BY <4>1, <4>2
    <3>2. CASE QueuedLocks(s)
      BY <3>2 DEF QueuedLocks, Looked
    <3>3. CASE QueuedFails(s)
      BY <3>3 DEF QueuedFails
    <3>4. CASE QueuedStops(s)
      BY <3>4 DEF QueuedStops
    <3> QED
      BY <1>1, <3>1, <3>2, <3>3, <3>4
  <2>2. /\ jobAt' \in [Shipments -> Phases] /\ jobAt'[s] = at
        /\ \A t \in Shipments : t # s => jobAt'[t] = jobAt[t]
    BY <2>1
  <2>3. DueInv' /\ BroadcastIsDue'
    BY <2>1, <2>2 DEF DueInv, BroadcastIsDue, Current, sweep
  <2>4. LockInv'
    BY <2>1, <2>2 DEF LockInv, RowIsFree, Looked, Current, sweep
  <2> QED
    BY <2>1, <2>2, <2>3, <2>4 DEF sweep
<1>2. ASSUME NEW s \in Shipments, SweepReads(s) \/ SweepLocks(s) \/ SweepStops(s)
      PROVE  ReconcileInv'
  <2>1. /\ UNCHANGED jobAt /\ Current(s) /\ sweepAt' \in Phases
        /\ sweepAt' # "idle" => UNCHANGED pass /\ (due[s] \/ sweepAt # "idle")
        /\ sweepAt' \in Holding => RowIsFree(s) /\ sweepAt' = Looked(s)
    <3>1. CASE SweepReads(s)
      BY <3>1 DEF SweepReads, Eligible
    <3>2. CASE SweepLocks(s)
      BY <3>2 DEF SweepLocks, Looked
    <3>3. CASE SweepStops(s)
      BY <3>3 DEF SweepStops
    <3> QED
      BY <1>2, <3>1, <3>2, <3>3
  <2>2. \A t \in Shipments : sweepAt' # "idle" /\ Current(t)' => t = s
    BY <2>1 DEF Current
  <2>3. DueInv' /\ BroadcastIsDue'
    BY <2>1, <2>2 DEF DueInv, BroadcastIsDue, Current
  <2>4. LockInv'
    BY <2>1, <2>2 DEF LockInv, RowIsFree, Looked
  <2> QED
    BY <2>1, <2>3, <2>4
<1>3. CASE SweepStarts \/ SweepFails
  <2>1. sweepAt' = "idle" /\ UNCHANGED jobAt
    BY <1>3 DEF SweepStarts, SweepFails, DueInv
  <2>2. DueInv' /\ BroadcastIsDue' /\ LockInv'
    BY <2>1 DEF DueInv, BroadcastIsDue, LockInv
  <2> QED
    BY <2>1, <2>2
<1> QED
  BY <1>1, <1>2, <1>3

LEMMA NextReconcile ==
  ASSUME ReconcileInv, [ReconcileNext]_rvars
  PROVE  /\ ReconcileInv'
         /\ \A s \in Shipments :
              sent'[s] # sent[s] => sent[s] = 0 /\ ~told[s] /\ sent'[s] = 1
<1>1. CASE World
  BY <1>1, WorldStep
<1>2. ASSUME NEW s \in Shipments, QueuedCommits(s) \/ SweepCommits(s)
      PROVE  /\ ReconcileInv'
             /\ \A t \in Shipments :
                  sent'[t] # sent[t] => sent[t] = 0 /\ ~told[t] /\ sent'[t] = 1
  <2>1. CASE QueuedCommits(s)
    BY <2>1, BroadcastStep DEF QueuedCommits
  <2>2. CASE SweepCommits(s)
    BY <2>2, BroadcastStep DEF SweepCommits, queue
  <2> QED
    BY <1>2, <2>1, <2>2
<1>3. CASE \/ \E s \in Shipments : QueuedReads(s) \/ QueuedLocks(s) \/ QueuedStops(s) \/ QueuedFails(s)
           \/ \E s \in Shipments : SweepReads(s) \/ SweepLocks(s) \/ SweepStops(s)
           \/ SweepStarts \/ SweepFails
  <2>1. UNCHANGED table
    BY <1>3 DEF QueuedReads, QueuedLocks, QueuedStops, QueuedFails, SweepReads, SweepLocks,
                SweepStops, SweepStarts, SweepFails
  <2> QED
    BY <1>3, <2>1, ChoiceStep DEF table, events
<1>4. CASE UNCHANGED rvars
  BY <1>4 DEF rvars, table, times, events, updating, queue, sweep, ReconcileInv, ColumnsOK, DueInv,
              LockInv, BroadcastIsDue, Current
<1> QED
  BY <1>1, <1>2, <1>3, <1>4 DEF ReconcileNext, Worker

\* Lost, repeated, early and overtaken jobs and the sweep broadcast no shipment whose time
\* has never come (dispatchShipmentIfEligible, dispatchDueShipments).
THEOREM ReconcileSafety == ReconcileSpec => []BroadcastIsDue
<1>1. ReconcileInv => BroadcastIsDue
  BY DEF ReconcileInv
<1> QED
  BY <1>1, InitReconcile, NextReconcile, PTL DEF ReconcileSpec

\* Nor do they write a broadcast into a history that tells of one: the row that the update
\* takes before findFirst is held until the event is committed, and updateShipment needs it
\* too (dispatch.service.ts:305-338, shipments.service.ts:1011-1056).
THEOREM BroadcastsOnce == ReconcileSpec => BroadcastOnce
<1>1. ReconcileInv /\ [ReconcileNext]_rvars
        => [\A s \in Shipments :
              sent'[s] # sent[s] => sent[s] = 0 /\ ~told[s] /\ sent'[s] = 1]_rvars
  BY NextReconcile
<1> QED
  BY <1>1, InitReconcile, NextReconcile, PTL DEF ReconcileSpec, BroadcastOnce
=============================================================================
