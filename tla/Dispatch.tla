------------------------------ MODULE Dispatch ------------------------------
(***************************************************************************)
(* One dispatch shipment from CREATED to COMPLETED (dispatch.service.ts):  *)
(* the worker's broadcast transaction, the providers' answers to their     *)
(* offers, the customer's review of counter offers, the driver's progress, *)
(* and the customer's cancellation (shipments.service.ts:1143) and changes *)
(* of the price (shipments.service.ts:948).                                *)
(*                                                                         *)
(* Both acceptances lock the shipment's row before they read, and so do    *)
(* the inserts of the broadcast, through their foreign keys: an acceptance *)
(* is one step.  Every other handler reads, decides, and later writes      *)
(* without looking again; its reads and its write are steps of their own.  *)
(* Nothing but the choice of providers links two shipments, and that       *)
(* choice (distance, route, presence) is left open.                        *)
(***************************************************************************)
EXTENDS Integers

CONSTANTS
  Providers,
  Requests,         \* mutations in flight at the same time
  Workers,          \* dispatch jobs in flight at the same time
  QuotedPrice,      \* the shipment's price before anyone counters
  CounterAmounts,   \* amounts providers ask for
  EditedPrices,     \* what customers set the price to, without asking a provider
  NoProvider

ASSUME DispatchAssumption ==
  /\ QuotedPrice \in Nat \ {0}
  /\ CounterAmounts \subseteq Nat /\ EditedPrices \subseteq Nat
  /\ NoProvider \notin Providers

VARIABLES
  status,     \* shipments.status
  price,      \* shipments.final_price_minor, or the quoted price without one
  edited,     \* history: updateShipment has set it since it was quoted or last agreed
  batch,      \* dispatch_batches.status, "none" without a row
  offer,      \* dispatch_offers.status of each provider, "none" without a row
  counter,    \* dispatch_offers.counter_amount_minor, 0 for null
  assignee,   \* shipment_assignments.provider_id, NoProvider without a row
  astatus,    \* shipment_assignments.status
  agreed,     \* shipment_assignments.agreed_price_minor, 0 without a row
  doing,      \* what each mutation in flight has read and is about to write
  job         \* where each dispatch job stands, with the providers it chose

assignment == <<assignee, astatus, agreed>>
pricing    == <<price, edited>>
shipment   == <<status, pricing>>
offers     == <<batch, offer, counter>>
dvars      == <<shipment, offers, assignment, doing, job>>

Statuses == {"created", "broadcasting", "assigned", "enRoute", "pickedUp",
             "completed", "cancelled"}

Idle == [op |-> "idle", p |-> NoProvider, amount |-> 0, to |-> "created"]
Free == [at |-> "idle", eligible |-> {}]

Init ==
  /\ status = "created" /\ price = QuotedPrice /\ edited = FALSE
  /\ batch = "none"
  /\ offer = [p \in Providers |-> "none"]
  /\ counter = [p \in Providers |-> 0]
  /\ assignee = NoProvider /\ astatus = "none" /\ agreed = 0
  /\ doing = [r \in Requests |-> Idle]
  /\ job = [w \in Workers |-> Free]

-----------------------------------------------------------------------------
(* dispatchShipmentIfEligible, run by the created job and by the reconcile job. *)

\* What findEligibleProviders may return, for a job to go on.
EligibleSets == (SUBSET Providers) \ {{}}

\* The checks on the shipment and the choice of providers; with none the job ends.
JobReads(w) ==
  /\ job[w] = Free
  /\ status = "created"
  /\ assignee = NoProvider
  /\ batch # "assigned"
  /\ \E E \in EligibleSets :
       job' = [job EXCEPT ![w] = [at |-> "chosen", eligible |-> E]]
  /\ UNCHANGED <<shipment, offers, assignment, doing>>

\* getOrOpenDispatchBatch: the batch is read again, later than the shipment.
JobBatch(w) ==
  /\ job[w].at = "chosen"
  /\ job' = [job EXCEPT ![w] =
       IF batch = "assigned" THEN Free
       ELSE [@ EXCEPT !.at = IF batch = "none" THEN "create" ELSE "open"]]
  /\ UNCHANGED <<shipment, offers, assignment, doing>>

\* createMany with skipDuplicates.
SendOffers(E) ==
  offer' = [p \in Providers |-> IF p \in E /\ offer[p] = "none" THEN "sent" ELSE offer[p]]

\* The writes; a batch another job created meanwhile breaks the unique index on
\* shipment_id and rolls everything back.  The status is set without a condition.
JobCommits(w) ==
  /\ job[w].at \in {"create", "open"}
  /\ job' = [job EXCEPT ![w] = Free]
  /\ IF job[w].at = "create" /\ batch # "none"
       THEN UNCHANGED <<status, batch, offer>>
       ELSE /\ batch' = IF job[w].at = "create" THEN "open" ELSE batch
            /\ SendOffers(job[w].eligible)
            /\ status' = "broadcasting"
  /\ UNCHANGED <<pricing, counter, assignment, doing>>

\* The worker dies or its database fails: the transaction rolls back, and the
\* reconcile job, or BullMQ's retry, runs it again.
JobCrashes(w) ==
  /\ job[w] # Free
  /\ job' = [job EXCEPT ![w] = Free]
  /\ UNCHANGED <<shipment, offers, assignment, doing>>

-----------------------------------------------------------------------------
(* The two acceptances, each under SELECT ... FOR UPDATE on the shipment. *)

\* Bugs: the assignment is not looked at; its status is not looked at.
AnyAssignment(p) == status \in {"created", "broadcasting", "assigned"}
AnyOwnAssignment(p) ==
  /\ status \in {"created", "broadcasting", "assigned"}
  /\ assignee \in {NoProvider, p}

CanAssign(p) ==
  /\ status \in {"created", "broadcasting", "assigned"}
  /\ assignee = NoProvider \/ (assignee = p /\ astatus = "active")

\* What both write: the offer wins, the open ones are cancelled, the batch is done.
Assign(p) ==
  /\ status' = "assigned"
  /\ batch' = "assigned"
  /\ offer' = [q \in Providers |-> IF q = p THEN "accepted" ELSE
                                   IF offer[q] \in {"sent", "countered"} THEN "cancelled"
                                   ELSE offer[q]]
  /\ assignee' = p /\ astatus' = "active"

\* The provider takes the shipment at its price; an assignment it already has keeps
\* the price it was made at.
Accept(p) ==
  /\ offer[p] = "sent"
  /\ CanAssign(p)
  /\ Assign(p)
  /\ IF assignee = NoProvider THEN agreed' = price /\ edited' = FALSE
                              ELSE UNCHANGED <<agreed, edited>>
  /\ UNCHANGED <<price, counter, doing, job>>

\* Bugs: any offer may be accepted by the customer; the shipment keeps its price.
OwnerAcceptsAny(p) ==
  /\ offer[p] \in {"sent", "countered"}
  /\ CanAssign(p)
  /\ Assign(p)
  /\ agreed' = counter[p]
  /\ price' = counter[p] /\ edited' = FALSE
  /\ UNCHANGED <<counter, doing, job>>
OwnerAcceptsKeepsPrice(p) ==
  /\ offer[p] = "countered"
  /\ CanAssign(p)
  /\ Assign(p)
  /\ agreed' = counter[p] /\ edited' = FALSE
  /\ UNCHANGED <<price, counter, doing, job>>

\* The customer, or an administrator, takes the amount on the offer as it is now.
OwnerAccepts(p) ==
  /\ offer[p] = "countered"
  /\ CanAssign(p)
  /\ Assign(p)
  /\ agreed' = counter[p]
  /\ price' = counter[p] /\ edited' = FALSE
  /\ UNCHANGED <<counter, doing, job>>

-----------------------------------------------------------------------------
(* Handlers without a lock: reads, then an unconditional write. *)

Begin(r, m) ==
  /\ doing[r] = Idle
  /\ doing' = [doing EXCEPT ![r] = m]
  /\ UNCHANGED <<shipment, offers, assignment, job>>

End(r) == doing' = [doing EXCEPT ![r] = Idle]

\* declineDispatchOffer, and the first read of counterDispatchOffer.
ProviderReads(r, p) ==
  /\ offer[p] = "sent"
  /\ \E op \in {"decline", "countering"} : Begin(r, [Idle EXCEPT !.op = op, !.p = p])

\* The second read of a counter: the shipment is open and the amount is higher.
CounterReads(r) ==
  /\ doing[r].op = "countering"
  /\ status \in {"created", "broadcasting"}
  /\ \E a \in CounterAmounts :
       /\ a > price
       /\ doing' = [doing EXCEPT ![r] = [@ EXCEPT !.op = "counter", !.amount = a]]
  /\ UNCHANGED <<shipment, offers, assignment, job>>

CounterWrites(r) ==
  /\ doing[r].op = "counter"
  /\ offer' = [offer EXCEPT ![doing[r].p] = "countered"]
  /\ counter' = [counter EXCEPT ![doing[r].p] = doing[r].amount]
  /\ End(r)
  /\ UNCHANGED <<shipment, batch, assignment, job>>

\* declineShipmentDispatchOffer: the customer refuses a counter offer.
OwnerReads(r, p) ==
  /\ offer[p] = "countered"
  /\ Begin(r, [Idle EXCEPT !.op = "decline", !.p = p])

DeclineWrites(r) ==
  /\ doing[r].op = "decline"
  /\ offer' = [offer EXCEPT ![doing[r].p] = "declined"]
  /\ End(r)
  /\ UNCHANGED <<shipment, batch, counter, assignment, job>>

\* markEnRoutePickup, confirmPickup and confirmDropoff, by the status they set.
From(to) == CASE to = "enRoute"   -> {"assigned", "enRoute"}
              [] to = "pickedUp"  -> {"assigned", "enRoute", "pickedUp"}
              [] to = "completed" -> {"pickedUp", "completed"}

Progress == {"enRoute", "pickedUp", "completed"}

\* requireProviderOwnedActiveAssignment.
DriverStarts(r) ==
  /\ assignee # NoProvider /\ astatus = "active"
  /\ \E to \in Progress : Begin(r, [Idle EXCEPT !.op = "driving", !.to = to])

DriverReads(r) ==
  /\ doing[r].op = "driving"
  /\ status \in From(doing[r].to)
  /\ doing' = [doing EXCEPT ![r] = [@ EXCEPT !.op = "drive"]]
  /\ UNCHANGED <<shipment, offers, assignment, job>>

\* Bug: the drop-off completes the shipment and forgets the assignment.
DriverWritesStatus(r) ==
  /\ doing[r].op = "drive"
  /\ status' = doing[r].to
  /\ End(r)
  /\ UNCHANGED <<pricing, offers, assignment, job>>

\* The drop-off completes the assignment in the same transaction.
DriverWrites(r) ==
  /\ doing[r].op = "drive"
  /\ status' = doing[r].to
  /\ astatus' = IF doing[r].to = "completed" THEN "completed" ELSE astatus
  /\ End(r)
  /\ UNCHANGED <<pricing, offers, assignee, agreed, job>>

\* cancelShipment; offers, batch and assignment are left as they are.
CancelReads(r) ==
  /\ status \notin {"completed", "cancelled"}
  /\ Begin(r, [Idle EXCEPT !.op = "cancel"])

CancelWrites(r) ==
  /\ doing[r].op = "cancel"
  /\ status' = "cancelled"
  /\ End(r)
  /\ UNCHANGED <<pricing, offers, assignment, job>>

\* updateShipment with a price: any, at any status that is not final, and whatever price
\* was agreed.
EditReads(r) ==
  /\ status \notin {"completed", "cancelled"}
  /\ Begin(r, [Idle EXCEPT !.op = "edit"])

EditWrites(r) ==
  /\ doing[r].op = "edit"
  /\ price' \in EditedPrices /\ edited' = TRUE
  /\ End(r)
  /\ UNCHANGED <<status, offers, assignment, job>>

\* A later check refuses, or the process dies before the write.
Abandon(r) ==
  /\ doing[r] # Idle
  /\ End(r)
  /\ UNCHANGED <<shipment, offers, assignment, job>>

-----------------------------------------------------------------------------
Mutation(r) ==
  \/ \E p \in Providers : ProviderReads(r, p) \/ OwnerReads(r, p)
  \/ CounterReads(r) \/ CounterWrites(r) \/ DeclineWrites(r)
  \/ DriverStarts(r) \/ DriverReads(r) \/ DriverWrites(r)
  \/ CancelReads(r) \/ CancelWrites(r) \/ EditReads(r) \/ EditWrites(r) \/ Abandon(r)

Next ==
  \/ \E w \in Workers : JobReads(w) \/ JobBatch(w) \/ JobCommits(w) \/ JobCrashes(w)
  \/ \E p \in Providers : Accept(p) \/ OwnerAccepts(p)
  \/ \E r \in Requests : Mutation(r)

Spec == Init /\ [][Next]_dvars

-----------------------------------------------------------------------------
(* Properties. *)

OfferStatuses == {"none", "sent", "countered", "declined", "accepted", "cancelled"}
Mutations == [op : {"idle", "decline", "countering", "counter", "driving", "drive", "cancel",
                    "edit"},
              p : Providers \cup {NoProvider}, amount : Nat, to : Statuses]

\* Every column and every handler holds a value of its type.
TypeOK ==
  /\ status \in Statuses
  /\ price \in Nat /\ edited \in BOOLEAN
  /\ batch \in {"none", "open", "assigned"}
  /\ offer \in [Providers -> OfferStatuses]
  /\ counter \in [Providers -> Nat]
  /\ assignee \in Providers \cup {NoProvider}
  /\ astatus \in {"none", "active", "completed"}
  /\ agreed \in Nat
  /\ doing \in [Requests -> Mutations]
  /\ job \in [Workers -> [at : {"idle", "chosen", "create", "open"},
                          eligible : SUBSET Providers]]

\* Whoever holds an accepted offer has the shipment, so nobody else does: two
\* providers are never both told that they won, however late their offers were
\* sent and whatever jobs run beside them.
OneWinner ==
  \A p \in Providers : offer[p] = "accepted" => assignee = p /\ batch = "assigned"

\* Nothing but the customer's own edit parts the price on the shipment from the price it
\* is carried at: after any number of counter offers, late ones included, they are the
\* same, and an acceptance that makes a contract, or a new one, settles an edit too.
PriceIsAgreed ==
  ~edited => price = IF assignee = NoProvider THEN QuotedPrice ELSE agreed

\* A shipment under way has a driver, and one that is completed has paid work behind
\* it: the status never runs ahead of the assignment.
ProgressIsBacked ==
  /\ status \in {"assigned", "enRoute", "pickedUp", "completed"} => assignee # NoProvider
  /\ status = "completed" => astatus = "completed"

\* Delivered work is settled: no late acceptance, of an old or of a new offer,
\* reopens the assignment, reprices it or gives it to someone else.
DeliveredIsSettled ==
  [][astatus = "completed" => UNCHANGED assignment]_dvars

\* All of it together is a matching: one winner that keeps the shipment, at the price
\* that was on it or at one it asked for and the customer accepted.
delivered == astatus = "completed"
Promise == INSTANCE Matching
ImplementsMatching == Promise!Spec

=============================================================================
