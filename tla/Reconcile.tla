----------------------------- MODULE Reconcile -----------------------------
(***************************************************************************)
(* How a dispatch shipment gets its broadcast.  createShipment puts a job  *)
(* on the BullMQ queue (shipments.service.ts:1309); the enqueue may fail   *)
(* unnoticed, and the job is tried a few times only.  Beside it            *)
(* dispatchDueShipments (dispatch.service.ts:398) runs periodically and    *)
(* takes the due shipments, at most a batch of them, oldest first.         *)
(*                                                                         *)
(* Here are many shipments, the queue, the row locks of the broadcasts and *)
(* updateShipment (shipments.service.ts:948); what follows the broadcast   *)
(* of a shipment is in Dispatch.                                           *)
(***************************************************************************)
EXTENDS Naturals, Sequences, FiniteSets, SequencesExt

CONSTANTS
  Shipments,
  Rank,        \* the place of a shipment in the order of (scheduledAt, createdAt)
  BatchSizes,  \* what DISPATCH_WORKER_BATCH_SIZE may be set to
  Attempts,    \* attempts of a queued job; the queue is configured with 3
  MaxUpdates   \* bound: updateShipments that ever begin

ASSUME ReconcileAssumption ==
  /\ IsFiniteSet(Shipments)
  /\ Rank \in [Shipments -> Nat]
  /\ \A s, t \in Shipments : Rank[s] = Rank[t] => s = t
  /\ BatchSizes \subseteq Nat \ {0}
  /\ Attempts \in Nat \ {0} /\ MaxUpdates \in Nat

VARIABLES
  batchSize,  \* the setting; it never changes
  stage,      \* shipments.status; "none" before the shipment exists
  due,        \* instant, or its scheduledAt has come
  wasDue,     \* history: it has been due at some time
  near,       \* findEligibleProviders would find someone for it now
  sent,       \* rows BROADCASTED in shipment_events that the worker inserted
  told,       \* there are rows BROADCASTED that updateShipment inserted
  update,     \* the updateShipment in flight: its shipment, and if it read BROADCASTING
  updates,    \* updateShipments begun so far
  tries,      \* attempts its job has left, 0 without a job
  jobAt,      \* where the transaction of its job stands
  pass,       \* what the reconcile job has still to try, in order
  sweepAt     \* where the reconcile job stands with the first of them

times    == <<due, wasDue>>
events   == <<sent, told>>
updating == <<update, updates>>
table    == <<stage, times, events, updating>>
queue    == <<tries, jobAt>>
sweep    == <<pass, sweepAt>>
rvars    == <<batchSize, table, near, queue, sweep>>

\* "other" is CANCELLED or any status that follows the broadcast.  A shipment with an
\* assignment, and so a batch that is ASSIGNED, is "taken", whatever its status is set to.
Stages == {"none", "created", "broadcasting", "other", "taken"}
NoUpdate == <<>>

ReconcileInit ==
  /\ batchSize \in BatchSizes
  /\ stage = [s \in Shipments |-> "none"]
  /\ due = [s \in Shipments |-> FALSE]
  /\ wasDue = [s \in Shipments |-> FALSE]
  /\ near = [s \in Shipments |-> FALSE]
  /\ sent = [s \in Shipments |-> 0]
  /\ told = [s \in Shipments |-> FALSE]
  /\ update = NoUpdate /\ updates = 0
  /\ tries = [s \in Shipments |-> 0]
  /\ jobAt = [s \in Shipments |-> "idle"]
  /\ pass = <<>> /\ sweepAt = "idle"

-----------------------------------------------------------------------------
(* The transaction of dispatchShipmentIfEligible: it reads and chooses, its *)
(* update of the shipment takes the row, it looks for an event, it commits. *)

Phases  == {"idle", "chosen", "insert", "skip"}
Holding == {"insert", "skip"}

Current(s) == pass # <<>> /\ Head(pass) = s

\* Bug: nobody waits for the row.
NoRowLock(s) == TRUE

\* No broadcast that has updated the row of s is still to commit.
RowIsFree(s) == jobAt[s] \notin Holding /\ ~(Current(s) /\ sweepAt \in Holding)

\* Bug: the job trusts the queue's delay.
EligibleEarly(s) == stage[s] = "created" /\ near[s]

Eligible(s) == stage[s] = "created" /\ due[s] /\ near[s]

\* findFirst, after the update: whether an event is still to be inserted.
Looked(s) == IF sent[s] = 0 /\ ~told[s] THEN "insert" ELSE "skip"

\* What a new status makes of a shipment.
SetTo(s, to) ==
  stage' = IF stage[s] = "taken" \/ to = "none" THEN stage ELSE [stage EXCEPT ![s] = to]

\* The update sets the status whatever it is by now.
Broadcast(s, at) ==
  /\ SetTo(s, "broadcasting")
  /\ sent' = IF at = "insert" THEN [sent EXCEPT ![s] = @ + 1] ELSE sent
  /\ UNCHANGED <<times, told, updating>>

-----------------------------------------------------------------------------
(* Customers, administrators and the passing of time. *)

\* createShipment, instant or scheduled; an exception of the enqueue is swallowed.
Create(s, now, queued) ==
  /\ stage[s] = "none"
  /\ stage' = [stage EXCEPT ![s] = "created"]
  /\ due' = [due EXCEPT ![s] = now]
  /\ wasDue' = [wasDue EXCEPT ![s] = now]
  /\ tries' = [tries EXCEPT ![s] = IF queued THEN Attempts ELSE 0]
  /\ UNCHANGED <<events, updating, near, jobAt, sweep>>

ComesDue(s) ==
  /\ stage[s] = "created" /\ ~due[s]
  /\ due' = [due EXCEPT ![s] = TRUE]
  /\ wasDue' = [wasDue EXCEPT ![s] = TRUE]
  /\ UNCHANGED <<stage, events, updating, near, queue, sweep>>

\* updateShipment at a status that is not final, by the read.  What it makes of a shipment
\* that is taken no job and no sweep looks at: such updates are left out.
UpdateReads(s) ==
  /\ update = NoUpdate /\ updates < MaxUpdates /\ stage[s] \notin {"none", "taken"}
  /\ update' = <<s, stage[s] = "broadcasting">> /\ updates' = updates + 1
  /\ UNCHANGED <<stage, times, events, near, queue, sweep>>

\* It moves scheduledAt, sets any status or keeps it, and leaves the queued job as it is;
\* BROADCASTING gets its event unless the shipment was read in that status.
UpdateWrites(s, to, now) ==
  /\ update # NoUpdate /\ update[1] = s /\ RowIsFree(s)
  /\ update' = NoUpdate
  /\ SetTo(s, to)
  /\ told' = IF to = "broadcasting" /\ ~update[2] THEN [told EXCEPT ![s] = TRUE] ELSE told
  /\ due' = [due EXCEPT ![s] = now]
  /\ wasDue' = IF now THEN [wasDue EXCEPT ![s] = TRUE] ELSE wasDue
  /\ UNCHANGED <<sent, updates, near, queue, sweep>>

\* cancelShipment, or an acceptance of an offer that some broadcast has sent.
Leaves(s, to) ==
  /\ IF to = "taken" THEN stage[s] \notin {"none", "taken"} /\ (sent[s] > 0 \/ told[s])
                     ELSE stage[s] \in {"created", "broadcasting"}
  /\ RowIsFree(s)
  /\ stage' = [stage EXCEPT ![s] = to]
  /\ UNCHANGED <<times, events, updating, near, queue, sweep>>

\* Drivers come online and leave.
Drivers(s) ==
  /\ stage[s] = "created"
  /\ near' = [near EXCEPT ![s] = ~@]
  /\ UNCHANGED <<table, queue, sweep>>

-----------------------------------------------------------------------------
(* The queued job. *)

\* A delayed job runs after its delay, when a reschedule may have made it early.
QueuedReads(s) ==
  /\ tries[s] > 0 /\ jobAt[s] = "idle"
  /\ IF Eligible(s) THEN jobAt' = [jobAt EXCEPT ![s] = "chosen"] /\ UNCHANGED tries
                    ELSE tries' = [tries EXCEPT ![s] = 0] /\ UNCHANGED jobAt
  /\ UNCHANGED <<table, near, sweep>>

QueuedLocks(s) ==
  /\ jobAt[s] = "chosen" /\ RowIsFree(s)
  /\ jobAt' = [jobAt EXCEPT ![s] = Looked(s)]
  /\ UNCHANGED <<table, near, tries, sweep>>

\* It gives up if it finds the batch ASSIGNED; an acceptance after that it does not notice.
QueuedStops(s) ==
  /\ jobAt[s] = "chosen" /\ stage[s] = "taken"
  /\ jobAt' = [jobAt EXCEPT ![s] = "idle"]
  /\ tries' = [tries EXCEPT ![s] = 0]
  /\ UNCHANGED <<table, near, sweep>>

\* Notifications follow the commit; when one fails the job is tried again.
QueuedCommits(s) ==
  /\ jobAt[s] \in Holding
  /\ Broadcast(s, jobAt[s])
  /\ jobAt' = [jobAt EXCEPT ![s] = "idle"]
  /\ \E n \in {0, tries[s] - 1} : tries' = [tries EXCEPT ![s] = n]
  /\ UNCHANGED <<near, sweep>>

\* The database, the worker, or the unique index of the batch: rolled back.
QueuedFails(s) ==
  /\ tries[s] > 0
  /\ jobAt' = [jobAt EXCEPT ![s] = "idle"]
  /\ tries' = [tries EXCEPT ![s] = @ - 1]
  /\ UNCHANGED <<table, near, sweep>>

-----------------------------------------------------------------------------
(* dispatchDueShipments: one sweep, its shipments one after the other. *)

\* buildDueShipmentWhere, which does not look at the drivers.
DueNow == {s \in Shipments : stage[s] = "created" /\ due[s]}

Ahead(s) == {t \in DueNow : Rank[t] < Rank[s]}

\* Bug: the newest first.
NewestFirst ==
  SetToSortSeq({s \in DueNow : Cardinality({t \in DueNow : Rank[t] > Rank[s]}) < batchSize},
               LAMBDA s, t : Rank[s] > Rank[t])

OldestFirst ==
  SetToSortSeq({s \in DueNow : Cardinality(Ahead(s)) < batchSize},
               LAMBDA s, t : Rank[s] < Rank[t])

SweepStarts ==
  /\ pass = <<>> /\ DueNow # {}
  /\ UNCHANGED <<table, near, queue, sweepAt>>
  /\ pass' = OldestFirst

SweepReads(s) ==
  /\ Current(s) /\ sweepAt = "idle"
  /\ IF Eligible(s) THEN sweepAt' = "chosen" /\ UNCHANGED pass
                    ELSE pass' = Tail(pass) /\ UNCHANGED sweepAt
  /\ UNCHANGED <<table, near, queue>>

SweepLocks(s) ==
  /\ Current(s) /\ sweepAt = "chosen" /\ RowIsFree(s)
  /\ sweepAt' = Looked(s)
  /\ UNCHANGED <<table, near, queue, pass>>

SweepStops(s) ==
  /\ Current(s) /\ sweepAt = "chosen" /\ stage[s] = "taken"
  /\ pass' = Tail(pass) /\ sweepAt' = "idle"
  /\ UNCHANGED <<table, near, queue>>

\* When a notification fails after the commit the rest of the sweep is lost.
SweepCommits(s) ==
  /\ Current(s) /\ sweepAt \in Holding
  /\ Broadcast(s, sweepAt)
  /\ pass' \in {Tail(pass), <<>>}
  /\ sweepAt' = "idle"
  /\ UNCHANGED <<near, queue>>

\* No exception is caught in the loop.
SweepFails ==
  /\ pass # <<>>
  /\ pass' = <<>> /\ sweepAt' = "idle"
  /\ UNCHANGED <<table, near, queue>>

-----------------------------------------------------------------------------
World ==
  \E s \in Shipments :
    \/ \E now, queued \in BOOLEAN : Create(s, now, queued)
    \/ ComesDue(s) \/ UpdateReads(s) \/ Drivers(s)
    \/ \E to \in Stages \ {"taken"}, now \in BOOLEAN : UpdateWrites(s, to, now)
    \/ \E to \in {"other", "taken"} : Leaves(s, to)

Worker ==
  \/ \E s \in Shipments :
       \/ QueuedReads(s) \/ QueuedLocks(s) \/ QueuedStops(s) \/ QueuedCommits(s)
       \/ QueuedFails(s)
       \/ SweepReads(s) \/ SweepLocks(s) \/ SweepStops(s) \/ SweepCommits(s)
  \/ SweepStarts \/ SweepFails

ReconcileNext == (World \/ Worker) /\ UNCHANGED batchSize

ReconcileSpec == ReconcileInit /\ [][ReconcileNext]_rvars

\* A transaction that holds a row ends, if only by its timeout.
QueuedEnds(s) == jobAt[s] \in Holding /\ (QueuedCommits(s) \/ QueuedFails(s))

\* The sweep has broadcast the shipment whose turn it is, or found nothing to do for it.
Served(s) ==
  SweepCommits(s) \/ SweepStops(s) \/ (SweepReads(s) /\ sweepAt' = "idle")

\* The sweep runs every DISPATCH_RECONCILE_INTERVAL_SECONDS, and what fails in it is
\* transient: a shipment whose turn comes again and again is not stopped every time.
\* Queued jobs, customers and drivers owe nothing else.
ReconcileFairSpec ==
  /\ ReconcileSpec
  /\ WF_rvars(SweepStarts /\ UNCHANGED batchSize)
  /\ \A s \in Shipments : /\ WF_rvars(QueuedEnds(s) /\ UNCHANGED batchSize)
                          /\ ([]<>Current(s) => []<><<Served(s)>>_rvars)

-----------------------------------------------------------------------------
(* Properties. *)

\* Every column, the queue and the sweep hold values of their types.
ReconcileTypeOK ==
  /\ batchSize \in BatchSizes
  /\ stage \in [Shipments -> Stages]
  /\ due \in [Shipments -> BOOLEAN] /\ wasDue \in [Shipments -> BOOLEAN]
  /\ near \in [Shipments -> BOOLEAN]
  /\ sent \in [Shipments -> Nat] /\ told \in [Shipments -> BOOLEAN]
  /\ update \in {NoUpdate} \cup (Shipments \X BOOLEAN) /\ updates \in 0 .. MaxUpdates
  /\ tries \in [Shipments -> 0 .. Attempts] /\ jobAt \in [Shipments -> Phases]
  /\ pass \in Seq(Shipments) /\ sweepAt \in Phases

\* However often the job is tried, delayed, rescheduled or overtaken by the sweep, the
\* worker does not broadcast a shipment whose time has never come.
BroadcastIsDue == \A s \in Shipments : sent[s] > 0 => wasDue[s]

\* Nor does it write a broadcast into a history that already tells of one, its own or an
\* update's, although it looks some time before it writes and shipments are put back to
\* CREATED.
BroadcastOnce ==
  [][\A s \in Shipments :
       sent'[s] # sent[s] => sent[s] = 0 /\ ~told[s] /\ sent'[s] = 1]_rvars

\* Within reach: someone can carry it, and fewer than a batch of due shipments are
\* older.  The rest may wait for ever behind shipments nobody can carry.
InReach(s) == s \in DueNow /\ near[s] /\ Cardinality(Ahead(s)) < batchSize

\* A due shipment is broadcast although its job was lost or used up, as long as it
\* stays within reach; a failure for one shipment does not stop the others for good.
\* Updates end (MaxUpdates): if older shipments were put back to CREATED for ever, each
\* broadcast of them might cost the sweep its rest.
DueIsReached == \A s \in Shipments : InReach(s) ~> ~InReach(s)
=============================================================================
