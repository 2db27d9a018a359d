---------------------------- MODULE Marketplace ----------------------------
(***************************************************************************)
(* One marketplace shipment (market-place.service.ts): the providers' bids *)
(* on it, the customer's award, the winner's progress and the customer's   *)
(* cancellation (shipments.service.ts:1088, 1143, 2093).                   *)
(*                                                                         *)
(* No handler takes a lock before it writes.  Each reads, decides, and     *)
(* writes later without looking again; what stops it then is a unique      *)
(* index: one bid per provider, one award and one assignment per shipment. *)
(***************************************************************************)
CONSTANTS
  Providers,
  Requests,     \* mutations in flight at the same time
  BidAmounts,   \* what providers bid; the code takes any number
  NoProvider, NoAmount

ASSUME MarketplaceAssumption ==
  /\ NoProvider \notin Providers
  /\ NoAmount \notin BidAmounts

VARIABLES
  status,     \* shipments.status
  bid,        \* shipment_bids.status of each provider, "none" without a row
  amount,     \* shipment_bids.amount_minor
  asked,      \* history: every amount the row has held
  award,      \* the provider whose bid shipment_bid_awards names, or NoProvider
  assignee,   \* shipment_assignments.provider_id, NoProvider without a row
  astatus,    \* shipment_assignments.status
  agreed,     \* shipment_assignments.agreed_price_minor
  doing       \* what each mutation in flight has read and is about to write

bids       == <<bid, amount, asked>>
assignment == <<assignee, astatus, agreed>>
mvars      == <<status, bids, award, assignment, doing>>

Statuses == {"created", "assigned", "enRoute", "pickedUp", "completed", "cancelled"}

Idle == [op |-> "idle", p |-> NoProvider, amount |-> NoAmount, to |-> "created"]

Init ==
  /\ status = "created"
  /\ bid = [p \in Providers |-> "none"]
  /\ amount = [p \in Providers |-> NoAmount]
  /\ asked = [p \in Providers |-> {}]
  /\ award = NoProvider
  /\ assignee = NoProvider /\ astatus = "none" /\ agreed = NoAmount
  /\ doing = [r \in Requests |-> Idle]

Begin(r, m) ==
  /\ doing[r] = Idle
  /\ doing' = [doing EXCEPT ![r] = m]
  /\ UNCHANGED <<status, bids, award, assignment>>

Continue(r, m) ==
  /\ doing' = [doing EXCEPT ![r] = m]
  /\ UNCHANGED <<status, bids, award, assignment>>

End(r) == doing' = [doing EXCEPT ![r] = Idle]

-----------------------------------------------------------------------------
(* createShipmentBid: the shipment is read, then the provider's bid, then written. *)

BidStarts(r, p) ==
  /\ status = "created"
  /\ Begin(r, [Idle EXCEPT !.op = "bidding", !.p = p])

\* A first bid, or a new one in the row of a withdrawn or rejected bid.
BidReads(r) ==
  /\ doing[r].op = "bidding"
  /\ bid[doing[r].p] \notin {"active", "accepted"}
  /\ \E a \in BidAmounts :
       Continue(r, [doing[r] EXCEPT !.amount = a,
                      !.op = IF bid[doing[r].p] = "none" THEN "create" ELSE "rebid"])

\* The row now holds amount a.
Ask(p, a) ==
  /\ amount' = [amount EXCEPT ![p] = a]
  /\ asked' = [asked EXCEPT ![p] = @ \cup {a}]

\* The insert fails on the index of (shipment, provider) if another request of the
\* provider made the row; the update does not look at the status.
BidWrites(r) ==
  LET m == doing[r] IN
  /\ m.op \in {"create", "rebid"}
  /\ IF m.op = "create" /\ bid[m.p] # "none"
       THEN UNCHANGED bids
       ELSE bid' = [bid EXCEPT ![m.p] = "active"] /\ Ask(m.p, m.amount)
  /\ End(r)
  /\ UNCHANGED <<status, award, assignment>>

\* updateShipmentBid, with an amount or without, and withdrawBid, or an update that
\* withdraws.
EditReads(r, p) ==
  /\ bid[p] = "active"
  /\ \E op \in {"edit", "withdraw"}, a \in BidAmounts \cup {NoAmount} :
       Begin(r, [Idle EXCEPT !.op = op, !.p = p, !.amount = a])

EditWrites(r) ==
  LET m == doing[r] IN
  /\ m.op \in {"edit", "withdraw"}
  /\ bid' = IF m.op = "withdraw" THEN [bid EXCEPT ![m.p] = "withdrawn"] ELSE bid
  /\ IF m.amount = NoAmount THEN UNCHANGED <<amount, asked>> ELSE Ask(m.p, m.amount)
  /\ End(r)
  /\ UNCHANGED <<status, award, assignment>>

-----------------------------------------------------------------------------
(* awardShipmentBid: one transaction, its reads and its writes. *)

\* The bid is active and nothing is awarded; the shipment's status is not looked at.
AwardReads(r, p) ==
  /\ bid[p] = "active"
  /\ award = NoProvider
  /\ Begin(r, [Idle EXCEPT !.op = "award", !.p = p, !.amount = amount[p]])

ResolveBids(p) ==
  bid' = [q \in Providers |-> IF q = p THEN "accepted"
                              ELSE IF bid[q] = "active" THEN "rejected" ELSE bid[q]]

\* Bug: the shipment is given to the winner at another provider's amount.
AssignAtAnyBid(p, a) ==
  IF assignee = NoProvider
    THEN assignee' = p /\ astatus' = "active" /\ agreed' \in {amount[q] : q \in Providers}
    ELSE UNCHANGED assignment

\* The assignment, unless there is one, at the amount that was read.
AssignTo(p, a) ==
  IF assignee = NoProvider
    THEN assignee' = p /\ astatus' = "active" /\ agreed' = a
    ELSE UNCHANGED assignment

\* An award made meanwhile breaks the unique index and rolls everything back.
AwardWrites(r) ==
  /\ doing[r].op = "award"
  /\ IF award # NoProvider
       THEN UNCHANGED <<status, bid, award, assignment>>
       ELSE /\ award' = doing[r].p
            /\ ResolveBids(doing[r].p)
            /\ AssignTo(doing[r].p, doing[r].amount)
            /\ status' = "assigned"
  /\ End(r)
  /\ UNCHANGED <<amount, asked>>

-----------------------------------------------------------------------------
(* updateProviderMarketplaceShipmentStatus and cancelShipment. *)

\* The statuses from which the driver's three mutations may set "to".
From(to) == CASE to = "enRoute"   -> {"assigned", "enRoute"}
              [] to = "pickedUp"  -> {"assigned", "enRoute", "pickedUp"}
              [] to = "completed" -> {"pickedUp", "completed"}

Progress == {"enRoute", "pickedUp", "completed"}

DriverStarts(r) ==
  /\ assignee # NoProvider /\ astatus = "active"
  /\ \E to \in Progress : Begin(r, [Idle EXCEPT !.op = "driving", !.to = to])

DriverReads(r) ==
  /\ doing[r].op = "driving"
  /\ status \in From(doing[r].to)
  /\ Continue(r, [doing[r] EXCEPT !.op = "drive"])

\* Bug: the drop-off completes the shipment and forgets the assignment.
DriverWritesStatus(r) ==
  /\ doing[r].op = "drive"
  /\ status' = doing[r].to
  /\ End(r)
  /\ UNCHANGED <<bids, award, assignment>>

DriverWrites(r) ==
  /\ doing[r].op = "drive"
  /\ status' = doing[r].to
  /\ astatus' = IF doing[r].to = "completed" THEN "completed" ELSE astatus
  /\ End(r)
  /\ UNCHANGED <<bids, award, assignee, agreed>>

CancelReads(r) ==
  /\ status \notin {"completed", "cancelled"}
  /\ Begin(r, [Idle EXCEPT !.op = "cancel"])

CancelWrites(r) ==
  /\ doing[r].op = "cancel"
  /\ status' = "cancelled"
  /\ End(r)
  /\ UNCHANGED <<bids, award, assignment>>

\* A later check refuses, or the process dies before the write.
Abandon(r) ==
  /\ doing[r] # Idle
  /\ End(r)
  /\ UNCHANGED <<status, bids, award, assignment>>

-----------------------------------------------------------------------------
Reads(r) ==
  \/ \E p \in Providers : BidStarts(r, p) \/ EditReads(r, p) \/ AwardReads(r, p)
  \/ BidReads(r) \/ DriverStarts(r) \/ DriverReads(r) \/ CancelReads(r)

Writes(r) ==
  BidWrites(r) \/ EditWrites(r) \/ AwardWrites(r) \/ DriverWrites(r) \/ CancelWrites(r)

Next == \E r \in Requests : Reads(r) \/ Writes(r) \/ Abandon(r)

Spec == Init /\ [][Next]_mvars

-----------------------------------------------------------------------------
(* Properties. *)

Mutations == [op : {"idle", "bidding", "create", "rebid", "edit", "withdraw", "award",
                    "driving", "drive", "cancel"},
              p : Providers \cup {NoProvider}, amount : BidAmounts \cup {NoAmount},
              to : Statuses]

\* Every column and every handler holds a value of its type.
TypeOK ==
  /\ status \in Statuses
  /\ bid \in [Providers -> {"none", "active", "withdrawn", "rejected", "accepted"}]
  /\ amount \in [Providers -> BidAmounts \cup {NoAmount}]
  /\ asked \in [Providers -> SUBSET BidAmounts]
  /\ award \in Providers \cup {NoProvider}
  /\ assignee \in Providers \cup {NoProvider}
  /\ astatus \in {"none", "active", "completed"}
  /\ agreed \in BidAmounts \cup {NoAmount}
  /\ doing \in [Requests -> Mutations]

\* Two customers' sessions may award two bids at once, and bids are withdrawn and
\* placed again meanwhile: still one bid at most is told that it was accepted, it is
\* the one the award names, and its provider has the shipment.
OneAward ==
  /\ \A p \in Providers : bid[p] = "accepted" => award = p
  /\ award = assignee

\* A shipment under way was awarded, and a completed one has completed work behind
\* it: no late handler sets a status the assignment does not have.
ProgressIsBacked ==
  /\ status \in {"assigned", "enRoute", "pickedUp", "completed"} => award # NoProvider
  /\ status = "completed" => astatus = "completed"

\* All of it together is an auction with one winner, at an amount the winner bid.
delivered == astatus = "completed"
Promise == INSTANCE Auction WITH winner <- assignee
ImplementsAuction == Promise!Spec

=============================================================================
