------------------------------- MODULE Views -------------------------------
(***************************************************************************)
(* What customers and providers are shown of their shipments: the lists    *)
(* and dashboards of shipments.service.ts, over a table that time and      *)
(* everyone else change.                                                   *)
(*                                                                         *)
(* The queries are state functions: each asks the table about one moment.  *)
(* The actions are the writes to the columns they read, whoever makes      *)
(* them; how these writes race is in Dispatch and Marketplace.  Time has   *)
(* no zones and no daylight saving.                                        *)
(***************************************************************************)
EXTENDS Integers, FiniteSetsExt

CONSTANTS
  Shipments,
  Escrow,       \* the shipments that require escrow
  Hour, Day,
  Grace,        \* DEFAULT_DELAY_GRACE_MINUTES
  MonthStart,   \* the moment this month began
  Dues,         \* what scheduledAt may be set to
  Unset,        \* no scheduledAt, or a filter that is not given
  Horizon       \* bound: the last moment looked at

ASSUME ViewsAssumption ==
  /\ IsFiniteSet(Shipments) /\ Escrow \subseteq Shipments
  /\ Hour \in Nat \ {0} /\ Day \in Nat \ {0} /\ Day % Hour = 0
  /\ Grace \in Nat /\ Horizon \in Nat /\ MonthStart \in Nat
  /\ Dues \ {Unset} \subseteq Nat

VARIABLES
  now,
  ships   \* rows of shipments, and what the viewing provider has to do with each

vars == <<now, ships>>

Waiting   == {"draft", "created", "broadcasting"}
Active    == Waiting \cup {"assigned", "en_route_pickup", "picked_up", "en_route_dropoff"}
Completed == {"delivered", "completed"}
Cancelled == {"cancelled", "expired"}
History   == Completed \cup Cancelled
Closed    == {"cancelled", "completed", "expired"}
ShipmentStatus  == Active \cup History

NoRow == [status |-> "none"]

ViewsInit == now = 0 /\ ships = [s \in Shipments |-> NoRow]

-----------------------------------------------------------------------------
(* The table. *)

Exists(s) == ships[s] # NoRow

\* createShipment: scheduledAt and scheduleType are stored as they come.
Create(s, type, due) ==
  /\ ~Exists(s)
  /\ ships' = [ships EXCEPT ![s] = [status |-> "created", type |-> type, due |-> due,
                                    created |-> now, updated |-> now, party |-> "none"]]
  /\ UNCHANGED now

\* updateShipment, by the customer or an administrator: any status and any schedule.
Update(s, status, type, due) ==
  /\ Exists(s) /\ ships[s].status \notin Closed
  /\ ships' = [ships EXCEPT ![s].status = status, ![s].type = type, ![s].due = due,
                            ![s].updated = now]
  /\ UNCHANGED now

Cancel(s) ==
  /\ Exists(s) /\ ships[s].status \in Active \cup {"delivered"}
  /\ ships' = [ships EXCEPT ![s].status = "cancelled", ![s].updated = now]
  /\ UNCHANGED now

\* A dispatch offer goes out to the viewing provider, or it bids.
Offer(s) ==
  /\ Exists(s) /\ ships[s].status \in {"created", "broadcasting"}
  /\ ships[s].party = "none"
  /\ \E sent \in BOOLEAN :
       ships' = [ships EXCEPT ![s].party = "offered",
                   ![s].status = IF sent THEN "broadcasting" ELSE @,
                   ![s].updated = IF sent THEN now ELSE @]
  /\ UNCHANGED now

\* The offer is accepted, or the bid: an award does not look at the status.
Assign(s) ==
  /\ Exists(s) /\ ships[s].party = "offered"
  /\ ships' = [ships EXCEPT ![s].party = "assigned", ![s].status = "assigned",
                            ![s].updated = now]
  /\ UNCHANGED now

\* The driver's mutations, with the statuses each is allowed in.
MayBecome(status) ==
  CASE status = "en_route_pickup" -> {"assigned", "en_route_pickup"}
    [] status = "picked_up"       -> {"assigned", "en_route_pickup", "picked_up"}
    [] status = "completed"       -> {"picked_up", "en_route_dropoff"} \cup Completed

Progress(s, status) ==
  /\ Exists(s) /\ ships[s].party = "assigned" /\ ships[s].status \in MayBecome(status)
  /\ ships' = [ships EXCEPT ![s].status = status, ![s].updated = now]
  /\ UNCHANGED now

Tick == now < Horizon /\ now' = now + 1 /\ UNCHANGED ships

ViewsNext ==
  \/ Tick
  \/ \E s \in Shipments :
       \/ Offer(s) \/ Assign(s) \/ Cancel(s)
       \/ \E status \in {"en_route_pickup", "picked_up", "completed"} : Progress(s, status)
       \/ \E type \in {"instant", "scheduled"}, due \in Dues :
            \/ Create(s, type, due)
            \/ \E status \in ShipmentStatus : Update(s, status, type, due)

ViewsSpec == ViewsInit /\ [][ViewsNext]_vars

-----------------------------------------------------------------------------
(* getShipmentsForViewer, getShipmentByIdForViewer and what else needs     *)
(* canAccessShipment.                                                      *)

Filters == {"active", "scheduled", "history"}
Roles == {"admin", "individual", "business"}

\* Bug: what is due at this moment is left to the next list.
HasComeEarlier(s) == ships[s].type = "instant" \/ ships[s].due = Unset \/ ships[s].due < now

\* An active shipment is on the list of its time: instant, without a time, or due.
HasCome(s) == ships[s].type = "instant" \/ ships[s].due = Unset \/ ships[s].due <= now

IsScheduled(s) ==
  /\ ships[s].type = "scheduled" /\ ships[s].status \in Waiting \cup {"assigned"}
  /\ ships[s].due # Unset /\ ships[s].due >= now

\* Bug: what has not come yet is active as well.
MatchesAnyTime(s, filter) ==
  CASE filter = "history"   -> ships[s].status \in History
    [] filter = "scheduled" -> IsScheduled(s)
    [] filter = "active"    -> ships[s].status \in Active

\* buildShipmentWhereFilter.
Matches(s, filter) ==
  CASE filter = "history"   -> ships[s].status \in History
    [] filter = "scheduled" -> IsScheduled(s)
    [] filter = "active"    -> ships[s].status \in Active /\ HasCome(s)

\* The viewer is the customer, an administrator, or the provider.
ConcernsViewer(s, role) == role = "business" => ships[s].party # "none"

\* The guard keeps providers out, but the role is read again: for a customer who has just
\* become a driver the provider's alternatives replace those of the filter in one object.
Listed(s, role, filter) ==
  /\ Exists(s)
  /\ ConcernsViewer(s, role)
  /\ IF role = "business" /\ filter = "active" THEN ships[s].status \in Active
                                               ELSE Matches(s, filter)

\* canAccessShipmentForRoles: the shipment, its timeline and its tracking.
MayOpen(s, role) == Exists(s) /\ ConcernsViewer(s, role)

\* getShipmentByIdForViewer, getShipmentTimelineForViewer, getShipmentTrackingForViewer.
Opened(role) == {s \in Shipments : MayOpen(s, role)}

Of(filter, role) == {s \in Shipments : Listed(s, role, filter)}

-----------------------------------------------------------------------------
(* getCustomerShipmentDashboard and getProviderDashboardQuary. *)

CustomersOwn == {s \in Shipments : Exists(s)}
ProvidersOwn == {s \in CustomersOwn : ships[s].party = "assigned"}

With(own, statuses) == {s \in own : ships[s].status \in statuses}

Summary(own) ==
  [total     |-> Cardinality(own),
   active    |-> Cardinality(With(own, Active)),
   completed |-> Cardinality({s \in With(own, Completed) : ships[s].updated >= MonthStart}),
   pending   |-> Cardinality(With(own \cap Escrow, Active \cup {"delivered"}))]

CustomerBoard == Summary(CustomersOwn)

\* buildProviderShipmentWhereFilter, where nothing is replaced.
ProvidersList(filter) == {s \in ProvidersOwn : Matches(s, filter)}

Rate(part, whole) == IF whole > 0 THEN (200 * part + whole) \div (2 * whole) ELSE 0

\* The rate counts the cancelled shipments on both sides: they are in the history too.
ProviderBoard ==
  LET ended == Cardinality(ProvidersList("history"))
      cancelled == Cardinality(With(ProvidersOwn, {"cancelled"}))
  IN  [summary |-> Summary(ProvidersOwn),
       active |-> ProvidersList("active"), ended |-> ended,
       cancelled |-> cancelled, completionRate |-> Rate(ended, ended + cancelled)]

-----------------------------------------------------------------------------
(* Properties. *)

\* Every row has a shipment's columns, and was updated after it was created.
ViewsTypeOK ==
  /\ now \in 0 .. Horizon
  /\ \A s \in CustomersOwn :
       /\ ships[s] \in [status : ShipmentStatus, type : {"instant", "scheduled"}, due : Dues,
                        created : 0 .. now, updated : 0 .. now,
                        party : {"none", "offered", "assigned"}]
       /\ ships[s].created <= ships[s].updated

IsLater(s) == ships[s].due # Unset /\ ships[s].due > now

\* On its way before its time: in a status that may no longer wait.
EarlyOnItsWay(s) ==
  /\ ships[s].type = "scheduled" /\ IsLater(s)
  /\ ships[s].status \in Active \ (Waiting \cup {"assigned"})

\* A customer finds every shipment on exactly one of the three lists, except that one due
\* at this very moment is on two, and one that left before its time is on none until that
\* time; the dashboards count what the lists show.
ListsCover ==
  LET list(filter) == Of(filter, "individual")
      all == list("active") \cup list("scheduled") \cup list("history")
  IN  /\ CustomersOwn \ all = {s \in CustomersOwn : EarlyOnItsWay(s)}
      /\ list("history") \cap (list("active") \cup list("scheduled")) = {}
      /\ \A s \in list("active") \cap list("scheduled") : ships[s].due = now
      /\ CustomerBoard.active + Cardinality(list("history")) = CustomerBoard.total
      /\ ProviderBoard.summary.active + ProviderBoard.ended = ProviderBoard.summary.total

\* What is scheduled for later is on no list of active shipments, except that of someone
\* who has just become a driver, and never on the provider's board; what a list shows can
\* be opened.
LaterIsNotActive ==
  \A s \in Shipments, role \in Roles :
    /\ Listed(s, role, "active") /\ ships[s].type = "scheduled" /\ IsLater(s)
         => role = "business" /\ s \notin ProviderBoard.active
    /\ \A filter \in Filters : Listed(s, role, filter) => s \in Opened(role)
=============================================================================
