----------------------------- MODULE Dashboard ------------------------------
(***************************************************************************)
(* The administrators' dashboard (adminDashboard, admin-ops.service.ts):   *)
(* one report is put together from several readings of the same rows, each *)
(* with conditions of its own.                                             *)
(*                                                                         *)
(* A filter is what the administrator asked for after                      *)
(* normalizeDashboardFilter; searching and the mode of the shipments only  *)
(* narrow the table.  The statements of one report run next to each other  *)
(* and are taken here at one moment.                                       *)
(***************************************************************************)
EXTENDS Views, Functions

StartOf(t, len) == t - (t % len)

\* A range may neither end after this moment nor begin after its end.
Normalized(from, to, interval) ==
  LET end   == IF to # Unset /\ to <= now THEN to ELSE now
      begin == IF from # Unset /\ from <= end THEN from ELSE StartOf(end, Day)
  IN  [from |-> begin, to |-> end,
       bucket |-> IF interval # Unset THEN interval
                  ELSE IF end - begin > 2 * Day THEN Day ELSE Hour]

Within(t, f) == f.from <= t /\ t <= f.to

\* The rows of the report: created or updated in the range.
InReport(f) ==
  {s \in CustomersOwn : Within(ships[s].created, f) \/ Within(ships[s].updated, f)}

CompletedIn(f) ==
  {s \in InReport(f) : ships[s].status \in Completed /\ Within(ships[s].updated, f)}

\* isDelayedShipment.
IsDelayed(s) ==
  /\ ships[s].status \in Active
  /\ ships[s].due # Unset /\ now > ships[s].due + Grace

\* calculateAverageDeliveryMinutes and calculateOnTimeRate.
DeliveryTime(s) == Max({0, ships[s].updated - ships[s].created})

OnTime(s) == ships[s].due = Unset \/ ships[s].updated <= ships[s].due + Grace

AverageTime(f) ==
  LET n == Cardinality(CompletedIn(f))
  IN  IF n = 0 THEN 0 ELSE (2 * MapThenSumSet(DeliveryTime, CompletedIn(f)) + n) \div (2 * n)

OnTimeRate(f) ==
  LET n == Cardinality(CompletedIn(f))
  IN  IF n = 0 THEN 1000
      ELSE (1000 * Cardinality({s \in CompletedIn(f) : OnTime(s)})) \div n

\* Bug: the first bucket begins where the range does.
BucketsFromRange(f) == {b \in f.from .. f.to : (b - f.from) % f.bucket = 0}

\* buildDeliveryPerformanceSeries: the beginnings of its buckets, and what is in each.
Buckets(f) == {b \in StartOf(f.from, f.bucket) .. f.to : b % f.bucket = 0}

InBucket(b, f) == {s \in InReport(f) : StartOf(ships[s].updated, f.bucket) = b}

Series(f) ==
  [b \in Buckets(f) |->
     [delivered |-> Cardinality({s \in InBucket(b, f) : ships[s].status \in Completed}),
      delayed   |-> Cardinality({s \in InBucket(b, f) : IsDelayed(s)})]]

\* toFleetStatus: a draft counts as moving.
FleetStatus(s) ==
  CASE IsDelayed(s) -> "delayed"
    [] ~IsDelayed(s) /\ \/ ships[s].status \in {"created", "broadcasting"}
                             \/ /\ ships[s].status = "assigned"
                                /\ now - ships[s].updated > Hour -> "stationary"
    [] OTHER -> "in_transit"

\* The active shipments that were updated last.
Fleet(limit) ==
  LET later(s) == {t \in With(CustomersOwn, Active) : ships[t].updated > ships[s].updated}
  IN  {s \in With(CustomersOwn, Active) : Cardinality(later(s)) < limit}

\* buildFleetWidgets.
Widgets(limit) == [s \in Fleet(limit) |-> FleetStatus(s)]

\* buildOrderStatusMetrics.
OrderStatus(s) ==
  CASE ships[s].status \in Completed -> "delivered"
    [] ships[s].status \in Cancelled -> "cancelled"
    [] IsDelayed(s) -> "delayed"
    [] ships[s].status \in Waiting /\ ~IsDelayed(s) -> "waiting"
    [] OTHER -> "on_the_way"

Orders(f, key) == {s \in InReport(f) : OrderStatus(s) = key}

\* assembled by adminDashboard.
Report(f, limit) ==
  [average |-> AverageTime(f), onTime |-> OnTimeRate(f), series |-> Series(f),
   fleet |-> Widgets(limit),
   orders |-> [key \in {"delivered", "cancelled", "delayed", "waiting", "on_the_way"} |->
                 Cardinality(Orders(f, key))]]

-----------------------------------------------------------------------------
(* Properties. *)

Asked == {Normalized(from, to, interval) : from \in {Unset, 0, Day - 1, Day + 1},
                                           to \in {Unset, Horizon - 2},
                                           interval \in {Unset, Day, Hour}}

\* The sum of one column of a series.
Total(series, column) == SumFunction([b \in DOMAIN series |-> series[b][column]])

\* The parts of one report agree.  Every order of the report is counted under one key; the
\* series adds up to the orders delivered and delayed in the range, and for a range that
\* ends earlier to those and what happened in the rest of its last bucket; the fleet shows
\* as delayed what the orders show as delayed, and what waits does not move unless it is a
\* draft.
WidgetsAgree ==
  \A f \in Asked :
    LET r == Report(f, 1)
        after == {s \in InReport(f) : /\ ships[s].updated > f.to
                                      /\ StartOf(ships[s].updated, f.bucket) <= f.to}
    IN  /\ SumFunction(r.orders) = Cardinality(InReport(f))
        /\ Total(r.series, "delivered")
             = Cardinality(CompletedIn(f)) + Cardinality(With(after, Completed))
        /\ f.to = now => /\ Total(r.series, "delivered") = r.orders["delivered"]
                         /\ Total(r.series, "delayed") = r.orders["delayed"]
        /\ \A s \in DOMAIN r.fleet \cap InReport(f) :
             /\ r.fleet[s] = "delayed" <=> OrderStatus(s) = "delayed"
             /\ OrderStatus(s) = "waiting" /\ r.fleet[s] = "in_transit"
                  => ships[s].status = "draft"
=============================================================================
