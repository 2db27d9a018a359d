------------------------------ MODULE Auction ------------------------------
(***************************************************************************)
(* What the marketplace promises for one request, without bids' statuses,  *)
(* awards or concurrent handlers: the shipment goes to one provider, at an *)
(* amount that provider has bid, and neither changes afterwards.           *)
(***************************************************************************)
CONSTANTS
  Providers, BidAmounts,
  NoProvider, NoAmount

VARIABLES
  asked,      \* the amounts each provider has bid
  winner,
  agreed,     \* the amount the winner carries the shipment for
  delivered

avars == <<asked, winner, agreed, delivered>>

Init ==
  /\ asked = [p \in Providers |-> {}]
  /\ winner = NoProvider
  /\ agreed = NoAmount
  /\ delivered = FALSE

Bid(p, a) ==
  /\ asked' = [asked EXCEPT ![p] = @ \cup {a}]
  /\ UNCHANGED <<winner, agreed, delivered>>

Award(p) ==
  /\ winner = NoProvider
  /\ winner' = p
  /\ agreed' \in asked[p]
  /\ UNCHANGED <<asked, delivered>>

Deliver ==
  /\ winner # NoProvider
  /\ delivered' = TRUE
  /\ UNCHANGED <<asked, winner, agreed>>

Next ==
  \/ \E p \in Providers : Award(p) \/ \E a \in BidAmounts : Bid(p, a)
  \/ Deliver

Spec == Init /\ [][Next]_avars
=============================================================================
