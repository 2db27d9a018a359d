------------------------------ MODULE Matching ------------------------------
(***************************************************************************)
(* What matching a shipment with a provider promises, without offers,      *)
(* statuses or concurrent handlers: one provider wins the shipment, at the *)
(* price on it or at one that provider asked for and the customer agreed   *)
(* to, keeps it, and may renegotiate only until it is delivered.  The      *)
(* customer may change the price on the shipment, but no contract.         *)
(***************************************************************************)
CONSTANTS
  Providers, CounterAmounts, QuotedPrice, EditedPrices,
  NoProvider

VARIABLES
  price,      \* the price on the shipment
  counter,    \* the amount each provider last asked for, 0 if none
  assignee,   \* the provider that has the shipment
  agreed,     \* the price it is carried at, 0 while nobody has it
  delivered   \* its assignment is completed

mvars == <<price, counter, assignee, agreed, delivered>>

Init ==
  /\ price = QuotedPrice
  /\ counter = [p \in Providers |-> 0]
  /\ assignee = NoProvider
  /\ agreed = 0
  /\ delivered = FALSE

Ask(p, a) ==
  /\ counter' = [counter EXCEPT ![p] = a]
  /\ UNCHANGED <<price, assignee, agreed, delivered>>

Reprice ==
  /\ price' \in EditedPrices
  /\ UNCHANGED <<counter, assignee, agreed, delivered>>

TakePrice(p) ==
  /\ assignee = NoProvider
  /\ assignee' = p
  /\ agreed' = price
  /\ UNCHANGED <<price, counter, delivered>>

\* The customer accepts p's price, which makes or changes p's contract.
TakeCounter(p) ==
  /\ assignee \in {NoProvider, p}
  /\ ~ delivered
  /\ counter[p] # 0
  /\ assignee' = p
  /\ agreed' = counter[p] /\ price' = counter[p]
  /\ UNCHANGED <<counter, delivered>>

Deliver ==
  /\ assignee # NoProvider
  /\ delivered' = TRUE
  /\ UNCHANGED <<price, counter, assignee, agreed>>

Next ==
  \/ \E p \in Providers : TakePrice(p) \/ TakeCounter(p)
  \/ \E p \in Providers, a \in CounterAmounts : Ask(p, a)
  \/ Reprice \/ Deliver

Spec == Init /\ [][Next]_mvars
=============================================================================
