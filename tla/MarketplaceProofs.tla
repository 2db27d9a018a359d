------------------------- MODULE MarketplaceProofs -------------------------
(***************************************************************************)
(* The safety of Marketplace, and that it implements Auction, for any      *)
(* number of providers and of mutations in flight, and any amounts.        *)
(***************************************************************************)
EXTENDS Marketplace, TLAPS

\* What a mutation has read and still relies on when it writes: an amount that was
\* read for an award stays one the provider has bid.
ReadsHold ==
  \A r \in Requests :
    /\ doing[r].op \in {"bidding", "create", "rebid", "edit", "withdraw", "award"}
         => doing[r].p \in Providers
    /\ doing[r].op \in {"create", "rebid"} => doing[r].amount \in BidAmounts
    /\ doing[r].op = "award" => doing[r].amount \in asked[doing[r].p]
    /\ doing[r].op \in {"driving", "drive"} => assignee # NoProvider

\* A bid that can be awarded has an amount, and the history has it.
AmountIsAsked ==
  \A p \in Providers : bid[p] = "active" => amount[p] \in asked[p]

\* The assignment is one row.
OneRow == assignee = NoProvider <=> astatus = "none"

SafeInv == OneAward /\ ProgressIsBacked

IInv == TypeOK /\ SafeInv /\ ReadsHold /\ AmountIsAsked /\ OneRow

USE MarketplaceAssumption

LEMMA InitInv == Init => IInv
BY DEF Init, IInv, SafeInv, TypeOK, OneAward, ProgressIsBacked, ReadsHold, AmountIsAsked,
       OneRow, Statuses, Mutations, Idle

-----------------------------------------------------------------------------
\* What a handler's reads let it go on with fits the rows as they are now.
Fits(m) ==
  /\ m \in Mutations
  /\ m.op \in {"bidding", "create", "rebid", "edit", "withdraw", "award"} => m.p \in Providers
  /\ m.op \in {"create", "rebid"} => m.amount \in BidAmounts
  /\ m.op = "award" => m.amount \in asked[m.p]
  /\ m.op \in {"driving", "drive"} => assignee # NoProvider

LEMMA IdleFits == Fits(Idle)
BY DEF Fits, Idle, Mutations, Statuses

LEMMA ReadsFit == TypeOK /\ ReadsHold <=> TypeOK /\ \A r \in Requests : Fits(doing[r])
BY DEF TypeOK, ReadsHold, Fits

\* A step of one handler that keeps the amounts asked and the assignment leaves what
\* the others have read in place.
LEMMA OthersFit ==
  ASSUME TypeOK, ReadsHold, NEW r \in Requests, NEW m, Fits(m),
         doing' = [doing EXCEPT ![r] = m],
         \A p \in Providers : asked[p] \subseteq asked'[p],
         assignee # NoProvider => assignee' # NoProvider
  PROVE  doing' \in [Requests -> Mutations] /\ ReadsHold'
<1>1. doing' \in [Requests -> Mutations]
  BY DEF TypeOK, Fits
<1>2. ASSUME NEW s \in Requests PROVE Fits(doing'[s])
  <2>1. doing'[s] = IF s = r THEN m ELSE doing[s]
    BY DEF TypeOK
  <2> QED
    BY <2>1, ReadsFit
<1>3. \A s \in Requests : doing'[s].op = "award" => doing'[s].amount \in asked'[doing'[s].p]
  BY <1>2 DEF Fits
<1> QED
  BY <1>1, <1>2, <1>3 DEF ReadsHold, Fits

-----------------------------------------------------------------------------
\* A handler's reads change nothing but what it is about to do.
LEMMA ReadInv ==
  ASSUME IInv, NEW r \in Requests, Reads(r) \/ Abandon(r)
  PROVE  IInv'
<1> USE DEF IInv, SafeInv, bids, assignment
<1>0. doing[r] \in Mutations
  BY DEF TypeOK
<1>1. UNCHANGED <<status, bids, award, assignment>>
  BY DEF Reads, BidStarts, BidReads, EditReads, AwardReads, DriverStarts, DriverReads,
         CancelReads, Abandon, Begin, Continue
<1>2. \E m : Fits(m) /\ doing' = [doing EXCEPT ![r] = m]
  <2>1. ASSUME NEW p \in Providers, BidStarts(r, p)
        PROVE  \E m : Fits(m) /\ doing' = [doing EXCEPT ![r] = m]
    <3> DEFINE m == [Idle EXCEPT !.op = "bidding", !.p = p]
    <3>1. m \in Mutations /\ m.op = "bidding" /\ m.p = p
      BY DEF Idle, Mutations, Statuses
    <3>2. Fits(m)
      BY <3>1 DEF Fits
    <3> QED
      BY <2>1, <3>2 DEF BidStarts, Begin
  <2>2. CASE BidReads(r)
    <3>1. PICK a \in BidAmounts :
            doing' = [doing EXCEPT ![r] = [doing[r] EXCEPT !.amount = a,
                        !.op = IF bid[doing[r].p] = "none" THEN "create" ELSE "rebid"]]
      BY <2>2 DEF BidReads, Continue
    <3> DEFINE o == IF bid[doing[r].p] = "none" THEN "create" ELSE "rebid"
               m == [doing[r] EXCEPT !.amount = a, !.op = o]
    <3>2. o \in {"create", "rebid"}
      OBVIOUS
    <3> HIDE DEF o
    <3>3. m \in Mutations /\ m.op = o /\ m.p = doing[r].p /\ m.amount = a
      BY <1>0, <3>2 DEF Mutations
    <3>4. doing[r].p \in Providers
      BY <2>2 DEF BidReads, ReadsHold
    <3>5. Fits(m)
      BY <3>2, <3>3, <3>4 DEF Fits
    <3> QED
      BY <3>1, <3>5 DEF o
  <2>3. ASSUME NEW p \in Providers, EditReads(r, p)
        PROVE  \E m : Fits(m) /\ doing' = [doing EXCEPT ![r] = m]
    <3>1. PICK op \in {"edit", "withdraw"}, a \in BidAmounts \cup {NoAmount} :
            doing' = [doing EXCEPT ![r] = [Idle EXCEPT !.op = op, !.p = p, !.amount = a]]
      BY <2>3 DEF EditReads, Begin
    <3> DEFINE m == [Idle EXCEPT !.op = op, !.p = p, !.amount = a]
    <3>2. m \in Mutations /\ m.op = op /\ m.p = p
      BY DEF Idle, Mutations, Statuses
    <3>3. Fits(m)
      BY <3>2 DEF Fits
    <3> QED
      BY <3>1, <3>3
  <2>4. ASSUME NEW p \in Providers, AwardReads(r, p)
        PROVE  \E m : Fits(m) /\ doing' = [doing EXCEPT ![r] = m]
    <3> DEFINE m == [Idle EXCEPT !.op = "award", !.p = p, !.amount = amount[p]]
    <3>1. amount[p] \in asked[p] /\ amount[p] \in BidAmounts \cup {NoAmount}
      BY <2>4 DEF AwardReads, AmountIsAsked, TypeOK
    <3>2. m \in Mutations /\ m.op = "award" /\ m.p = p /\ m.amount = amount[p]
      BY <3>1 DEF Idle, Mutations, Statuses
    <3>3. Fits(m)
      BY <3>1, <3>2 DEF Fits
    <3> QED
      BY <2>4, <3>3 DEF AwardReads, Begin
  <2>5. CASE DriverStarts(r)
    <3>1. PICK to \in Progress :
            doing' = [doing EXCEPT ![r] = [Idle EXCEPT !.op = "driving", !.to = to]]
      BY <2>5 DEF DriverStarts, Begin
    <3> DEFINE m == [Idle EXCEPT !.op = "driving", !.to = to]
    <3>2. m \in Mutations /\ m.op = "driving"
      BY DEF Idle, Mutations, Statuses, Progress
    <3>3. Fits(m)
      BY <2>5, <3>2 DEF Fits, DriverStarts
    <3> QED
      BY <3>1, <3>3
  <2>6. CASE DriverReads(r)
    <3> DEFINE m == [doing[r] EXCEPT !.op = "drive"]
    <3>1. m \in Mutations /\ m.op = "drive"
      BY <1>0 DEF Mutations
    <3>2. Fits(m)
      BY <1>0, <2>6, <3>1 DEF Fits, DriverReads, ReadsHold
    <3> QED
      BY <2>6, <3>2 DEF DriverReads, Continue
  <2>7. CASE CancelReads(r)
    <3> DEFINE m == [Idle EXCEPT !.op = "cancel"]
    <3>1. m \in Mutations /\ m.op = "cancel"
      BY DEF Idle, Mutations, Statuses
    <3>2. Fits(m)
      BY <3>1 DEF Fits
    <3> QED
      BY <2>7, <3>2 DEF CancelReads, Begin
  <2>8. CASE Abandon(r)
    BY <2>8, IdleFits DEF Abandon, End
  <2> QED
    BY <2>1, <2>2, <2>3, <2>4, <2>5, <2>6, <2>7, <2>8 DEF Reads
<1>3. doing' \in [Requests -> Mutations] /\ ReadsHold'
  BY <1>1, <1>2, OthersFit
<1> QED
  BY <1>1, <1>3 DEF TypeOK, OneAward, ProgressIsBacked, AmountIsAsked, OneRow

-----------------------------------------------------------------------------
\* What asking leaves behind.
LEMMA AskKeeps ==
  ASSUME TypeOK, NEW p \in Providers, NEW a \in BidAmounts, Ask(p, a)
  PROVE  /\ amount' \in [Providers -> BidAmounts \cup {NoAmount}]
         /\ asked' \in [Providers -> SUBSET BidAmounts]
         /\ amount'[p] \in asked'[p]
         /\ \A q \in Providers : /\ asked[q] \subseteq asked'[q]
                                 /\ q # p => amount'[q] = amount[q]
BY DEF TypeOK, Ask

\* A late bid or edit may overwrite the winner's row, and still makes no winner.
LEMMA BidInv ==
  ASSUME IInv, NEW r \in Requests, BidWrites(r) \/ EditWrites(r)
  PROVE  IInv'
<1> DEFINE p == doing[r].p
           a == doing[r].amount
<1> USE DEF IInv, SafeInv, assignment
<1>1. p \in Providers /\ a \in BidAmounts \cup {NoAmount}
  BY DEF BidWrites, EditWrites, ReadsHold, TypeOK, Mutations
<1>2. UNCHANGED <<status, award, assignment>> /\ End(r)
  BY DEF BidWrites, EditWrites
<1>3. (Ask(p, a) /\ a \in BidAmounts) \/ UNCHANGED <<amount, asked>>
  BY <1>1 DEF BidWrites, EditWrites, ReadsHold, bids
<1>4. \/ UNCHANGED bid
      \/ bid' = [bid EXCEPT ![p] = "withdrawn"]
      \/ bid' = [bid EXCEPT ![p] = "active"] /\ Ask(p, a) /\ a \in BidAmounts
  BY <1>1 DEF BidWrites, EditWrites, ReadsHold, bids
<1> HIDE DEF p, a
<1>5. /\ amount' \in [Providers -> BidAmounts \cup {NoAmount}]
      /\ asked' \in [Providers -> SUBSET BidAmounts]
      /\ \A q \in Providers : asked[q] \subseteq asked'[q]
  BY <1>1, <1>3, AskKeeps DEF TypeOK
<1>6. bid' \in [Providers -> {"none", "active", "withdrawn", "rejected", "accepted"}]
  BY <1>1, <1>4 DEF TypeOK
<1>7. doing' \in [Requests -> Mutations] /\ ReadsHold'
  BY <1>2, <1>5, IdleFits, OthersFit DEF End
<1>8. AmountIsAsked'
  <2> SUFFICES ASSUME NEW q \in Providers, bid'[q] = "active" PROVE amount'[q] \in asked'[q]
    BY DEF AmountIsAsked
  <2>1. CASE Ask(p, a) /\ a \in BidAmounts
    <3>1. q # p => bid[q] = "active"
      BY <1>1, <1>4 DEF TypeOK
    <3> QED
      BY <1>1, <2>1, <3>1, AskKeeps DEF AmountIsAsked
  <2>2. CASE UNCHANGED <<amount, asked>> /\ ~ (Ask(p, a) /\ a \in BidAmounts)
    <3>1. bid[q] = "active"
      BY <1>1, <1>4, <2>2 DEF TypeOK
    <3> QED
      BY <2>2, <3>1 DEF AmountIsAsked
  <2> QED
    BY <1>3, <2>1, <2>2
<1>9. OneAward'
  BY <1>1, <1>2, <1>4 DEF OneAward, TypeOK
<1> QED
  BY <1>2, <1>5, <1>6, <1>7, <1>8, <1>9 DEF TypeOK, ProgressIsBacked, OneRow

\* The unique index lets one award commit, and the assignment follows it.
LEMMA AwardInv ==
  ASSUME IInv, NEW r \in Requests, AwardWrites(r)
  PROVE  IInv'
<1> DEFINE p == doing[r].p
<1> USE DEF IInv, SafeInv, assignment
<1>1. p \in Providers /\ doing[r].amount \in asked[p] /\ asked[p] \subseteq BidAmounts
  BY DEF AwardWrites, ReadsHold, TypeOK
<1>2. End(r) /\ UNCHANGED <<amount, asked>>
  BY DEF AwardWrites
<1>3. CASE award # NoProvider
  <2>1. UNCHANGED <<status, bids, award, assignment>>
    BY <1>2, <1>3 DEF AwardWrites, bids
  <2>2. doing' \in [Requests -> Mutations] /\ ReadsHold'
    BY <1>2, <2>1, IdleFits, OthersFit DEF End
  <2> QED
    BY <2>1, <2>2 DEF TypeOK, OneAward, ProgressIsBacked, AmountIsAsked, OneRow, bids
<1>4. CASE award = NoProvider
  <2>1. /\ award' = p /\ ResolveBids(p) /\ status' = "assigned"
        /\ assignee' = p /\ astatus' = "active" /\ agreed' = doing[r].amount
    BY <1>4 DEF AwardWrites, AssignTo, OneAward
  <2>2. doing' \in [Requests -> Mutations] /\ ReadsHold'
    BY <1>1, <1>2, <2>1, IdleFits, OthersFit DEF End
  <2> HIDE DEF p
  <2>3. \A q \in Providers : bid'[q] = IF q = p THEN "accepted"
                                      ELSE IF bid[q] = "active" THEN "rejected" ELSE bid[q]
    BY <2>1 DEF ResolveBids
  <2>4. bid' \in [Providers -> {"none", "active", "withdrawn", "rejected", "accepted"}]
    BY <2>1 DEF ResolveBids, TypeOK
  <2>5. OneAward' /\ AmountIsAsked'
    BY <1>1, <1>4, <2>1, <2>3 DEF OneAward, AmountIsAsked
  <2>6. ProgressIsBacked' /\ OneRow'
    BY <1>1, <2>1 DEF ProgressIsBacked, OneRow
  <2>7. TypeOK'
    BY <1>1, <1>2, <2>1, <2>2, <2>4 DEF TypeOK, Statuses
  <2> QED
    BY <2>2, <2>5, <2>6, <2>7
<1> QED
  BY <1>3, <1>4

LEMMA DriveInv ==
  ASSUME IInv, NEW r \in Requests, DriverWrites(r) \/ CancelWrites(r)
  PROVE  IInv'
<1> USE DEF IInv, SafeInv, assignment
<1>1. End(r) /\ UNCHANGED <<bids, award, assignee, agreed>>
  BY DEF DriverWrites, CancelWrites
<1>2. doing' \in [Requests -> Mutations] /\ ReadsHold'
  BY <1>1, IdleFits, OthersFit DEF End, bids
<1>3. doing[r].to \in Statuses /\ (doing[r].op = "drive" => assignee # NoProvider)
  BY DEF TypeOK, Mutations, ReadsHold
<1>4. TypeOK'
  BY <1>1, <1>2, <1>3 DEF TypeOK, bids, DriverWrites, CancelWrites, Statuses
<1>5. ProgressIsBacked' /\ OneRow'
  BY <1>1, <1>3 DEF ProgressIsBacked, OneRow, OneAward, DriverWrites, CancelWrites
<1> QED
  BY <1>1, <1>2, <1>4, <1>5 DEF OneAward, AmountIsAsked, bids

LEMMA NextInv == IInv /\ [Next]_mvars => IInv'
<1> SUFFICES ASSUME IInv, [Next]_mvars PROVE IInv'
  OBVIOUS
<1>1. ASSUME NEW r \in Requests, Reads(r) \/ Writes(r) \/ Abandon(r) PROVE IInv'
  BY <1>1, ReadInv, BidInv, AwardInv, DriveInv DEF Writes
<1>2. CASE UNCHANGED mvars
  BY <1>2 DEF mvars, bids, assignment, IInv, SafeInv, TypeOK, OneAward, ProgressIsBacked,
              ReadsHold, AmountIsAsked, OneRow
<1> QED
  BY <1>1, <1>2 DEF Next

-----------------------------------------------------------------------------
\* One bid at most is accepted, its provider has the shipment, and the status never
\* runs ahead of the award (market-place.service.ts:471-770, shipments.service.ts:2093-2221).
THEOREM Safety == Spec => [](TypeOK /\ OneAward /\ ProgressIsBacked)
<1>1. IInv => TypeOK /\ OneAward /\ ProgressIsBacked
  BY DEF IInv, SafeInv
<1> QED
  BY <1>1, InitInv, NextInv, PTL DEF Spec

-----------------------------------------------------------------------------
\* Every step of Marketplace is a step of the auction, or leaves it alone.
LEMMA NextBids == IInv /\ [Next]_mvars => [Promise!Next]_(Promise!avars)
<1> SUFFICES ASSUME IInv, [Next]_mvars PROVE [Promise!Next]_(Promise!avars)
  OBVIOUS
<1> USE DEF IInv, SafeInv, Promise!avars, delivered, bids, assignment
<1>1. ASSUME NEW r \in Requests, Reads(r) \/ Abandon(r) PROVE UNCHANGED Promise!avars
  BY <1>1 DEF Reads, BidStarts, BidReads, EditReads, AwardReads, DriverStarts, DriverReads,
              CancelReads, Abandon, Begin, Continue
<1>2. ASSUME NEW r \in Requests, BidWrites(r) \/ EditWrites(r)
      PROVE  \/ UNCHANGED Promise!avars
             \/ \E p \in Providers, a \in BidAmounts : Promise!Bid(p, a)
  <2> DEFINE p == doing[r].p
             a == doing[r].amount
  <2>1. p \in Providers /\ a \in BidAmounts \cup {NoAmount}
    BY <1>2 DEF BidWrites, EditWrites, ReadsHold, TypeOK, Mutations
  <2>2. UNCHANGED asked \/ (a \in BidAmounts /\ Ask(p, a))
    BY <1>2, <2>1 DEF BidWrites, EditWrites, ReadsHold
  <2>3. UNCHANGED <<assignee, agreed, astatus>>
    BY <1>2 DEF BidWrites, EditWrites
  <2> QED
    BY <2>1, <2>2, <2>3 DEF Ask, Promise!Bid
<1>3. ASSUME NEW r \in Requests, AwardWrites(r)
      PROVE  UNCHANGED Promise!avars \/ \E p \in Providers : Promise!Award(p)
  <2>1. CASE award # NoProvider
    BY <1>3, <2>1 DEF AwardWrites
  <2>2. CASE award = NoProvider
    <3>1. doing[r].p \in Providers /\ doing[r].amount \in asked[doing[r].p]
      BY <1>3 DEF AwardWrites, ReadsHold
    <3>2. Promise!Award(doing[r].p)
      BY <1>3, <2>2, <3>1 DEF AwardWrites, AssignTo, OneAward, OneRow, Promise!Award
    <3> QED
      BY <3>1, <3>2
  <2> QED
    BY <2>1, <2>2
<1>4. ASSUME NEW r \in Requests, DriverWrites(r) \/ CancelWrites(r)
      PROVE  UNCHANGED Promise!avars \/ Promise!Deliver
  <2>1. doing[r].op = "drive" => assignee # NoProvider
    BY DEF ReadsHold
  <2> QED
    BY <1>4, <2>1 DEF DriverWrites, CancelWrites, Promise!Deliver
<1>5. CASE UNCHANGED mvars
  BY <1>5 DEF mvars
<1> QED
  BY <1>1, <1>2, <1>3, <1>4, <1>5 DEF Next, Writes, Promise!Next

\* Bids, edits, withdrawals and awards that race promise no less than the auction: one
\* winner, at an amount it bid, that nothing changes afterwards
\* (market-place.service.ts:649-770).
THEOREM MarketplaceImplementsAuction == Spec => ImplementsAuction
<1>1. Init => Promise!Init
  BY DEF Init, Promise!Init, delivered
<1> QED
  BY <1>1, InitInv, NextInv, NextBids, PTL DEF Spec, ImplementsAuction, Promise!Spec
=============================================================================
