-------------------------- MODULE OnboardingProofs --------------------------
(***************************************************************************)
(* The safety of Onboarding for any number of mutations in flight and any  *)
(* number of submissions.                                                  *)
(***************************************************************************)
EXTENDS Onboarding, TLAPS

\* What a mutation has read and still relies on when it writes: an approved driver has
\* a provider, and a review that locks the account knows whether there is one.
ReadsHold ==
  \A r \in Requests :
    /\ doing[r].op = "presence" => doing[r].linked
    /\ doing[r].op \in {"approving", "approved"} /\ doing[r].found => rows = 1
    /\ doing[r].op = "approved" /\ ~doing[r].found => rows = 0

\* The account's row is locked by one review.
OneJudge ==
  \A r, s \in Requests :
    doing[r].op \in {"approved", "rejected"} /\ doing[s].op \in {"approved", "rejected"}
      => r = s

\* What an approval grants, and every other status takes away.
Granted ==
  /\ rows <= 1
  /\ status = "approved" => linked /\ rows = 1
  /\ status # "approved" => ~canDispatch /\ ~canFreight
  /\ canFreight => providerKind # "bike"

IInv == TypeOK /\ InReviewIsSubmitted /\ AvailableIsOnline /\ Granted /\ ReadsHold /\ OneJudge

LEMMA InitInv == Init => IInv
<1> SUFFICES ASSUME Init PROVE IInv
  OBVIOUS
<1>1. Idle \in Mutations /\ Idle.op = "idle"
  BY DEF Idle, Mutations, Statuses, Kinds
<1>2. doing \in [Requests -> Mutations] /\ \A r \in Requests : doing[r].op = "idle"
  BY <1>1 DEF Init
<1>3. ReadsHold /\ OneJudge
  BY <1>2 DEF ReadsHold, OneJudge
<1>4. InReviewIsSubmitted /\ AvailableIsOnline /\ Granted
  BY DEF Init, InReviewIsSubmitted, AvailableIsOnline, Granted
<1>5. subs \in Seq([status : {"in_review", "approved", "rejected"}, began : Nat])
  BY DEF Init
<1>6. TypeOK
  BY <1>2, <1>5 DEF Init, TypeOK, Statuses, Kinds
<1> QED
  BY <1>3, <1>4, <1>6 DEF IInv

-----------------------------------------------------------------------------
\* What a mutation is about to do fits the rows as they are now.
Fits(m) ==
  /\ m \in Mutations
  /\ m.op = "presence" => m.linked
  /\ m.op \in {"approving", "approved"} /\ m.found => rows = 1
  /\ m.op = "approved" /\ ~m.found => rows = 0
  /\ m.op \in {"approved", "rejected"} => ~Judging({"approved", "rejected"})

LEMMA IdleFits == Fits(Idle)
BY DEF Fits, Idle, Mutations, Statuses, Kinds

\* A step of one mutation that makes no provider leaves what the others rely on.
LEMMA OthersFit ==
  ASSUME TypeOK, ReadsHold, OneJudge, NEW r \in Requests, NEW m, Fits(m),
         doing' = [doing EXCEPT ![r] = m], rows' = rows
  PROVE  doing' \in [Requests -> Mutations] /\ ReadsHold' /\ OneJudge'
<1>1. \A s \in Requests : doing'[s] = IF s = r THEN m ELSE doing[s]
  BY DEF TypeOK
<1>2. doing' \in [Requests -> Mutations]
  BY DEF TypeOK, Fits
<1>3. ReadsHold'
  BY <1>1 DEF ReadsHold, Fits
<1>4. OneJudge'
  BY <1>1 DEF OneJudge, Fits, Judging
<1> QED
  BY <1>2, <1>3, <1>4

-----------------------------------------------------------------------------
\* Reads, and a mutation that is given up, change nothing but what is about to be done.
LEMMA ReadInv ==
  ASSUME IInv, NEW r \in Requests, NEW m, Fits(m),
         doing' = [doing EXCEPT ![r] = m], Unchanged
  PROVE  IInv'
<1> USE DEF IInv, Unchanged, details, grants, provider
<1>1. doing' \in [Requests -> Mutations] /\ ReadsHold' /\ OneJudge'
  BY OthersFit
<1>2. TypeOK'
  BY <1>1 DEF TypeOK
<1>3. InReviewIsSubmitted' /\ AvailableIsOnline' /\ Granted'
  BY DEF InReviewIsSubmitted, AvailableIsOnline, Granted
<1> QED
  BY <1>1, <1>2, <1>3

\* Everything a mutation reads fits the rows at that time.
LEMMA ReadsFit ==
  ASSUME IInv, NEW r \in Requests,
         \/ EditReads(r) \/ SubmitReads(r) \/ ReviewReads(r) \/ ReviewFinds(r)
         \/ ReviewLocks(r) \/ PresenceReads(r) \/ SwitchReads(r) \/ Abandon(r)
  PROVE  Unchanged /\ \E m : Fits(m) /\ doing' = [doing EXCEPT ![r] = m]
<1> USE DEF IInv, Begin, Continue
<1>0. doing[r] \in Mutations
  BY DEF TypeOK
<1>1. CASE EditReads(r)
  <2> DEFINE e == IF status = "none" THEN "draft" ELSE status
             m == [Idle EXCEPT !.op = "edit", !.seen = e]
  <2>1. e \in Statuses
    BY DEF TypeOK, Statuses
  <2> HIDE DEF e
  <2>2. m \in Mutations /\ m.op = "edit"
    BY <2>1 DEF Idle, Mutations, Statuses, Kinds
  <2>3. Fits(m)
    BY <2>2 DEF Fits
  <2> QED
    BY <1>1, <2>3 DEF EditReads, e
<1>2. CASE SubmitReads(r)
  <2> DEFINE m == [Idle EXCEPT !.op = "submit", !.sub = Len(subs)]
  <2>1. Len(subs) \in Nat
    BY DEF TypeOK
  <2>2. m \in Mutations /\ m.op = "submit"
    BY <2>1 DEF Idle, Mutations, Statuses, Kinds
  <2>3. Fits(m)
    BY <2>2 DEF Fits
  <2> QED
    BY <1>2, <2>3 DEF SubmitReads
<1>3. CASE ReviewReads(r)
  <2> DEFINE a == [Idle EXCEPT !.op = "approve", !.kind = kind]
             b == [Idle EXCEPT !.op = "rejecting", !.linked = linked]
  <2>1. a \in Mutations /\ a.op = "approve" /\ b \in Mutations /\ b.op = "rejecting"
    BY DEF TypeOK, Idle, Mutations, Statuses, Kinds
  <2>2. Fits(a) /\ Fits(b)
    BY <2>1 DEF Fits
  <2> QED
    BY <1>3, <2>2 DEF ReviewReads
<1>4. CASE ReviewFinds(r)
  <2> DEFINE f == rows > 0
             m == [doing[r] EXCEPT !.op = "approving", !.found = f]
  <2>1. f \in BOOLEAN /\ (f => rows = 1)
    BY DEF TypeOK, Granted
  <2> HIDE DEF f
  <2>2. m \in Mutations /\ m.op = "approving" /\ m.found = f
    BY <1>0, <2>1 DEF Mutations
  <2>3. Fits(m)
    BY <2>1, <2>2 DEF Fits
  <2> QED
    BY <1>4, <2>3 DEF ReviewFinds, f
<1>5. CASE ReviewLocks(r)
  <2>1. CASE doing[r].op = "approving" /\ ~doing[r].found /\ rows > 0
    BY <1>5, <2>1, IdleFits DEF ReviewLocks, End
  <2>2. CASE ~(doing[r].op = "approving" /\ ~doing[r].found /\ rows > 0)
    <3>1. PICK i \in Latest :
            /\ doing' = [doing EXCEPT ![r] =
                          [doing[r] EXCEPT !.op = Verdict(doing[r].op), !.sub = i]]
            /\ Unchanged
      BY <1>5, <2>2 DEF ReviewLocks
    <3> DEFINE v == Verdict(doing[r].op)
               m == [doing[r] EXCEPT !.op = v, !.sub = i]
    <3>2. i \in Nat
      BY DEF Latest, TypeOK
    <3>3. (v = "approved" /\ doing[r].op = "approving") \/ v = "rejected"
      BY <1>5 DEF ReviewLocks, Verdict
    <3> HIDE DEF v
    <3>4. m \in Mutations /\ m.op = v /\ m.found = doing[r].found
      BY <1>0, <3>2, <3>3 DEF Mutations
    <3>5. ~Judging({"approved", "rejected"})
      BY <1>5 DEF ReviewLocks
    <3>6. v = "approved" => IF doing[r].found THEN rows = 1 ELSE rows = 0
      BY <2>2, <3>3 DEF ReadsHold, TypeOK
    <3>7. v = "approved" \/ v = "rejected"
      BY <3>3
    <3>8. Fits(m)
      BY <3>4, <3>5, <3>6, <3>7 DEF Fits
    <3> QED
      BY <3>1, <3>8 DEF v
  <2> QED
    BY <2>1, <2>2
<1>6. CASE PresenceReads(r)
  <2>1. PICK on \in BOOLEAN :
          Begin(r, [Idle EXCEPT !.op = "presence", !.linked = linked, !.on = on])
    BY <1>6 DEF PresenceReads
  <2> DEFINE m == [Idle EXCEPT !.op = "presence", !.linked = linked, !.on = on]
  <2>2. linked = TRUE
    BY <1>6 DEF PresenceReads, Granted, TypeOK
  <2>3. m \in Mutations /\ m.op = "presence" /\ m.linked
    BY <2>2 DEF TypeOK, Idle, Mutations, Statuses, Kinds
  <2>4. Fits(m)
    BY <2>3 DEF Fits
  <2> QED
    BY <2>1, <2>4
<1>7. CASE SwitchReads(r)
  <2> DEFINE a == [Idle EXCEPT !.op = "shipper"]
             b == [Idle EXCEPT !.op = "driver"]
  <2>1. a \in Mutations /\ a.op = "shipper" /\ b \in Mutations /\ b.op = "driver"
    BY DEF Idle, Mutations, Statuses, Kinds
  <2>2. Fits(a) /\ Fits(b)
    BY <2>1 DEF Fits
  <2> QED
    BY <1>7, <2>2 DEF SwitchReads
<1>8. CASE Abandon(r)
  BY <1>8, IdleFits DEF Abandon, End
<1> QED
  BY <1>1, <1>2, <1>3, <1>4, <1>5, <1>6, <1>7, <1>8

-----------------------------------------------------------------------------
\* The writes.
LEMMA EditInv ==
  ASSUME IInv, NEW r \in Requests, EditWrites(r)
  PROVE  IInv'
<1> USE DEF IInv, EditWrites, End, details, grants, provider
<1>1. doing' \in [Requests -> Mutations] /\ ReadsHold' /\ OneJudge'
  BY OthersFit, IdleFits
<1>2. (status' = "draft" /\ ~canDispatch' /\ ~canFreight') \/ UNCHANGED grants
  OBVIOUS
<1>a. kind' \in Kinds /\ ready' \in BOOLEAN
  BY DEF TypeOK, Kinds
<1>b. status' \in Statuses /\ canDispatch' \in BOOLEAN /\ canFreight' \in BOOLEAN
  BY DEF TypeOK, Statuses
<1>3. TypeOK'
  BY <1>1, <1>a, <1>b DEF TypeOK
<1>4. InReviewIsSubmitted' /\ AvailableIsOnline' /\ Granted'
  BY <1>2 DEF InReviewIsSubmitted, AvailableIsOnline, Granted
<1> QED
  BY <1>1, <1>3, <1>4

LEMMA SubmitInv ==
  ASSUME IInv, NEW r \in Requests, SubmitWrites(r)
  PROVE  IInv'
<1> USE DEF IInv, SubmitWrites, End, details, provider
<1> DEFINE row == Row("in_review", doing[r].sub)
<1>1. doing' \in [Requests -> Mutations] /\ ReadsHold' /\ OneJudge'
  BY OthersFit, IdleFits
<1>2. row \in [status : {"in_review", "approved", "rejected"}, began : Nat]
      /\ row.status = "in_review"
  BY DEF Row, TypeOK, Mutations
<1>3. subs' = Append(subs, row)
  OBVIOUS
<1> HIDE DEF row
<1>4. /\ subs' \in Seq([status : {"in_review", "approved", "rejected"}, began : Nat])
      /\ Len(subs') = Len(subs) + 1 /\ subs'[Len(subs')] = row
      /\ Len(subs') \in 1 .. Len(subs')
  BY <1>2, <1>3 DEF TypeOK
<1>5. TypeOK'
  BY <1>1, <1>4 DEF TypeOK, Statuses
<1>6. InReviewIsSubmitted' /\ AvailableIsOnline' /\ Granted'
  BY <1>2, <1>4 DEF InReviewIsSubmitted, AvailableIsOnline, Granted
<1> QED
  BY <1>1, <1>5, <1>6

\* A verdict is written into a row that is there, or into a new one.
LEMMA JudgeType ==
  ASSUME TypeOK, NEW r \in Requests, doing[r].op \in {"approved", "rejected"}, Judge(r)
  PROVE  subs' \in Seq([status : {"in_review", "approved", "rejected"}, began : Nat])
<1> DEFINE S == [status : {"in_review", "approved", "rejected"}, began : Nat]
           row == Row(doing[r].op, 0)
           k == doing[r].sub
<1>0. subs \in Seq(S)
  BY DEF TypeOK
<1>1. row \in S
  BY DEF Row
<1>2. CASE k = 0
  BY <1>0, <1>1, <1>2 DEF Judge
<1>3. CASE k # 0
  <2>1. subs' = [subs EXCEPT ![k] = [subs[k] EXCEPT !.status = doing[r].op]]
    BY <1>3 DEF Judge
  <2>2. \A x \in S : [x EXCEPT !.status = doing[r].op] \in S
    OBVIOUS
  <2> HIDE DEF S
  <2>3. \A i \in 1 .. Len(subs) : subs[i] \in S
    BY <1>0
  <2>4. DOMAIN subs = 1 .. Len(subs) /\ Len(subs) \in Nat
    BY <1>0
  <2>5. subs' \in [1 .. Len(subs) -> S]
    BY <1>0, <2>1, <2>2, <2>3, <2>4
  <2>6. subs' \in Seq(S)
    BY <2>4, <2>5
  <2> QED
    BY <2>6 DEF S
<1> QED
  BY <1>2, <1>3

LEMMA ApproveInv ==
  ASSUME IInv, NEW r \in Requests, Approve(r)
  PROVE  IInv'
<1> USE DEF IInv, Approve, End, details, grants, provider
<1>0. doing[r] \in Mutations /\ rows \in Nat
  BY DEF TypeOK
<1>1. rows' = 1
  BY <1>0 DEF ReadsHold
<1>2. \A s \in Requests : doing'[s] = IF s = r THEN Idle ELSE doing[s]
  BY DEF TypeOK
<1>3. doing' \in [Requests -> Mutations]
  BY IdleFits DEF Fits, TypeOK
<1>4. OneJudge'
  BY <1>2 DEF OneJudge, Idle
<1>5. ReadsHold'
  <2>1. Idle.op = "idle"
    BY DEF Idle
  <2>2. ASSUME NEW s \in Requests, s # r PROVE doing[s].op # "approved"
    BY <2>2 DEF OneJudge
  <2> QED
    BY <1>1, <1>2, <2>1, <2>2 DEF ReadsHold
<1>6. subs' \in Seq([status : {"in_review", "approved", "rejected"}, began : Nat])
  BY JudgeType
<1>a. status' = "approved" /\ canDispatch' = TRUE /\ linked' = TRUE /\ available' = FALSE
  OBVIOUS
<1>b. providerKind' \in Kinds /\ canFreight' \in BOOLEAN /\ (canFreight' => providerKind' # "bike")
  BY <1>0 DEF Mutations
<1>c. /\ status' \in Statuses
      /\ canDispatch' \in BOOLEAN /\ linked' \in BOOLEAN /\ available' \in BOOLEAN
  BY <1>a, Zenon DEF Statuses
<1>e. rows' \in Nat
  BY <1>1
<1>d. mode' \in {"shipper", "driver"} /\ kind' \in Kinds /\ ready' \in BOOLEAN
      /\ online' \in BOOLEAN
  BY DEF TypeOK
<1>7. TypeOK'
  BY <1>3, <1>6, <1>b, <1>c, <1>d, <1>e DEF TypeOK
<1>8. InReviewIsSubmitted' /\ AvailableIsOnline' /\ Granted'
  BY <1>1, <1>a, <1>b DEF InReviewIsSubmitted, AvailableIsOnline, Granted
<1> QED
  BY <1>4, <1>5, <1>7, <1>8

LEMMA RejectInv ==
  ASSUME IInv, NEW r \in Requests, Reject(r)
  PROVE  IInv'
<1> USE DEF IInv, Reject, End, details, grants, provider
<1>1. doing' \in [Requests -> Mutations] /\ ReadsHold' /\ OneJudge'
  BY OthersFit, IdleFits
<1>2. subs' \in Seq([status : {"in_review", "approved", "rejected"}, began : Nat])
  BY JudgeType
<1>3. TypeOK'
  BY <1>1, <1>2 DEF TypeOK, Statuses, Mutations
<1>4. InReviewIsSubmitted' /\ AvailableIsOnline' /\ Granted'
  BY DEF InReviewIsSubmitted, AvailableIsOnline, Granted
<1> QED
  BY <1>1, <1>3, <1>4

LEMMA PresenceInv ==
  ASSUME IInv, NEW r \in Requests, PresenceWrites(r)
  PROVE  IInv'
<1> USE DEF IInv, PresenceWrites, End, details, grants, provider
<1>1. doing' \in [Requests -> Mutations] /\ ReadsHold' /\ OneJudge'
  BY OthersFit, IdleFits
<1>2. available' = doing[r].on /\ online' = doing[r].on
  BY DEF ReadsHold
<1>3. TypeOK'
  BY <1>1, <1>2 DEF TypeOK, Mutations
<1>4. InReviewIsSubmitted' /\ AvailableIsOnline' /\ Granted'
  BY <1>2 DEF InReviewIsSubmitted, AvailableIsOnline, Granted
<1> QED
  BY <1>1, <1>3, <1>4

LEMMA SwitchInv ==
  ASSUME IInv, NEW r \in Requests, SwitchWrites(r)
  PROVE  IInv'
<1> USE DEF IInv, SwitchWrites, End, details, grants, provider
<1>1. doing' \in [Requests -> Mutations] /\ ReadsHold' /\ OneJudge'
  BY OthersFit, IdleFits
<1>2. TypeOK'
  BY <1>1 DEF TypeOK
<1>3. InReviewIsSubmitted' /\ AvailableIsOnline' /\ Granted'
  BY DEF InReviewIsSubmitted, AvailableIsOnline, Granted
<1> QED
  BY <1>1, <1>2, <1>3

-----------------------------------------------------------------------------
LEMMA NextInv == IInv /\ [Next]_ovars => IInv'
<1> SUFFICES ASSUME IInv, [Next]_ovars PROVE IInv'
  OBVIOUS
<1>1. CASE UNCHANGED ovars
  BY <1>1 DEF ovars, details, grants, provider, IInv, TypeOK, InReviewIsSubmitted,
              AvailableIsOnline, Granted, ReadsHold, OneJudge
<1>2. ASSUME NEW r \in Requests, Driver(r) \/ Reviewer(r) \/ Abandon(r) PROVE IInv'
  <2>1. CASE \/ EditReads(r) \/ SubmitReads(r) \/ ReviewReads(r) \/ ReviewFinds(r)
             \/ ReviewLocks(r) \/ PresenceReads(r) \/ SwitchReads(r) \/ Abandon(r)
    BY <2>1, ReadsFit, ReadInv
  <2>2. CASE EditWrites(r)
    BY <2>2, EditInv
  <2>3. CASE SubmitWrites(r)
    BY <2>3, SubmitInv
  <2>4. CASE Approve(r)
    BY <2>4, ApproveInv
  <2>5. CASE Reject(r)
    BY <2>5, RejectInv
  <2>6. CASE PresenceWrites(r)
    BY <2>6, PresenceInv
  <2>7. CASE SwitchWrites(r)
    BY <2>7, SwitchInv
  <2> QED
    BY <1>2, <2>1, <2>2, <2>3, <2>4, <2>5, <2>6, <2>7 DEF Driver, Reviewer
<1> QED
  BY <1>1, <1>2 DEF Next

\* Whatever drivers and reviewers do at the same time: a profile in review has an open
\* submission, a grant is backed by an approval and by the one provider, and an
\* available provider has a driver online.
THEOREM Safety ==
  Spec => [](TypeOK /\ InReviewIsSubmitted /\ GrantIsBacked /\ AvailableIsOnline)
<1>1. IInv => TypeOK /\ InReviewIsSubmitted /\ GrantIsBacked /\ AvailableIsOnline
  BY DEF IInv, Granted, GrantIsBacked
<1> QED
  BY InitInv, NextInv, <1>1, PTL DEF Spec
=============================================================================
