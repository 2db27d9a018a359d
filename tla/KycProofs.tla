----------------------------- MODULE KycProofs ------------------------------
(***************************************************************************)
(* Identity checks for any number of transactions, executions, reports.    *)
(***************************************************************************)
EXTENDS Kyc, LibraryProofs

Checked(type) == \E t \in Txns : TypeOf[t] = type /\ Passed(t)

\* A check is about a transaction Prembly has, and verified only if that is or was read so.
RowInv ==
  \A i \in DOMAIN checks :
    /\ vendor[checks[i].of] # "unused"
    /\ checks[i].status = "verified" => Passed(checks[i].of)

\* So is an answer that is on its way.
Answered(c) ==
  /\ doing[c].txn \in Txns /\ vendor[doing[c].txn] # "unused"
  /\ doing[c].result.status \in {"pending", "verified", "failed"}
  /\ doing[c].result.status = "verified" => Passed(doing[c].txn)

\* What an execution has found is still there, and what it has seen was so once.
CallOK(c) ==
  /\ doing[c].at \in {"answered", "create", "lookup", "save", "update"} => Answered(c)
  /\ doing[c].at = "update" \/ (doing[c].at = "save" /\ doing[c].row # 0) =>
       doing[c].row \in DOMAIN checks /\ checks[doing[c].row].of = doing[c].txn
  /\ doing[c].todo \subseteq DOMAIN checks
  /\ doing[c].at = "fetch" => doing[c].todo # {}
  /\ doing[c].seen.overall = "verified" => together

CallInv == \A c \in Calls : CallOK(c)

\* What was verified at one moment is verified at Prembly, or was misread, for good.
TogetherInv == together => \A type \in CheckTypes : Checked(type)

\* The history misses no moment.
MomentInv == Aggregate(checks).overall = "verified" => together

IInv == TypeOK /\ RowInv /\ CallInv /\ TogetherInv /\ MomentInv /\ VerifiedTogether

USE KycAssumption

-----------------------------------------------------------------------------
(* What Prembly's answers and the aggregate come to. *)

\* An answer reads verified only of what Prembly has verified, or against what it says.
LEMMA AnswersAreTrue ==
  ASSUME NEW t \in Txns, NEW s \in {"open", "verified"}, NEW a \in Answers[t][s]
  PROVE  /\ a.result \in Results /\ a.result.status \in {"pending", "verified", "failed"}
         /\ a.result.status = "verified" => s = "verified" \/ a.wrong = TRUE
<1>1. TypeOf[t] \in CheckTypes /\ NamesOf[TypeOf[t]] \subseteq Names
  OBVIOUS
<1>2. PICK b \in Bodies(TypeOf[t], s), n \in NamesOf[TypeOf[t]] :
        a = [result |-> [status |-> Normalized(TypeOf[t], b), name |-> n],
             wrong |-> Misread(b)]
  BY DEF Answers
<1>3. Normalized(TypeOf[t], b) \in {"pending", "verified", "failed"}
  BY DEF Normalized
<1>4. a.result \in Results /\ a.result.status = Normalized(TypeOf[t], b)
  BY <1>1, <1>2, <1>3 DEF Results, Statuses
<1>5. ASSUME s # "verified", Normalized(TypeOf[t], b) = "verified" PROVE a.wrong = TRUE
  <2>1. b.verification # "VERIFIED" /\ Denies(b)
        /\ (TypeOf[t] = "phone" => b.face = "absent")
    BY <1>2, <1>5 DEF Bodies, AnyBody
  <2>2. b.flag /\ CodeIsSuccess(b) /\ (TypeOf[t] = "nin_face" => b.face # "false")
    BY <1>5, <2>1 DEF Normalized, NinVerified, PhoneVerified, FaceStatus
  <2>3. b.face = "other" \/ b.verification = "other"
    BY <1>1, <2>1, <2>2 DEF Denies, CodeIsSuccess, CheckTypes
  <2>4. Misread(b)
    BY <2>2, <2>3 DEF Misread
  <2>5. Misread(b) = TRUE
    BY <2>4 DEF Misread, CodeIsSuccess
  <2> QED
    BY <1>2, <2>5
<1> QED
  BY <1>3, <1>4, <1>5

\* A wrong reading is noted, for good.
LEMMA NotesAreKept ==
  ASSUME misread \subseteq Txns, NEW t \in Txns, NEW a, Notes(t, a)
  PROVE  misread' \subseteq Txns /\ misread \subseteq misread' /\ (a.wrong = TRUE => t \in misread')
BY DEF Notes

\* A bounded set of numbers has a largest one.
LEMMA MaxIsIn ==
  ASSUME NEW n \in Nat, NEW ks \in SUBSET (1..n), ks # {}
  PROVE  Max(ks) \in ks
<1>1. PICK m \in ks : \A k \in ks : k <= m
  BY GreatestIsIn
<1>2. \A k \in ks : m >= k
  BY <1>1
<1> QED
  BY <1>2 DEF Max

\* The latest status of a type is that of one of its checks, if it has any.
LEMMA LatestIsOne ==
  ASSUME NEW rows \in Seq(Rows), NEW type, OfType(rows, type) # {}
  PROVE  /\ Max(OfType(rows, type)) \in OfType(rows, type)
         /\ LatestStatus(rows, type) = rows[Max(OfType(rows, type))].status
<1>1. Len(rows) \in Nat /\ DOMAIN rows = 1..Len(rows)
  BY LenProperties
<1>2. OfType(rows, type) \subseteq 1..Len(rows)
  BY <1>1 DEF OfType
<1> QED
  BY <1>1, <1>2, MaxIsIn DEF LatestStatus

\* The aggregate is a profile, and verified only if both of the latest checks are.
LEMMA AggregateIsSound ==
  ASSUME NEW rows \in Seq(Rows)
  PROVE  /\ Aggregate(rows) \in Summaries
         /\ Aggregate(rows).overall = "verified" =>
              \A type \in CheckTypes : \E i \in DOMAIN rows :
                TypeOf[rows[i].of] = type /\ rows[i].status = "verified"
<1> DEFINE nin == LatestStatus(rows, "nin_face")
           phone == LatestStatus(rows, "phone")
<1>1. \A i \in DOMAIN rows : rows[i] \in Rows
  BY LenProperties
<1>2. \A type : /\ LatestStatus(rows, type) \in Statuses
                /\ LatestStatus(rows, type) = "verified" =>
                     \E i \in DOMAIN rows : TypeOf[rows[i].of] = type /\ rows[i].status = "verified"
  <2>1. ASSUME NEW type, OfType(rows, type) = {}
        PROVE  LatestStatus(rows, type) = "unverified"
    BY <2>1 DEF LatestStatus
  <2>2. ASSUME NEW type, OfType(rows, type) # {}
        PROVE  \E i \in DOMAIN rows : TypeOf[rows[i].of] = type
                                      /\ LatestStatus(rows, type) = rows[i].status
    <3> DEFINE k == Max(OfType(rows, type))
    <3>1. k \in OfType(rows, type) /\ LatestStatus(rows, type) = rows[k].status
      BY <2>2, LatestIsOne
    <3> HIDE DEF k
    <3> QED
      BY <3>1 DEF OfType
  <2> QED
    BY <1>1, <2>1, <2>2 DEF Statuses, Rows
<1> HIDE DEF nin, phone
<1>3. nin \in Statuses /\ phone \in Statuses
  BY <1>2 DEF nin, phone
<1>4. Level(nin, phone) \in 0..2
  <2>1. IsFiniteSet(CheckTypes) /\ Cardinality(CheckTypes) = 2
    <3>1. IsFiniteSet({"nin_face"}) /\ Cardinality({"nin_face"}) = 1
      BY FS_Singleton
    <3>2. CheckTypes = {"nin_face"} \cup {"phone"} /\ "phone" \notin {"nin_face"}
      BY DEF CheckTypes
    <3>3. IsFiniteSet({"nin_face"} \cup {"phone"})
          /\ Cardinality({"nin_face"} \cup {"phone"}) = 1 + 1
      BY <3>1, <3>2, FS_AddElement
    <3> QED
      BY <3>2, <3>3
  <2> DEFINE L == {type \in CheckTypes : IF type = "nin_face" THEN nin = "verified"
                                                              ELSE phone = "verified"}
  <2>2. L \subseteq CheckTypes
    OBVIOUS
  <2> HIDE DEF L
  <2>3. IsFiniteSet(L) /\ Cardinality(L) \in Nat /\ Cardinality(L) <= 2
    BY <2>1, <2>2, FS_Subset, FS_CardinalityType
  <2> QED
    BY <2>3 DEF Level, L
<1>5. Overall({nin, phone}) \in Statuses
      /\ (Overall({nin, phone}) = "verified" => nin = "verified" /\ phone = "verified")
  BY <1>3 DEF Overall, Statuses
<1>6. Aggregate(rows) = Summary(nin, phone)
  BY DEF Aggregate, nin, phone
<1>7. Summary(nin, phone) \in Summaries /\ Summary(nin, phone).overall = Overall({nin, phone})
  BY <1>3, <1>4, <1>5 DEF Summary, Summaries
<1>8. ASSUME Aggregate(rows).overall = "verified", NEW type \in CheckTypes
      PROVE  \E i \in DOMAIN rows : TypeOf[rows[i].of] = type /\ rows[i].status = "verified"
  <2>1. nin = "verified" /\ phone = "verified"
    BY <1>5, <1>6, <1>7, <1>8
  <2> QED
    BY <1>2, <1>8, <2>1 DEF CheckTypes, nin, phone
<1> QED
  BY <1>6, <1>7, <1>8

LEMMA ChecksAreRows ==
  ASSUME TypeOK
  PROVE  /\ Len(checks) \in Nat /\ DOMAIN checks = 1..Len(checks)
         /\ checks \in [1..Len(checks) -> Rows]
         /\ \A i \in DOMAIN checks : checks[i] \in Rows
BY LenProperties DEF TypeOK

LEMMA IdleIsOne == Idle \in Executions
BY DEF Executions, Idle, Results, Unread, Summaries, NoProfile, Statuses, Names

LEMMA InitInv == Init => IInv
<1> SUFFICES ASSUME Init PROVE IInv
  OBVIOUS
<1>1. checks = <<>> /\ DOMAIN checks = {} /\ checks \in Seq(Rows)
  BY DEF Init
<1>2. Idle \in Executions
  BY IdleIsOne
<1>3. TypeOK
  <2>1. profile \in Summaries
    BY DEF Init, Summaries, NoProfile, Statuses
  <2>2. left \in [{"start", "report"} -> Nat]
    BY DEF Init
  <2> QED
    BY <1>1, <1>2, <2>1, <2>2 DEF Init, TypeOK
<1>4. Aggregate(checks).overall # "verified"
  BY <1>1, AggregateIsSound DEF CheckTypes
<1> QED
  BY <1>1, <1>3, <1>4 DEF Init, IInv, RowInv, CallInv, CallOK, TogetherInv, MomentInv,
       VerifiedTogether, Idle, NoProfile
-----------------------------------------------------------------------------
\* What no step takes back: what Prembly has verified, the checks, the moment.
Onward ==
  /\ \A t \in Txns : /\ vendor[t] # "unused" => vendor'[t] # "unused"
                     /\ Passed(t) => Passed(t)'
  /\ DOMAIN checks \subseteq DOMAIN checks'
  /\ \A i \in DOMAIN checks : checks'[i].of = checks[i].of
  /\ together => together'

\* So it takes nothing from the executions that do not take it.
LEMMA CallsKept ==
  ASSUME IInv, Onward, \A c \in Calls : UNCHANGED doing[c] \/ CallOK(c)'
  PROVE  CallInv'
BY DEF IInv, CallInv, CallOK, Answered, Onward, Passed

LEMMA OnwardKeeps ==
  ASSUME IInv, Onward, TypeOK', RowInv', MomentInv', VerifiedTogether',
         together' => together \/ Aggregate(checks').overall = "verified",
         \A c \in Calls : UNCHANGED doing[c] \/ CallOK(c)'
  PROVE  IInv'
<1>1. CallInv'
  BY CallsKept
<1>2. TogetherInv'
  <2>1. CASE together
    BY <2>1 DEF IInv, Onward, TogetherInv, Checked
  <2>2. CASE Aggregate(checks').overall = "verified"
    <3>1. checks' \in Seq(Rows)
      BY DEF TypeOK
    <3>2. \A type \in CheckTypes : \E i \in DOMAIN checks' :
            TypeOf[checks'[i].of] = type /\ checks'[i].status = "verified"
      BY <2>2, <3>1, AggregateIsSound
    <3>3. \A i \in DOMAIN checks' : checks'[i].of \in Txns
      <4>1. \A i \in DOMAIN checks' : checks'[i] \in Rows
        BY <3>1, LenProperties
      <4> QED
        BY <4>1 DEF Rows
    <3> QED
      BY <3>2, <3>3 DEF RowInv, TogetherInv, Checked
  <2> QED
    BY <2>1, <2>2 DEF TogetherInv
<1> QED
  BY <1>1, <1>2 DEF IInv

\* A step that only moves executions, and the profile they write.
LEMMA QuietStep ==
  ASSUME IInv, UNCHANGED <<vendor, checks, together>>, misread \subseteq misread',
         TypeOK', VerifiedTogether',
         \A c \in Calls : UNCHANGED doing[c] \/ CallOK(c)'
  PROVE  IInv'
<1>1. Onward /\ RowInv' /\ MomentInv'
  BY DEF Onward, IInv, RowInv, MomentInv, Passed
<1> QED
  BY <1>1, OnwardKeeps

\* An execution is over, goes on, or begins.
LEMMA IsOver ==
  ASSUME TypeOK, NEW c \in Calls, Ends(c)
  PROVE  /\ doing' \in [Calls -> Executions]
         /\ CallOK(c)' /\ \A d \in Calls : d # c => doing'[d] = doing[d]
<1>1. Idle \in Executions
  BY IdleIsOne
<1>2. doing'[c] = Idle
  BY DEF Ends, TypeOK
<1>3. CallOK(c)'
  BY <1>2 DEF CallOK, Idle, NoProfile
<1> QED
  BY <1>1, <1>3 DEF Ends, TypeOK

LEMMA GoesOn ==
  ASSUME TypeOK, NEW c \in Calls,
         NEW at \in {"create", "lookup"}, Goes(c, at)
  PROVE  /\ doing' \in [Calls -> Executions]
         /\ \A d \in Calls : d # c => doing'[d] = doing[d]
         /\ doing'[c].at = at /\ doing'[c].txn = doing[c].txn
         /\ doing'[c].result = doing[c].result /\ doing'[c].row = doing[c].row
         /\ doing'[c].todo = doing[c].todo /\ doing'[c].seen = doing[c].seen
<1>1. doing[c] \in Executions /\ doing' = [doing EXCEPT ![c] = [doing[c] EXCEPT !.at = at]]
  BY DEF Goes, TypeOK
<1>2. [doing[c] EXCEPT !.at = at] \in Executions
  BY <1>1 DEF Executions
<1>3. doing' \in [Calls -> Executions] /\ \A d \in Calls : d # c => doing'[d] = doing[d]
  BY <1>1, <1>2 DEF TypeOK
<1>4. doing'[c] = [doing[c] EXCEPT !.at = at]
  BY <1>1 DEF TypeOK
<1> QED
  BY <1>1, <1>3, <1>4 DEF Executions

LEMMA GoesOnAfresh ==
  ASSUME TypeOK, NEW c \in Calls, NEW at \in {"read", "fetch"}, GoesAfresh(c, at)
  PROVE  /\ doing' \in [Calls -> Executions]
         /\ \A d \in Calls : d # c => doing'[d] = doing[d]
         /\ doing'[c].at = at
         /\ doing'[c].todo = doing[c].todo /\ doing'[c].seen = NoProfile
<1> DEFINE d == [Idle EXCEPT !.at = at, !.todo = doing[c].todo]
<1>1. doing[c] \in Executions /\ doing' = [doing EXCEPT ![c] = d]
  BY DEF GoesAfresh, TypeOK
<1>2. Idle \in Executions /\ Idle.seen = NoProfile
  BY IdleIsOne DEF Idle
<1>3. d \in Executions /\ d.at = at /\ d.todo = doing[c].todo /\ d.seen = NoProfile
  BY <1>1, <1>2 DEF Executions
<1> HIDE DEF d
<1> QED
  BY <1>1, <1>3 DEF TypeOK

LEMMA Begun ==
  ASSUME TypeOK, NEW c \in Calls, NEW kind \in {"start", "report"}, NEW call \in Executions,
         Begin(c, kind, call)
  PROVE  /\ doing' \in [Calls -> Executions] /\ left' \in [{"start", "report"} -> Nat]
         /\ doing'[c] = call /\ \A d \in Calls : d # c => doing'[d] = doing[d]
<1>1. left' \in [{"start", "report"} -> Nat]
  BY DEF Begin, TypeOK
<1> QED
  BY <1>1 DEF Begin, TypeOK
-----------------------------------------------------------------------------
\* A verification starts: what Prembly answers is what it then has.
LEMMA StartStep ==
  ASSUME IInv, NEW c \in Calls, NEW t \in Txns, Start(c, t)
  PROVE  IInv'
<1>1. PICK s \in {"open", "verified"} :
        /\ vendor[t] \in {"unused", s} /\ vendor' = [vendor EXCEPT ![t] = s]
        /\ \E a \in Answers[t][s] :
             /\ Begin(c, "start", [Idle EXCEPT !.at = "answered", !.txn = t,
                                               !.result = a.result])
             /\ Notes(t, a)
  BY DEF Start
<1>2. PICK a \in Answers[t][s] :
        /\ Begin(c, "start", [Idle EXCEPT !.at = "answered", !.txn = t,
                                          !.result = a.result])
        /\ Notes(t, a)
  BY <1>1
<1>3. UNCHANGED <<checks, profile, media, together>>
  BY DEF Start
<1> DEFINE result == a.result
           call == [Idle EXCEPT !.at = "answered", !.txn = t,
                                !.result = result]
<1>4. /\ result \in Results /\ result.status \in {"pending", "verified", "failed"}
      /\ result.status = "verified" => s = "verified" \/ t \in misread'
      /\ misread' \subseteq Txns /\ misread \subseteq misread'
  BY <1>2, AnswersAreTrue, NotesAreKept DEF IInv, TypeOK
<1>0. Begin(c, "start", call)
  BY <1>2
<1> HIDE DEF result
<1>5. call \in Executions /\ call.at = "answered" /\ call.txn = t /\ call.result = result
      /\ call.todo = {} /\ call.seen = NoProfile
  <2>1. Idle \in Executions /\ Idle.todo = {} /\ Idle.seen = NoProfile
    BY IdleIsOne DEF Idle
  <2> QED
    BY <1>4, <2>1 DEF Executions
<1> HIDE DEF call
<1>6. /\ doing' \in [Calls -> Executions] /\ left' \in [{"start", "report"} -> Nat]
      /\ doing'[c] = call /\ \A d \in Calls : d # c => doing'[d] = doing[d]
  BY <1>0, <1>5, Begun DEF IInv
<1>7. vendor' \in [Txns -> {"unused", "open", "verified"}] /\ vendor'[t] = s
      /\ \A u \in Txns : u # t => vendor'[u] = vendor[u]
  BY <1>1 DEF IInv, TypeOK
<1>8. TypeOK'
  BY <1>3, <1>4, <1>6, <1>7 DEF IInv, TypeOK
<1>9. Onward
  BY <1>1, <1>3, <1>4, <1>7 DEF Onward, Passed
<1>10. RowInv'
  <2>1. \A i \in DOMAIN checks : checks[i].of \in Txns
    BY ChecksAreRows DEF IInv, Rows
  <2> QED
    BY <1>3, <1>9, <2>1 DEF IInv, RowInv, Onward
<1>11. CallOK(c)'
  BY <1>4, <1>5, <1>6, <1>7 DEF CallOK, Answered, NoProfile, Passed
<1>12. MomentInv' /\ VerifiedTogether'
  BY <1>3 DEF IInv, MomentInv, VerifiedTogether
<1> QED
  BY <1>3, <1>6, <1>8, <1>9, <1>10, <1>11, <1>12, OnwardKeeps

\* Prembly verifies a transaction: no answer about it was, or will be, misread any more.
LEMMA SettleStep ==
  ASSUME IInv, NEW t \in Txns, Settle(t)
  PROVE  IInv'
<1>1. /\ vendor' = [vendor EXCEPT ![t] = "verified"] /\ misread' = misread \ {t}
      /\ UNCHANGED <<checks, profile, media, doing, left, together>>
  BY DEF Settle
<1>2. vendor' \in [Txns -> {"unused", "open", "verified"}] /\ vendor'[t] = "verified"
      /\ \A u \in Txns : u # t => vendor'[u] = vendor[u]
  BY <1>1 DEF IInv, TypeOK
<1>3. TypeOK'
  BY <1>1, <1>2 DEF IInv, TypeOK
<1>4. Onward
  BY <1>1, <1>2 DEF Onward, Passed
<1>5. \A i \in DOMAIN checks : checks[i].of \in Txns
  BY ChecksAreRows DEF IInv, Rows
<1>6. RowInv'
  BY <1>1, <1>4, <1>5 DEF IInv, RowInv, Onward
<1>7. MomentInv' /\ VerifiedTogether'
  BY <1>1 DEF IInv, MomentInv, VerifiedTogether
<1> QED
  BY <1>1, <1>3, <1>4, <1>6, <1>7, OnwardKeeps

\* A report begins: a webhook, with an answer, or a poll.
LEMMA ReportSteps ==
  ASSUME IInv, NEW c \in Calls, (\E t \in Txns : Hook(c, t)) \/ Poll(c)
  PROVE  IInv'
<1>1. UNCHANGED <<vendor, checks, profile, media, together>>
  BY DEF Hook, Poll, history
<1>2. DOMAIN checks \in SUBSET Nat /\ Len(checks) \in Nat /\ DOMAIN checks = 1..Len(checks)
  BY ChecksAreRows DEF IInv
<1>3. Idle \in Executions /\ Idle.todo = {} /\ Idle.seen = NoProfile
  BY IdleIsOne DEF Idle
<1>4. ASSUME NEW call \in Executions, Begin(c, "report", call),
             call.seen = NoProfile, call.todo \subseteq DOMAIN checks,
             call.at \in {"update", "fetch"},
             call.at = "fetch" => call.todo # {},
             call.at = "update" =>
               /\ call.txn \in Txns /\ vendor[call.txn] # "unused"
               /\ call.result.status \in {"pending", "verified", "failed"}
               /\ call.result.status = "verified" =>
                    vendor[call.txn] = "verified" \/ call.txn \in misread'
               /\ call.row \in DOMAIN checks /\ checks[call.row].of = call.txn,
             misread' \subseteq Txns, misread \subseteq misread'
      PROVE  IInv'
  <2>1. /\ doing' \in [Calls -> Executions] /\ left' \in [{"start", "report"} -> Nat]
        /\ doing'[c] = call /\ \A d \in Calls : d # c => doing'[d] = doing[d]
    BY <1>4, Begun DEF IInv
  <2>2. TypeOK'
    BY <1>1, <1>4, <2>1 DEF IInv, TypeOK
  <2>3. CallOK(c)'
    BY <1>1, <1>4, <2>1 DEF CallOK, Answered, NoProfile, Passed
  <2>4. VerifiedTogether'
    BY <1>1 DEF IInv, VerifiedTogether
  <2> QED
    BY <1>1, <1>4, <2>1, <2>2, <2>3, <2>4, QuietStep
<1>5. ASSUME NEW t \in Txns, Hook(c, t)
      PROVE  IInv'
  <2> DEFINE row == Max(Known(t, "reference"))
  <2>1. vendor[t] # "unused"
    BY <1>5 DEF Hook
  <2>2. row \in DOMAIN checks /\ checks[row].of = t
    <3>1. Known(t, "reference") # {} /\ Known(t, "reference") \subseteq 1..Len(checks)
      BY <1>2, <1>5 DEF Hook, Known
    <3>2. row \in Known(t, "reference")
      BY <1>2, <3>1, MaxIsIn
    <3> QED
      BY <3>2 DEF Known
  <2> HIDE DEF row
  <2>3. PICK s \in {"open", vendor[t]} : \E a \in Answers[t][s] :
          /\ Begin(c, "report", [Idle EXCEPT !.at = "update", !.txn = t,
                                             !.result = a.result, !.row = row])
          /\ Notes(t, a)
    BY <1>5 DEF Hook, row
  <2>4. PICK a \in Answers[t][s] :
          /\ Begin(c, "report", [Idle EXCEPT !.at = "update", !.txn = t,
                                             !.result = a.result, !.row = row])
          /\ Notes(t, a)
    BY <2>3
  <2>5. s \in {"open", "verified"} /\ (s = "verified" => vendor[t] = "verified")
    BY <2>1 DEF IInv, TypeOK
  <2> DEFINE result == a.result
             call == [Idle EXCEPT !.at = "update", !.txn = t,
                                  !.result = result, !.row = row]
  <2>6. /\ result \in Results /\ result.status \in {"pending", "verified", "failed"}
        /\ result.status = "verified" => vendor[t] = "verified" \/ t \in misread'
        /\ misread' \subseteq Txns /\ misread \subseteq misread'
    BY <2>4, <2>5, AnswersAreTrue, NotesAreKept DEF IInv, TypeOK
  <2>8. Begin(c, "report", call)
    BY <2>4
  <2> HIDE DEF result
  <2>7. call \in Executions /\ call.at = "update" /\ call.txn = t /\ call.result = result
        /\ call.row = row /\ call.todo = {} /\ call.seen = NoProfile
    BY <1>2, <1>3, <2>2, <2>6 DEF Executions
  <2> HIDE DEF call
  <2> QED
    BY <1>4, <2>1, <2>2, <2>6, <2>7, <2>8
<1>6. ASSUME Poll(c)
      PROVE  IInv'
  <2>1. PICK targets \in {{i \in DOMAIN checks : checks[i].status = "pending"}}
                           \cup {{i} : i \in DOMAIN checks} :
          LET named == {i \in targets : checks[i].name # "none"}
          IN  /\ named # {}
              /\ Begin(c, "report", [Idle EXCEPT !.at = "fetch", !.todo = named])
    BY <1>6 DEF Poll
  <2> DEFINE named == {i \in targets : checks[i].name # "none"}
             call == [Idle EXCEPT !.at = "fetch", !.todo = named]
  <2>2. targets \subseteq DOMAIN checks
    BY <2>1
  <2>3. named # {} /\ named \subseteq DOMAIN checks
    BY <2>1, <2>2
  <2>4. Begin(c, "report", call)
    BY <2>1
  <2> HIDE DEF named
  <2>5. call \in Executions /\ call.at = "fetch" /\ call.todo = named /\ call.seen = NoProfile
    BY <1>2, <1>3, <2>3 DEF Executions
  <2>6. misread' \subseteq Txns /\ misread \subseteq misread'
    BY <1>6 DEF Poll, history, IInv, TypeOK
  <2> HIDE DEF call
  <2> QED
    BY <1>4, <2>3, <2>4, <2>5, <2>6
<1> QED
  BY <1>5, <1>6
-----------------------------------------------------------------------------
\* Between the answer and the write: the profile and the check are looked up; an
\* execution fails; somebody uploads an image.
LEMMA LookSteps ==
  ASSUME IInv, Upload \/ \E c \in Calls : FindProfile(c) \/ CreateProfile(c) \/ Lookup(c) \/ Fails(c)
  PROVE  IInv'
<1>1. UNCHANGED <<vendor, checks, together, misread, left>>
  BY DEF Upload, FindProfile, CreateProfile, Lookup, Fails, history
<1>2. CASE Upload
  <2>1. TypeOK' /\ VerifiedTogether' /\ UNCHANGED doing
    BY <1>1, <1>2 DEF Upload, IInv, TypeOK, VerifiedTogether
  <2> QED
    BY <1>1, <2>1, QuietStep
<1>3. ASSUME NEW c \in Calls, FindProfile(c)
      PROVE  IInv'
  <2>1. doing[c].at = "answered" /\ UNCHANGED <<profile, media>>
        /\ (Goes(c, "create") \/ Goes(c, "lookup"))
    BY <1>3 DEF FindProfile
  <2>2. TypeOK' /\ VerifiedTogether' /\ \A d \in Calls : d # c => UNCHANGED doing[d]
    BY <1>1, <2>1, GoesOn DEF IInv, TypeOK, VerifiedTogether
  <2>3. CallOK(c)'
    BY <1>1, <2>1, GoesOn DEF IInv, CallInv, CallOK, Answered, Passed
  <2> QED
    BY <1>1, <2>2, <2>3, QuietStep
<1>4. ASSUME NEW c \in Calls, CreateProfile(c)
      PROVE  IInv'
  <2>1. doing[c].at = "create" /\ UNCHANGED media
        /\ (Goes(c, "lookup") \/ Ends(c)) /\ profile' \in {profile, NewProfile}
    BY <1>4 DEF CreateProfile
  <2>2. NewProfile \in Summaries /\ NewProfile.overall = "pending"
    BY DEF NewProfile, Summaries, Statuses
  <2>3. TypeOK' /\ VerifiedTogether' /\ \A d \in Calls : d # c => UNCHANGED doing[d]
    BY <1>1, <2>1, <2>2, GoesOn, IsOver DEF IInv, TypeOK, VerifiedTogether
  <2>4. CallOK(c)'
    <3>1. CASE Ends(c)
      BY <3>1, IsOver DEF IInv
    <3>2. CASE Goes(c, "lookup")
      BY <1>1, <2>1, <3>2, GoesOn DEF IInv, CallInv, CallOK, Answered, Passed
    <3> QED
      BY <2>1, <3>1, <3>2
  <2> QED
    BY <1>1, <2>3, <2>4, QuietStep
<1>5. ASSUME NEW c \in Calls, Lookup(c)
      PROVE  IInv'
  <2> DEFINE found == Known(doing[c].txn, doing[c].result.name)
             row == IF doing[c].result.name = "none" \/ found = {} THEN 0 ELSE Max(found)
  <2>1. doing[c].at = "lookup" /\ UNCHANGED <<profile, media>>
        /\ doing' = [doing EXCEPT ![c].at = "save", ![c].row = row]
    BY <1>5 DEF Lookup
  <2>2. row = 0 \/ (row \in DOMAIN checks /\ checks[row].of = doing[c].txn)
    <3>1. Len(checks) \in Nat /\ found \subseteq 1..Len(checks)
      BY ChecksAreRows DEF IInv, Known
    <3>2. found # {} => Max(found) \in found
      BY <3>1, MaxIsIn
    <3>3. row = 0 \/ row \in found
      BY <3>2
    <3> HIDE DEF row
    <3> QED
      BY <3>3 DEF Known
  <2> HIDE DEF row, found
  <2>3. row \in Nat
    BY <2>2, ChecksAreRows DEF IInv
  <2>4. doing[c] \in Executions
    BY DEF IInv, TypeOK
  <2> DEFINE d == [doing[c] EXCEPT !.at = "save", !.row = row]
  <2>5. /\ d \in Executions /\ d.at = "save" /\ d.row = row
        /\ d.txn = doing[c].txn /\ d.result = doing[c].result
        /\ d.todo = doing[c].todo /\ d.seen = doing[c].seen
    BY <2>3, <2>4 DEF Executions
  <2>6. doing' = [doing EXCEPT ![c] = d]
    BY <2>1
  <2> HIDE DEF d
  <2>7. doing'[c] = d /\ doing' \in [Calls -> Executions]
        /\ \A e \in Calls : e # c => UNCHANGED doing[e]
    BY <2>5, <2>6 DEF IInv, TypeOK
  <2>8. TypeOK' /\ VerifiedTogether'
    BY <1>1, <2>1, <2>7 DEF IInv, TypeOK, VerifiedTogether
  <2>9. CallOK(c)'
    BY <1>1, <2>1, <2>2, <2>5, <2>7 DEF IInv, CallInv, CallOK, Answered, Passed
  <2> QED
    BY <1>1, <2>7, <2>8, <2>9, QuietStep
<1>6. ASSUME NEW c \in Calls, Fails(c)
      PROVE  IInv'
  <2>1. Ends(c) /\ UNCHANGED <<profile, media>>
    BY <1>6 DEF Fails
  <2>2. TypeOK' /\ VerifiedTogether'
    BY <1>1, <2>1, IsOver DEF IInv, TypeOK, VerifiedTogether
  <2> QED
    BY <1>1, <2>1, <2>2, IsOver, QuietStep DEF IInv
<1> QED
  BY <1>2, <1>3, <1>4, <1>5, <1>6

\* The statements of a poll and of a refresh that write no check.
LEMMA FetchStep ==
  ASSUME IInv, NEW c \in Calls, Fetch(c)
  PROVE  IInv'
<1> DEFINE i == Max(doing[c].todo)
           t == checks[i].of
<1>1. doing[c].at = "fetch" /\ UNCHANGED <<vendor, checks, profile, media, left, together>>
  BY DEF Fetch
<1>2. doing[c] \in Executions
  BY DEF IInv, TypeOK
<1>3. i \in doing[c].todo /\ i \in DOMAIN checks /\ i \in Nat /\ t \in Txns
  <2>1. Len(checks) \in Nat /\ DOMAIN checks = 1..Len(checks)
        /\ \A j \in DOMAIN checks : checks[j] \in Rows
    BY ChecksAreRows DEF IInv
  <2>2. doing[c].todo \subseteq DOMAIN checks /\ doing[c].todo # {}
    BY <1>1 DEF IInv, CallInv, CallOK
  <2>3. i \in doing[c].todo
    BY <2>1, <2>2, MaxIsIn
  <2> HIDE DEF i
  <2> QED
    BY <2>1, <2>2, <2>3 DEF Rows
<1> HIDE DEF i
<1>4. vendor[t] \in {"open", "verified"}
  BY <1>3 DEF IInv, RowInv, TypeOK
<1>5. PICK a \in Answers[t][vendor[t]] :
        /\ doing' = [doing EXCEPT ![c].at = "update", ![c].txn = t, ![c].row = i,
                                  ![c].result = a.result, ![c].todo = @ \ {i}]
        /\ Notes(t, a)
  BY DEF Fetch, i
<1> DEFINE result == a.result
           d == [doing[c] EXCEPT !.at = "update", !.txn = t, !.row = i,
                                 !.result = result, !.todo = @ \ {i}]
<1>6. /\ result \in Results /\ result.status \in {"pending", "verified", "failed"}
      /\ result.status = "verified" => vendor[t] = "verified" \/ t \in misread'
      /\ misread' \subseteq Txns /\ misread \subseteq misread'
  BY <1>3, <1>4, <1>5, AnswersAreTrue, NotesAreKept DEF IInv, TypeOK
<1>8. doing' = [doing EXCEPT ![c] = d]
  BY <1>5
<1> HIDE DEF result
<1>7. /\ d \in Executions /\ d.at = "update" /\ d.row = i /\ d.txn = t /\ d.result = result
      /\ d.todo = doing[c].todo \ {i} /\ d.seen = doing[c].seen
  BY <1>2, <1>3, <1>6 DEF Executions
<1> HIDE DEF d
<1>9. doing'[c] = d /\ doing' \in [Calls -> Executions]
      /\ \A e \in Calls : e # c => UNCHANGED doing[e]
  BY <1>7, <1>8 DEF IInv, TypeOK
<1>10. TypeOK' /\ VerifiedTogether'
  BY <1>1, <1>6, <1>9 DEF IInv, TypeOK, VerifiedTogether
<1>11. CallOK(c)'
  BY <1>1, <1>3, <1>4, <1>6, <1>7, <1>9 DEF IInv, CallInv, CallOK, Answered, Passed
<1> QED
  BY <1>1, <1>6, <1>9, <1>10, <1>11, QuietStep

LEMMA RefreshSteps ==
  ASSUME IInv, NEW c \in Calls, ReadChecks(c) \/ UpsertProfile(c)
  PROVE  IInv'
<1>1. UNCHANGED <<vendor, checks, media, left, together, misread>>
  BY DEF ReadChecks, UpsertProfile, history
<1>2. doing[c] \in Executions
  BY DEF IInv, TypeOK
<1>3. CASE ReadChecks(c)
  <2> DEFINE agg == Aggregate(checks)
             view == (doing[c] = Idle)
             d == [doing[c] EXCEPT !.view = view, !.at = "upsert", !.seen = agg]
  <2>1. agg \in Summaries /\ (agg.overall = "verified" => together)
    BY AggregateIsSound DEF IInv, TypeOK, MomentInv
  <2>2. doing' = [doing EXCEPT ![c] = d] /\ UNCHANGED profile
    BY <1>3 DEF ReadChecks
  <2>3. view \in BOOLEAN
    OBVIOUS
  <2> HIDE DEF agg, view
  <2>4. /\ d \in Executions /\ d.at = "upsert" /\ d.seen = agg /\ d.todo = doing[c].todo
    BY <1>2, <2>1, <2>3 DEF Executions
  <2> HIDE DEF d
  <2>5. doing'[c] = d /\ doing' \in [Calls -> Executions]
        /\ \A e \in Calls : e # c => UNCHANGED doing[e]
    BY <2>2, <2>4 DEF IInv, TypeOK
  <2>6. TypeOK' /\ VerifiedTogether'
    BY <1>1, <2>2, <2>5 DEF IInv, TypeOK, VerifiedTogether
  <2>7. CallOK(c)'
    BY <1>1, <2>1, <2>4, <2>5 DEF IInv, CallInv, CallOK
  <2> QED
    BY <1>1, <2>5, <2>6, <2>7, QuietStep
<1>4. CASE UpsertProfile(c)
  <2>1. profile' = doing[c].seen /\ (Ends(c) \/ (GoesAfresh(c, "fetch") /\ doing[c].todo # {}))
    BY <1>4 DEF UpsertProfile
  <2>2. profile' \in Summaries /\ (profile'.overall = "verified" => together)
    BY <1>2, <2>1 DEF IInv, CallInv, CallOK, Executions
  <2>3. TypeOK' /\ VerifiedTogether'
    BY <1>1, <2>1, <2>2, GoesOnAfresh, IsOver DEF IInv, TypeOK, VerifiedTogether
  <2>4. \A d \in Calls : d # c => UNCHANGED doing[d]
    BY <2>1, GoesOnAfresh, IsOver DEF IInv
  <2>5. CallOK(c)'
    <3>1. CASE Ends(c)
      BY <3>1, IsOver DEF IInv
    <3>2. CASE GoesAfresh(c, "fetch") /\ doing[c].todo # {}
      BY <1>1, <3>2, GoesOnAfresh DEF IInv, CallInv, CallOK, NoProfile
    <3> QED
      BY <2>1, <3>1, <3>2
  <2> QED
    BY <1>1, <2>3, <2>4, <2>5, QuietStep
<1> QED
  BY <1>3, <1>4
-----------------------------------------------------------------------------
\* An answer is written into a check, new or found, and the execution goes on to refresh
\* the profile.
LEMMA WriteKeeps ==
  ASSUME IInv, NEW c \in Calls, doing[c].at \in {"save", "update"}, Refreshes(c),
         UNCHANGED <<vendor, profile, left, misread>>, media' \in {media, "attached"},
         NEW k \in Nat, NEW new \in Rows,
         new.of = doing[c].txn, new.status = doing[c].result.status,
         \/ k \in DOMAIN checks /\ doing[c].row = k /\ SetChecks([checks EXCEPT ![k] = new])
         \/ k = Len(checks) + 1 /\ SetChecks(Append(checks, new))
  PROVE  IInv'
<1>1. /\ Len(checks) \in Nat /\ DOMAIN checks = 1..Len(checks)
      /\ checks \in [1..Len(checks) -> Rows]
  BY ChecksAreRows DEF IInv
<1>2. /\ checks' \in Seq(Rows) /\ DOMAIN checks \subseteq DOMAIN checks'
      /\ DOMAIN checks' = DOMAIN checks \cup {k}
      /\ checks'[k] = new /\ \A i \in DOMAIN checks : i # k => checks'[i] = checks[i]
  <2>1. CASE k \in DOMAIN checks /\ SetChecks([checks EXCEPT ![k] = new])
    <3>1. checks' = [checks EXCEPT ![k] = new]
      BY <2>1 DEF SetChecks
    <3>2. checks' \in [1..Len(checks) -> Rows]
      BY <1>1, <3>1
    <3>3. checks' \in Seq(Rows) /\ DOMAIN checks' = 1..Len(checks)
      BY <1>1, <3>2, FunctionIsSeq
    <3> QED
      BY <1>1, <2>1, <3>1, <3>3
  <2>2. CASE k = Len(checks) + 1 /\ SetChecks(Append(checks, new))
    <3>1. checks' = Append(checks, new)
      BY <2>2 DEF SetChecks
    <3>2. checks' \in Seq(Rows) /\ Len(checks') = Len(checks) + 1
          /\ checks'[Len(checks) + 1] = new
          /\ \A i \in 1..Len(checks) : checks'[i] = checks[i]
      BY <3>1, AppendProperties DEF IInv, TypeOK
    <3>3. DOMAIN checks' = 1..(Len(checks) + 1)
      BY <3>2, LenProperties
    <3>4. \A n \in Nat : 1..(n + 1) = 1..n \cup {n + 1}
      OBVIOUS
    <3> QED
      BY <1>1, <2>2, <3>2, <3>3, <3>4
  <2> QED
    BY <2>1, <2>2
<1>3. together' = (together \/ Aggregate(checks').overall = "verified")
  BY DEF SetChecks
<1>4. \A i \in DOMAIN checks : i = k => checks[i].of = doing[c].txn
  BY <1>1 DEF IInv, CallInv, CallOK
<1>5. Onward
  BY <1>2, <1>3, <1>4 DEF Onward, Passed
<1>6. together' \in BOOLEAN
  BY <1>3
<1>7. TypeOK'
  BY <1>2, <1>6, GoesOnAfresh DEF IInv, TypeOK, Refreshes
<1>8. RowInv'
  BY <1>2 DEF IInv, RowInv, CallInv, CallOK, Answered, Passed
<1>9. MomentInv' /\ VerifiedTogether'
  BY <1>3 DEF IInv, MomentInv, VerifiedTogether
<1>10. CallOK(c)' /\ \A d \in Calls : d # c => UNCHANGED doing[d]
  BY <1>2, <1>3, GoesOnAfresh DEF IInv, CallInv, CallOK, Refreshes, NoProfile
<1> QED
  BY <1>3, <1>5, <1>7, <1>8, <1>9, <1>10, OnwardKeeps

LEMMA SaveSteps ==
  ASSUME IInv, NEW c \in Calls, SaveStarted(c) \/ SaveReported(c)
  PROVE  IInv'
<1> DEFINE d == doing[c]
<1>1. d.at \in {"save", "update"} /\ UNCHANGED <<vendor, profile, left, misread>>
  BY DEF SaveStarted, SaveReported
<1>2. d \in Executions
  BY DEF IInv, TypeOK
<1>3. d.txn \in Txns /\ d.result.status \in {"pending", "verified", "failed"}
      /\ d.result.name \in Names
  BY <1>1, <1>2 DEF IInv, CallInv, CallOK, Answered, Executions, Results
<1>4. d.row # 0 \/ d.at = "update" => d.row \in DOMAIN checks /\ checks[d.row].of = d.txn
  BY <1>1 DEF IInv, CallInv, CallOK
<1>5. \A i \in DOMAIN checks : checks[i] \in Rows
  BY ChecksAreRows DEF IInv
<1>6. CASE Ends(c) /\ UNCHANGED <<checks, together, media>>
  <2>1. TypeOK' /\ VerifiedTogether'
    BY <1>1, <1>6, IsOver DEF IInv, TypeOK, VerifiedTogether
  <2> QED
    BY <1>1, <1>6, <2>1, IsOver, QuietStep DEF IInv
<1>7. CASE SaveStarted(c) /\ d.row # 0
  <2> DEFINE new == [checks[d.row] EXCEPT !.status = d.result.status, !.payload = "kept"]
  <2>1. SetChecks([checks EXCEPT ![d.row] = new]) /\ Refreshes(c)
        /\ media' \in {media, "attached"}
    BY <1>7 DEF SaveStarted, Attach
  <2>2. new \in Rows /\ new.of = d.txn /\ new.status = d.result.status
    BY <1>3, <1>4, <1>5, <1>7 DEF Rows, Statuses
  <2>3. d.row \in Nat /\ d.row \in DOMAIN checks
    BY <1>2, <1>4, <1>7 DEF Executions
  <2> HIDE DEF new
  <2> QED
    BY <1>1, <2>1, <2>2, <2>3, WriteKeeps
<1>8. CASE SaveStarted(c) /\ d.row = 0 /\ NameIsFree(d.txn, d.result.name, 0)
  <2> DEFINE new == [of |-> d.txn, name |-> d.result.name, status |-> d.result.status,
                     payload |-> "kept"]
  <2>1. SetChecks(Append(checks, new)) /\ Refreshes(c) /\ media' \in {media, "attached"}
    BY <1>8 DEF SaveStarted, Attach
  <2>2. new \in Rows /\ new.of = d.txn /\ new.status = d.result.status
    BY <1>3 DEF Rows, Statuses
  <2>3. Len(checks) + 1 \in Nat
    BY ChecksAreRows DEF IInv
  <2> HIDE DEF new
  <2> QED
    BY <1>1, <2>1, <2>2, <2>3, WriteKeeps
<1>9. CASE /\ SaveReported(c)
           /\ NameIsFree(d.txn, IF d.result.name = "none" THEN checks[d.row].name
                                                         ELSE d.result.name, d.row)
  <2> DEFINE name == IF d.result.name = "none" THEN checks[d.row].name ELSE d.result.name
             new == [checks[d.row] EXCEPT !.status = d.result.status, !.name = name,
                                          !.payload = "kept"]
  <2>1. SetChecks([checks EXCEPT ![d.row] = new]) /\ Refreshes(c) /\ UNCHANGED media
    BY <1>9 DEF SaveReported
  <2>2. d.row \in DOMAIN checks /\ checks[d.row].of = d.txn /\ d.row \in Nat
    BY <1>2, <1>4, <1>9 DEF SaveReported, Executions
  <2>3. name \in Names
    BY <1>3, <1>5, <2>2 DEF Rows
  <2> HIDE DEF name
  <2>4. new \in Rows /\ new.of = d.txn /\ new.status = d.result.status
    BY <1>3, <1>5, <2>2, <2>3 DEF Rows, Statuses
  <2> HIDE DEF new
  <2> QED
    BY <1>1, <2>1, <2>2, <2>4, WriteKeeps
<1>10. CASE SaveStarted(c)
  BY <1>6, <1>7, <1>8, <1>10 DEF SaveStarted
<1>11. CASE SaveReported(c)
  BY <1>6, <1>9, <1>11 DEF SaveReported
<1> QED
  BY <1>10, <1>11

\* Payloads expire and are purged: the aggregate does not look at them.
LEMMA PayloadSteps ==
  ASSUME IInv, Expire \/ Cleanup
  PROVE  IInv'
<1>1. UNCHANGED <<vendor, profile, media, doing, left, together, misread>>
  BY DEF Expire, Cleanup, history
<1>2. /\ Len(checks) \in Nat /\ DOMAIN checks = 1..Len(checks)
      /\ \A i \in DOMAIN checks : checks[i] \in Rows
  BY ChecksAreRows DEF IInv
<1>3. PICK payload \in {"expired", "purged"}, old \in {"kept", "expired"} :
        checks' = [i \in DOMAIN checks |->
                     IF checks[i].payload = old THEN [checks[i] EXCEPT !.payload = payload]
                                                ELSE checks[i]]
  BY DEF Expire, Cleanup
<1>4. \A i \in DOMAIN checks : /\ checks'[i] \in Rows /\ checks'[i].of = checks[i].of
                               /\ checks'[i].status = checks[i].status
  BY <1>2, <1>3 DEF Rows
<1>5. checks' \in Seq(Rows) /\ DOMAIN checks' = DOMAIN checks
  <2>1. checks' \in [1..Len(checks) -> Rows]
    BY <1>2, <1>3, <1>4
  <2> QED
    BY <1>2, <2>1, FunctionIsSeq
<1>6. ASSUME NEW type PROVE LatestStatus(checks', type) = LatestStatus(checks, type)
  <2>1. OfType(checks', type) = OfType(checks, type)
    BY <1>4, <1>5 DEF OfType
  <2>2. CASE OfType(checks, type) = {}
    BY <2>1, <2>2 DEF LatestStatus
  <2>3. CASE OfType(checks, type) # {}
    <3> DEFINE k == Max(OfType(checks, type))
    <3>1. k \in OfType(checks, type) /\ LatestStatus(checks, type) = checks[k].status
      BY <2>3, LatestIsOne DEF IInv, TypeOK
    <3>2. LatestStatus(checks', type) = checks'[k].status
      BY <1>5, <2>1, <2>3, LatestIsOne
    <3>3. k \in DOMAIN checks
      BY <3>1 DEF OfType
    <3> HIDE DEF k
    <3> QED
      BY <1>4, <3>1, <3>2, <3>3
  <2> QED
    BY <2>2, <2>3
<1>7. Aggregate(checks') = Aggregate(checks)
  BY <1>6 DEF Aggregate
<1>8. Onward /\ TypeOK'
  BY <1>1, <1>4, <1>5 DEF Onward, Passed, IInv, TypeOK
<1>9. RowInv' /\ MomentInv' /\ VerifiedTogether'
  BY <1>1, <1>4, <1>5, <1>7 DEF IInv, RowInv, Passed, MomentInv, VerifiedTogether
<1> QED
  BY <1>1, <1>8, <1>9, OnwardKeeps

LEMMA NextInv == IInv /\ [Next]_kycvars => IInv'
<1> SUFFICES ASSUME IInv, [Next]_kycvars PROVE IInv'
  OBVIOUS
<1>1. CASE UNCHANGED kycvars
  BY <1>1, QuietStep DEF kycvars, history, IInv, TypeOK, VerifiedTogether
<1>2. CASE Next
  BY <1>2, LookSteps, PayloadSteps, StartStep, SettleStep, ReportSteps, FetchStep,
     RefreshSteps, SaveSteps DEF Next, Step
<1> QED
  BY <1>1, <1>2

\* What was verified together is verified at Prembly, or was misread.
LEMMA TogetherIsVendors == IInv => VerifiedIsVendors
BY DEF IInv, TogetherInv, VerifiedTogether, VerifiedIsVendors, Checked

\* Nobody counts as verified unless both of the latest checks were verified at one moment,
\* each of a transaction that Prembly verified or of which the code misread an answer,
\* however late, often or interleaved the reports and refreshes
\* (refreshProviderKycProfile).
THEOREM Safety == Spec => [](TypeOK /\ VerifiedIsVendors /\ VerifiedTogether)
<1>1. IInv => TypeOK /\ VerifiedIsVendors /\ VerifiedTogether
  BY TogetherIsVendors DEF IInv
<1> QED
  BY InitInv, NextInv, <1>1, PTL DEF Spec
=============================================================================
