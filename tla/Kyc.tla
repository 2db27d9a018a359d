-------------------------------- MODULE Kyc --------------------------------
(***************************************************************************)
(* One provider's identity checks (kyc.service.ts): verifications started  *)
(* at Prembly, its webhooks and the answers to polling, and the aggregate  *)
(* profile that every one of them, and every look at the status,           *)
(* recomputes.                                                             *)
(*                                                                         *)
(* Nothing here is a transaction: the call to Prembly, the write of the    *)
(* check, the write of the media, the read of all checks and the upsert of *)
(* the profile are statements between which every other execution may run. *)
(***************************************************************************)
EXTENDS Integers, Sequences, FiniteSetsExt

CONSTANTS
  Txns,       \* transactions at Prembly
  TypeOf,     \* what each one verifies
  NamesOf,    \* the names Prembly's answers may carry, for each type of check
  Calls,      \* mutations, webhooks and queries in flight at the same time
  MaxStarts,  \* verifications that ever begin
  MaxReports, \* webhooks and polls that ever begin
  NoTxn

CheckTypes == {"nin_face", "phone"}

\* The name a check is known by: the transaction's reference, its tracking id, or none.
Names == {"reference", "tracking", "none"}

ASSUME KycAssumption ==
  /\ TypeOf \in [Txns -> CheckTypes]
  /\ NamesOf \in [CheckTypes -> SUBSET Names]
  /\ NoTxn \notin Txns
  /\ MaxStarts \in Nat /\ MaxReports \in Nat

VARIABLES
  vendor,   \* each transaction, as Prembly has it
  checks,   \* provider_kyc_checks, in the order of created_at
  profile,  \* provider_kyc_profiles, NoProfile without a row
  media,    \* the upload state of the face image, "none" without a row
  doing,    \* where each execution stands and what it has read
  left,     \* how many verifications, webhooks and polls may still begin
  together, \* history: the latest checks have once been verified at the same moment
  misread   \* history: transactions of which an answer was misread, until they are verified

history == <<together, misread>>
kycvars == <<vendor, checks, profile, media, doing, left, history>>

Statuses == {"unverified", "pending", "verified", "failed"}

Results == [status : Statuses, name : Names]
Unread == [status |-> "unverified", name |-> "none"]

-----------------------------------------------------------------------------
(* What Prembly answers, and how it is normalised. *)

Codes == {"00", "other", "absent"}

\* face_data.status: true, 'verified', false, any other string, or nothing.
Faces == {"true", "verified", "false", "other", "absent"}

\* The fields of an answer that the code looks at; verification.status is VERIFIED,
\* another word, or not there.
AnyBody(type) ==
  [flag : BOOLEAN, code : Codes,
   face : IF type = "nin_face" THEN Faces ELSE {"absent"},
   verification : IF type = "phone" THEN {"VERIFIED", "other", "absent"} ELSE {"absent"}]

Denies(b) ==
  ~b.flag \/ b.code = "other" \/ b.face \in {"false", "other"} \/ b.verification = "other"

\* Prembly's answers about a transaction it has in state s.  Assumed is no more than that
\* an answer about one it has not verified denies it, in whatever field, and that an
\* answer about one it has verified does not, or says VERIFIED.
Bodies(type, s) ==
  {b \in AnyBody(type) : IF s = "verified" THEN b.verification = "VERIFIED" \/ ~Denies(b)
                                           ELSE b.verification # "VERIFIED" /\ Denies(b)}

CodeIsSuccess(b) == b.code \in {"00", "absent"}

\* readBoolean, and 'verified': a word it does not know is no answer at all.
FaceStatus(face) ==
  CASE face \in {"true", "verified"} -> "true"
    [] face = "false" -> "false"
    [] OTHER -> "null"

\* Bug: the face is not looked at.
NinVerifiedFaceless(b) == b.flag /\ CodeIsSuccess(b)

NinVerified(b) == b.flag /\ CodeIsSuccess(b) /\ FaceStatus(b.face) # "false"
PhoneVerified(b) == b.verification = "VERIFIED" \/ (b.flag /\ CodeIsSuccess(b))

\* normalizeNinFaceResult and normalizePhoneResult.
Normalized(type, b) ==
  IF (type = "nin_face" /\ NinVerified(b)) \/ (type = "phone" /\ PhoneVerified(b))
    THEN "verified"
    ELSE IF b.flag THEN "pending" ELSE "failed"

\* The two readings the code gets wrong: all that denies the verification is a word for
\* the face that readBoolean does not know, or a status of the phone's verification that
\* is not asked for once flag and code are good.
Misread(b) == b.flag /\ CodeIsSuccess(b) /\ (b.face = "other" \/ b.verification = "other")

\* What the code makes of an answer that transaction t is in state s.
Answers ==
  [t \in Txns |-> [s \in {"open", "verified"} |->
     {[result |-> [status |-> Normalized(TypeOf[t], b), name |-> n], wrong |-> Misread(b)] :
        b \in Bodies(TypeOf[t], s), n \in NamesOf[TypeOf[t]]}]]

Notes(t, answer) == misread' = IF answer.wrong THEN misread \cup {t} ELSE misread

-----------------------------------------------------------------------------
(* The aggregate. *)

OfType(rows, type) == {i \in DOMAIN rows : TypeOf[rows[i].of] = type}

LatestStatus(rows, type) ==
  IF OfType(rows, type) = {} THEN "unverified" ELSE rows[Max(OfType(rows, type))].status

Overall(required) ==
  IF required = {"verified"} THEN "verified"
  ELSE IF "failed" \in required THEN "failed"
  ELSE IF required \cap {"pending", "verified"} # {} THEN "pending"
  ELSE "unverified"

Level(nin, phone) ==
  Cardinality({type \in CheckTypes : IF type = "nin_face" THEN nin = "verified"
                                                          ELSE phone = "verified"})

Summary(nin, phone) ==
  [overall |-> Overall({nin, phone}), level |-> Level(nin, phone), nin |-> nin, phone |-> phone]

Aggregate(rows) == Summary(LatestStatus(rows, "nin_face"), LatestStatus(rows, "phone"))

NoProfile == [overall |-> "none", level |-> 0, nin |-> "none", phone |-> "none"]
\* The column defaults of the row ensureProviderKycProfile creates.
NewProfile == [overall |-> "pending", level |-> 0, nin |-> "unverified", phone |-> "unverified"]

-----------------------------------------------------------------------------
Idle == [at |-> "idle", view |-> FALSE, txn |-> NoTxn, result |-> Unread,
         row |-> 0, todo |-> {}, seen |-> NoProfile]

Init ==
  /\ vendor = [t \in Txns |-> "unused"]
  /\ checks = <<>>
  /\ profile = NoProfile
  /\ media = "none"
  /\ doing = [c \in Calls |-> Idle]
  /\ left = [start |-> MaxStarts, report |-> MaxReports]
  /\ together = FALSE
  /\ misread = {}

Begin(c, kind, call) ==
  /\ doing[c] = Idle
  /\ left[kind] > 0
  /\ left' = [left EXCEPT ![kind] = @ - 1]
  /\ doing' = [doing EXCEPT ![c] = call]

Goes(c, at) == doing' = [doing EXCEPT ![c].at = at]
\* With the check written, or the profile, what it has read is of no more use; what is
\* left is the checks still to be polled.
GoesAfresh(c, at) ==
  doing' = [doing EXCEPT ![c] = [Idle EXCEPT !.at = at, !.todo = doing[c].todo]]
Refreshes(c) == GoesAfresh(c, "read")
Ends(c) == doing' = [doing EXCEPT ![c] = Idle]

SetChecks(rows) ==
  /\ checks' = rows
  /\ together' = (together \/ Aggregate(rows).overall = "verified")

\* No other row of the table has this name: the unique index on vendor_reference.
NameIsFree(t, name, i) ==
  name = "none" \/ \A j \in DOMAIN checks : j = i \/ checks[j].of # t \/ checks[j].name # name

-----------------------------------------------------------------------------
(* createKycUploadUrl, startNinFaceVerification, startPhoneVerification. *)

Upload ==
  /\ media = "none"
  /\ media' = "pending_upload"
  /\ UNCHANGED <<vendor, checks, profile, doing, left, history>>

\* Prembly takes the request, as a new transaction or as one it already knows, and
\* answers with what it has at that moment; the answer is on its way.
Start(c, t) ==
  /\ TypeOf[t] = "nin_face" => media # "none"
  /\ \E s \in {"open", "verified"} :
       /\ vendor[t] \in {"unused", s}
       /\ vendor' = [vendor EXCEPT ![t] = s]
       /\ \E answer \in Answers[t][s] :
            /\ Begin(c, "start", [Idle EXCEPT !.at = "answered", !.txn = t,
                                               !.result = answer.result])
            /\ Notes(t, answer)
  /\ UNCHANGED <<checks, profile, media, together>>

\* ensureProviderKycProfile: find, then create; a row another call created in between
\* breaks the unique index and the verification is lost.
FindProfile(c) ==
  /\ doing[c].at = "answered"
  /\ Goes(c, IF profile = NoProfile THEN "create" ELSE "lookup")
  /\ UNCHANGED <<vendor, checks, profile, media, left, history>>

CreateProfile(c) ==
  /\ doing[c].at = "create"
  /\ IF profile = NoProfile
       THEN profile' = NewProfile /\ Goes(c, "lookup")
       ELSE Ends(c) /\ UNCHANGED profile
  /\ UNCHANGED <<vendor, checks, media, left, history>>

Known(t, name) == {i \in DOMAIN checks : checks[i].of = t /\ checks[i].name = name}

\* The check the answer names, if there is one.
Lookup(c) ==
  /\ doing[c].at = "lookup"
  /\ LET found == Known(doing[c].txn, doing[c].result.name)
     IN  doing' = [doing EXCEPT ![c].at = "save",
                     ![c].row = IF doing[c].result.name = "none" \/ found = {} THEN 0
                                ELSE Max(found)]
  /\ UNCHANGED <<vendor, checks, profile, media, left, history>>

\* The face image of a NIN check is attached to it, by the next statement.
Attach(t) == media' = IF TypeOf[t] = "nin_face" THEN "attached" ELSE media

\* createCheckAndRefreshProfile: update the check it found, or insert one.
SaveStarted(c) ==
  /\ doing[c].at = "save"
  /\ LET d == doing[c]
         new == [of |-> d.txn, name |-> d.result.name, status |-> d.result.status,
                 payload |-> "kept"]
     IN  \/ /\ d.row # 0
            /\ SetChecks([checks EXCEPT ![d.row].status = d.result.status,
                                        ![d.row].payload = "kept"])
            /\ Attach(d.txn) /\ Refreshes(c)
         \/ /\ d.row = 0 /\ NameIsFree(d.txn, d.result.name, 0)
            /\ SetChecks(Append(checks, new))
            /\ Attach(d.txn) /\ Refreshes(c)
         \/ /\ d.row = 0 /\ ~NameIsFree(d.txn, d.result.name, 0)
            /\ Ends(c) /\ UNCHANGED <<checks, together, media>>
  /\ UNCHANGED <<vendor, profile, left, misread>>

-----------------------------------------------------------------------------
(* handlePremblyWebhook and syncKycStatus. *)

\* A webhook about a transaction, in its state of now or of before; it may come again,
\* or never.  One that names no check is answered 200 and forgotten.
Hook(c, t) ==
  /\ vendor[t] # "unused"
  /\ Known(t, "reference") # {}
  /\ \E s \in {"open", vendor[t]} : \E answer \in Answers[t][s] :
       /\ Begin(c, "report", [Idle EXCEPT !.at = "update", !.txn = t,
                   !.result = answer.result, !.row = Max(Known(t, "reference"))])
       /\ Notes(t, answer)
  /\ UNCHANGED <<vendor, checks, profile, media, together>>

\* resolveSyncTargets: the pending checks, or the one that was asked for; those without
\* a reference are skipped.
Poll(c) ==
  /\ \E targets \in {{i \in DOMAIN checks : checks[i].status = "pending"}}
                      \cup {{i} : i \in DOMAIN checks} :
       LET named == {i \in targets : checks[i].name # "none"}
       IN  /\ named # {}
           /\ Begin(c, "report", [Idle EXCEPT !.at = "fetch", !.todo = named])
  /\ UNCHANGED <<vendor, checks, profile, media, history>>

\* fetchStatus for the newest target left.
Fetch(c) ==
  /\ doing[c].at = "fetch"
  /\ LET i == Max(doing[c].todo)
         t == checks[i].of
     IN  \E answer \in Answers[t][vendor[t]] :
           /\ doing' = [doing EXCEPT ![c].at = "update", ![c].txn = t, ![c].row = i,
                                     ![c].result = answer.result, ![c].todo = @ \ {i}]
           /\ Notes(t, answer)
  /\ UNCHANGED <<vendor, checks, profile, media, left, together>>

\* updateCheckAndRefreshProfile: the check may also take the name of this answer.
SaveReported(c) ==
  /\ doing[c].at = "update"
  /\ LET d == doing[c]
         name == IF d.result.name = "none" THEN checks[d.row].name ELSE d.result.name
     IN  IF NameIsFree(d.txn, name, d.row)
           THEN /\ SetChecks([checks EXCEPT ![d.row].status = d.result.status,
                                            ![d.row].name = name,
                                            ![d.row].payload = "kept"])
                /\ Refreshes(c)
           ELSE Ends(c) /\ UNCHANGED <<checks, together>>
  /\ UNCHANGED <<vendor, profile, media, left, misread>>

-----------------------------------------------------------------------------
(* refreshProviderKycProfile, from all of these and from myKycStatus. *)

\* Bug: a view answers from the row it finds.
ReadProfile(c) ==
  /\ \/ doing[c].at = "read"
     \/ doing[c] = Idle
  /\ doing' = [doing EXCEPT ![c].view = (doing[c] = Idle), ![c].at = "upsert",
                            ![c].seen = IF doing[c] = Idle /\ profile # NoProfile THEN profile
                                        ELSE Aggregate(checks)]
  /\ UNCHANGED <<vendor, checks, profile, media, left, history>>

ReadChecks(c) ==
  /\ \/ doing[c].at = "read"
     \/ doing[c] = Idle
  /\ doing' = [doing EXCEPT ![c].view = (doing[c] = Idle), ![c].at = "upsert",
                            ![c].seen = Aggregate(checks)]
  /\ UNCHANGED <<vendor, checks, profile, media, left, history>>

\* Bug: a type that is verified in the profile stays so.
UpsertKeepsVerified(c) ==
  /\ doing[c].at = "upsert"
  /\ LET seen == doing[c].seen
     IN  profile' = Summary(IF profile.nin = "verified" THEN "verified" ELSE seen.nin,
                            IF profile.phone = "verified" THEN "verified" ELSE seen.phone)
  /\ IF doing[c].todo = {} THEN Ends(c) ELSE GoesAfresh(c, "fetch")
  /\ UNCHANGED <<vendor, checks, media, left, history>>

UpsertProfile(c) ==
  /\ doing[c].at = "upsert"
  /\ profile' = doing[c].seen
  /\ IF doing[c].todo = {} THEN Ends(c) ELSE GoesAfresh(c, "fetch")
  /\ UNCHANGED <<vendor, checks, media, left, history>>

-----------------------------------------------------------------------------
(* Prembly, time, and the cleanup job. *)

\* A transaction that is open, under way or turned down, is verified after all, or never.
Settle(t) ==
  /\ vendor[t] = "open"
  /\ vendor' = [vendor EXCEPT ![t] = "verified"]
  /\ misread' = misread \ {t}
  /\ UNCHANGED <<checks, profile, media, doing, left, together>>

\* A retention period passes, for all payloads kept so far.  It is counted in days: no
\* execution that began before is still in flight.
Expire ==
  /\ \A c \in Calls : doing[c] = Idle
  /\ \E i \in DOMAIN checks : checks[i].payload = "kept"
  /\ checks' = [i \in DOMAIN checks |->
       IF checks[i].payload = "kept" THEN [checks[i] EXCEPT !.payload = "expired"]
                                     ELSE checks[i]]
  /\ UNCHANGED <<vendor, profile, media, doing, left, history>>

\* Bug: payloads of checks that are still open stay.
CleanupSettled ==
  /\ \E i \in DOMAIN checks : checks[i].payload = "expired"
  /\ checks' = [i \in DOMAIN checks |->
       IF checks[i].payload = "expired" /\ checks[i].status # "pending"
         THEN [checks[i] EXCEPT !.payload = "purged"] ELSE checks[i]]
  /\ UNCHANGED <<vendor, profile, media, doing, left, history>>

\* cleanupExpiredRawPayloads, one UPDATE.
Cleanup ==
  /\ \E i \in DOMAIN checks : checks[i].payload = "expired"
  /\ checks' = [i \in DOMAIN checks |->
       IF checks[i].payload = "expired" THEN [checks[i] EXCEPT !.payload = "purged"]
                                        ELSE checks[i]]
  /\ UNCHANGED <<vendor, profile, media, doing, left, history>>

\* A request to Prembly or a statement fails, or the process dies.
Fails(c) ==
  /\ doing[c] # Idle
  /\ Ends(c)
  /\ UNCHANGED <<vendor, checks, profile, media, left, history>>

Step(c) ==
  \/ FindProfile(c) \/ CreateProfile(c) \/ Lookup(c)
  \/ SaveStarted(c) \/ Fetch(c) \/ SaveReported(c)
  \/ ReadChecks(c) \/ UpsertProfile(c)

Next ==
  \/ Upload \/ Expire \/ Cleanup
  \/ \E c \in Calls :
       \/ \E t \in Txns : Start(c, t) \/ Hook(c, t)
       \/ Poll(c) \/ Step(c) \/ Fails(c)
  \/ \E t \in Txns : Settle(t)

Spec == Init /\ [][Next]_kycvars

\* The maintenance queue runs the cleanup again and again.
FairSpec == Spec /\ WF_kycvars(Cleanup)

-----------------------------------------------------------------------------
(* Properties. *)

Rows == [of : Txns, name : Names, status : Statuses \ {"unverified"},
         payload : {"kept", "expired", "purged"}]
Summaries == [overall : Statuses \cup {"none"}, level : 0..2,
              nin : Statuses \cup {"none"}, phone : Statuses \cup {"none"}]
Executions == [view : BOOLEAN,
  at : {"idle", "answered", "create", "lookup", "save", "fetch", "update", "read", "upsert"},
  txn : Txns \cup {NoTxn}, result : Results, row : Nat, todo : SUBSET Nat, seen : Summaries]

TypeOK ==
  /\ vendor \in [Txns -> {"unused", "open", "verified"}]
  /\ checks \in Seq(Rows)
  /\ profile \in Summaries
  /\ media \in {"none", "pending_upload", "attached"}
  /\ doing \in [Calls -> Executions]
  /\ left \in [{"start", "report"} -> Nat]
  /\ together \in BOOLEAN /\ misread \subseteq Txns

Passed(t) == vendor[t] = "verified" \/ t \in misread

\* Nobody counts as verified unless Prembly verified both a NIN and a phone transaction,
\* whatever came late, twice, in between or under another name, or unless the code has
\* itself misread an answer about the one that Prembly did not verify.
VerifiedIsVendors ==
  profile.overall = "verified" =>
    \A type \in CheckTypes : \E t \in Txns : TypeOf[t] = type /\ Passed(t)

\* Nor unless both of the latest checks were verified at one moment: however refreshes
\* and writes of checks interleave, a profile does not put together the NIN result of one
\* moment and the phone result of another.
VerifiedTogether == profile.overall = "verified" => together

\* A status written last by a refresh that read first is wrong until somebody looks: if
\* the status is looked at again and again, it ends as that of the checks.
LookedAtIsCurrent ==
  ([]<><<\E c \in Calls : doing[c].view /\ UpsertProfile(c)>>_kycvars)
    => <>[](profile = Aggregate(checks))

\* An expired payload does not stay: it is purged, or the check gets a new answer and
\* with it a new retention period.
ExpiredIsPurged ==
  (\E i \in DOMAIN checks : checks[i].payload = "expired")
    ~> (\A i \in DOMAIN checks : checks[i].payload # "expired")
=============================================================================
