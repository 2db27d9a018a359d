----------------------------- MODULE Onboarding -----------------------------
(***************************************************************************)
(* A driver's onboarding (user.service.ts:643-993): the driver's edits and *)
(* submissions, the reviews, and what an approved driver may then do.      *)
(*                                                                         *)
(* Every operation is a transaction that reads the driver profile without  *)
(* a lock and writes it later whatever it holds by then.  Two things stop  *)
(* a review: provider.profileId is unique, and the account's row, which    *)
(* every review updates first, stays locked until the review commits.      *)
(***************************************************************************)
EXTENDS Naturals, Sequences

CONSTANTS
  Requests,         \* mutations in flight at the same time
  MaxSubmissions    \* bound: rows of driver_onboarding_submissions

ASSUME OnboardingAssumption == MaxSubmissions \in Nat

VARIABLES
  status,        \* driver_profiles.onboarding_status, "none" without a row
  kind,          \* driver_type: a bike, or a van or truck
  ready,         \* the other details and the documents are complete
  canDispatch, canFreight,
  linked,        \* driver_profiles.provider_id is set
  subs,          \* the submissions in the order of their commits
  rows,          \* providers rows of the account
  providerKind,  \* providers.driver_type
  available,     \* providers.is_available
  online,        \* driver_presences.is_online
  mode,          \* profiles.active_app_mode
  doing          \* what each mutation in flight has read and is about to write

details  == <<kind, ready>>
grants   == <<status, canDispatch, canFreight>>
provider == <<rows, providerKind, available>>
ovars == <<details, grants, linked, subs, provider, online, mode, doing>>

Statuses == {"none", "draft", "in_review", "approved", "rejected"}
Kinds    == {"none", "bike", "van"}

Idle == [op |-> "idle", seen |-> "none", kind |-> "none", linked |-> FALSE,
         found |-> FALSE, sub |-> 0, on |-> FALSE]

Init ==
  /\ status = "none" /\ kind = "none" /\ ready = FALSE
  /\ canDispatch = FALSE /\ canFreight = FALSE /\ linked = FALSE
  /\ subs = <<>>
  /\ rows = 0 /\ providerKind = "none" /\ available = FALSE
  /\ online = FALSE
  /\ mode = "shipper"
  /\ doing = [r \in Requests |-> Idle]

Unchanged == UNCHANGED <<details, grants, linked, subs, provider, online, mode>>

Begin(r, m) == doing[r] = Idle /\ doing' = [doing EXCEPT ![r] = m] /\ Unchanged
Continue(r, m) == doing' = [doing EXCEPT ![r] = m] /\ Unchanged
End(r) == doing' = [doing EXCEPT ![r] = Idle]

\* A review holds the account's row, and if it approves the provider's.
Judging(ops) == \E r \in Requests : doing[r].op \in ops

-----------------------------------------------------------------------------
(* The driver: saveDriverPersonalInfo, saveDriverIdentityInfo,             *)
(* addDriverComplianceDocument, submitDriverOnboarding.                    *)

\* The first edit inserts the row as a draft; others that come then wait for it.
EditReads(r) ==
  Begin(r, [Idle EXCEPT !.op = "edit",
              !.seen = IF status = "none" THEN "draft" ELSE status])

\* buildDriverDraftUpdate: the status that was read decides.
EditWrites(r) ==
  /\ doing[r].op = "edit"
  /\ kind' \in {kind, "bike", "van"}
  /\ ready' \in BOOLEAN
  /\ IF doing[r].seen = "approved" THEN UNCHANGED grants
       ELSE status' = "draft" /\ canDispatch' = FALSE /\ canFreight' = FALSE
  /\ End(r)
  /\ UNCHANGED <<linked, subs, provider, online, mode>>

\* assertDriverOnboardingSubmissionReady
IsReady == status # "none" /\ kind # "none" /\ ready

\* A submission is dated when it begins: after the rows that are there by then.
Row(was, began) == [status |-> was, began |-> began]

SubmitReads(r) ==
  /\ IsReady
  /\ Len(subs) < MaxSubmissions
  /\ Begin(r, [Idle EXCEPT !.op = "submit", !.sub = Len(subs)])

\* Bug: a submission that is already there is taken for this one.
SubmitOnce(r) ==
  /\ doing[r].op = "submit"
  /\ subs' = IF subs = <<>> THEN <<Row("in_review", 0)>> ELSE subs
  /\ status' = "in_review" /\ canDispatch' = FALSE /\ canFreight' = FALSE
  /\ End(r)
  /\ UNCHANGED <<details, linked, provider, online, mode>>

SubmitWrites(r) ==
  /\ doing[r].op = "submit"
  /\ Len(subs) < MaxSubmissions
  /\ subs' = Append(subs, Row("in_review", doing[r].sub))
  /\ status' = "in_review" /\ canDispatch' = FALSE /\ canFreight' = FALSE
  /\ End(r)
  /\ UNCHANGED <<details, linked, provider, online, mode>>

-----------------------------------------------------------------------------
(* reviewDriverOnboarding: four statements that matter. *)

\* The profile may be in any status; only an approval asks for complete details.
ReviewReads(r) ==
  /\ status # "none"
  /\ \/ IsReady /\ Begin(r, [Idle EXCEPT !.op = "approve", !.kind = kind])
     \/ Begin(r, [Idle EXCEPT !.op = "rejecting", !.linked = linked])

\* ensureProviderForProfile looks for a provider of the account.
ReviewFinds(r) ==
  /\ doing[r].op = "approve"
  /\ Continue(r, [doing[r] EXCEPT !.op = "approving", !.found = rows > 0])

\* The submissions that may have the latest date, 0 when there is none.
Latest == IF subs = <<>> THEN {0}
          ELSE {i \in 1 .. Len(subs) : \A j \in 1 .. Len(subs) : subs[j].began < i}

\* The verdict that a review comes to.
Verdict(op) == IF op = "approving" THEN "approved" ELSE "rejected"

\* Bug: providers.profile_id is not unique.
ReviewLocksAlways(r) ==
  /\ doing[r].op \in {"approving", "rejecting"}
  /\ ~Judging({"approved", "rejected"})
  /\ \E i \in Latest :
       Continue(r, [doing[r] EXCEPT !.op = Verdict(@), !.sub = i])

\* The provider is written, the account's row locked, and the latest submission read.
\* A provider that another review has made since it was looked for breaks the index.
ReviewLocks(r) ==
  /\ doing[r].op \in {"approving", "rejecting"}
  /\ ~Judging({"approved", "rejected"})
  /\ IF doing[r].op = "approving" /\ ~doing[r].found /\ rows > 0
       THEN End(r) /\ Unchanged
       ELSE \E i \in Latest :
              Continue(r, [doing[r] EXCEPT !.op = Verdict(@), !.sub = i])

\* The submission that was read gets the verdict, or a new one is made for it.
Judge(r) ==
  subs' = IF doing[r].sub = 0 THEN Append(subs, Row(doing[r].op, 0))
                              ELSE [subs EXCEPT ![doing[r].sub].status = doing[r].op]

\* Bug: an approved driver starts out as available.
ApproveAvailable(r) ==
  /\ doing[r].op = "approved"
  /\ Judge(r)
  /\ status' = "approved" /\ canDispatch' = TRUE /\ canFreight' = (doing[r].kind # "bike")
  /\ linked' = TRUE
  /\ rows' = IF doing[r].found THEN rows ELSE rows + 1
  /\ providerKind' = doing[r].kind
  /\ available' = TRUE
  /\ mode' = "driver"
  /\ End(r)
  /\ UNCHANGED <<details, online>>

Approve(r) ==
  /\ doing[r].op = "approved"
  /\ Judge(r)
  /\ status' = "approved" /\ canDispatch' = TRUE /\ canFreight' = (doing[r].kind # "bike")
  /\ linked' = TRUE
  /\ rows' = IF doing[r].found THEN rows ELSE rows + 1
  /\ providerKind' = doing[r].kind
  /\ available' = FALSE
  /\ mode' = "driver"
  /\ End(r)
  /\ UNCHANGED <<details, online>>

\* The provider's id is written back as it was read, and nothing goes offline.
Reject(r) ==
  /\ doing[r].op = "rejected"
  /\ Judge(r)
  /\ status' = "rejected" /\ canDispatch' = FALSE /\ canFreight' = FALSE
  /\ linked' = doing[r].linked
  /\ mode' = "shipper"
  /\ End(r)
  /\ UNCHANGED <<details, provider, online>>

-----------------------------------------------------------------------------
(* updateDriverPresence and switchAppMode. *)

PresenceReads(r) ==
  /\ status = "approved"
  /\ \E on \in BOOLEAN :
       Begin(r, [Idle EXCEPT !.op = "presence", !.linked = linked, !.on = on])

\* Both rows are written, whatever a review has decided since.
PresenceWrites(r) ==
  /\ doing[r].op = "presence"
  /\ ~Judging({"approved"})
  /\ online' = doing[r].on
  /\ available' = IF doing[r].linked THEN doing[r].on ELSE available
  /\ End(r)
  /\ UNCHANGED <<details, grants, linked, subs, rows, providerKind, mode>>

SwitchReads(r) ==
  \/ Begin(r, [Idle EXCEPT !.op = "shipper"])
  \/ status = "approved" /\ Begin(r, [Idle EXCEPT !.op = "driver"])

SwitchWrites(r) ==
  /\ doing[r].op \in {"shipper", "driver"}
  /\ ~Judging({"approved", "rejected"})
  /\ mode' = doing[r].op
  /\ End(r)
  /\ UNCHANGED <<details, grants, linked, subs, provider, online>>

\* The process dies or a statement fails: the transaction rolls back.
Abandon(r) == doing[r] # Idle /\ End(r) /\ Unchanged

-----------------------------------------------------------------------------
Driver(r) ==
  \/ EditReads(r) \/ EditWrites(r) \/ SubmitReads(r) \/ SubmitWrites(r)
  \/ PresenceReads(r) \/ PresenceWrites(r) \/ SwitchReads(r) \/ SwitchWrites(r)

Reviewer(r) ==
  ReviewReads(r) \/ ReviewFinds(r) \/ ReviewLocks(r) \/ Approve(r) \/ Reject(r)

Next == \E r \in Requests : Driver(r) \/ Reviewer(r) \/ Abandon(r)

Spec == Init /\ [][Next]_ovars

-----------------------------------------------------------------------------
(* Properties. *)

Mutations ==
  [op : {"idle", "edit", "submit", "approve", "approving", "rejecting", "approved",
         "rejected", "presence", "shipper", "driver"},
   seen : Statuses, kind : Kinds, linked : BOOLEAN, found : BOOLEAN,
   sub : Nat, on : BOOLEAN]

\* Every column and every handler holds a value of its type.
TypeOK ==
  /\ status \in Statuses /\ kind \in Kinds /\ ready \in BOOLEAN
  /\ canDispatch \in BOOLEAN /\ canFreight \in BOOLEAN /\ linked \in BOOLEAN
  /\ subs \in Seq([status : {"in_review", "approved", "rejected"}, began : Nat])
  /\ rows \in Nat /\ providerKind \in Kinds /\ available \in BOOLEAN
  /\ online \in BOOLEAN
  /\ mode \in {"shipper", "driver"}
  /\ doing \in [Requests -> Mutations]

\* A driver who waits for a review has a submission that waits for one, although a
\* review may judge an older submission than the one that reopened the profile.
InReviewIsSubmitted ==
  status = "in_review" => \E i \in 1 .. Len(subs) : subs[i].status = "in_review"

\* Whoever may be dispatched is approved, is linked to the one provider of the account
\* (a rejection that began earlier would have written an old link back), and carries
\* freight only if the provider that dispatch looks at is no bike.
GrantIsBacked ==
  canDispatch => /\ status = "approved"
                 /\ linked /\ rows = 1
                 /\ canFreight => providerKind # "bike"

\* Dispatch selects providers by their availability: one that is available has a
\* driver who is online, through approvals and presence updates that overtake.
AvailableIsOnline == available => online
=============================================================================
