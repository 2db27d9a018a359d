------------------------------- MODULE Desk --------------------------------
(***************************************************************************)
(* The back office (src/ops): disputes with their events, support tickets, *)
(* invoices and fraud flags, and the notifications that tell their owners  *)
(* and the administrators.                                                 *)
(*                                                                         *)
(* A status changes from any to any.  Disputes and new files are written   *)
(* in transactions, but a decision takes its time before its transaction   *)
(* begins, and so before it holds the row; a ticket's status is read, and  *)
(* written in another statement together with the times the read found.    *)
(***************************************************************************)
EXTENDS Inbox, FiniteSets

CONSTANTS
  Admins,     \* profiles with the admin role
  Owners,     \* profiles that open disputes and tickets and get invoices
  Words,      \* what may be said in a decision
  Nobody,
  MaxFiles,   \* bound: files ever opened
  MaxEvents,  \* bound: rows of dispute_events
  MaxNews,    \* bound: different things committed about the files
  MaxDecisions  \* bound: decisions of disputes that ever begin

ASSUME DeskAssumption ==
  /\ Admins \subseteq Profiles /\ Owners \subseteq Profiles
  /\ Nobody \notin Words \cup Profiles
  /\ MaxFiles \in Nat /\ MaxEvents \in Nat /\ MaxNews \in Nat
  /\ MaxDecisions \in Nat

VARIABLES
  files,     \* rows of dispute_cases, support_tickets, invoices and fraud_flags
  events,    \* rows of dispute_events, in the order they were inserted
  clock,     \* the server's clock, which moves on whenever a decision takes its time
  done,      \* history: what was ever committed about each file
  raced      \* history: the files that two decisions were under way on at the same time

deskvars == <<files, events, clock, done, raced, inboxvars, doing>>

Statuses(kind) ==
  CASE kind = "dispute" -> {"resolved", "rejected"}
    [] kind = "ticket"  -> {"open", "in_progress", "resolved", "closed"}
    [] kind = "invoice" -> {"pending", "paid", "cancelled"}
    [] kind = "flag"    -> {"open", "resolved", "dismissed"}

First(kind) == IF kind = "invoice" THEN "pending" ELSE "open"

\* A row: whose it is, its status, which of its times are set, what its decision says and
\* when it was taken (resolved_at).
File(kind, p) ==
  [kind |-> kind, of |-> p, status |-> First(kind), times |-> {}, says |-> Nobody, stamp |-> 0]

\* Its stamp is a decision's created_at, by which events are read back.
Event(f, type, says, stamp) == [file |-> f, type |-> type, says |-> says, stamp |-> stamp]

Init == /\ InboxInit /\ doing = [c \in Calls |-> Idle]
        /\ files = <<>> /\ events = <<>> /\ clock = 0 /\ done = {} /\ raced = {}

ToOwner(f, what) == {Note(files'[f].of, <<f, what>>)}
ToAdmins(f, what) == {Note(a, <<f, what>>) : a \in Admins}

Becomes(f, what) ==
  /\ done' = done \cup {<<f, what>>}
  /\ Cardinality(done') <= MaxNews

\* A mutation that has committed `what' about file f goes on to tell it.
Commit(c, f, what, batches) ==
  /\ doing[c] = Idle
  /\ Becomes(f, what)
  /\ Tell(c, batches)

MayAccess(p, f) == p \in Admins \/ files[f].of = p

\* A ticket's messages are only added to: they are not kept here.
Log(f, type, says, stamp) ==
  \/ files'[f].kind # "dispute" /\ UNCHANGED events
  \/ /\ files'[f].kind = "dispute"
     /\ Len(events) < MaxEvents /\ events' = Append(events, Event(f, type, says, stamp))

-----------------------------------------------------------------------------
(* createDispute, createSupportTicket, createInvoice, flagFraudCase. *)

Open(c, kind, p) ==
  /\ Len(files) < MaxFiles
  /\ files' = Append(files, File(kind, p))
  /\ LET f == Len(files) + 1
     IN  IF kind \in {"dispute", "ticket"}
           THEN /\ Log(f, "created", Nobody, 0)
                /\ Commit(c, f, "opened", <<ToOwner(f, "opened"), ToAdmins(f, "opened")>>)
           ELSE Commit(c, f, "opened", <<>>) /\ UNCHANGED events
  /\ UNCHANGED <<clock, raced, inboxvars>>

OpenDispute(c) == \E p \in Owners : Open(c, "dispute", p)
OpenTicket(c) == \E p \in Owners : Open(c, "ticket", p)
\* By an administrator, for the profile that is to pay.
OpenInvoice(c) == \E p \in Owners : Open(c, "invoice", p)
\* By an administrator; a flag is about something, and nobody's.
RaiseFlag(c) == Open(c, "flag", Nobody)

-----------------------------------------------------------------------------
(* addDisputeComment and replySupportTicket: whoever has not written it    *)
(* is told.                                                                *)

Comment(c, f, p, kind) ==
  /\ files[f].kind = kind /\ MayAccess(p, f)
  /\ UNCHANGED <<files, clock, raced, inboxvars>>
  /\ Log(f, "comment", Nobody, 0)
  /\ Commit(c, f, "comment", <<IF p = files[f].of THEN {} ELSE ToOwner(f, "comment"),
                               IF p \in Admins THEN {} ELSE ToAdmins(f, "comment")>>)

AddDisputeComment(c, f, p) == Comment(c, f, p, "dispute")
ReplySupportTicket(c, f, p) == Comment(c, f, p, "ticket")

-----------------------------------------------------------------------------
(* resolveDispute, updateInvoiceStatus, updateFraudFlagStatus. *)

Deciding(f) == {c \in Calls : doing[c].at = "resolve" /\ doing[c].file = f}

\* At any status: a second decision replaces the first.
ResolveStarts(c, f, w, status) ==
  /\ files[f].kind = "dispute" /\ status \in Statuses("dispute")
  /\ doing[c] = Idle
  /\ clock < MaxDecisions /\ clock' = clock + 1
  /\ doing' = [doing EXCEPT ![c] = [Idle EXCEPT !.at = "resolve", !.file = f,
                 !.status = status, !.says = w, !.stamp = clock']]
  /\ raced' = raced \cup (IF Deciding(f) = {} THEN {} ELSE {f})
  /\ UNCHANGED <<files, events, done, inboxvars>>

Decided(row, d) ==
  [row EXCEPT !.status = d.status, !.times = {"resolved"}, !.says = d.says, !.stamp = d.stamp]

\* Bug: the event is written apart from the status, and may fail.
ResolveWritesInParts(c) ==
  /\ doing[c].at = "resolve"
  /\ LET d == doing[c]
     IN  /\ files' = [files EXCEPT ![d.file] = Decided(@, d)]
         /\ Log(d.file, "resolved", d.says, d.stamp) \/ UNCHANGED events
         /\ Becomes(d.file, d.status)
         /\ Tell(c, <<ToOwner(d.file, d.status)>>)
  /\ UNCHANGED <<clock, raced, inboxvars>>

\* One transaction, whose UPDATE waits for the row: whoever took its time first may well
\* be the last to write.
ResolveWrites(c) ==
  /\ doing[c].at = "resolve"
  /\ LET d == doing[c]
     IN  /\ files' = [files EXCEPT ![d.file] = Decided(@, d)]
         /\ Log(d.file, "resolved", d.says, d.stamp)
         /\ Becomes(d.file, d.status)
         /\ Tell(c, <<ToOwner(d.file, d.status)>>)
  /\ UNCHANGED <<clock, raced, inboxvars>>

SetInvoice(c, f, status) ==
  /\ files[f].kind = "invoice" /\ status \in Statuses("invoice")
  /\ files' = [files EXCEPT ![f].status = status,
                            ![f].times = IF status = "paid" THEN {"paid"} ELSE {}]
  /\ Commit(c, f, status, <<>>)
  /\ UNCHANGED <<events, clock, raced, inboxvars>>

SetFlag(c, f, status) ==
  /\ files[f].kind = "flag" /\ status \in Statuses("flag")
  /\ LET settled == status \in {"resolved", "dismissed"}
     IN  files' = [files EXCEPT ![f].status = status,
                                ![f].times = IF settled THEN {"resolved"} ELSE {}]
  /\ Commit(c, f, status, <<>>)
  /\ UNCHANGED <<events, clock, raced, inboxvars>>

-----------------------------------------------------------------------------
(* updateSupportTicketStatus. *)

\* An administrator sets any status, the owner closes; the update writes the times this
\* read has found.
TicketReads(c, f, p, status) ==
  /\ files[f].kind = "ticket" /\ MayAccess(p, f)
  /\ status \in Statuses("ticket")
  /\ p \in Admins \/ status = "closed"
  /\ doing[c] = Idle
  /\ doing' = [doing EXCEPT ![c] = [Idle EXCEPT !.at = "ticket", !.file = f,
                 !.status = status, !.times = files[f].times,
                 !.notes = IF p = files[f].of THEN <<>>
                           ELSE <<{Note(files[f].of, <<f, status>>)}>>]]
  /\ UNCHANGED <<files, events, clock, done, raced, inboxvars>>

\* Bug: a time is kept only as long as its status.
StampedAnew(status, times) == {status} \cap {"resolved", "closed"}

Stamped(status, times) == times \cup ({status} \cap {"resolved", "closed"})

TicketWrites(c) ==
  /\ doing[c].at = "ticket"
  /\ LET d == doing[c]
     IN  /\ files' = [files EXCEPT ![d.file].status = d.status,
                                   ![d.file].times = Stamped(d.status, d.times)]
         /\ Becomes(d.file, d.status)
         /\ Tell(c, d.notes)
  /\ UNCHANGED <<events, clock, raced, inboxvars>>

\* A statement fails, or the process dies: what was not told yet will not be.
Fails(c) ==
  /\ doing[c] # Idle
  /\ doing' = [doing EXCEPT ![c] = Idle]
  /\ UNCHANGED <<files, events, clock, done, raced, inboxvars>>

Administer(c, f) ==
  \E status \in Statuses(files[f].kind) :
    \/ \E w \in Words : ResolveStarts(c, f, w, status)
    \/ SetInvoice(c, f, status) \/ SetFlag(c, f, status)

DeskNext ==
  \E c \in Calls :
    \/ OpenDispute(c) \/ OpenTicket(c) \/ OpenInvoice(c) \/ RaiseFlag(c)
    \/ ResolveWrites(c) \/ TicketWrites(c) \/ Fails(c)
    \/ \E f \in DOMAIN files :
         \/ Administer(c, f)
         \/ \E p \in Profiles :
              \/ AddDisputeComment(c, f, p) \/ ReplySupportTicket(c, f, p)
              \/ \E status \in Statuses("ticket") : TicketReads(c, f, p, status)

Next ==
  \/ DeskNext
  \/ InboxNext /\ UNCHANGED <<files, events, clock, done, raced>>

Spec == Init /\ [][Next]_deskvars

-----------------------------------------------------------------------------
(* Properties. *)

AllStatuses == {"open", "in_progress", "pending", "resolved", "rejected", "closed", "paid",
                "cancelled", "dismissed"}
Times   == {"resolved", "closed", "paid"}
Abouts  == Nat \X ({"opened", "comment"} \cup AllStatuses)
Notes   == [to : Profiles \cup {Nobody}, about : Abouts]
Pushes  == [token : Tokens, to : Profiles \cup {Nobody}, about : Abouts]

Rows == [kind : {"dispute", "ticket", "invoice", "flag"}, of : Profiles \cup {Nobody},
         status : AllStatuses, times : SUBSET Times, says : Words \cup {Nobody}, stamp : Nat]
Events == [file : Nat, type : {"created", "comment", "resolved"},
           says : Words \cup {Nobody}, stamp : Nat]
Requests == [at : {"idle", "resolve", "ticket", "store", "find", "send", "drop"}, file : Nat,
             status : AllStatuses \cup {"none"}, times : SUBSET Times,
             says : Words \cup {"none"}, stamp : Nat,
             notes : Seq(SUBSET Notes), sends : SUBSET Pushes, dead : SUBSET Tokens]

TypeOK ==
  /\ files \in Seq(Rows) /\ events \in Seq(Events) /\ done \subseteq Abouts
  /\ clock \in Nat /\ raced \subseteq DOMAIN files
  /\ inbox \subseteq Notes /\ wants \in [Profiles -> BOOLEAN]
  /\ devices \in [Tokens -> [of : Profiles, active : BOOLEAN]]
  /\ known \subseteq Tokens /\ moves \in Nat
  /\ doing \in [Calls -> Requests]

Decisions(f) == {i \in DOMAIN events : events[i].file = f /\ events[i].type = "resolved"}

\* A dispute is decided exactly when its events say so; the case says what one of them
\* says, and when, however many decide it and whatever fails.  It is the newest of them, as
\* they are read back, unless two decisions were ever under way at the same time.
DecisionIsRecorded ==
  \A f \in DOMAIN files : files[f].kind = "dispute" =>
    /\ files[f].status = "open" <=> Decisions(f) = {}
    /\ files[f].status # "open" =>
         \E i \in Decisions(f) :
           /\ events[i].says = files[f].says /\ events[i].stamp = files[f].stamp
           /\ \/ f \in raced
              \/ \A j \in Decisions(f) : events[j].stamp <= events[i].stamp

\* The time a ticket was resolved or closed is not lost when its status changes again,
\* except to an update that had read the ticket before that time was set.
TimesAreKept ==
  [][\A f \in DOMAIN files :
       /\ files[f].kind = "ticket"
       /\ \A c \in Calls : doing[c].at = "ticket" /\ doing[c].file = f
                             => files[f].times \subseteq doing[c].times
       => files[f].times \subseteq files'[f].times]_deskvars

\* People are told only what was committed, and everything that is pushed to them they
\* find in their inbox.
ToldIsRecorded ==
  /\ \A note \in inbox : note.about \in done
  /\ \A c \in Calls : \A m \in doing[c].sends : Note(m.to, m.about) \in inbox

InHand(t, p) == \E c \in Calls : \E m \in doing[c].sends : m.token = t /\ m.to = p

\* Whoever has turned notifications off, or has handed the device on, is not pushed to
\* once the requests that had looked devices up before are through.
OptOutHolds ==
  [][\A t \in Tokens, p \in Profiles :
       ~Reaches(t, p) /\ ~InHand(t, p) => ~InHand(t, p)']_deskvars
=============================================================================
