------------------------------- MODULE Inbox -------------------------------
(***************************************************************************)
(* Telling people (notifications.service.ts): notifications are stored,    *)
(* then pushed to the devices of their recipients, after the transaction   *)
(* they are about and never as part of it; the push devices and the        *)
(* settings of user.service.ts.                                            *)
(*                                                                         *)
(* A request has committed its own work before it gets here, so a step     *)
(* that fails here is forgotten and the request goes on.                   *)
(***************************************************************************)
EXTENDS Naturals, Sequences

CONSTANTS
  Profiles,   \* people, administrators among them
  Tokens,     \* Expo push tokens
  Calls,      \* requests in flight at the same time
  MaxMoves    \* bound: changes of settings and devices

ASSUME InboxAssumption == MaxMoves \in Nat

VARIABLES
  inbox,     \* notifications stored: to whom, about what
  wants,     \* notifications_enabled and push_permission_granted, for each profile
  devices,   \* push_devices by token: whose it is, and is_active
  known,     \* the tokens Expo can deliver to
  moves,     \* how many changes of settings and devices there were
  doing      \* what each request does

inboxvars == <<inbox, wants, devices, known, moves>>

Idle == [at |-> "idle", file |-> 0, status |-> "none", times |-> {}, says |-> "none",
         stamp |-> 0, notes |-> <<>>, sends |-> {}, dead |-> {}]

\* Everyone has let the app notify them, and every app has registered its token.
InboxInit ==
  /\ inbox = {}
  /\ wants = [p \in Profiles |-> TRUE]
  /\ devices \in [Tokens -> {[of |-> p, active |-> TRUE] : p \in Profiles}]
  /\ known = Tokens
  /\ moves = 0

Note(p, about) == [to |-> p, about |-> about]

\* The calls of createManyNotifications a request has left, one set of notifications
\* each, from the first that has any; it is over when none has.
Telling(batches) ==
  LET due == {i \in DOMAIN batches : batches[i] # {}}
      first == CHOOSE i \in due : \A j \in due : i <= j
  IN  IF due = {} THEN Idle
      ELSE [Idle EXCEPT !.at = "store", !.notes = SubSeq(batches, first, Len(batches))]

Tell(c, batches) == doing' = [doing EXCEPT ![c] = Telling(batches)]
NextBatch(c) == Tell(c, Tail(doing[c].notes))

-----------------------------------------------------------------------------
(* createManyNotifications and dispatchPushNotifications. *)

\* Bug: the push goes out whether the rows are there or not.
StoreOrNot(c) ==
  /\ doing[c].at = "store"
  /\ inbox' = inbox \cup Head(doing[c].notes) \/ UNCHANGED inbox
  /\ doing' = [doing EXCEPT ![c].at = "find"]
  /\ UNCHANGED <<wants, devices, known, moves>>

Store(c) ==
  /\ doing[c].at = "store"
  /\ inbox' = inbox \cup Head(doing[c].notes)
  /\ doing' = [doing EXCEPT ![c].at = "find"]
  /\ UNCHANGED <<wants, devices, known, moves>>

Reaches(t, p) == devices[t].of = p /\ devices[t].active /\ wants[p]

Message(t, note) == [token |-> t, to |-> note.to, about |-> note.about]

\* Bug: nobody's settings are asked.
MessagesToAll(notes) ==
  {Message(x[1], x[2]) : x \in {y \in Tokens \X notes : /\ devices[y[1]].of = y[2].to
                                                      /\ devices[y[1]].active}}

Messages(notes) ==
  {Message(x[1], x[2]) : x \in {y \in Tokens \X notes : Reaches(y[1], y[2].to)}}

FindDevices(c) ==
  /\ doing[c].at = "find"
  /\ LET sends == Messages(Head(doing[c].notes))
     IN  IF sends = {} THEN NextBatch(c)
         ELSE doing' = [doing EXCEPT ![c].at = "send", ![c].sends = sends]
  /\ UNCHANGED inboxvars

\* Expo answers a ticket for each message; those it cannot deliver name dead tokens.
Send(c) ==
  /\ doing[c].at = "send"
  /\ LET dead == {m.token : m \in doing[c].sends} \ known
     IN  IF dead = {} THEN NextBatch(c)
         ELSE doing' = [doing EXCEPT ![c].at = "drop", ![c].sends = {}, ![c].dead = dead]
  /\ UNCHANGED inboxvars

\* By the id of the row, whoever has registered the token since.
Drop(c) ==
  /\ doing[c].at = "drop"
  /\ devices' = [t \in Tokens |-> IF t \in doing[c].dead
                                    THEN [devices[t] EXCEPT !.active = FALSE] ELSE devices[t]]
  /\ NextBatch(c)
  /\ UNCHANGED <<inbox, wants, known, moves>>

\* Whatever throws on the way is logged, and the request goes on: rows that could not be
\* inserted are not pushed, messages Expo did not take name no dead tokens.
Swallow(c) ==
  /\ doing[c].at \in {"store", "find", "send", "drop"}
  /\ NextBatch(c)
  /\ UNCHANGED inboxvars

-----------------------------------------------------------------------------
(* The recipients: updateNotificationSettings, upsertPushDevice; and the   *)
(* apps' comings and goings.                                               *)

Moves == moves < MaxMoves /\ moves' = moves + 1

SetWants(p) ==
  /\ Moves
  /\ wants' = [wants EXCEPT ![p] = ~@]
  /\ UNCHANGED <<inbox, devices, known, doing>>

\* The app runs, so its token is good; the row of the token becomes this profile's.  The
\* settings are a statement before it, which may be all that happens.
Register(p, t) ==
  /\ Moves
  /\ known' = known \cup {t}
  /\ \E on \in BOOLEAN : devices' = [devices EXCEPT ![t] = [of |-> p, active |-> on]]
  /\ wants' = wants \/ \E on \in BOOLEAN : wants' = [wants EXCEPT ![p] = on]
  /\ UNCHANGED <<inbox, doing>>

\* External: the app is removed from the device.
Uninstall(t) ==
  /\ Moves
  /\ t \in known /\ known' = known \ {t}
  /\ UNCHANGED <<inbox, wants, devices, doing>>

Notifying(c) == Store(c) \/ FindDevices(c) \/ Send(c) \/ Drop(c) \/ Swallow(c)

InboxNext ==
  \/ \E c \in Calls : Notifying(c)
  \/ \E p \in Profiles : SetWants(p) \/ \E t \in Tokens : Register(p, t)
  \/ \E t \in Tokens : Uninstall(t)
=============================================================================
