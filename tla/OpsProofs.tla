------------------------------ MODULE OpsProofs -----------------------------
(***************************************************************************)
(* The safety of the back office, for any number of files, requests,       *)
(* people and devices: disputes, tickets and who is told; and that the     *)
(* lists and the boards of shipments agree, the administrators' among      *)
(* them, for any number of shipments, any schedules and any length of time.*)
(***************************************************************************)
EXTENDS Desk, Dashboard, LibraryProofs

\* An event is about a file there is.
EventInv == \A i \in DOMAIN events : events[i].file \in DOMAIN files

\* What a request has yet to tell.
Left(c) == UNION {doing[c].notes[i] : i \in DOMAIN doing[c].notes}

\* No event is from after now.
ClockInv == \A i \in DOMAIN events : events[i].stamp <= clock

\* A request tells what it has committed, and pushes what it has stored; an update of a
\* ticket will commit what it tells.
CallOK(c) ==
  /\ doing[c].at \in {"store", "find", "send", "drop"} => doing[c].notes # <<>>
  /\ doing[c].at = "ticket" =>
       /\ doing[c].file \in DOMAIN files /\ files[doing[c].file].kind = "ticket"
       /\ doing[c].status \in Statuses("ticket")
       /\ \A note \in Left(c) : note.about = <<doing[c].file, doing[c].status>>
  /\ doing[c].at = "resolve" =>
       /\ doing[c].file \in DOMAIN files /\ files[doing[c].file].kind = "dispute"
       /\ doing[c].status \in Statuses("dispute") /\ doing[c].says \in Words
       /\ doing[c].stamp <= clock
  /\ doing[c].at # "ticket" => \A note \in Left(c) : note.about \in done
  /\ doing[c].at = "find" => Head(doing[c].notes) \subseteq inbox
  /\ \A m \in doing[c].sends : Note(m.to, m.about) \in inbox

CallInv == \A c \in Calls : CallOK(c)

InboxInv == \A note \in inbox : note.about \in done

\* Where no two decisions ever were under way together, the one that is under way is the
\* only one, and newer than all there have been.
RaceInv ==
  \A c \in Calls : doing[c].at = "resolve" =>
    \/ doing[c].file \in raced
    \/ /\ Deciding(doing[c].file) = {c}
       /\ \A i \in Decisions(doing[c].file) : events[i].stamp < doing[c].stamp

IInv == TypeOK /\ EventInv /\ ClockInv /\ CallInv /\ RaceInv /\ InboxInv /\ DecisionIsRecorded

USE DeskAssumption, InboxAssumption

-----------------------------------------------------------------------------
(* What is told: sequences of sets of notifications. *)

\* A bounded set of positions that is not empty has a first one.
LEMMA FirstIsIn ==
  ASSUME NEW n \in Nat, NEW ks \in SUBSET (1..n), ks # {}
  PROVE  (CHOOSE i \in ks : \A j \in ks : i <= j) \in ks
<1>1. ks \in SUBSET Nat
  OBVIOUS
<1>2. \E m \in ks : \A l \in ks : m <= l
  BY <1>1, LeastIsIn
<1> QED
  BY <1>2

LEMMA IdleIsOne ==
  Idle \in Requests /\ Idle.notes = <<>> /\ Idle.sends = {} /\ Idle.at = "idle"
<1>1. <<>> \in Seq(SUBSET Notes)
  OBVIOUS
<1> QED
  BY <1>1 DEF Idle, Requests

\* What is to be told of some batches is told of the first that has any and of those after.
LEMMA TellingIsLeft ==
  ASSUME NEW batches \in Seq(SUBSET Notes)
  PROVE  LET d == Telling(batches)
         IN  /\ d \in Requests /\ d.at \in {"idle", "store"} /\ d.sends = {}
             /\ d.at = "store" => d.notes # <<>>
             /\ \A i \in DOMAIN d.notes : \E j \in DOMAIN batches : d.notes[i] = batches[j]
<1> DEFINE due == {i \in DOMAIN batches : batches[i] # {}}
           first == CHOOSE i \in due : \A j \in due : i <= j
           n == Len(batches)
           rest == SubSeq(batches, first, n)
<1>1. n \in Nat /\ DOMAIN batches = 1..n /\ \A i \in 1..n : batches[i] \in SUBSET Notes
  BY LenProperties
<1>2. CASE due = {}
  <2>1. Telling(batches) = Idle
    BY <1>2 DEF Telling
  <2> QED
    BY <2>1, IdleIsOne
<1>3. CASE due # {}
  <2>1. first \in 1..n
    <3>1. due \subseteq 1..n
      BY <1>1
    <3>2. first \in due
      BY <1>1, <1>3, <3>1, FirstIsIn
    <3> HIDE DEF due, first
    <3> QED
      BY <3>1, <3>2
  <2>2. Telling(batches) = [Idle EXCEPT !.at = "store", !.notes = rest]
    BY <1>3 DEF Telling
  <2> HIDE DEF due, first, n
  <2>3. /\ rest \in Seq(SUBSET Notes) /\ Len(rest) = n - first + 1
        /\ \A i \in 1..(n - first + 1) : rest[i] = batches[first + i - 1]
    <3>1. first \in Int /\ n \in Int /\ first <= n /\ \A i \in first..n : batches[i] \in SUBSET Notes
      BY <1>1, <2>1
    <3> QED
      BY <3>1, SubSeqProperties
  <2>4. rest # <<>> /\ \A i \in DOMAIN rest : \E j \in DOMAIN batches : rest[i] = batches[j]
    <3>1. DOMAIN rest = 1..(n - first + 1)
      BY <2>3, LenProperties
    <3>2. \A i \in 1..(n - first + 1) : first + i - 1 \in 1..n
      BY <1>1, <2>1
    <3>3. Len(rest) # 0
      BY <1>1, <2>1, <2>3
    <3> QED
      BY <1>1, <2>3, <3>1, <3>2, <3>3, EmptySeq
  <2> HIDE DEF rest
  <2> DEFINE d == [Idle EXCEPT !.at = "store", !.notes = rest]
  <2>5. d \in Requests /\ d.at = "store" /\ d.notes = rest /\ d.sends = {}
    BY <2>3, IdleIsOne DEF Requests
  <2> HIDE DEF d
  <2>6. Telling(batches) = d
    BY <2>2 DEF d
  <2> QED
    BY <2>4, <2>5, <2>6
<1> QED
  BY <1>2, <1>3

LEMMA TellsWhatIsLeft ==
  ASSUME TypeOK, NEW c \in Calls, NEW batches \in Seq(SUBSET Notes), Tell(c, batches)
  PROVE  /\ doing' \in [Calls -> Requests] /\ \A d \in Calls : d # c => doing'[d] = doing[d]
         /\ doing'[c].at \in {"idle", "store"} /\ doing'[c].sends = {}
         /\ doing'[c].at = "store" => doing'[c].notes # <<>>
         /\ Left(c)' \subseteq UNION {batches[i] : i \in DOMAIN batches}
<1>1. doing' = [doing EXCEPT ![c] = Telling(batches)]
  BY DEF Tell
<1>2. doing'[c] = Telling(batches)
  BY <1>1 DEF TypeOK
<1>3. Left(c)' = UNION {doing'[c].notes[i] : i \in DOMAIN doing'[c].notes}
  BY DEF Left
<1>4. Left(c)' \subseteq UNION {batches[i] : i \in DOMAIN batches}
  BY <1>2, <1>3, TellingIsLeft
<1> QED
  BY <1>1, <1>2, <1>4, TellingIsLeft DEF TypeOK

\* The next batches are among those there are.
LEMMA NextIsLeft ==
  ASSUME TypeOK, NEW c \in Calls, doing[c].notes # <<>>, NextBatch(c)
  PROVE  /\ doing' \in [Calls -> Requests] /\ \A d \in Calls : d # c => doing'[d] = doing[d]
         /\ doing'[c].at \in {"idle", "store"} /\ doing'[c].sends = {}
         /\ doing'[c].at = "store" => doing'[c].notes # <<>>
         /\ Left(c)' \subseteq Left(c)
<1> DEFINE notes == doing[c].notes
           tail == Tail(notes)
<1>1. notes \in Seq(SUBSET Notes)
  BY DEF TypeOK, Requests
<1>2. tail \in Seq(SUBSET Notes) /\ Len(tail) = Len(notes) - 1
      /\ \A i \in 1..Len(tail) : tail[i] = notes[i + 1]
  BY <1>1, HeadTailProperties
<1>3. \A i \in DOMAIN tail : i + 1 \in DOMAIN notes
  <2>1. DOMAIN tail = 1..Len(tail) /\ Len(tail) \in Nat
        /\ DOMAIN notes = 1..Len(notes) /\ Len(notes) \in Nat
    BY <1>1, <1>2, LenProperties
  <2> QED
    BY <1>2, <2>1
<1>4. DOMAIN tail = 1..Len(tail)
  BY <1>2, LenProperties
<1>5. UNION {tail[i] : i \in DOMAIN tail} \subseteq Left(c)
  BY <1>2, <1>3, <1>4 DEF Left
<1>6. Tell(c, tail)
  BY DEF NextBatch
<1> HIDE DEF tail
<1> QED
  BY <1>2, <1>5, <1>6, TellsWhatIsLeft
-----------------------------------------------------------------------------
(* What a step leaves of the files, the events and the news. *)

\* What no step takes back.
Onward ==
  /\ DOMAIN files \subseteq DOMAIN files'
  /\ \A f \in DOMAIN files : files'[f].kind = files[f].kind
  /\ done \subseteq done' /\ inbox \subseteq inbox' /\ clock <= clock'

LEMMA OnwardKeeps ==
  ASSUME IInv, Onward, TypeOK', EventInv', ClockInv', RaceInv', InboxInv', DecisionIsRecorded',
         \A c \in Calls : UNCHANGED doing[c] \/ CallOK(c)'
  PROVE  IInv'
<1>1. \A c \in Calls : UNCHANGED doing[c] => CallOK(c)'
  <2> SUFFICES ASSUME NEW c \in Calls, UNCHANGED doing[c] PROVE CallOK(c)'
    OBVIOUS
  <2>1. Left(c)' = Left(c) /\ CallOK(c) /\ doing[c].stamp \in Nat
    BY DEF Left, IInv, CallInv, TypeOK, Requests
  <2>2. clock \in Nat /\ clock' \in Nat /\ clock <= clock'
    BY DEF IInv, TypeOK, Onward
  <2> QED
    BY <2>1, <2>2 DEF CallOK, Onward
<1> QED
  BY <1>1 DEF IInv, CallInv

\* A step leaves the decisions of a file as they are.
SameDecisions(f) ==
  Decisions(f)' = Decisions(f) /\ \A i \in Decisions(f) : events'[i] = events[i]

\* Nobody starts on a decision, and who is at one is alone at it or knows of the race.
LEMMA RaceKeeps ==
  ASSUME IInv, UNCHANGED raced,
         \A c \in Calls : doing'[c].at = "resolve" =>
           UNCHANGED doing[c] /\ (doing[c].file \in raced \/ SameDecisions(doing[c].file))
  PROVE  RaceInv'
<1> SUFFICES ASSUME NEW c \in Calls, doing'[c].at = "resolve", doing'[c].file \notin raced'
             PROVE  /\ Deciding(doing[c].file)' = {c}
                    /\ \A i \in Decisions(doing[c].file)' : events'[i].stamp < doing'[c].stamp
  BY DEF RaceInv
<1> DEFINE f == doing[c].file
<1>1. UNCHANGED doing[c] /\ f \notin raced /\ SameDecisions(f)
  OBVIOUS
<1>2. Deciding(f) = {c} /\ \A i \in Decisions(f) : events[i].stamp < doing[c].stamp
  BY <1>1 DEF IInv, RaceInv
<1>3. Deciding(f)' = {e \in Calls : doing'[e].at = "resolve" /\ doing'[e].file = f}
  BY <1>1 DEF Deciding
<1>4. Deciding(f)' = {c}
  BY <1>1, <1>2, <1>3 DEF Deciding
<1> QED
  BY <1>1, <1>2, <1>4 DEF SameDecisions

\* A step of the inbox: it tells nothing that is not done.
LEMMA InboxStep ==
  ASSUME IInv, UNCHANGED <<files, events, clock, done, raced>>, inbox \subseteq inbox',
         TypeOK', InboxInv',
         \A c \in Calls : UNCHANGED doing[c] \/ (CallOK(c)' /\ doing'[c].at # "resolve")
  PROVE  IInv'
<1>1. Onward
  BY DEF Onward, IInv, TypeOK
<1>2. EventInv' /\ ClockInv'
  BY DEF IInv, EventInv, ClockInv
<1>3. \A f : SameDecisions(f)
  BY DEF SameDecisions, Decisions
<1>4. RaceInv'
  BY <1>3, RaceKeeps
<1>5. DecisionIsRecorded'
  BY <1>3 DEF IInv, DecisionIsRecorded, SameDecisions
<1> QED
  BY <1>1, <1>2, <1>4, <1>5, OnwardKeeps

\* A row of the files changes.
LEMMA RowChanges ==
  ASSUME TypeOK, NEW f \in DOMAIN files, NEW row \in Rows, files' = [files EXCEPT ![f] = row]
  PROVE  /\ files' \in Seq(Rows) /\ DOMAIN files' = DOMAIN files
         /\ files'[f] = row /\ \A g \in DOMAIN files : g # f => files'[g] = files[g]
<1>1. Len(files) \in Nat /\ DOMAIN files = 1..Len(files) /\ files \in [1..Len(files) -> Rows]
  BY LenProperties DEF TypeOK
<1>2. files' \in Seq(Rows)
  BY <1>1, ExceptSeq DEF TypeOK
<1> QED
  BY <1>1, <1>2

\* An event is logged.
LEMMA EventIsLast ==
  ASSUME IInv, NEW e \in Events, events' = Append(events, e)
  PROVE  LET n == Len(events) + 1
         IN  /\ events' \in Seq(Events) /\ DOMAIN events' = DOMAIN events \cup {n} /\ events'[n] = e
             /\ \A i \in DOMAIN events : i <= n /\ events'[i] = events[i]
             /\ \A f : Decisions(f)' = IF e.file = f /\ e.type = "resolved"
                                         THEN Decisions(f) \cup {n} ELSE Decisions(f)
<1> DEFINE n == Len(events) + 1
<1>1. Len(events) \in Nat /\ DOMAIN events = 1..Len(events)
  BY LenProperties DEF IInv, TypeOK
<1>2. events' \in Seq(Events) /\ Len(events') = n /\ events'[n] = e
      /\ \A i \in 1..Len(events) : events'[i] = events[i]
  BY AppendProperties DEF IInv, TypeOK
<1>3. DOMAIN events' = 1..n
  BY <1>2, LenProperties
<1>4. DOMAIN events' = DOMAIN events \cup {n} /\ n \notin DOMAIN events
      /\ \A i \in DOMAIN events : i <= n
  BY <1>1, <1>3
<1> HIDE DEF n
<1>5. \A f : Decisions(f)' = IF e.file = f /\ e.type = "resolved"
                               THEN Decisions(f) \cup {n} ELSE Decisions(f)
  BY <1>1, <1>2, <1>4 DEF Decisions
<1> QED
  BY <1>1, <1>2, <1>4, <1>5 DEF n
-----------------------------------------------------------------------------
(* The steps of the inbox. *)

LEMMA HeadIsLeft ==
  ASSUME TypeOK, NEW c \in Calls, doing[c].notes # <<>>
  PROVE  Head(doing[c].notes) \subseteq Notes /\ Head(doing[c].notes) \subseteq Left(c)
<1> DEFINE notes == doing[c].notes
<1>1. notes \in Seq(SUBSET Notes)
  BY DEF TypeOK, Requests
<1>2. Head(notes) \in SUBSET Notes /\ Head(notes) = notes[1] /\ 1 \in DOMAIN notes
  BY <1>1, HeadTailProperties, LenProperties, EmptySeq
<1> QED
  BY <1>2 DEF Left

LEMMA NextBatchKeeps ==
  ASSUME IInv, NEW c \in Calls, doing[c].at \in {"store", "find", "send", "drop"}, NextBatch(c),
         UNCHANGED done
  PROVE  /\ doing' \in [Calls -> Requests] /\ CallOK(c)' /\ doing'[c].at # "resolve"
         /\ \A d \in Calls : d # c => doing'[d] = doing[d]
<1>1. doing[c].notes # <<>> /\ \A note \in Left(c) : note.about \in done
  BY DEF IInv, CallInv, CallOK
<1>2. /\ doing' \in [Calls -> Requests] /\ \A d \in Calls : d # c => doing'[d] = doing[d]
      /\ doing'[c].at \in {"idle", "store"} /\ doing'[c].sends = {}
      /\ doing'[c].at = "store" => doing'[c].notes # <<>>
      /\ Left(c)' \subseteq Left(c)
  BY <1>1, NextIsLeft DEF IInv
<1>3. CallOK(c)'
  BY <1>1, <1>2 DEF CallOK
<1> QED
  BY <1>2, <1>3

\* Notifications are stored, devices looked up, messages sent and dead devices dropped.
LEMMA NotifyingSteps ==
  ASSUME IInv, NEW c \in Calls, Notifying(c), UNCHANGED <<files, events, clock, done, raced>>
  PROVE  IInv'
<1> DEFINE head == Head(doing[c].notes)
<1>1. doing[c].at \in {"store", "find", "send", "drop"} /\ UNCHANGED <<wants, known, moves>>
  BY DEF Notifying, Store, FindDevices, Send, Drop, Swallow, inboxvars
<1>2. doing[c].notes # <<>> /\ (\A note \in Left(c) : note.about \in done)
      /\ doing[c] \in Requests
  BY <1>1 DEF IInv, CallInv, CallOK, TypeOK
<1>3. head \subseteq Notes /\ head \subseteq Left(c)
  BY <1>2, HeadIsLeft DEF IInv
<1> HIDE DEF head
<1>4. CASE NextBatch(c) /\ UNCHANGED inbox /\ devices' \in [Tokens -> [of : Profiles, active : BOOLEAN]]
  <2>1. TypeOK'
    BY <1>1, <1>4, NextBatchKeeps DEF IInv, TypeOK
  <2>2. InboxInv'
    BY <1>4 DEF IInv, InboxInv
  <2> QED
    BY <1>1, <1>4, <2>1, <2>2, NextBatchKeeps, InboxStep
<1>5. CASE Store(c)
  <2> DEFINE d == [doing[c] EXCEPT !.at = "find"]
  <2>1. inbox' = inbox \cup head /\ UNCHANGED devices /\ doing' = [doing EXCEPT ![c] = d]
    BY <1>5 DEF Store, head
  <2>2. d \in Requests /\ d.at = "find" /\ d.notes = doing[c].notes /\ d.sends = doing[c].sends
    BY <1>2 DEF Requests
  <2> HIDE DEF d
  <2>3. /\ doing' \in [Calls -> Requests] /\ \A e \in Calls : e # c => doing'[e] = doing[e]
        /\ doing'[c] = d
    BY <2>1, <2>2 DEF IInv, TypeOK
  <2>4. TypeOK'
    BY <1>1, <1>3, <2>1, <2>3 DEF IInv, TypeOK
  <2>5. InboxInv'
    BY <1>2, <1>3, <2>1 DEF IInv, InboxInv
  <2>6. Left(c)' = Left(c)
    BY <2>2, <2>3 DEF Left
  <2>7. CallOK(c)'
    BY <1>2, <2>1, <2>2, <2>3, <2>6 DEF IInv, CallInv, CallOK, head
  <2> QED
    BY <2>1, <2>2, <2>3, <2>4, <2>5, <2>7, InboxStep
<1>6. CASE FindDevices(c) /\ ~NextBatch(c)
  <2> DEFINE sends == Messages(head)
             d == [doing[c] EXCEPT !.at = "send", !.sends = sends]
  <2>1. UNCHANGED <<inbox, devices>> /\ doing' = [doing EXCEPT ![c] = d] /\ doing[c].at = "find"
    BY <1>6 DEF FindDevices, inboxvars, head
  <2>2. head \subseteq inbox
    BY <2>1 DEF IInv, CallInv, CallOK, head
  <2>3. sends \in SUBSET Pushes /\ \A m \in sends : Note(m.to, m.about) \in inbox
    <3>1. ASSUME NEW m \in sends
          PROVE  m \in Pushes /\ Note(m.to, m.about) \in inbox
      <4>1. PICK t \in Tokens, note \in head : m = Message(t, note)
        BY DEF Messages
      <4>2. note \in Notes /\ note \in inbox
        BY <1>3, <2>2
      <4>3. m \in Pushes /\ m.to = note.to /\ m.about = note.about
        BY <4>1, <4>2 DEF Message, Pushes, Notes
      <4>4. Note(note.to, note.about) = note
        BY <4>2 DEF Note, Notes
      <4> QED
        BY <4>2, <4>3, <4>4
    <3> QED
      BY <3>1
  <2> HIDE DEF sends
  <2>4. d \in Requests /\ d.at = "send" /\ d.notes = doing[c].notes /\ d.sends = sends
    BY <1>2, <2>3 DEF Requests
  <2> HIDE DEF d
  <2>5. /\ doing' \in [Calls -> Requests] /\ \A e \in Calls : e # c => doing'[e] = doing[e]
        /\ doing'[c] = d
    BY <2>1, <2>4 DEF IInv, TypeOK
  <2>6. Left(c)' = Left(c)
    BY <2>4, <2>5 DEF Left
  <2>7. TypeOK' /\ InboxInv'
    BY <1>1, <2>1, <2>5 DEF IInv, TypeOK, InboxInv
  <2>8. CallOK(c)'
    BY <1>2, <2>1, <2>3, <2>4, <2>5, <2>6 DEF CallOK
  <2> QED
    BY <2>1, <2>4, <2>5, <2>7, <2>8, InboxStep
<1>7. CASE Send(c) /\ ~NextBatch(c)
  <2> DEFINE dead == {m.token : m \in doing[c].sends} \ known
             d == [doing[c] EXCEPT !.at = "drop", !.sends = {}, !.dead = dead]
  <2>1. UNCHANGED <<inbox, devices>> /\ doing' = [doing EXCEPT ![c] = d]
    BY <1>7 DEF Send, inboxvars
  <2>2. dead \in SUBSET Tokens
    BY <1>2 DEF Requests, Pushes
  <2> HIDE DEF dead
  <2>3. d \in Requests /\ d.at = "drop" /\ d.notes = doing[c].notes /\ d.sends = {}
    BY <1>2, <2>2 DEF Requests
  <2> HIDE DEF d
  <2>4. /\ doing' \in [Calls -> Requests] /\ \A e \in Calls : e # c => doing'[e] = doing[e]
        /\ doing'[c] = d
    BY <2>1, <2>3 DEF IInv, TypeOK
  <2>5. Left(c)' = Left(c)
    BY <2>3, <2>4 DEF Left
  <2>6. TypeOK' /\ InboxInv'
    BY <1>1, <2>1, <2>4 DEF IInv, TypeOK, InboxInv
  <2>7. CallOK(c)'
    BY <1>2, <2>3, <2>4, <2>5 DEF CallOK
  <2> QED
    BY <2>1, <2>3, <2>4, <2>6, <2>7, InboxStep
<1>8. CASE (FindDevices(c) \/ Send(c) \/ Swallow(c)) /\ NextBatch(c)
  <2>1. UNCHANGED <<inbox, devices>>
    BY <1>8 DEF FindDevices, Send, Swallow, inboxvars
  <2> QED
    BY <1>4, <1>8, <2>1 DEF IInv, TypeOK
<1>9. CASE Drop(c)
  <2>1. devices' \in [Tokens -> [of : Profiles, active : BOOLEAN]]
    BY <1>9 DEF Drop, IInv, TypeOK
  <2> QED
    BY <1>4, <1>9, <2>1 DEF Drop
<1>10. Swallow(c) => NextBatch(c)
  BY DEF Swallow
<1> QED
  BY <1>5, <1>6, <1>7, <1>8, <1>9, <1>10 DEF Notifying

\* Settings and devices change under the requests.
LEMMA MoveSteps ==
  ASSUME IInv, UNCHANGED <<files, events, clock, done, raced>>,
         (\E p \in Profiles : SetWants(p) \/ \E t \in Tokens : Register(p, t))
           \/ \E t \in Tokens : Uninstall(t)
  PROVE  IInv'
<1>1. UNCHANGED <<inbox, doing>> /\ moves' \in Nat
  BY DEF SetWants, Register, Uninstall, Moves, IInv, TypeOK
<1>2. /\ wants' \in [Profiles -> BOOLEAN] /\ known' \subseteq Tokens
      /\ devices' \in [Tokens -> [of : Profiles, active : BOOLEAN]]
  <2>1. CASE \E p \in Profiles : SetWants(p)
    <3>1. PICK p \in Profiles : SetWants(p)
      BY <2>1
    <3>2. UNCHANGED <<known, devices>> /\ wants' = [wants EXCEPT ![p] = ~wants[p]]
      BY <3>1 DEF SetWants
    <3>3. wants \in [Profiles -> BOOLEAN] /\ known \subseteq Tokens
          /\ devices \in [Tokens -> [of : Profiles, active : BOOLEAN]]
      BY DEF IInv, TypeOK
    <3>4. wants' \in [Profiles -> BOOLEAN]
      BY <3>2, <3>3, Zenon
    <3> QED
      BY <3>2, <3>3, <3>4
  <2>2. ASSUME NEW p \in Profiles, NEW t \in Tokens, Register(p, t)
        PROVE  /\ wants' \in [Profiles -> BOOLEAN] /\ known' \subseteq Tokens
               /\ devices' \in [Tokens -> [of : Profiles, active : BOOLEAN]]
    <3>1. PICK on \in BOOLEAN : devices' = [devices EXCEPT ![t] = [of |-> p, active |-> on]]
      BY <2>2 DEF Register
    <3>2. devices' \in [Tokens -> [of : Profiles, active : BOOLEAN]]
      BY <3>1 DEF IInv, TypeOK
    <3>3. wants' \in [Profiles -> BOOLEAN] /\ known' \subseteq Tokens
      BY <2>2 DEF Register, IInv, TypeOK
    <3> QED
      BY <3>2, <3>3
  <2>3. CASE \E t \in Tokens : Uninstall(t)
    BY <2>3 DEF Uninstall, IInv, TypeOK
  <2> QED
    BY <2>1, <2>2, <2>3
<1>3. TypeOK' /\ InboxInv'
  BY <1>1, <1>2 DEF IInv, TypeOK, InboxInv
<1> QED
  BY <1>1, <1>3, InboxStep
-----------------------------------------------------------------------------
(* The steps of the back office. *)

\* A mutation commits something about a file, and goes on to tell it.
LEMMA CommitTells ==
  ASSUME IInv, NEW c \in Calls, NEW f \in Nat,
         NEW what \in {"opened", "comment"} \cup AllStatuses,
         NEW batches \in Seq(SUBSET Notes),
         \A i \in DOMAIN batches : \A note \in batches[i] : note.about = <<f, what>>,
         Becomes(f, what), Tell(c, batches)
  PROVE  /\ done' \subseteq Abouts /\ done \subseteq done'
         /\ doing' \in [Calls -> Requests] /\ CallOK(c)' /\ doing'[c].at # "resolve"
         /\ \A d \in Calls : d # c => doing'[d] = doing[d]
<1>1. done' = done \cup {<<f, what>>}
  BY DEF Becomes
<1>2. done' \subseteq Abouts
  BY <1>1 DEF IInv, TypeOK, Abouts
<1>3. /\ doing' \in [Calls -> Requests] /\ \A d \in Calls : d # c => doing'[d] = doing[d]
      /\ doing'[c].at \in {"idle", "store"} /\ doing'[c].sends = {}
      /\ doing'[c].at = "store" => doing'[c].notes # <<>>
      /\ Left(c)' \subseteq UNION {batches[i] : i \in DOMAIN batches}
  BY TellsWhatIsLeft DEF IInv
<1>4. \A note \in Left(c)' : note.about \in done'
  <2> SUFFICES ASSUME NEW note \in Left(c)' PROVE note.about \in done'
    OBVIOUS
  <2>1. PICK i \in DOMAIN batches : note \in batches[i]
    BY <1>3
  <2> QED
    BY <1>1, <2>1
<1>5. CallOK(c)'
  BY <1>3, <1>4 DEF CallOK
<1> QED
  BY <1>1, <1>2, <1>3, <1>5

\* Notes to an owner, or to all administrators.
LEMMA NotesAreNotes ==
  ASSUME files' \in Seq(Rows), NEW f \in DOMAIN files', f \in Nat,
         NEW what \in {"opened", "comment"} \cup AllStatuses
  PROVE  /\ ToOwner(f, what) \in SUBSET Notes /\ ToAdmins(f, what) \in SUBSET Notes
         /\ \A note \in ToOwner(f, what) \cup ToAdmins(f, what) : note.about = <<f, what>>
<1>1. files'[f] \in Rows
  BY LenProperties
<1>2. files'[f].of \in Profiles \cup {Nobody}
  BY <1>1 DEF Rows
<1>3. \A p \in Profiles \cup {Nobody} : Note(p, <<f, what>>) \in Notes
                                        /\ Note(p, <<f, what>>).about = <<f, what>>
  BY DEF Note, Notes, Abouts
<1> QED
  BY <1>2, <1>3 DEF ToOwner, ToAdmins

\* At most two batches.
LEMMA BatchesAre ==
  ASSUME NEW S \in SUBSET Notes, NEW T \in SUBSET Notes, NEW about,
         \A note \in S \cup T : note.about = about
  PROVE  /\ <<S>> \in Seq(SUBSET Notes) /\ <<S, T>> \in Seq(SUBSET Notes)
         /\ \A i \in DOMAIN <<S>> : \A note \in <<S>>[i] : note.about = about
         /\ \A i \in DOMAIN <<S, T>> : \A note \in <<S, T>>[i] : note.about = about
OBVIOUS

\* A file is opened.
LEMMA OpenStep ==
  ASSUME IInv, NEW c \in Calls, NEW kind \in {"dispute", "ticket", "invoice", "flag"},
         NEW p \in Profiles \cup {Nobody}, Open(c, kind, p)
  PROVE  IInv'
<1> DEFINE f == Len(files) + 1
           row == File(kind, p)
<1>1. row \in Rows /\ row.kind = kind /\ row.status = IF kind = "invoice" THEN "pending" ELSE "open"
  BY DEF File, First, Rows, AllStatuses, Times
<1>2. files' = Append(files, row) /\ UNCHANGED <<clock, raced, inboxvars>>
  BY DEF Open
<1>3. Len(files) \in Nat /\ DOMAIN files = 1..Len(files)
  BY LenProperties DEF IInv, TypeOK
<1> HIDE DEF row
<1>4. files' \in Seq(Rows) /\ Len(files') = f /\ files'[f] = row
      /\ \A g \in 1..Len(files) : files'[g] = files[g]
  BY <1>1, <1>2, AppendProperties DEF IInv, TypeOK
<1>5. DOMAIN files' = 1..f
  BY <1>4, LenProperties
<1>6. /\ f \in Nat /\ f \in DOMAIN files' /\ f \notin DOMAIN files
      /\ DOMAIN files' = DOMAIN files \cup {f}
      /\ \A g \in DOMAIN files : files'[g] = files[g]
  BY <1>3, <1>4, <1>5
<1> HIDE DEF f
<1>7. \E batches \in {<<>>, <<ToOwner(f, "opened"), ToAdmins(f, "opened")>>} :
        Commit(c, f, "opened", batches)
  BY DEF Open, f
<1>8. /\ done' \subseteq Abouts /\ done \subseteq done'
      /\ doing' \in [Calls -> Requests] /\ CallOK(c)' /\ doing'[c].at # "resolve"
      /\ \A d \in Calls : d # c => doing'[d] = doing[d]
  <2>1. PICK batches \in {<<>>, <<ToOwner(f, "opened"), ToAdmins(f, "opened")>>} :
          Commit(c, f, "opened", batches)
    BY <1>7
  <2>2. batches \in Seq(SUBSET Notes)
        /\ \A i \in DOMAIN batches : \A note \in batches[i] : note.about = <<f, "opened">>
    <3>1. /\ ToOwner(f, "opened") \in SUBSET Notes /\ ToAdmins(f, "opened") \in SUBSET Notes
          /\ \A note \in ToOwner(f, "opened") \cup ToAdmins(f, "opened") :
               note.about = <<f, "opened">>
      BY <1>4, <1>6, NotesAreNotes
    <3> DEFINE two == <<ToOwner(f, "opened"), ToAdmins(f, "opened")>>
    <3>2. two \in Seq(SUBSET Notes)
          /\ \A i \in DOMAIN two : \A note \in two[i] : note.about = <<f, "opened">>
      BY <3>1, BatchesAre
    <3>3. batches = <<>> \/ batches = two
      BY <2>1
    <3> HIDE DEF two
    <3>4. CASE batches = <<>>
      BY <3>4
    <3>5. CASE batches = two
      BY <3>2, <3>5
    <3> QED
      BY <3>3, <3>4, <3>5
  <2> QED
    BY <1>6, <2>1, <2>2, CommitTells DEF Commit
<1>9. UNCHANGED events \/ events' = Append(events, Event(f, "created", Nobody, 0))
  BY DEF Open, Log, f
<1>10. /\ events' \in Seq(Events) /\ EventInv' /\ ClockInv'
       /\ \A g : Decisions(g)' = Decisions(g)
       /\ \A i \in DOMAIN events : events'[i] = events[i]
  <2>1. CASE UNCHANGED events
    BY <1>2, <1>6, <2>1 DEF IInv, TypeOK, EventInv, ClockInv, Decisions
  <2>2. CASE events' = Append(events, Event(f, "created", Nobody, 0))
    <3> DEFINE e == Event(f, "created", Nobody, 0)
    <3>1. e \in Events /\ e.file = f /\ e.type = "created" /\ e.stamp = 0
      BY <1>6 DEF Event, Events
    <3> HIDE DEF e
    <3>2. events' = Append(events, e)
      BY <2>2 DEF e
    <3>3. LET n == Len(events) + 1
          IN  /\ events' \in Seq(Events) /\ DOMAIN events' = DOMAIN events \cup {n} /\ events'[n] = e
              /\ \A i \in DOMAIN events : i <= n /\ events'[i] = events[i]
              /\ \A g : Decisions(g)' = Decisions(g)
      BY <3>1, <3>2, EventIsLast
    <3>4. clock' = clock /\ clock \in Nat
      BY <1>2 DEF IInv, TypeOK
    <3> QED
      BY <1>6, <3>1, <3>3, <3>4 DEF IInv, EventInv, ClockInv
  <2> QED
    BY <1>9, <2>1, <2>2
<1>11. TypeOK'
  BY <1>2, <1>4, <1>6, <1>8, <1>10 DEF IInv, TypeOK, inboxvars
<1>12. Onward /\ InboxInv'
  BY <1>2, <1>6, <1>8 DEF Onward, IInv, TypeOK, InboxInv, inboxvars
<1>13. DecisionIsRecorded'
  <2>1. Decisions(f) = {}
    BY <1>6 DEF IInv, EventInv, Decisions
  <2>2. files'[f].kind = "dispute" => files'[f].status = "open"
    BY <1>1, <1>4 DEF f
  <2>3. \A i \in DOMAIN events : events'[i] = events[i]
    BY <1>10
  <2>4. \A g \in DOMAIN files : \A i \in Decisions(g) : events'[i] = events[i]
    BY <2>3 DEF Decisions
  <2> QED
    BY <1>2, <1>6, <1>10, <2>1, <2>2, <2>4 DEF IInv, DecisionIsRecorded
<1>14. RaceInv'
  <2>1. \A g : SameDecisions(g)
    BY <1>10 DEF SameDecisions, Decisions
  <2> QED
    BY <1>2, <1>8, <2>1, RaceKeeps
<1> QED
  BY <1>8, <1>10, <1>11, <1>12, <1>13, <1>14, OnwardKeeps

\* Something is committed about a file there is.
LEMMA FileStep ==
  ASSUME IInv, NEW c \in Calls, NEW f \in DOMAIN files,
         NEW what \in {"opened", "comment"} \cup AllStatuses,
         NEW batches \in Seq(SUBSET Notes),
         \A i \in DOMAIN batches : \A note \in batches[i] : note.about = <<f, what>>,
         Becomes(f, what), Tell(c, batches), UNCHANGED <<clock, raced, inboxvars>>,
         files' \in Seq(Rows), DOMAIN files' = DOMAIN files,
         \A g \in DOMAIN files : files'[g].kind = files[g].kind,
         events' \in Seq(Events), EventInv', ClockInv', DecisionIsRecorded',
         \A d \in Calls : d # c /\ doing[d].at = "resolve" =>
           doing[d].file \in raced \/ SameDecisions(doing[d].file)
  PROVE  IInv'
<1>1. f \in Nat
  BY LenProperties DEF IInv, TypeOK
<1>2. /\ done' \subseteq Abouts /\ done \subseteq done'
      /\ doing' \in [Calls -> Requests] /\ CallOK(c)' /\ doing'[c].at # "resolve"
      /\ \A d \in Calls : d # c => doing'[d] = doing[d]
  BY <1>1, CommitTells
<1>3. TypeOK'
  BY <1>2 DEF IInv, TypeOK, inboxvars
<1>4. Onward /\ InboxInv'
  BY <1>2 DEF Onward, IInv, TypeOK, InboxInv, inboxvars
<1>5. RaceInv'
  BY <1>2, RaceKeeps
<1> QED
  BY <1>2, <1>3, <1>4, <1>5, OnwardKeeps

\* What is logged about a file, and leaves the decisions alone unless it is one.
LEMMA LogKeeps ==
  ASSUME IInv, NEW f \in DOMAIN files, NEW type \in {"created", "comment", "resolved"},
         NEW says \in Words \cup {Nobody}, NEW stamp \in Nat, stamp <= clock,
         Log(f, type, says, stamp), DOMAIN files' = DOMAIN files, UNCHANGED clock
  PROVE  /\ events' \in Seq(Events) /\ EventInv' /\ ClockInv'
         /\ \A g \in DOMAIN files : g # f \/ type # "resolved" => SameDecisions(g)
         /\ files'[f].kind = "dispute" /\ type = "resolved" =>
              \E n : /\ Decisions(f)' = Decisions(f) \cup {n}
                    /\ events'[n].says = says /\ events'[n].stamp = stamp
                    /\ \A i \in Decisions(f) : events'[i] = events[i]
<1>1. f \in Nat
  BY LenProperties DEF IInv, TypeOK
<1>2. CASE UNCHANGED events /\ files'[f].kind # "dispute"
  BY <1>2 DEF IInv, TypeOK, EventInv, ClockInv, SameDecisions, Decisions
<1>3. CASE events' = Append(events, Event(f, type, says, stamp))
  <2> DEFINE e == Event(f, type, says, stamp)
             n == Len(events) + 1
  <2>1. e \in Events /\ e.file = f /\ e.type = type /\ e.says = says /\ e.stamp = stamp
    BY <1>1 DEF Event, Events
  <2> HIDE DEF e
  <2>2. events' = Append(events, e)
    BY <1>3 DEF e
  <2>3. /\ events' \in Seq(Events) /\ DOMAIN events' = DOMAIN events \cup {n} /\ events'[n] = e
        /\ \A i \in DOMAIN events : i <= n /\ events'[i] = events[i]
        /\ \A g : Decisions(g)' = IF e.file = g /\ e.type = "resolved"
                                    THEN Decisions(g) \cup {n} ELSE Decisions(g)
    BY <2>1, <2>2, EventIsLast
  <2> HIDE DEF n
  <2>4. EventInv' /\ ClockInv'
    BY <2>1, <2>3 DEF IInv, EventInv, ClockInv
  <2>5. \A g : Decisions(g) \subseteq DOMAIN events
    BY DEF Decisions
  <2>6. \A g : g # f \/ type # "resolved" => SameDecisions(g)
    BY <2>1, <2>3, <2>5 DEF SameDecisions
  <2> QED
    BY <2>1, <2>3, <2>4, <2>5, <2>6
<1> QED
  BY <1>2, <1>3 DEF Log

\* Comments and replies are told to whoever has not written them.
LEMMA CommentStep ==
  ASSUME IInv, NEW c \in Calls, NEW f \in DOMAIN files, NEW p \in Profiles,
         NEW kind, Comment(c, f, p, kind)
  PROVE  IInv'
<1> DEFINE S == IF p = files[f].of THEN {} ELSE ToOwner(f, "comment")
           T == IF p \in Admins THEN {} ELSE ToAdmins(f, "comment")
<1>1. UNCHANGED <<files, clock, raced, inboxvars>> /\ Log(f, "comment", Nobody, 0)
      /\ Becomes(f, "comment") /\ Tell(c, <<S, T>>)
  BY DEF Comment, Commit
<1>2. files' \in Seq(Rows) /\ f \in DOMAIN files' /\ f \in Nat
  BY <1>1, LenProperties DEF IInv, TypeOK
<1>3. S \in SUBSET Notes /\ T \in SUBSET Notes
      /\ \A note \in S \cup T : note.about = <<f, "comment">>
  BY <1>2, NotesAreNotes
<1> HIDE DEF S, T
<1>4. <<S, T>> \in Seq(SUBSET Notes)
      /\ \A i \in DOMAIN <<S, T>> : \A note \in <<S, T>>[i] : note.about = <<f, "comment">>
  BY <1>3, BatchesAre
<1>5. /\ events' \in Seq(Events) /\ EventInv' /\ ClockInv'
      /\ \A g \in DOMAIN files : SameDecisions(g)
  <2>1. 0 \in Nat /\ 0 <= clock
    BY DEF IInv, TypeOK
  <2> QED
    BY <1>1, <2>1, LogKeeps
<1>6. DecisionIsRecorded'
  BY <1>1, <1>5 DEF IInv, DecisionIsRecorded, SameDecisions
<1>7. \A d \in Calls : doing[d].at = "resolve" => SameDecisions(doing[d].file)
  BY <1>5 DEF IInv, CallInv, CallOK
<1> QED
  BY <1>1, <1>2, <1>4, <1>5, <1>6, <1>7, FileStep

\* The administrator's request takes its time.
LEMMA ResolveStartStep ==
  ASSUME IInv, NEW c \in Calls, NEW f \in DOMAIN files, NEW w \in Words, NEW status,
         ResolveStarts(c, f, w, status)
  PROVE  IInv'
<1> DEFINE d == [Idle EXCEPT !.at = "resolve", !.file = f, !.status = status, !.says = w,
                             !.stamp = clock + 1]
<1>1. /\ files[f].kind = "dispute" /\ status \in Statuses("dispute") /\ clock' = clock + 1
      /\ doing' = [doing EXCEPT ![c] = d] /\ UNCHANGED <<files, events, done, inboxvars>>
      /\ raced' = raced \cup (IF Deciding(f) = {} THEN {} ELSE {f})
  BY DEF ResolveStarts
<1>2. f \in Nat /\ status \in AllStatuses /\ clock \in Nat
  BY <1>1, LenProperties DEF IInv, TypeOK, Statuses, AllStatuses
<1>3. /\ d \in Requests /\ d.at = "resolve" /\ d.file = f /\ d.status = status /\ d.says = w
      /\ d.stamp = clock + 1 /\ d.notes = <<>> /\ d.sends = {}
  <2>1. clock + 1 \in Nat
    BY <1>2
  <2>2. d \in Requests
    BY <1>2, <2>1, IdleIsOne DEF Requests
  <2> QED
    BY <2>2, IdleIsOne DEF Idle
<1> HIDE DEF d
<1>4. doing'[c] = d /\ doing' \in [Calls -> Requests]
      /\ \A e \in Calls : e # c => doing'[e] = doing[e]
  BY <1>1, <1>3 DEF IInv, TypeOK
<1>5. TypeOK'
  BY <1>1, <1>2, <1>4 DEF IInv, TypeOK, inboxvars
<1>6. EventInv' /\ InboxInv' /\ Onward
  BY <1>1, <1>2 DEF IInv, EventInv, InboxInv, Onward, inboxvars
<1>7. \A i \in DOMAIN events : events[i].stamp \in Nat /\ events[i].stamp < clock + 1
  <2> SUFFICES ASSUME NEW i \in DOMAIN events
               PROVE  events[i].stamp \in Nat /\ events[i].stamp < clock + 1
    OBVIOUS
  <2>1. events[i] \in Events
    BY LenProperties DEF IInv, TypeOK
  <2>2. events[i].stamp \in Nat /\ events[i].stamp <= clock
    BY <2>1 DEF IInv, ClockInv, Events
  <2> QED
    BY <1>2, <2>2
<1>8. ClockInv'
  BY <1>1, <1>2, <1>7 DEF ClockInv
<1>9. \A g : SameDecisions(g)
  BY <1>1 DEF SameDecisions, Decisions
<1>10. DecisionIsRecorded'
  BY <1>1, <1>9 DEF IInv, DecisionIsRecorded, SameDecisions
<1>11. RaceInv'
  <2> SUFFICES ASSUME NEW e \in Calls, doing'[e].at = "resolve", doing'[e].file \notin raced'
               PROVE  /\ Deciding(doing[e].file)' = {e}
                      /\ \A i \in Decisions(doing[e].file)' : events'[i].stamp < doing'[e].stamp
    BY DEF RaceInv
  <2>1. CASE e = c
    <3>1. Deciding(f) = {} /\ doing'[e].file = f
      BY <1>1, <1>3, <1>4, <2>1
    <3>2. Deciding(f)' = {c}
      BY <1>3, <1>4, <3>1 DEF Deciding
    <3>3. \A i \in Decisions(f)' : events'[i].stamp < clock + 1
      BY <1>1, <1>7 DEF Decisions
    <3> QED
      BY <1>3, <1>4, <2>1, <3>1, <3>2, <3>3 DEF Deciding, Decisions
  <2>2. CASE e # c
    <3> DEFINE g == doing[e].file
    <3>1. doing'[e] = doing[e] /\ g \notin raced /\ e \in Deciding(g)
      BY <1>1, <1>4, <2>2 DEF Deciding
    <3>2. g # f
      BY <1>1, <1>4, <2>2, <3>1
    <3>3. Deciding(g) = {e} /\ \A i \in Decisions(g) : events[i].stamp < doing[e].stamp
      BY <3>1 DEF IInv, RaceInv, Deciding
    <3>4. {x \in Calls : doing'[x].at = "resolve" /\ doing'[x].file = g} = {e}
      BY <1>3, <1>4, <3>1, <3>2, <3>3 DEF Deciding
    <3>5. \A i \in Decisions(g)' : events'[i].stamp < doing[e].stamp
      BY <1>1, <3>1, <3>3 DEF Decisions
    <3> QED
      BY <3>1, <3>4, <3>5 DEF Deciding, Decisions
  <2> QED
    BY <2>1, <2>2
<1>12. CallOK(c)'
  <2>1. Left(c)' = {}
    BY <1>3, <1>4 DEF Left
  <2> QED
    BY <1>1, <1>2, <1>3, <1>4, <2>1 DEF CallOK
<1> QED
  BY <1>4, <1>5, <1>6, <1>8, <1>10, <1>11, <1>12, OnwardKeeps

\* A dispute is decided: whoever else is at it has raced.
LEMMA ResolveWriteStep ==
  ASSUME IInv, NEW c \in Calls, ResolveWrites(c)
  PROVE  IInv'
<1>0. PICK d, f : d = doing[c] /\ f = d.file
  OBVIOUS
<1> DEFINE row == Decided(files[f], d)
           S == ToOwner(f, d.status)
<1>1. /\ d.at = "resolve" /\ files' = [files EXCEPT ![f] = row]
      /\ Log(f, "resolved", d.says, d.stamp) /\ Becomes(f, d.status) /\ Tell(c, <<S>>)
      /\ UNCHANGED <<clock, raced, inboxvars>>
  BY <1>0 DEF ResolveWrites
<1>2. /\ f \in DOMAIN files /\ files[f].kind = "dispute" /\ d.says \in Words
      /\ d.status \in {"resolved", "rejected"} /\ d.stamp \in Nat /\ d.stamp <= clock
  BY <1>0, <1>1 DEF IInv, CallInv, CallOK, TypeOK, Requests, Statuses
<1>3. files[f] \in Rows /\ f \in Nat /\ d.status \in AllStatuses
  BY <1>2, LenProperties DEF IInv, TypeOK, AllStatuses
<1>4. /\ row \in Rows /\ row.kind = "dispute" /\ row.status = d.status
      /\ row.says = d.says /\ row.stamp = d.stamp
  BY <1>2, <1>3 DEF Decided, Rows, Times
<1> HIDE DEF row
<1>5. /\ files' \in Seq(Rows) /\ DOMAIN files' = DOMAIN files
      /\ files'[f] = row /\ \A g \in DOMAIN files : g # f => files'[g] = files[g]
  BY <1>1, <1>2, <1>4, RowChanges DEF IInv
<1>6. S \in SUBSET Notes /\ \A note \in S : note.about = <<f, d.status>>
  BY <1>2, <1>3, <1>5, NotesAreNotes
<1> HIDE DEF S
<1>7. <<S>> \in Seq(SUBSET Notes)
      /\ \A i \in DOMAIN <<S>> : \A note \in <<S>>[i] : note.about = <<f, d.status>>
  BY <1>6
<1>8. /\ events' \in Seq(Events) /\ EventInv' /\ ClockInv'
      /\ \A g \in DOMAIN files : g # f => SameDecisions(g)
      /\ \E n : /\ Decisions(f)' = Decisions(f) \cup {n}
                /\ events'[n].says = d.says /\ events'[n].stamp = d.stamp
                /\ \A i \in Decisions(f) : events'[i] = events[i]
  BY <1>1, <1>2, <1>4, <1>5, LogKeeps
<1>9. PICK n : /\ Decisions(f)' = Decisions(f) \cup {n}
               /\ events'[n].says = d.says /\ events'[n].stamp = d.stamp
               /\ \A i \in Decisions(f) : events'[i] = events[i]
  BY <1>8
<1>10. f \in raced \/ \A i \in Decisions(f)' : events'[i].stamp <= events'[n].stamp
  <2>1. f \in raced \/ \A i \in Decisions(f) : events[i].stamp < d.stamp
    BY <1>0, <1>1 DEF IInv, RaceInv
  <2>2. \A i \in Decisions(f) : events[i].stamp \in Nat
    <3>1. \A i \in DOMAIN events : events[i] \in Events
      BY LenProperties DEF IInv, TypeOK
    <3> QED
      BY <3>1 DEF Decisions, Events
  <2> QED
    BY <1>2, <1>9, <2>1, <2>2
<1>11. DecisionIsRecorded'
  <2>1. ASSUME NEW g \in DOMAIN files, g # f, files'[g].kind = "dispute"
        PROVE  /\ files'[g].status = "open" <=> Decisions(g)' = {}
               /\ files'[g].status # "open" =>
                    \E i \in Decisions(g)' :
                      /\ events'[i].says = files'[g].says /\ events'[i].stamp = files'[g].stamp
                      /\ \/ g \in raced'
                         \/ \A j \in Decisions(g)' : events'[j].stamp <= events'[i].stamp
    <3>1. /\ files'[g] = files[g] /\ raced' = raced /\ Decisions(g)' = Decisions(g)
          /\ \A i \in Decisions(g) : events'[i] = events[i]
      BY <1>1, <1>5, <1>8, <2>1 DEF SameDecisions
    <3>2. /\ files[g].status = "open" <=> Decisions(g) = {}
          /\ files[g].status # "open" =>
               \E i \in Decisions(g) :
                 /\ events[i].says = files[g].says /\ events[i].stamp = files[g].stamp
                 /\ \/ g \in raced
                    \/ \A j \in Decisions(g) : events[j].stamp <= events[i].stamp
      BY <2>1, <3>1 DEF IInv, DecisionIsRecorded
    <3> QED
      BY <3>1, <3>2
  <2>2. /\ files'[f].status # "open" /\ n \in Decisions(f)' /\ raced' = raced
        /\ events'[n].says = files'[f].says /\ events'[n].stamp = files'[f].stamp
    BY <1>1, <1>2, <1>4, <1>5, <1>9
  <2> QED
    BY <1>5, <1>10, <2>1, <2>2 DEF DecisionIsRecorded
<1>12. \A g \in DOMAIN files : files'[g].kind = files[g].kind
  BY <1>2, <1>4, <1>5
<1>13. ASSUME NEW e \in Calls, e # c, doing[e].at = "resolve"
       PROVE  doing[e].file \in raced \/ SameDecisions(doing[e].file)
  <2>1. doing[e].file \in DOMAIN files
    BY <1>13 DEF IInv, CallInv, CallOK
  <2>2. doing[e].file = f => f \in raced
    BY <1>0, <1>1, <1>13 DEF IInv, RaceInv, Deciding
  <2> QED
    BY <1>8, <2>1, <2>2
<1> QED
  BY <1>1, <1>2, <1>3, <1>5, <1>7, <1>8, <1>11, <1>12, <1>13, FileStep

\* The status of another file changes, and no event is written.
LEMMA StatusStep ==
  ASSUME IInv, NEW c \in Calls, NEW f \in DOMAIN files, NEW row \in Rows,
         files[f].kind # "dispute", row.kind = files[f].kind,
         files' = [files EXCEPT ![f] = row], UNCHANGED <<events, clock, raced, inboxvars>>,
         NEW status \in AllStatuses, NEW batches \in Seq(SUBSET Notes),
         \A i \in DOMAIN batches : \A note \in batches[i] : note.about = <<f, status>>,
         Becomes(f, status), Tell(c, batches)
  PROVE  IInv'
<1>1. /\ files' \in Seq(Rows) /\ DOMAIN files' = DOMAIN files
      /\ files'[f] = row /\ \A g \in DOMAIN files : g # f => files'[g] = files[g]
  BY RowChanges DEF IInv
<1>2. events' \in Seq(Events) /\ EventInv' /\ ClockInv'
  BY <1>1 DEF IInv, TypeOK, EventInv, ClockInv
<1>3. \A g \in DOMAIN files : files'[g].kind = "dispute" => files'[g] = files[g]
  BY <1>1
<1>4. \A g : SameDecisions(g)
  BY DEF SameDecisions, Decisions
<1>5. DecisionIsRecorded'
  BY <1>1, <1>3, <1>4 DEF IInv, DecisionIsRecorded, SameDecisions
<1>6. \A g \in DOMAIN files : files'[g].kind = files[g].kind
  BY <1>1
<1> QED
  BY <1>1, <1>2, <1>4, <1>5, <1>6, FileStep

\* Invoices and fraud flags.
LEMMA SetSteps ==
  ASSUME IInv, NEW c \in Calls, NEW f \in DOMAIN files, NEW status,
         SetInvoice(c, f, status) \/ SetFlag(c, f, status)
  PROVE  IInv'
<1>1. files[f] \in Rows
  BY LenProperties DEF IInv, TypeOK
<1>2. PICK times \in SUBSET Times :
        files' = [files EXCEPT ![f].status = status, ![f].times = times]
  <2>1. CASE SetInvoice(c, f, status)
    BY <2>1 DEF SetInvoice, Times
  <2>2. CASE SetFlag(c, f, status)
    BY <2>2 DEF SetFlag, Times
  <2> QED
    BY <2>1, <2>2
<1>3. /\ files[f].kind # "dispute" /\ status \in AllStatuses /\ UNCHANGED <<events, clock, raced, inboxvars>>
      /\ Becomes(f, status) /\ Tell(c, <<>>)
  BY DEF SetInvoice, SetFlag, Statuses, AllStatuses, Commit
<1> DEFINE row == [files[f] EXCEPT !.status = status, !.times = times]
<1>4. row \in Rows /\ row.kind = files[f].kind /\ files' = [files EXCEPT ![f] = row]
  BY <1>1, <1>2, <1>3 DEF Rows
<1> HIDE DEF row
<1>5. PICK none : none = <<>>
  OBVIOUS
<1>6. none \in Seq(SUBSET Notes) /\ Tell(c, none)
      /\ \A i \in DOMAIN none : \A note \in none[i] : note.about = <<f, status>>
  BY <1>3, <1>5
<1> QED
  BY <1>3, <1>4, <1>6, StatusStep

\* A ticket is written with the times that were read.
LEMMA TicketWriteStep ==
  ASSUME IInv, NEW c \in Calls, TicketWrites(c)
  PROVE  /\ IInv'
         /\ LET f == doing[c].file
            IN  /\ f \in DOMAIN files /\ doing[c].at = "ticket"
                /\ files'[f].times = Stamped(doing[c].status, doing[c].times)
                /\ \A g \in DOMAIN files : g # f => files'[g] = files[g]
<1> DEFINE d == doing[c]
           f == d.file
           row == [files[f] EXCEPT !.status = d.status, !.times = Stamped(d.status, d.times)]
<1>1. d.at = "ticket" /\ UNCHANGED <<events, clock, raced, inboxvars>> /\ Becomes(f, d.status)
      /\ Tell(c, d.notes) /\ files' = [files EXCEPT ![f] = row]
  BY DEF TicketWrites
<1>2. d \in Requests
  BY DEF IInv, TypeOK
<1>3. f \in DOMAIN files /\ files[f].kind = "ticket" /\ d.status \in Statuses("ticket")
      /\ \A note \in Left(c) : note.about = <<f, d.status>>
  BY <1>1 DEF IInv, CallInv, CallOK
<1>4. d.status \in AllStatuses /\ d.times \subseteq Times /\ d.notes \in Seq(SUBSET Notes)
  BY <1>2, <1>3 DEF Statuses, AllStatuses, Requests
<1>5. files[f] \in Rows
  BY <1>3, LenProperties DEF IInv, TypeOK
<1>6. Stamped(d.status, d.times) \in SUBSET Times
  BY <1>4 DEF Stamped, Times
<1>7. row \in Rows /\ row.kind = "ticket" /\ row.times = Stamped(d.status, d.times)
  BY <1>3, <1>4, <1>5, <1>6 DEF Rows
<1>8. \A i \in DOMAIN d.notes : \A note \in d.notes[i] : note.about = <<f, d.status>>
  BY <1>3 DEF Left
<1> HIDE DEF row
<1>9. files'[f] = row /\ \A g \in DOMAIN files : g # f => files'[g] = files[g]
  BY <1>1, <1>3, <1>7, RowChanges DEF IInv
<1> HIDE DEF f
<1>10. IInv'
  BY <1>1, <1>3, <1>4, <1>7, <1>8, StatusStep
<1> QED
  BY <1>1, <1>3, <1>7, <1>9, <1>10 DEF f

\* A request reads a ticket, or fails.
LEMMA ReadSteps ==
  ASSUME IInv, NEW c \in Calls,
         \/ Fails(c)
         \/ \E f \in DOMAIN files, p \in Profiles, status \in Statuses("ticket") :
              TicketReads(c, f, p, status)
  PROVE  IInv' /\ UNCHANGED files
<1>1. UNCHANGED <<files, events, clock, done, raced, inboxvars>>
  BY DEF Fails, TicketReads
<1>2. InboxInv' /\ inbox \subseteq inbox'
  BY <1>1 DEF IInv, InboxInv, inboxvars
<1>3. CASE Fails(c)
  <2>1. doing' = [doing EXCEPT ![c] = Idle]
    BY <1>3 DEF Fails
  <2>2. doing'[c] = Idle /\ doing' \in [Calls -> Requests]
        /\ \A e \in Calls : e # c => doing'[e] = doing[e]
    BY <2>1, IdleIsOne DEF IInv, TypeOK
  <2>3. CallOK(c)'
    <3>1. Left(c)' = {}
      BY <2>2, IdleIsOne DEF Left
    <3> QED
      BY <2>2, <3>1, IdleIsOne DEF CallOK
  <2>4. TypeOK'
    BY <1>1, <2>2 DEF IInv, TypeOK, inboxvars
  <2> QED
    BY <1>1, <1>2, <2>2, <2>3, <2>4, IdleIsOne, InboxStep
<1>4. ASSUME NEW f \in DOMAIN files, NEW p \in Profiles, NEW status \in Statuses("ticket"),
             TicketReads(c, f, p, status)
      PROVE  IInv'
  <2> DEFINE note == Note(files[f].of, <<f, status>>)
             notes == IF p = files[f].of THEN <<>> ELSE <<{note}>>
             d == [Idle EXCEPT !.at = "ticket", !.file = f, !.status = status,
                               !.times = files[f].times, !.notes = notes]
  <2>1. files[f].kind = "ticket" /\ doing' = [doing EXCEPT ![c] = d]
    BY <1>4 DEF TicketReads
  <2>2. files[f] \in Rows /\ f \in Nat /\ status \in AllStatuses
    BY LenProperties DEF IInv, TypeOK, Statuses, AllStatuses
  <2>3. note \in Notes /\ note.about = <<f, status>>
    BY <2>2 DEF Note, Notes, Abouts, Rows
  <2> HIDE DEF note
  <2>4. notes \in Seq(SUBSET Notes)
        /\ \A i \in DOMAIN notes : \A n \in notes[i] : n.about = <<f, status>>
    <3>1. CASE p = files[f].of
      BY <3>1
    <3>2. CASE p # files[f].of
      BY <2>3, <3>2
    <3> QED
      BY <3>1, <3>2
  <2> HIDE DEF notes
  <2>5. /\ d \in Requests /\ d.at = "ticket" /\ d.file = f /\ d.status = status
        /\ d.notes = notes /\ d.sends = {}
    BY <2>2, <2>4, IdleIsOne DEF Requests, Rows
  <2> HIDE DEF d
  <2>6. doing'[c] = d /\ doing' \in [Calls -> Requests]
        /\ \A e \in Calls : e # c => doing'[e] = doing[e]
    BY <2>1, <2>5 DEF IInv, TypeOK
  <2>7. \A n \in Left(c)' : n.about = <<f, status>>
    BY <2>4, <2>5, <2>6 DEF Left
  <2>8. CallOK(c)'
    BY <1>1, <2>1, <2>5, <2>6, <2>7 DEF CallOK
  <2>9. TypeOK'
    BY <1>1, <2>6 DEF IInv, TypeOK, inboxvars
  <2> QED
    BY <1>1, <1>2, <2>5, <2>6, <2>8, <2>9, InboxStep
<1> QED
  BY <1>1, <1>3, <1>4
-----------------------------------------------------------------------------
LEMMA InitInv == Init => IInv
<1> SUFFICES ASSUME Init PROVE IInv
  OBVIOUS
<1>1. /\ files = <<>> /\ events = <<>> /\ inbox = {} /\ clock = 0 /\ done = {} /\ raced = {}
      /\ doing = [c \in Calls |-> Idle]
  BY DEF Init, InboxInit
<1>2. files \in Seq(Rows) /\ events \in Seq(Events) /\ DOMAIN files = {} /\ DOMAIN events = {}
  BY <1>1
<1>3. devices \in [Tokens -> [of : Profiles, active : BOOLEAN]]
  <2> DEFINE registered == {[of |-> p, active |-> TRUE] : p \in Profiles}
  <2>1. ASSUME NEW p \in Profiles PROVE [of |-> p, active |-> TRUE] \in [of : Profiles, active : BOOLEAN]
    BY Zenon
  <2>2. \A row \in registered : row \in [of : Profiles, active : BOOLEAN]
    BY <2>1
  <2>3. devices \in [Tokens -> registered]
    BY DEF Init, InboxInit
  <2> HIDE DEF registered
  <2> QED
    BY <2>2, <2>3
<1>4. TypeOK
  BY <1>1, <1>2, <1>3, IdleIsOne DEF Init, InboxInit, TypeOK
<1>5. \A c \in Calls : Left(c) = {}
  BY <1>1, IdleIsOne DEF Left
<1>6. CallInv
  BY <1>1, <1>5, IdleIsOne DEF CallInv, CallOK
<1>7. RaceInv
  BY <1>1, IdleIsOne DEF RaceInv
<1> QED
  BY <1>1, <1>2, <1>4, <1>6, <1>7 DEF IInv, EventInv, ClockInv, InboxInv, DecisionIsRecorded

\* What a step does is one of these.
LEMMA StepKinds ==
  ASSUME IInv, [Next]_deskvars
  PROVE  \/ UNCHANGED deskvars
         \/ \E c \in Calls, p \in Profiles \cup {Nobody},
               kind \in {"dispute", "ticket", "invoice", "flag"} : Open(c, kind, p)
         \/ \E c \in Calls, f \in DOMAIN files, p \in Profiles, kind \in {"dispute", "ticket"} :
              Comment(c, f, p, kind)
         \/ \E c \in Calls, f \in DOMAIN files, w \in Words :
              \E status \in Statuses(files[f].kind) : ResolveStarts(c, f, w, status)
         \/ \E c \in Calls : ResolveWrites(c)
         \/ \E c \in Calls, f \in DOMAIN files :
              \E status \in Statuses(files[f].kind) : SetInvoice(c, f, status) \/ SetFlag(c, f, status)
         \/ \E c \in Calls : TicketWrites(c)
         \/ \E c \in Calls :
              \/ Fails(c)
              \/ \E f \in DOMAIN files, p \in Profiles, status \in Statuses("ticket") :
                   TicketReads(c, f, p, status)
         \/ UNCHANGED <<files, events, clock, done, raced>> /\ \E c \in Calls : Notifying(c)
         \/ /\ UNCHANGED <<files, events, clock, done, raced>>
            /\ \/ \E p \in Profiles : SetWants(p) \/ \E t \in Tokens : Register(p, t)
               \/ \E t \in Tokens : Uninstall(t)
<1>1. CASE DeskNext
  <2>1. PICK c \in Calls :
          \/ OpenDispute(c) \/ OpenTicket(c) \/ OpenInvoice(c) \/ RaiseFlag(c)
          \/ ResolveWrites(c) \/ TicketWrites(c) \/ Fails(c)
          \/ \E f \in DOMAIN files :
               \/ Administer(c, f)
               \/ \E p \in Profiles :
                    \/ AddDisputeComment(c, f, p) \/ ReplySupportTicket(c, f, p)
                    \/ \E status \in Statuses("ticket") : TicketReads(c, f, p, status)
    BY <1>1 DEF DeskNext
  <2>2. CASE OpenDispute(c) \/ OpenTicket(c) \/ OpenInvoice(c) \/ RaiseFlag(c)
    BY <2>2 DEF OpenDispute, OpenTicket, OpenInvoice, RaiseFlag
  <2>3. ASSUME NEW f \in DOMAIN files, Administer(c, f)
        PROVE  \/ \E w \in Words, status \in Statuses(files[f].kind) :
                    ResolveStarts(c, f, w, status)
               \/ \E status \in Statuses(files[f].kind) :
                    SetInvoice(c, f, status) \/ SetFlag(c, f, status)
    BY <2>3 DEF Administer
  <2>4. ASSUME NEW f \in DOMAIN files, NEW p \in Profiles,
               AddDisputeComment(c, f, p) \/ ReplySupportTicket(c, f, p)
        PROVE  \E kind \in {"dispute", "ticket"} : Comment(c, f, p, kind)
    BY <2>4 DEF AddDisputeComment, ReplySupportTicket
  <2> QED
    BY <2>1, <2>2, <2>3, <2>4
<1>2. CASE InboxNext /\ UNCHANGED <<files, events, clock, done, raced>>
  BY <1>2 DEF InboxNext
<1> QED
  BY <1>1, <1>2 DEF Next

LEMMA NextInv == IInv /\ [Next]_deskvars => IInv'
<1> SUFFICES ASSUME IInv, [Next]_deskvars PROVE IInv'
  OBVIOUS
<1>1. CASE UNCHANGED deskvars
  <2>1. UNCHANGED <<files, events, clock, done, raced, inboxvars, doing>>
    BY <1>1 DEF deskvars
  <2>2. TypeOK' /\ InboxInv' /\ inbox \subseteq inbox'
    BY <2>1 DEF inboxvars, IInv, TypeOK, InboxInv
  <2> QED
    BY <2>1, <2>2, InboxStep
<1>2. CASE \E c \in Calls : \/ Fails(c)
                           \/ \E f \in DOMAIN files, p \in Profiles, status \in Statuses("ticket") :
                                TicketReads(c, f, p, status)
  BY <1>2, ReadSteps
<1> QED
  BY <1>1, <1>2, StepKinds, OpenStep, CommentStep, ResolveStartStep, ResolveWriteStep,
     SetSteps, TicketWriteStep, NotifyingSteps, MoveSteps

\* A dispute is decided exactly when its events say so, and as one of them says, the newest
\* unless two decisions were under way at once; people are told only what was committed and
\* find it in their inbox (resolveDispute; notifications.service.ts).
THEOREM Safety == Spec => [](TypeOK /\ DecisionIsRecorded /\ ToldIsRecorded)
<1>1. IInv => TypeOK /\ DecisionIsRecorded /\ ToldIsRecorded
  BY DEF IInv, InboxInv, CallInv, CallOK, ToldIsRecorded
<1> QED
  BY InitInv, NextInv, <1>1, PTL DEF Spec
-----------------------------------------------------------------------------
(* What a step may not do.                                                 *)

\* Only a support ticket's own update touches the times of a ticket.
LEMMA TimesStep ==
  ASSUME IInv, [Next]_deskvars, NEW f \in DOMAIN files, files[f].kind = "ticket",
         \A c \in Calls : doing[c].at = "ticket" /\ doing[c].file = f
                            => files[f].times \subseteq doing[c].times
  PROVE  files[f].times \subseteq files'[f].times
<1>1. CASE \E c \in Calls, p \in Profiles \cup {Nobody},
              kind \in {"dispute", "ticket", "invoice", "flag"} : Open(c, kind, p)
  <2>1. PICK row : files' = Append(files, row)
    BY <1>1 DEF Open
  <2>2. files \in Seq(Rows)
    BY DEF IInv, TypeOK
  <2>3. files'[f] = files[f]
    BY <2>1, <2>2
  <2> QED
    BY <2>3
<1>2. CASE \E c \in Calls : ResolveWrites(c)
  <2>1. PICK c \in Calls : ResolveWrites(c)
    BY <1>2
  <2>2. doing[c].file \in DOMAIN files /\ files[doing[c].file].kind = "dispute"
    BY <2>1 DEF ResolveWrites, IInv, CallInv, CallOK
  <2>3. \A h \in DOMAIN files : h # doing[c].file => files'[h] = files[h]
    BY <2>1, <2>2 DEF ResolveWrites
  <2> QED
    BY <2>2, <2>3
<1>3. CASE \E c \in Calls, g \in DOMAIN files : \E status \in Statuses(files[g].kind) :
             SetInvoice(c, g, status) \/ SetFlag(c, g, status)
  <2>1. PICK g \in DOMAIN files : /\ files[g].kind # "ticket"
                                 /\ \A h \in DOMAIN files : h # g => files'[h] = files[h]
    BY <1>3 DEF SetInvoice, SetFlag
  <2> QED
    BY <2>1
<1>4. CASE \E c \in Calls : TicketWrites(c)
  <2>1. PICK c \in Calls : TicketWrites(c)
    BY <1>4
  <2>2. /\ doing[c].at = "ticket"
        /\ files'[doing[c].file].times = Stamped(doing[c].status, doing[c].times)
        /\ \A g \in DOMAIN files : g # doing[c].file => files'[g] = files[g]
    BY <2>1, TicketWriteStep
  <2>3. CASE f = doing[c].file
    BY <2>2, <2>3 DEF Stamped
  <2>4. CASE f # doing[c].file
    BY <2>2, <2>4
  <2> QED
    BY <2>3, <2>4
<1>5. CASE UNCHANGED files
  BY <1>5
<1> QED
  <2>1. ASSUME NEW c \in Calls, NEW g \in DOMAIN files, NEW p \in Profiles,
               NEW kind \in {"dispute", "ticket"}, Comment(c, g, p, kind)
        PROVE  UNCHANGED files
    BY <2>1 DEF Comment
  <2>2. ASSUME NEW c \in Calls,
               \/ Fails(c)
               \/ \E g \in DOMAIN files, p \in Profiles, status \in Statuses("ticket") :
                    TicketReads(c, g, p, status)
        PROVE  UNCHANGED files
    BY <2>2, ReadSteps
  <2>3. UNCHANGED deskvars => UNCHANGED files
    BY DEF deskvars
  <2>4. ASSUME NEW c \in Calls, NEW g, NEW w, NEW status, ResolveStarts(c, g, w, status)
        PROVE  UNCHANGED files
    BY <2>4 DEF ResolveStarts
  <2> QED
    BY <1>1, <1>2, <1>3, <1>4, <1>5, <2>1, <2>2, <2>3, <2>4, StepKinds

\* A ticket keeps the times it was resolved and closed at, but for an update that read
\* the ticket before they were set (updateSupportTicketStatus).
THEOREM Stays == Spec => TimesAreKept
<1>1. IInv /\ [Next]_deskvars
      => \A f \in DOMAIN files :
           /\ files[f].kind = "ticket"
           /\ \A c \in Calls : doing[c].at = "ticket" /\ doing[c].file = f
                                 => files[f].times \subseteq doing[c].times
           => files[f].times \subseteq files'[f].times
  BY TimesStep
<1> QED
  BY InitInv, NextInv, <1>1, PTL DEF Spec, TimesAreKept

\* A request that goes on to its next notifications has sent what it had in hand.
LEMMA TellSendsNothing ==
  ASSUME TypeOK, NEW c \in Calls, NEW batches, Tell(c, batches)
  PROVE  doing'[c].sends = {} /\ \A d \in Calls : d # c => doing'[d] = doing[d]
<1> DEFINE next == Telling(batches)
<1>1. next.sends = {}
  <2> DEFINE due == {i \in DOMAIN batches : batches[i] # {}}
             rest == SubSeq(batches, CHOOSE i \in due : \A j \in due : i <= j, Len(batches))
             d == [Idle EXCEPT !.at = "store", !.notes = rest]
  <2>1. next = IF due = {} THEN Idle ELSE d
    BY DEF Telling
  <2> HIDE DEF rest
  <2>2. d.sends = {}
    BY DEF Idle
  <2> HIDE DEF d, due, next
  <2> QED
    BY <2>1, <2>2, IdleIsOne
<1>2. doing' = [doing EXCEPT ![c] = next]
  BY DEF Tell
<1> HIDE DEF next
<1> QED
  BY <1>1, <1>2 DEF TypeOK

\* What a request has in hand to send, it had before, or it has just looked up.
LEMMA SendsStep ==
  ASSUME IInv, [Next]_deskvars, NEW e \in Calls, NEW m \in doing'[e].sends
  PROVE  m \in doing[e].sends \/ Reaches(m.token, m.to)
<1>1. ASSUME NEW c \in Calls, NEW batches, Tell(c, batches)
      PROVE  m \in doing[e].sends
  BY <1>1, TellSendsNothing DEF IInv
<1>2. CASE \E c \in Calls, p \in Profiles \cup {Nobody},
              kind \in {"dispute", "ticket", "invoice", "flag"} : Open(c, kind, p)
  <2>1. PICK c \in Calls : \E batches : Tell(c, batches)
    <3>1. PICK c \in Calls, p \in Profiles \cup {Nobody},
               kind \in {"dispute", "ticket", "invoice", "flag"} : Open(c, kind, p)
      BY <1>2
    <3>2. \E f, batches : Commit(c, f, "opened", batches)
      BY <3>1 DEF Open
    <3> QED
      BY <3>2 DEF Commit
  <2> QED
    BY <1>1, <2>1
<1>3. ASSUME NEW c \in Calls, NEW f \in DOMAIN files,
             \/ \E p \in Profiles, kind \in {"dispute", "ticket"} : Comment(c, f, p, kind)
             \/ \E status \in Statuses(files[f].kind) :
                  SetInvoice(c, f, status) \/ SetFlag(c, f, status)
      PROVE  m \in doing[e].sends
  <2>1. \E what, batches : Commit(c, f, what, batches)
    BY <1>3 DEF Comment, SetInvoice, SetFlag
  <2> QED
    BY <1>1, <2>1 DEF Commit
<1>4. ASSUME NEW c \in Calls, TicketWrites(c) \/ ResolveWrites(c) PROVE m \in doing[e].sends
  BY <1>1, <1>4 DEF TicketWrites, ResolveWrites
<1>5. ASSUME NEW c \in Calls, NEW d, d.sends = {}, doing' = [doing EXCEPT ![c] = d]
      PROVE  m \in doing[e].sends
  BY <1>5 DEF IInv, TypeOK
<1>6. ASSUME NEW c \in Calls, Fails(c) PROVE m \in doing[e].sends
  BY <1>5, <1>6, IdleIsOne DEF Fails
<1>7. ASSUME NEW c \in Calls, NEW f \in DOMAIN files, NEW p \in Profiles,
             NEW status \in Statuses("ticket"), TicketReads(c, f, p, status)
      PROVE  m \in doing[e].sends
  <2> DEFINE notes == IF p = files[f].of THEN <<>> ELSE <<{Note(files[f].of, <<f, status>>)}>>
             d == [Idle EXCEPT !.at = "ticket", !.file = f, !.status = status,
                               !.times = files[f].times, !.notes = notes]
  <2>1. doing' = [doing EXCEPT ![c] = d]
    BY <1>7 DEF TicketReads
  <2> HIDE DEF notes
  <2>2. d.sends = {}
    BY DEF Idle
  <2> HIDE DEF d
  <2> QED
    BY <1>5, <2>1, <2>2
<1>8. ASSUME NEW c \in Calls, NEW f, NEW w, NEW status, ResolveStarts(c, f, w, status)
      PROVE  m \in doing[e].sends
  <2> DEFINE d == [Idle EXCEPT !.at = "resolve", !.file = f, !.status = status, !.says = w,
                               !.stamp = clock']
  <2>1. doing' = [doing EXCEPT ![c] = d]
    BY <1>8 DEF ResolveStarts
  <2>2. d.sends = {}
    BY DEF Idle
  <2> HIDE DEF d
  <2> QED
    BY <1>5, <2>1, <2>2
<1>9. ASSUME NEW c \in Calls, Notifying(c)
      PROVE  m \in doing[e].sends \/ Reaches(m.token, m.to)
  <2>1. CASE NextBatch(c)
    BY <1>1, <2>1 DEF NextBatch
  <2>2. CASE Store(c)
    BY <2>2 DEF Store, IInv, TypeOK, Requests
  <2>3. CASE FindDevices(c) /\ ~NextBatch(c)
    <3> DEFINE head == Head(doing[c].notes)
               sends == Messages(head)
               d == [doing[c] EXCEPT !.at = "send", !.sends = sends]
    <3>1. doing' = [doing EXCEPT ![c] = d]
      BY <2>3 DEF FindDevices
    <3>2. doing[c] \in Requests /\ (doing[c].at = "find" => head \subseteq Notes)
      <4>1. doing[c].at = "find" => doing[c].notes # <<>>
        BY DEF IInv, CallInv, CallOK
      <4> QED
        BY <4>1, HeadIsLeft DEF IInv, TypeOK
    <3>3. doing[c].at = "find"
      BY <2>3 DEF FindDevices
    <3>4. \A n \in sends : Reaches(n.token, n.to)
      <4>1. ASSUME NEW n \in sends PROVE Reaches(n.token, n.to)
        <5>1. PICK t \in Tokens, note \in head : n = Message(t, note) /\ Reaches(t, note.to)
          BY DEF Messages
        <5>2. n.token = t /\ n.to = note.to
          BY <5>1 DEF Message
        <5> QED
          BY <5>1, <5>2
      <4> QED
        BY <4>1
    <3> HIDE DEF sends
    <3>5. d.sends = sends
      BY <3>2 DEF Requests
    <3> HIDE DEF d
    <3>6. doing'[c] = d /\ (e # c => doing'[e] = doing[e])
      BY <3>1 DEF IInv, TypeOK
    <3> QED
      BY <3>4, <3>5, <3>6
  <2>4. CASE Send(c) /\ ~NextBatch(c)
    <3> DEFINE dead == {n.token : n \in doing[c].sends} \ known
               d == [doing[c] EXCEPT !.at = "drop", !.sends = {}, !.dead = dead]
    <3>1. doing' = [doing EXCEPT ![c] = d]
      BY <2>4 DEF Send
    <3> HIDE DEF dead
    <3>2. d.sends = {}
      BY DEF IInv, TypeOK, Requests
    <3> HIDE DEF d
    <3> QED
      BY <1>5, <3>1, <3>2
  <2>5. CASE Drop(c) \/ Swallow(c)
    BY <2>1, <2>5 DEF Drop, Swallow
  <2> QED
    BY <1>9, <2>1, <2>2, <2>3, <2>4, <2>5 DEF Notifying
<1>10. CASE UNCHANGED doing
  BY <1>10
<1> QED
  <2>1. UNCHANGED deskvars => UNCHANGED doing
    BY DEF deskvars
  <2>2. ((\E p \in Profiles : SetWants(p) \/ \E t \in Tokens : Register(p, t))
           \/ \E t \in Tokens : Uninstall(t)) => UNCHANGED doing
    BY DEF SetWants, Register, Uninstall
  <2> QED
    BY <1>2, <1>3, <1>4, <1>6, <1>7, <1>8, <1>9, <1>10, <2>1, <2>2, StepKinds

\* Whoever has turned notifications off, or has handed the device on, is not pushed to
\* once the requests that had looked devices up before are through
\* (dispatchPushNotifications).
THEOREM OptOut == Spec => OptOutHolds
<1>1. IInv /\ [Next]_deskvars
      => \A t \in Tokens, p \in Profiles :
           ~Reaches(t, p) /\ ~InHand(t, p) => ~InHand(t, p)'
  BY SendsStep DEF InHand
<1> QED
  BY InitInv, NextInv, <1>1, PTL DEF Spec, OptOutHolds

-----------------------------------------------------------------------------
(* What is shown of shipments: the rows. *)

\* The columns of a shipment at moment t.
RowsAt(t) ==
  [status : ShipmentStatus, type : {"instant", "scheduled"}, due : Dues,
   created : 0 .. t, updated : 0 .. t, party : {"none", "offered", "assigned"}]

\* ViewsTypeOK speaks of the rows there are; a step needs to know of the others that they are
\* no rows.
ViewsInv ==
  /\ now \in 0 .. Horizon
  /\ ships \in [Shipments -> RowsAt(now) \cup {NoRow}]
  /\ \A s \in Shipments : Exists(s) => ships[s].created <= ships[s].updated

\* A row has a status that no shipment has before it exists.
LEMMA RowsExist == \A t : \A row \in RowsAt(t) : row # NoRow
BY DEF RowsAt, NoRow, ShipmentStatus, Active, Waiting, History, Completed, Cancelled

LEMMA ViewsTyping == ViewsInv => ViewsTypeOK
BY DEF ViewsInv, ViewsTypeOK, CustomersOwn, Exists, RowsAt

LEMMA InitViews == ViewsInit => ViewsInv
BY ViewsAssumption DEF ViewsInit, ViewsInv, Exists

\* One row is written.
LEMMA RowStep ==
  ASSUME ViewsInv, NEW s \in Shipments, NEW row \in RowsAt(now), row.created <= row.updated,
         ships' = [ships EXCEPT ![s] = row], UNCHANGED now
  PROVE  ViewsInv'
<1>1. ships' \in [Shipments -> RowsAt(now) \cup {NoRow}]
  BY DEF ViewsInv
<1>2. ships'[s] = row /\ \A t \in Shipments : t # s => ships'[t] = ships[t]
  BY DEF ViewsInv
<1>3. \A t \in Shipments : Exists(t)' => ships'[t].created <= ships'[t].updated
  BY <1>2 DEF ViewsInv, Exists
<1>4. RowsAt(now)' = RowsAt(now)
  BY DEF RowsAt
<1> QED
  BY <1>1, <1>3, <1>4 DEF ViewsInv

\* The columns of a row that exists.
LEMMA RowTyping ==
  ASSUME ViewsInv, NEW s \in Shipments, Exists(s)
  PROVE  /\ ships[s] \in RowsAt(now)
         /\ ships[s].status \in ShipmentStatus /\ ships[s].type \in {"instant", "scheduled"}
         /\ ships[s].due \in Dues /\ ships[s].party \in {"none", "offered", "assigned"}
         /\ ships[s].created \in 0 .. now /\ ships[s].updated \in 0 .. now
         /\ ships[s].created <= ships[s].updated
         /\ now \in Nat
<1>1. ships[s] \in RowsAt(now) /\ ships[s].created <= ships[s].updated /\ now \in Nat
  BY ViewsAssumption DEF ViewsInv, Exists
<1> QED
  BY <1>1 DEF RowsAt

\* The row of a shipment that exists gets a status, a schedule and a party, and with
\* them the moment or not.
LEMMA ChangeStep ==
  ASSUME ViewsInv, NEW s \in Shipments, Exists(s), UNCHANGED now,
         NEW status \in ShipmentStatus, NEW type \in {"instant", "scheduled"}, NEW due \in Dues,
         NEW party \in {"none", "offered", "assigned"}, NEW updated \in {now, ships[s].updated},
         NEW row,
         row = [ships[s] EXCEPT !.status = status, !.type = type, !.due = due,
                                !.party = party, !.updated = updated],
         ships' = [ships EXCEPT ![s] = row]
  PROVE  ViewsInv'
<1>1. /\ updated \in 0 .. now /\ ships[s].created <= updated
      /\ ships[s] \in RowsAt(now)
  BY RowTyping
<1>2. row \in RowsAt(now) /\ row.created = ships[s].created /\ row.updated = updated
  BY <1>1 DEF RowsAt
<1> QED
  BY <1>1, <1>2, RowStep

LEMMA TickStep == ViewsInv /\ Tick => ViewsInv'
<1> SUFFICES ASSUME ViewsInv, Tick PROVE ViewsInv'
  OBVIOUS
<1>1. now' \in 0 .. Horizon /\ 0 .. now \subseteq 0 .. now' /\ ships' = ships
  BY ViewsAssumption DEF ViewsInv, Tick
<1>2. RowsAt(now) \subseteq RowsAt(now')
  BY <1>1 DEF RowsAt
<1>3. RowsAt(now)' = RowsAt(now')
  BY DEF RowsAt
<1> QED
  BY <1>1, <1>2, <1>3 DEF ViewsInv, Exists

LEMMA CreateStep ==
  ASSUME ViewsInv, NEW s \in Shipments, NEW type \in {"instant", "scheduled"}, NEW due \in Dues,
         Create(s, type, due)
  PROVE  ViewsInv'
<1> DEFINE row == [status |-> "created", type |-> type, due |-> due,
                   created |-> now, updated |-> now, party |-> "none"]
<1>1. now \in 0 .. now /\ now <= now
  BY ViewsAssumption DEF ViewsInv
<1>2. row \in RowsAt(now) /\ row.created <= row.updated
  BY <1>1 DEF RowsAt, ShipmentStatus, Active, Waiting
<1>3. ships' = [ships EXCEPT ![s] = row] /\ UNCHANGED now
  BY DEF Create
<1> HIDE DEF row
<1> QED
  BY <1>2, <1>3, RowStep

LEMMA OfferStep ==
  ASSUME ViewsInv, NEW s \in Shipments, Offer(s)
  PROVE  ViewsInv'
<1>1. Exists(s) /\ UNCHANGED now
  BY DEF Offer
<1>2. PICK sent \in BOOLEAN :
        ships' = [ships EXCEPT ![s].party = "offered",
                    ![s].status = IF sent THEN "broadcasting" ELSE @,
                    ![s].updated = IF sent THEN now ELSE @]
  BY DEF Offer
<1> DEFINE row == [ships[s] EXCEPT !.status = IF sent THEN "broadcasting" ELSE ships[s].status,
                     !.type = ships[s].type, !.due = ships[s].due, !.party = "offered",
                     !.updated = IF sent THEN now ELSE ships[s].updated]
<1>3. ships' = [ships EXCEPT ![s] = row]
  BY <1>1, <1>2, RowTyping DEF ViewsInv, RowsAt
<1>4. (IF sent THEN "broadcasting" ELSE ships[s].status) \in ShipmentStatus
  BY <1>1, RowTyping DEF ShipmentStatus, Active, Waiting
<1> QED
  BY <1>1, <1>3, <1>4, RowTyping, ChangeStep

LEMMA UpdateStep ==
  ASSUME ViewsInv, NEW s \in Shipments, NEW status \in ShipmentStatus,
         NEW type \in {"instant", "scheduled"}, NEW due \in Dues,
         Update(s, status, type, due)
  PROVE  ViewsInv'
<1>1. Exists(s) /\ UNCHANGED now
  BY DEF Update
<1> DEFINE row == [ships[s] EXCEPT !.status = status, !.type = type, !.due = due,
                     !.party = ships[s].party, !.updated = now]
<1>2. ships' = [ships EXCEPT ![s] = row]
  BY <1>1, RowTyping DEF ViewsInv, RowsAt, Update
<1> QED
  BY <1>1, <1>2, RowTyping, ChangeStep

\* The writes that leave the schedule alone.
LEMMA StatusWrite ==
  ASSUME ViewsInv, NEW s \in Shipments, Exists(s), UNCHANGED now, NEW status \in ShipmentStatus,
         NEW party \in {"none", "offered", "assigned"},
         ships' = [ships EXCEPT ![s].party = party, ![s].status = status, ![s].updated = now]
  PROVE  ViewsInv'
<1> DEFINE row == [ships[s] EXCEPT !.party = party, !.status = status, !.updated = now]
<1>1. ships' = [ships EXCEPT ![s] = row]
  BY DEF ViewsInv
<1>2. ships[s] \in RowsAt(now) /\ now \in 0 .. now /\ ships[s].created <= now
  BY RowTyping
<1>3. row \in RowsAt(now) /\ row.created <= row.updated
  BY <1>2 DEF RowsAt
<1> HIDE DEF row
<1> QED
  BY <1>1, <1>3, RowStep

LEMMA CancelStep == ASSUME ViewsInv, NEW s \in Shipments, Cancel(s) PROVE ViewsInv'
<1>1. Exists(s) /\ UNCHANGED now /\ "cancelled" \in ShipmentStatus
  BY DEF Cancel, ShipmentStatus, History, Cancelled
<1>2. ships' = [ships EXCEPT ![s].party = ships[s].party, ![s].status = "cancelled",
                             ![s].updated = now]
  BY <1>1, RowTyping DEF ViewsInv, RowsAt, Cancel
<1> QED
  BY <1>1, <1>2, RowTyping, StatusWrite

LEMMA AssignStep == ASSUME ViewsInv, NEW s \in Shipments, Assign(s) PROVE ViewsInv'
<1>1. Exists(s) /\ UNCHANGED now /\ "assigned" \in ShipmentStatus
  BY DEF Assign, ShipmentStatus, Active
<1>2. ships' = [ships EXCEPT ![s].party = "assigned", ![s].status = "assigned",
                             ![s].updated = now]
  BY DEF Assign
<1> QED
  BY <1>1, <1>2, StatusWrite

LEMMA ProgressStep ==
  ASSUME ViewsInv, NEW s \in Shipments,
         NEW status \in {"en_route_pickup", "picked_up", "completed"}, Progress(s, status)
  PROVE  ViewsInv'
<1>1. Exists(s) /\ UNCHANGED now
  BY DEF Progress
<1>2. status \in ShipmentStatus
  BY DEF ShipmentStatus, Active, History, Completed
<1>3. ships' = [ships EXCEPT ![s].party = ships[s].party, ![s].status = status,
                             ![s].updated = now]
  BY <1>1, RowTyping DEF ViewsInv, RowsAt, Progress
<1> QED
  BY <1>1, <1>2, <1>3, RowTyping, StatusWrite

LEMMA NextViews == ViewsInv /\ [ViewsNext]_vars => ViewsInv'
<1> SUFFICES ASSUME ViewsInv, [ViewsNext]_vars PROVE ViewsInv'
  OBVIOUS
<1>1. CASE Tick
  BY <1>1, TickStep
<1>2. ASSUME NEW s \in Shipments, Offer(s) \/ Assign(s) \/ Cancel(s) PROVE ViewsInv'
  BY <1>2, OfferStep, AssignStep, CancelStep
<1>3. ASSUME NEW s \in Shipments, NEW status \in {"en_route_pickup", "picked_up", "completed"},
             Progress(s, status)
      PROVE  ViewsInv'
  BY <1>3, ProgressStep
<1>4. ASSUME NEW s \in Shipments, NEW type \in {"instant", "scheduled"}, NEW due \in Dues,
             Create(s, type, due)
      PROVE  ViewsInv'
  BY <1>4, CreateStep
<1>5. ASSUME NEW s \in Shipments, NEW type \in {"instant", "scheduled"}, NEW due \in Dues,
             NEW status \in ShipmentStatus, Update(s, status, type, due)
      PROVE  ViewsInv'
  BY <1>5, UpdateStep
<1>6. CASE UNCHANGED vars
  <2>1. RowsAt(now)' = RowsAt(now) /\ ships' = ships /\ now' = now
    BY <1>6 DEF RowsAt, vars
  <2> QED
    BY <2>1 DEF ViewsInv, Exists
<1> QED
  BY <1>1, <1>2, <1>3, <1>4, <1>5, <1>6 DEF ViewsNext

-----------------------------------------------------------------------------
(* What the lists show of one row. *)

\* The three lists of a customer: every status is on the list of its time or in the history.
LEMMA OnTheLists ==
  ASSUME ViewsInv, NEW s \in CustomersOwn
  PROVE  /\ Listed(s, "individual", "history") <=> ships[s].status \in History
         /\ Listed(s, "individual", "scheduled") <=> IsScheduled(s)
         /\ Listed(s, "individual", "active") <=> ships[s].status \in Active /\ HasCome(s)
BY DEF Listed, ConcernsViewer, Matches, CustomersOwn

LEMMA StatusesSplit == ShipmentStatus = Active \cup History /\ Active \cap History = {}
BY DEF ShipmentStatus, Active, Waiting, History, Completed, Cancelled

\* A due date, where there is one, can be compared with the moment.
LEMMA DueTyping == ASSUME ViewsInv, NEW s \in CustomersOwn, ships[s].due # Unset
                   PROVE  ships[s].due \in Nat /\ now \in Nat
<1>1. s \in Shipments /\ Exists(s)
  BY DEF CustomersOwn
<1> QED
  BY <1>1, RowTyping, ViewsAssumption

LEMMA OffTheLists ==
  ASSUME ViewsInv, NEW s \in CustomersOwn
  PROVE  /\ ~(\E filter \in Filters : Listed(s, "individual", filter)) <=> EarlyOnItsWay(s)
         /\ Listed(s, "individual", "history")
              => ~Listed(s, "individual", "active") /\ ~Listed(s, "individual", "scheduled")
         /\ Listed(s, "individual", "active") /\ Listed(s, "individual", "scheduled")
              => ships[s].due = now
<1>1. s \in Shipments /\ Exists(s)
  BY DEF CustomersOwn
<1>2. ships[s].status \in ShipmentStatus /\ ships[s].type \in {"instant", "scheduled"}
  BY <1>1, RowTyping
<1>3. ships[s].due # Unset => ships[s].due \in Nat /\ now \in Nat
  BY DueTyping
<1>4. Waiting \cup {"assigned"} \subseteq Active
  BY DEF Active
<1>5. (\E filter \in Filters : Listed(s, "individual", filter))
        <=> \/ Listed(s, "individual", "history") \/ Listed(s, "individual", "scheduled")
            \/ Listed(s, "individual", "active")
  BY DEF Filters
<1>6. ships[s].status \in Active \/ ships[s].status \in History
  BY <1>2, StatusesSplit
<1>7. ~(ships[s].status \in Active /\ ships[s].status \in History)
  BY StatusesSplit
<1> QED
  BY <1>2, <1>3, <1>4, <1>5, <1>6, <1>7, OnTheLists
     DEF EarlyOnItsWay, IsLater, IsScheduled, HasCome

\* Whoever's shipments: each is either active or in the history.
LEMMA CountsAdd ==
  ASSUME ViewsInv, NEW own \in SUBSET CustomersOwn
  PROVE  Cardinality(With(own, Active)) + Cardinality(With(own, History)) = Cardinality(own)
<1>1. \A s \in own : ships[s].status \in ShipmentStatus
  BY RowTyping DEF CustomersOwn
<1>2. /\ With(own, Active) \cup With(own, History) = own
      /\ With(own, Active) \cap With(own, History) = {}
  BY <1>1, StatusesSplit DEF With
<1>3. CustomersOwn \subseteq Shipments /\ IsFiniteSet(Shipments)
  BY ViewsAssumption DEF CustomersOwn
<1>4. IsFiniteSet(With(own, Active)) /\ IsFiniteSet(With(own, History))
  <2>1. With(own, Active) \subseteq Shipments /\ With(own, History) \subseteq Shipments
    BY <1>3 DEF With
  <2> QED
    BY <2>1, <1>3, FS_Subset
<1>5. /\ Cardinality(With(own, Active)) \in Nat /\ Cardinality(With(own, History)) \in Nat
  BY <1>4, FS_CardinalityType
<1>6. Cardinality(own) = Cardinality(With(own, Active)) + Cardinality(With(own, History))
                           - Cardinality({})
  BY <1>2, <1>4, FS_Union
<1> QED
  BY <1>5, <1>6, FS_EmptySet

LEMMA InvCovers == ViewsInv => ListsCover
<1> SUFFICES ASSUME ViewsInv PROVE ListsCover
  OBVIOUS
<1> DEFINE list(filter) == Of(filter, "individual")
           all == list("active") \cup list("scheduled") \cup list("history")
<1>1. \A filter : list(filter) \subseteq CustomersOwn
  BY DEF Of, Listed, CustomersOwn
<1>2. \A filter : \A s \in CustomersOwn : s \in list(filter) <=> Listed(s, "individual", filter)
  BY DEF Of, CustomersOwn
<1>3. CustomersOwn \ all = {s \in CustomersOwn : EarlyOnItsWay(s)}
  <2>1. \A s \in CustomersOwn :
          s \in all <=> \E filter \in Filters : Listed(s, "individual", filter)
    BY <1>2 DEF Filters
  <2> QED
    BY <2>1, OffTheLists
<1>4. list("history") \cap (list("active") \cup list("scheduled")) = {}
  BY <1>1, <1>2, OffTheLists
<1>5. \A s \in list("active") \cap list("scheduled") : ships[s].due = now
  BY <1>1, <1>2, OffTheLists
<1>6. CustomerBoard.active + Cardinality(list("history")) = CustomerBoard.total
  <2>1. list("history") = With(CustomersOwn, History)
    BY <1>1, <1>2, OnTheLists DEF With
  <2>2. /\ CustomerBoard.active = Cardinality(With(CustomersOwn, Active))
        /\ CustomerBoard.total = Cardinality(CustomersOwn)
    BY DEF CustomerBoard, Summary
  <2> QED
    BY <2>1, <2>2, CountsAdd
<1>7. ProviderBoard.summary.active + ProviderBoard.ended = ProviderBoard.summary.total
  <2>1. ProvidersList("history") = With(ProvidersOwn, History)
    BY DEF ProvidersList, Matches, With
  <2>2. /\ ProviderBoard.summary.active = Cardinality(With(ProvidersOwn, Active))
        /\ ProviderBoard.summary.total = Cardinality(ProvidersOwn)
        /\ ProviderBoard.ended = Cardinality(ProvidersList("history"))
    BY DEF ProviderBoard, Summary
  <2>3. ProvidersOwn \subseteq CustomersOwn
    BY DEF ProvidersOwn
  <2> QED
    BY <2>1, <2>2, <2>3, CountsAdd
<1> HIDE DEF list
<1> QED
  BY <1>3, <1>4, <1>5, <1>6, <1>7 DEF ListsCover, list

LEMMA InvLater == ViewsInv => LaterIsNotActive
<1> SUFFICES ASSUME ViewsInv, NEW s \in Shipments, NEW role \in Roles
             PROVE  /\ Listed(s, role, "active") /\ ships[s].type = "scheduled" /\ IsLater(s)
                         => role = "business" /\ s \notin ProviderBoard.active
                    /\ \A filter \in Filters : Listed(s, role, filter) => s \in Opened(role)
  BY DEF LaterIsNotActive
<1>1. ProviderBoard.active = ProvidersList("active")
  BY DEF ProviderBoard
<1>2. ASSUME Exists(s), ships[s].type = "scheduled", IsLater(s)
      PROVE  ~HasCome(s)
  <2>1. ships[s].due \in Nat /\ now \in Nat
    BY <1>2, DueTyping DEF IsLater, CustomersOwn
  <2> QED
    BY <1>2, <2>1 DEF HasCome, IsLater
<1>3. ~HasCome(s) => s \notin ProvidersList("active")
  BY DEF ProvidersList, Matches
<1>4. ~HasCome(s) /\ Listed(s, role, "active") => role = "business"
  BY DEF Listed, Matches
<1>5. \A filter \in Filters : Listed(s, role, filter) => s \in Opened(role)
  BY DEF Listed, Opened, MayOpen
<1>6. Listed(s, role, "active") => Exists(s)
  BY DEF Listed
<1> QED
  BY <1>1, <1>2, <1>3, <1>4, <1>5, <1>6

\* At every moment and whoever writes, the three lists of a customer hold every shipment
\* once, but for the two exceptions ListsCover names, the boards count what the lists show,
\* and what is scheduled for later is not shown as active: buildShipmentWhereFilter,
\* getShipmentsForViewer and the dashboards' queries are complements of each other.
THEOREM ListsSafety == ViewsSpec => [](ViewsTypeOK /\ ListsCover /\ LaterIsNotActive)
<1>1. ViewsSpec => []ViewsInv
  BY InitViews, NextViews, PTL DEF ViewsSpec
<1>2. ViewsInv => ViewsTypeOK /\ ListsCover /\ LaterIsNotActive
  BY ViewsTyping, InvCovers, InvLater
<1> QED
  BY <1>1, <1>2, PTL
-----------------------------------------------------------------------------
(* The beginnings of buckets. *)

LEMMA Division ==
  ASSUME NEW t \in Int, NEW len \in Nat \ {0}
  PROVE  /\ t \div len \in Int /\ t % len \in 0 .. (len - 1)
         /\ t = (len * (t \div len)) + (t % len)
OBVIOUS

LEMMA Multiple ==
  ASSUME NEW q \in Int, NEW len \in Nat \ {0}
  PROVE  (len * q) % len = 0
OBVIOUS

LEMMA MultiplesApart ==
  ASSUME NEW q \in Int, NEW p \in Int, NEW len \in Nat \ {0}, q < p
  PROVE  (len * q) + len <= len * p
OBVIOUS

LEMMA StartIs ==
  ASSUME NEW t \in Int, NEW len \in Nat \ {0}
  PROVE  /\ StartOf(t, len) \in Int /\ StartOf(t, len) % len = 0
         /\ StartOf(t, len) <= t /\ t < StartOf(t, len) + len
<1> DEFINE q == t \div len
           r == t % len
<1>1. q \in Int /\ r \in 0 .. (len - 1) /\ t = (len * q) + r
  BY Division
<1>2. (len * q) % len = 0
  BY <1>1, Multiple
<1>3. StartOf(t, len) = t - r
  BY DEF StartOf
<1> HIDE DEF q, r
<1>4. len * q \in Int
  BY <1>1
<1> QED
  BY <1>1, <1>2, <1>3, <1>4

\* The beginnings are in the order of what they begin.
LEMMA StartsInOrder ==
  ASSUME NEW t \in Int, NEW u \in Int, NEW len \in Nat \ {0}, t <= u
  PROVE  StartOf(t, len) <= StartOf(u, len)
<1> DEFINE q == t \div len
           p == u \div len
<1>1. /\ q \in Int /\ t % len \in 0 .. (len - 1) /\ t = (len * q) + (t % len)
      /\ p \in Int /\ u % len \in 0 .. (len - 1) /\ u = (len * p) + (u % len)
  BY Division
<1>2. /\ StartOf(t, len) = t - (t % len) /\ StartOf(u, len) = u - (u % len)
  BY DEF StartOf
<1>3. t % len \in Int /\ u % len \in Int /\ len * q \in Int /\ len * p \in Int
  BY <1>1
<1>4. p < q => (len * p) + len <= len * q
  BY <1>1, MultiplesApart
<1>5. p = q => len * p = len * q
  OBVIOUS
<1>6. q < p => (len * q) + len <= len * p
  BY <1>1, MultiplesApart
<1> HIDE DEF q, p
<1> QED
  BY <1>1, <1>2, <1>3, <1>4, <1>5, <1>6

-----------------------------------------------------------------------------
(* The administrators' report. *)

\* A filter asks for a range that is not empty and ends by now.
FilterOK(f) ==
  /\ f.from \in Int /\ f.to \in Int /\ f.from <= f.to /\ f.to <= now
  /\ f.bucket \in Nat \ {0}

LEMMA FiltersAreOK == ASSUME ViewsInv, NEW f \in Asked PROVE FilterOK(f)
<1>1. PICK from \in {Unset, 0, Day - 1, Day + 1}, to \in {Unset, Horizon - 2},
           interval \in {Unset, Day, Hour} : f = Normalized(from, to, interval)
  BY DEF Asked
<1> DEFINE end == IF to # Unset /\ to <= now THEN to ELSE now
           begin == IF from # Unset /\ from <= end THEN from ELSE StartOf(end, Day)
<1>2. f.from = begin /\ f.to = end
      /\ f.bucket = IF interval # Unset THEN interval
                    ELSE IF end - begin > 2 * Day THEN Day ELSE Hour
  BY <1>1 DEF Normalized
<1>3. now \in Nat /\ Day \in Nat \ {0} /\ Hour \in Nat \ {0} /\ Horizon \in Nat
  BY ViewsAssumption DEF ViewsInv
<1>4. end \in Int /\ end <= now
  BY <1>3
<1> HIDE DEF end
<1>5. StartOf(end, Day) \in Int /\ StartOf(end, Day) <= end
  BY <1>3, <1>4, StartIs
<1>6. begin \in Int /\ begin <= end
  BY <1>3, <1>4, <1>5
<1>7. f.bucket \in Nat \ {0}
  BY <1>2, <1>3
<1> QED
  BY <1>2, <1>4, <1>6, <1>7 DEF FilterOK

\* A shipment of the report was last updated after the range began.
LEMMA ReportTyping ==
  ASSUME ViewsInv, NEW f, FilterOK(f), NEW s \in InReport(f)
  PROVE  /\ s \in CustomersOwn /\ s \in Shipments /\ ships[s].status \in ShipmentStatus
         /\ ships[s].updated \in Int /\ f.from <= ships[s].updated /\ ships[s].updated <= now
<1>1. s \in Shipments /\ Exists(s) /\ s \in CustomersOwn
  BY DEF InReport, CustomersOwn
<1>2. /\ ships[s].created \in 0 .. now /\ ships[s].updated \in 0 .. now /\ now \in Nat
      /\ ships[s].created <= ships[s].updated /\ ships[s].status \in ShipmentStatus
  BY <1>1, RowTyping
<1>3. f.from <= ships[s].created \/ f.from <= ships[s].updated
  BY DEF InReport, Within
<1> QED
  BY <1>1, <1>2, <1>3 DEF FilterOK

LEMMA ReportIsFinite ==
  ASSUME NEW f, NEW X \in SUBSET InReport(f)
  PROVE  IsFiniteSet(X) /\ Cardinality(X) \in Nat
<1>1. X \in SUBSET Shipments
  BY DEF InReport, CustomersOwn
<1> QED
  BY <1>1, ViewsAssumption, FS_Subset, FS_CardinalityType

\* The buckets hold what was updated by the end of the last of them, each shipment once.
LEMMA SeriesAddsUp ==
  ASSUME ViewsInv, NEW f, FilterOK(f), NEW X \in SUBSET InReport(f)
  PROVE  SumFunction([b \in Buckets(f) |-> Cardinality(InBucket(b, f) \cap X)])
           = Cardinality({s \in X : StartOf(ships[s].updated, f.bucket) <= f.to})
<1> DEFINE A == [b \in Buckets(f) |-> InBucket(b, f) \cap X]
           g == [b \in Buckets(f) |-> Cardinality(InBucket(b, f) \cap X)]
           start(s) == StartOf(ships[s].updated, f.bucket)
<1>1. IsFiniteSet(Buckets(f))
  <2>1. StartOf(f.from, f.bucket) \in Int /\ f.to \in Int
    BY StartIs DEF FilterOK
  <2>2. IsFiniteSet(StartOf(f.from, f.bucket) .. f.to)
    BY <2>1, FS_Interval
  <2>3. Buckets(f) \in SUBSET (StartOf(f.from, f.bucket) .. f.to)
    BY DEF Buckets
  <2> QED
    BY <2>2, <2>3, FS_Subset
<1>2. \A b \in Buckets(f) : A[b] \in SUBSET InReport(f) /\ g[b] = Cardinality(A[b])
  OBVIOUS
<1>3. \A b, c \in Buckets(f) : b # c => A[b] \cap A[c] = {}
  BY DEF InBucket
<1>4. \A s \in X : start(s) \in Buckets(f) <=> start(s) <= f.to
  <2>1. SUFFICES ASSUME NEW s \in X
                 PROVE  start(s) \in Buckets(f) <=> start(s) <= f.to
    OBVIOUS
  <2>2. /\ f.from \in Int /\ f.to \in Int /\ f.bucket \in Nat \ {0}
        /\ ships[s].updated \in Int /\ f.from <= ships[s].updated
    BY ReportTyping DEF FilterOK
  <2>3. /\ StartOf(f.from, f.bucket) \in Int /\ start(s) \in Int /\ start(s) % f.bucket = 0
        /\ StartOf(f.from, f.bucket) <= start(s)
    BY <2>2, StartIs, StartsInOrder
  <2> HIDE DEF start
  <2> QED
    BY <2>2, <2>3 DEF Buckets
<1>5. UNION {A[b] : b \in Buckets(f)} = {s \in X : start(s) <= f.to}
  BY <1>4 DEF InBucket
<1>6. DOMAIN g = Buckets(f) /\ \A b \in Buckets(f) : IsFiniteSet(A[b])
  <2> HIDE DEF A
  <2> QED
    BY <1>2, ReportIsFinite
<1> HIDE DEF A, g
<1>7. SumFunction(g) = Cardinality(UNION {A[b] : b \in Buckets(f)})
  BY <1>1, <1>2, <1>3, <1>6, CountsSum
<1> QED
  BY <1>5, <1>7 DEF g

\* Every order has one key, and what the series calls delivered or delayed has that key.
LEMMA OneKey ==
  ASSUME NEW s, ships[s].status \in ShipmentStatus
  PROVE  /\ OrderStatus(s) \in {"delivered", "cancelled", "delayed", "waiting", "on_the_way"}
         /\ OrderStatus(s) = "delivered" <=> ships[s].status \in Completed
         /\ OrderStatus(s) = "delayed" <=> IsDelayed(s)
         /\ OrderStatus(s) = "waiting" => ships[s].status \in Waiting
<1>1. Active \cap Completed = {} /\ Active \cap Cancelled = {} /\ Completed \cap Cancelled = {}
      /\ Waiting \subseteq Active
  BY DEF Active, Waiting, Completed, Cancelled
<1>2. IsDelayed(s) => ships[s].status \in Active
  BY DEF IsDelayed
<1> QED
  BY <1>1, <1>2 DEF OrderStatus
LEMMA OrdersAddUp ==
  ASSUME ViewsInv, NEW f, FilterOK(f)
  PROVE  SumFunction(Report(f, 1).orders) = Cardinality(InReport(f))
<1> DEFINE keys == {"delivered", "cancelled", "delayed", "waiting", "on_the_way"}
           A == [key \in keys |-> Orders(f, key)]
           g == [key \in keys |-> Cardinality(Orders(f, key))]
<1>1. Report(f, 1).orders = g
  BY DEF Report
<1>2. \A key \in keys : A[key] \in SUBSET InReport(f) /\ g[key] = Cardinality(A[key])
  BY DEF Orders
<1>3. \A j, k \in keys : j # k => A[j] \cap A[k] = {}
  BY DEF Orders
<1>4. \A s \in InReport(f) : OrderStatus(s) \in keys
  BY ReportTyping, OneKey
<1>5. UNION {A[key] : key \in keys} = InReport(f)
  BY <1>4 DEF Orders
<1>6. IsFiniteSet(keys)
  <2>1. /\ IsFiniteSet({"delivered"} \cup {"cancelled"})
        /\ IsFiniteSet({"delayed"} \cup {"waiting"})
    BY FS_Singleton, FS_Union
  <2>2. IsFiniteSet(({"delivered"} \cup {"cancelled"}) \cup ({"delayed"} \cup {"waiting"}))
    BY <2>1, FS_Union
  <2>3. IsFiniteSet((({"delivered"} \cup {"cancelled"}) \cup ({"delayed"} \cup {"waiting"}))
                    \cup {"on_the_way"})
    BY <2>2, FS_Singleton, FS_Union
  <2>4. keys = (({"delivered"} \cup {"cancelled"}) \cup ({"delayed"} \cup {"waiting"}))
               \cup {"on_the_way"}
    OBVIOUS
  <2> QED
    BY <2>3, <2>4
<1>7. DOMAIN g = keys /\ \A key \in keys : IsFiniteSet(A[key])
  <2> HIDE DEF A
  <2> QED
    BY <1>2, ReportIsFinite
<1> HIDE DEF A, g, keys
<1>8. SumFunction(g) = Cardinality(UNION {A[key] : key \in keys})
  BY <1>2, <1>3, <1>6, <1>7, CountsSum
<1> QED
  BY <1>1, <1>5, <1>8

\* The two columns of the series, as sums over the buckets.
LEMMA ColumnsAre ==
  ASSUME NEW f
  PROVE  LET delivered == {s \in InReport(f) : ships[s].status \in Completed}
             delayed   == {s \in InReport(f) : IsDelayed(s)}
         IN  /\ Total(Report(f, 1).series, "delivered")
                   = SumFunction([b \in Buckets(f) |-> Cardinality(InBucket(b, f) \cap delivered)])
             /\ Total(Report(f, 1).series, "delayed")
                   = SumFunction([b \in Buckets(f) |-> Cardinality(InBucket(b, f) \cap delayed)])
<1> DEFINE delivered == {s \in InReport(f) : ships[s].status \in Completed}
           delayed   == {s \in InReport(f) : IsDelayed(s)}
<1>1. Report(f, 1).series = Series(f) /\ DOMAIN Series(f) = Buckets(f)
  BY DEF Report, Series
<1>2. ASSUME NEW b \in Buckets(f)
      PROVE  /\ Series(f)[b]["delivered"] = Cardinality(InBucket(b, f) \cap delivered)
             /\ Series(f)[b]["delayed"] = Cardinality(InBucket(b, f) \cap delayed)
  <2>1. /\ Series(f)[b].delivered = Cardinality({s \in InBucket(b, f) : ships[s].status \in Completed})
        /\ Series(f)[b].delayed = Cardinality({s \in InBucket(b, f) : IsDelayed(s)})
    BY DEF Series
  <2>2. /\ {s \in InBucket(b, f) : ships[s].status \in Completed} = InBucket(b, f) \cap delivered
        /\ {s \in InBucket(b, f) : IsDelayed(s)} = InBucket(b, f) \cap delayed
    BY DEF InBucket
  <2> QED
    BY <2>1, <2>2
<1> HIDE DEF delivered, delayed
<1>3. /\ [b \in Buckets(f) |-> Series(f)[b]["delivered"]]
           = [b \in Buckets(f) |-> Cardinality(InBucket(b, f) \cap delivered)]
      /\ [b \in Buckets(f) |-> Series(f)[b]["delayed"]]
           = [b \in Buckets(f) |-> Cardinality(InBucket(b, f) \cap delayed)]
  BY <1>2
<1> QED
  BY <1>1, <1>3 DEF Total, delivered, delayed

LEMMA SeriesAgrees ==
  ASSUME ViewsInv, NEW f, FilterOK(f)
  PROVE  LET r == Report(f, 1)
             after == {s \in InReport(f) : /\ ships[s].updated > f.to
                                           /\ StartOf(ships[s].updated, f.bucket) <= f.to}
         IN  /\ Total(r.series, "delivered")
                  = Cardinality(CompletedIn(f)) + Cardinality(With(after, Completed))
             /\ f.to = now => /\ Total(r.series, "delivered") = r.orders["delivered"]
                              /\ Total(r.series, "delayed") = r.orders["delayed"]
<1> DEFINE r == Report(f, 1)
           start(s) == StartOf(ships[s].updated, f.bucket)
           after == {s \in InReport(f) : ships[s].updated > f.to /\ start(s) <= f.to}
           delivered == {s \in InReport(f) : ships[s].status \in Completed}
           delayed == {s \in InReport(f) : IsDelayed(s)}
           counted(X) == {s \in X : start(s) <= f.to}
<1>1. /\ Total(r.series, "delivered") = Cardinality(counted(delivered))
      /\ Total(r.series, "delayed") = Cardinality(counted(delayed))
  BY ColumnsAre, SeriesAddsUp
<1>2. \A s \in InReport(f) : /\ start(s) \in Int /\ start(s) <= ships[s].updated
                              /\ ships[s].updated \in Int /\ f.to \in Int /\ now \in Int
                              /\ f.from <= ships[s].updated /\ ships[s].updated <= now
  <2>1. SUFFICES ASSUME NEW s \in InReport(f)
                 PROVE  /\ start(s) \in Int /\ start(s) <= ships[s].updated
                        /\ ships[s].updated \in Int /\ f.to \in Int /\ now \in Int
                        /\ f.from <= ships[s].updated /\ ships[s].updated <= now
    OBVIOUS
  <2>2. /\ ships[s].updated \in Int /\ f.from <= ships[s].updated /\ ships[s].updated <= now
        /\ f.to \in Int /\ f.bucket \in Nat \ {0} /\ now \in Int
    BY ReportTyping, ViewsAssumption DEF FilterOK, ViewsInv
  <2>3. start(s) \in Int /\ start(s) <= ships[s].updated
    BY <2>2, StartIs
  <2> QED
    BY <2>2, <2>3
<1> HIDE DEF start
<1>3. counted(delivered) = CompletedIn(f) \cup With(after, Completed)
  BY <1>2 DEF CompletedIn, With, Within
<1>4. CompletedIn(f) \cap With(after, Completed) = {}
  BY <1>2 DEF CompletedIn, With, Within
<1>5. /\ CompletedIn(f) \in SUBSET InReport(f) /\ With(after, Completed) \in SUBSET InReport(f)
  BY DEF CompletedIn, With
<1>6. Cardinality(counted(delivered)) = Cardinality(CompletedIn(f)) + Cardinality(With(after, Completed))
  <2>1. /\ IsFiniteSet(CompletedIn(f)) /\ IsFiniteSet(With(after, Completed))
        /\ Cardinality(CompletedIn(f)) \in Nat /\ Cardinality(With(after, Completed)) \in Nat
    BY <1>5, ReportIsFinite
  <2> HIDE DEF after, delivered, counted
  <2>2. Cardinality(counted(delivered)) = Cardinality(CompletedIn(f))
          + Cardinality(With(after, Completed)) - Cardinality({})
    BY <1>3, <1>4, <2>1, FS_Union
  <2> QED
    BY <2>1, <2>2, FS_EmptySet
<1>7. ASSUME f.to = now
      PROVE  /\ Total(r.series, "delivered") = r.orders["delivered"]
             /\ Total(r.series, "delayed") = r.orders["delayed"]
  <2>1. counted(delivered) = delivered /\ counted(delayed) = delayed
    BY <1>2, <1>7
  <2>2. Orders(f, "delivered") = delivered /\ Orders(f, "delayed") = delayed
    BY ReportTyping, OneKey DEF Orders
  <2>3. /\ r.orders["delivered"] = Cardinality(Orders(f, "delivered"))
        /\ r.orders["delayed"] = Cardinality(Orders(f, "delayed"))
    BY DEF Report
  <2> HIDE DEF r, delivered, delayed, counted
  <2> QED
    BY <1>1, <2>1, <2>2, <2>3
<1> HIDE DEF r, delivered, delayed, counted
<1> QED
  BY <1>1, <1>6, <1>7 DEF r, start

LEMMA FleetAgrees ==
  ASSUME ViewsInv, NEW f, FilterOK(f), NEW s \in DOMAIN Report(f, 1).fleet \cap InReport(f)
  PROVE  /\ Report(f, 1).fleet[s] = "delayed" <=> OrderStatus(s) = "delayed"
         /\ OrderStatus(s) = "waiting" /\ Report(f, 1).fleet[s] = "in_transit"
              => ships[s].status = "draft"
<1>1. s \in Fleet(1) /\ Report(f, 1).fleet[s] = FleetStatus(s)
  BY DEF Report, Widgets
<1>2. ships[s].status \in ShipmentStatus
  BY ReportTyping
<1>3. FleetStatus(s) = "delayed" <=> IsDelayed(s)
  BY DEF FleetStatus
<1>4. OrderStatus(s) = "waiting" /\ FleetStatus(s) = "in_transit" => ships[s].status = "draft"
  BY <1>2, OneKey DEF FleetStatus, Waiting, OrderStatus
<1> QED
  BY <1>1, <1>2, <1>3, <1>4, OneKey

LEMMA InvAgrees == ViewsInv => WidgetsAgree
BY FiltersAreOK, OrdersAddUp, SeriesAgrees, FleetAgrees DEF WidgetsAgree

\* At every moment, for every range and interval an administrator may ask for, the figures,
\* the series, the fleet and the orders that adminDashboard puts together agree, although
\* each is read with conditions of its own: whatever the shipments and their number, the
\* lengths of hours and days, and the grace.
THEOREM ReportsAgree == ViewsSpec => []WidgetsAgree
<1>1. ViewsSpec => []ViewsInv
  BY InitViews, NextViews, PTL DEF ViewsSpec
<1> QED
  BY <1>1, InvAgrees, PTL
=============================================================================
