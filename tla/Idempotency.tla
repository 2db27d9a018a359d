---------------------------- MODULE Idempotency -----------------------------
(***************************************************************************)
(* withIdempotency (wallet.service.ts:1308), which wraps the funding and   *)
(* the withdrawal mutation.  A call is one execution of it; a client that  *)
(* repeats a request makes another call with the same key and payload.     *)
(* Each statement on wallet_idempotency_keys is a step of its own, since   *)
(* none of them runs in a transaction.                                     *)
(***************************************************************************)
CONSTANTS
  Calls,     \* executions of the wrapper
  Keys,      \* (profile, operation, key) of the unique index
  Payloads,  \* request hashes
  KeyOf, HashOf,
  NoCall, NoHash

ASSUME IdempotencyAssumption ==
  /\ KeyOf \in [Calls -> Keys]
  /\ HashOf \in [Calls -> Payloads]
  /\ NoCall \notin Calls
  /\ NoHash \notin Payloads

VARIABLES
  status,    \* wallet_idempotency_keys.status, "none" without a row
  hash,      \* requestHash of the row
  response,  \* the call whose response the row holds
  cpc,       \* where each call stands
  effects,   \* calls whose action took effect: money moved or was asked to
  answer     \* the call whose outcome a call returned to its client

keyTable == <<status, hash, response>>
ivars == <<keyTable, cpc, effects, answer>>

CallPhases == {"start", "create", "reread", "act", "complete", "fail",
           "returned", "conflict", "threw", "crashed"}
UnderWay == {"create", "reread", "act", "complete", "fail"}

IdempotencyInit ==
  /\ status = [k \in Keys |-> "none"]
  /\ hash = [k \in Keys |-> NoHash]
  /\ response = [k \in Keys |-> NoCall]
  /\ cpc = [c \in Calls |-> "start"]
  /\ effects = {}
  /\ answer = [c \in Calls |-> NoCall]

CallGoes(c, phase) == cpc' = [cpc EXCEPT ![c] = phase]

-----------------------------------------------------------------------------
\* Bug: the payload is not compared.
AnyPayload(c) == TRUE

SamePayload(c) == hash[KeyOf[c]] = HashOf[c]

\* What an existing row means to a call: replay a completed one of the same
\* payload, refuse everything else.
Decide(c) ==
  LET k == KeyOf[c] IN
  /\ IF SamePayload(c) /\ status[k] = "completed"
       THEN CallGoes(c, "returned") /\ answer' = [answer EXCEPT ![c] = response[k]]
       ELSE CallGoes(c, "conflict") /\ UNCHANGED answer
  /\ UNCHANGED <<keyTable, effects>>

Lookup(c) ==
  /\ cpc[c] = "start"
  /\ IF status[KeyOf[c]] = "none"
       THEN CallGoes(c, "create") /\ UNCHANGED <<keyTable, effects, answer>>
       ELSE Decide(c)

\* Bug: no unique index on (profile, operation, key): the row is always created.
CreateAlways(c) ==
  LET k == KeyOf[c] IN
  /\ cpc[c] = "create"
  /\ status' = [status EXCEPT ![k] = "in_progress"]
  /\ hash' = [hash EXCEPT ![k] = HashOf[c]]
  /\ CallGoes(c, "act")
  /\ UNCHANGED <<response, effects, answer>>

\* The insert, or the unique constraint error that a racing call's row causes.
Create(c) ==
  LET k == KeyOf[c] IN
  /\ cpc[c] = "create"
  /\ IF status[k] = "none"
       THEN /\ status' = [status EXCEPT ![k] = "in_progress"]
            /\ hash' = [hash EXCEPT ![k] = HashOf[c]]
            /\ CallGoes(c, "act")
       ELSE CallGoes(c, "reread") /\ UNCHANGED <<status, hash>>
  /\ UNCHANGED <<response, effects, answer>>

Reread(c) == cpc[c] = "reread" /\ Decide(c)

ActionReturns(c) ==
  /\ cpc[c] = "act"
  /\ effects' = effects \cup {c}
  /\ CallGoes(c, "complete")
  /\ UNCHANGED <<keyTable, answer>>

\* The action throws: before it did anything, or after, as when Paystack charged
\* the card and the answer was lost.
ActionThrows(c) ==
  /\ cpc[c] = "act"
  /\ effects' \in {effects, effects \cup {c}}
  /\ CallGoes(c, "fail")
  /\ UNCHANGED <<keyTable, answer>>

SaveCompleted(c) ==
  LET k == KeyOf[c] IN
  /\ cpc[c] = "complete"
  /\ status' = [status EXCEPT ![k] = "completed"]
  /\ response' = [response EXCEPT ![k] = c]
  /\ answer' = [answer EXCEPT ![c] = c]
  /\ CallGoes(c, "returned")
  /\ UNCHANGED <<hash, effects>>

\* The update to 'completed' fails; it is inside the try block.
SaveCompletedFails(c) ==
  /\ cpc[c] = "complete"
  /\ CallGoes(c, "fail")
  /\ UNCHANGED <<keyTable, effects, answer>>

SaveFailed(c) ==
  /\ cpc[c] = "fail"
  /\ status' = [status EXCEPT ![KeyOf[c]] = "failed"]
  /\ CallGoes(c, "threw")
  /\ UNCHANGED <<hash, response, effects, answer>>

\* The process dies, or the database fails the catch block too: the row stays
\* in_progress.
Crash(c) ==
  /\ cpc[c] \in UnderWay
  /\ CallGoes(c, "crashed")
  /\ UNCHANGED <<keyTable, effects, answer>>

IdempotencyNext ==
  \E c \in Calls :
    \/ Lookup(c) \/ Create(c) \/ Reread(c)
    \/ ActionReturns(c) \/ ActionThrows(c)
    \/ SaveCompleted(c) \/ SaveCompletedFails(c) \/ SaveFailed(c) \/ Crash(c)

IdempotencySpec == IdempotencyInit /\ [][IdempotencyNext]_ivars

-----------------------------------------------------------------------------
(* Properties. *)

\* The row, the calls and their answers hold values of their types.
IdempotencyTypeOK ==
  /\ status \in [Keys -> {"none", "in_progress", "completed", "failed"}]
  /\ hash \in [Keys -> Payloads \cup {NoHash}]
  /\ response \in [Keys -> Calls \cup {NoCall}]
  /\ cpc \in [Calls -> CallPhases]
  /\ effects \subseteq Calls
  /\ answer \in [Calls -> Calls \cup {NoCall}]

\* However calls race between the lookup and the insert, fail, crash and are
\* repeated, the action runs to an effect once at most under one key.
EffectOnce ==
  \A c, d \in effects : KeyOf[c] = KeyOf[d] => c = d

\* A client is answered with an outcome that really took effect, of a request with
\* its own key and payload: a replay never hands out another request's result.
AnswerIsOwn ==
  \A c \in Calls : answer[c] # NoCall =>
    /\ answer[c] \in effects
    /\ KeyOf[answer[c]] = KeyOf[c] /\ HashOf[answer[c]] = HashOf[c]

\* The wrapper gives its clients what an idempotency key promises.
Promise == INSTANCE OnceOnly
ImplementsOnceOnly == Promise!Spec

=============================================================================
