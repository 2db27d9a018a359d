------------------------------ MODULE OnceOnly ------------------------------
(***************************************************************************)
(* What an idempotency key promises a client that repeats its request: of  *)
(* all the calls under one key one at most takes effect, and a call that   *)
(* is answered gets the outcome of that one, for the same payload.         *)
(***************************************************************************)
CONSTANTS
  Calls,           \* executions of the mutation: a request and its repetitions
  KeyOf, HashOf,   \* the idempotency key and the payload of each
  NoCall

VARIABLES
  effects,   \* calls whose action took effect
  answer     \* the call whose outcome a call was answered with

ovars == <<effects, answer>>

SameRequest(c, d) == KeyOf[c] = KeyOf[d] /\ HashOf[c] = HashOf[d]

Init == effects = {} /\ answer = [c \in Calls |-> NoCall]

Apply(c) ==
  /\ \A d \in effects : KeyOf[d] # KeyOf[c]
  /\ effects' = effects \cup {c}
  /\ UNCHANGED answer

Reply(c) ==
  /\ answer[c] = NoCall
  /\ \E d \in effects : SameRequest(c, d) /\ answer' = [answer EXCEPT ![c] = d]
  /\ UNCHANGED effects

Next == \E c \in Calls : Apply(c) \/ Reply(c)

Spec == Init /\ [][Next]_ovars
=============================================================================
