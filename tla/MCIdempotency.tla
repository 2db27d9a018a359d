--------------------------- MODULE MCIdempotency ----------------------------
(* Instances of Idempotency for TLC. *)
EXTENDS Idempotency, TLC

CONSTANTS c1, c2, c3, c4, k1, k2, p1, p2

\* Two repetitions of one request, one with the same key and another payload, and
\* a request under a key of its own.
MCKeyOf == [c \in {c1, c2, c3, c4} |-> IF c = c4 THEN k2 ELSE k1]
MCHashOf == [c \in {c1, c2, c3, c4} |-> IF c = c3 THEN p2 ELSE p1]
MCSymmetry == Permutations({c1, c2})
=============================================================================
