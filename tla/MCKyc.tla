-------------------------------- MODULE MCKyc --------------------------------
(* Instances of Kyc for TLC: one NIN transaction and one phone transaction. *)
EXTENDS Kyc

CONSTANTS n1, f1, c1, c2

MCTypeOf == [t \in Txns |-> IF t = n1 THEN "nin_face" ELSE "phone"]
\* NIN answers name the check by its reference or its tracking id, phone answers by
\* nothing, so that two checks of one type can exist.
MCNamesOf == [type \in CheckTypes |->
  IF type = "nin_face" THEN {"reference", "tracking"} ELSE {"none"}]
=============================================================================
