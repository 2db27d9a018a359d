--------------------------- MODULE MCMarketplace ----------------------------
(* Instances of Marketplace for TLC. *)
EXTENDS Marketplace, TLC

CONSTANTS p1, p2, r1, r2, a1, a2

MCSymmetry == Permutations(Providers) \cup Permutations(Requests) \cup Permutations(BidAmounts)
=============================================================================
