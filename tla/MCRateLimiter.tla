--------------------------- MODULE MCRateLimiter ---------------------------
(* Instances of RateLimiter for TLC.                                       *)
EXTENDS RateLimiter, TLC

CONSTANTS c1, c2, c3, c4, k1, k2

FourChecks == {c1, c2, c3, c4}
TwoKeys == {k1, k2}

Alike == Permutations(FourChecks) \cup Permutations(TwoKeys)
=============================================================================
