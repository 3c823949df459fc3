-------------------------- MODULE MCFastAPISession --------------------------
(* Instances of FastAPISession for TLC.                                    *)
EXTENDS FastAPISession, TLC

CONSTANTS q1, q2, ann, bob

TwoRequests == {q1, q2}
TwoUsers == {ann, bob}

Alike == Permutations(TwoRequests) \cup Permutations(TwoUsers)
=============================================================================
