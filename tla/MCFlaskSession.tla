--------------------------- MODULE MCFlaskSession ---------------------------
(* Instances of FlaskSession for TLC.                                      *)
EXTENDS FlaskSession, TLC

CONSTANTS q1, q2, ann, bob

TwoRequests == {q1, q2}
TwoUsers == {ann, bob}

RequestsAlike == Permutations(TwoRequests)
=============================================================================
