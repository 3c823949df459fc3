----------------------------- MODULE MCFlaskApp -----------------------------
(* Instances of FlaskApp for TLC.                                          *)
EXTENDS FlaskApp

CONSTANTS alice, bob, t1, t2

TwoUsers == {alice, bob}
AliceIsAdmin == [u \in TwoUsers |-> IF u = alice THEN 2 ELSE 0]
TwoTokens == {t1, t2}

SomeStatuses == {200, 302, 404, 502, 503}

\* The person tries again only upon a 4xx, by which HQ says that it refused: neither
\* upon the 502s that _request_json words nor upon another 5xx.
Cautious == {"failed"}
=============================================================================
