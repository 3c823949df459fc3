------------------------- MODULE MCBoundedTransport -------------------------
(* Instances of BoundedTransport for TLC.                                  *)
EXTENDS BoundedTransport, TLC

CONSTANTS w1, w2, r1

ThreeCalls == {w1, w2, r1}
TwoWrites == {w1, w2}

TwoCalls == {w1, r1}
OneWrite == {w1}

\* One status per path through the worker.
AnyStatus == {200, 302, 404, 503}

\* The statuses with a failure code of their own.
AuthStatus == {200, 401, 403, 429}

WritesAlike == Permutations(TwoWrites)
=============================================================================
