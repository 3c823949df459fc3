----------------------------- MODULE MCHQProxy -----------------------------
(* Instances of HQProxy for TLC.                                           *)
EXTENDS HQProxy

SomeStatuses == {200, 302, 404, 503}

\* The person takes the page at its word.
Trusting == {"safe to retry"}
=============================================================================
