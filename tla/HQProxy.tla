------------------------------- MODULE HQProxy -------------------------------
(***************************************************************************)
(* A proxied write: the browser posts to one of the routes register_proxy  *)
(* installs (feedback, Dropbox upload, e-mail, password), the route calls  *)
(* HQ through _request_json and HQClient._request, and the person at the   *)
(* browser acts on what the page shows.                                    *)
(*                                                                         *)
(* The client is the legacy one, which is what core_client makes for every *)
(* Flask application, or one that was given a BoundedTransport, as scripts *)
(* and FastAPI applications may; of the latter only its promise is used,   *)
(* that of DependencyCall: an answer not marked outcome_unknown is true.   *)
(*                                                                         *)
(* One write is attempted up to Attempts times.  HQ has no memory of       *)
(* earlier attempts: the routes send no key by which it could know them.   *)
(***************************************************************************)
EXTENDS Integers, FiniteSets

CONSTANTS
    Attempts,   \* how often the person tries at most
    Bounded,    \* whether the client has a transport policy
    Statuses,   \* what HQ answers with
    RetriesOn   \* pages upon which the person tries again

VARIABLES
    at,        \* where each attempt stands
    answer,    \* what HQClient._request returned
    page,      \* what the browser shows
    refused,   \* HQ answered that it did not apply the write, and will not
    applied    \* HQ has carried out the write

vars == <<at, answer, page, refused, applied>>

Nth == 1..Attempts

\* A response of the client: its status, whether its body says outcome_unknown,
\* and whether its body has a reference_id.
NoAnswer == [status |-> 0, unknown |-> FALSE, ref |-> FALSE]

Init ==
    /\ at = [n \in Nth |-> "idle"]
    /\ answer = [n \in Nth |-> NoAnswer]
    /\ page = [n \in Nth |-> "none"]
    /\ refused = [n \in Nth |-> FALSE]
    /\ applied = [n \in Nth |-> FALSE]

\* The person posts the form, the first time or again.
MayPost(n) ==
    /\ at[n] = "idle"
    /\ n > 1 => page[n - 1] \in RetriesOn

Post(n) ==
    /\ MayPost(n)
    /\ at' = [at EXCEPT ![n] = "sent"]
    /\ UNCHANGED <<answer, page, refused, applied>>

\* HQ applies the write it was sent, now or after everyone stopped waiting.
Apply(n) ==
    /\ at[n] # "idle"
    /\ ~refused[n]
    /\ ~applied[n]
    /\ applied' = [applied EXCEPT ![n] = TRUE]
    /\ UNCHANGED <<at, answer, page, refused>>

Return(n, status, unknown, ref) ==
    /\ at[n] = "sent"
    /\ at' = [at EXCEPT ![n] = "answered"]
    /\ answer' = [answer EXCEPT ![n] = [status |-> status, unknown |-> unknown, ref |-> ref]]

\* HQ's own body may have a reference_id; only that of a 502 is ever looked for.
Refs(s) == IF s = 502 THEN BOOLEAN ELSE {FALSE}

\* HQ's answer arrives whole.  A redirect becomes a 502 of the client's own; the
\* transport words every failure itself, the legacy client hands HQ's on.
Answered(n) ==
    /\ \E s \in Statuses :
          /\ s < 300 => applied[n]
          /\ \/ s \in 300..499 /\ ~applied[n] /\ refused' = [refused EXCEPT ![n] = TRUE]
             \/ s \notin 300..499 /\ UNCHANGED refused
          /\ \/ s \in 300..399 /\ Return(n, 502, FALSE, TRUE)
             \/ s \notin 300..399 /\ Bounded /\ Return(n, s, s >= 500, s >= 400)
             \/ s \notin 300..399 /\ ~Bounded /\ \E ref \in Refs(s) : Return(n, s, FALSE, ref)
    /\ UNCHANGED <<page, applied>>

\* Mutant: _failure words a missing answer as a refusal of the request, by a 408.
UnansweredCertain(n) ==
    /\ Return(n, 408, FALSE, TRUE)
    /\ UNCHANGED <<page, refused, applied>>

\* An exception, a timeout, an oversized or malformed body: _failure() in the
\* legacy client, failure(..., ambiguous=write) in the transport.
Unanswered(n) ==
    /\ Return(n, 502, Bounded, TRUE)
    /\ UNCHANGED <<page, refused, applied>>

\* The client has no secret, or its transport no free slot: nothing is sent.
TurnedAway(n) ==
    /\ ~applied[n]
    /\ Return(n, 502, FALSE, TRUE)
    /\ refused' = [refused EXCEPT ![n] = TRUE]
    /\ UNCHANGED <<page, applied>>

\* Mutant: whatever failed is handed on as if HQ had refused it.
ShownCertain(r) ==
    IF r.status = 502 THEN IF r.ref THEN "safe to retry" ELSE "server error"
    ELSE IF r.status < 400 THEN "done" ELSE "failed"

\* _request_json: every 502 gets the same words and loses the rest of its body; any
\* other answer goes to the browser with the status it has.
Shown(r) ==
    IF r.status = 502
    THEN IF r.ref THEN "safe to retry" ELSE "server error"   \* KeyError: 'reference_id'
    ELSE IF r.unknown THEN "outcome unknown"
    ELSE IF r.status < 400 THEN "done"
    ELSE IF r.status < 500 THEN "failed" ELSE "server error"

Show(n) ==
    /\ at[n] = "answered"
    /\ at' = [at EXCEPT ![n] = "shown"]
    /\ page' = [page EXCEPT ![n] = Shown(answer[n])]
    /\ UNCHANGED <<answer, refused, applied>>

Next ==
    \E n \in Nth :
        Post(n) \/ Apply(n) \/ Answered(n) \/ Unanswered(n) \/ TurnedAway(n) \/ Show(n)

Spec == Init /\ [][Next]_vars

-----------------------------------------------------------------------------
\* Whoever tries again only upon the pages in RetriesOn never has the write carried
\* out twice: those pages say truly that it was not carried out and will not be.
AppliedAtMostOnce == Cardinality({n \in Nth : applied[n]}) <= 1

-----------------------------------------------------------------------------
(* What the route is told by its client, as DependencyCall's callers are.  *)

\* The transport marks an answer that leaves the outcome open.  The legacy client has
\* no mark: any 5xx of its, the 502 of _failure too, is such an answer.
LeavesOpen(r) == r.unknown \/ (~Bounded /\ r.status >= 500)

Says(r) ==
    IF LeavesOpen(r) THEN "unknown" ELSE IF r.status < 400 THEN "ok" ELSE "failed"

Told(n) == IF at[n] \in {"idle", "sent"} THEN "nothing" ELSE Says(answer[n])

Dependency == INSTANCE DependencyCall WITH
    Calls <- Nth,
    Writes <- Nth,
    Capacity <- Attempts,
    stage <- [n \in Nth |-> IF at[n] = "idle" THEN "new" ELSE "working"],
    told <- [n \in Nth |-> Told(n)],
    committed <- applied

\* The client keeps the transport's promise, with a transport or without: a success is
\* of a write that was applied, a failure that leaves nothing open of one that was not
\* and will not be, whatever it makes of redirects, of answers that do not come and of
\* a missing secret.
ClientKeepsPromise == Dependency!DepSpec
=============================================================================
