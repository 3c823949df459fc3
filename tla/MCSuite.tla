------------------------------ MODULE MCSuite ------------------------------
(***************************************************************************)
(* aj_shared.suite for TLC: job records, audited writes and attention      *)
(* snapshots.  They share no state, so a behaviour takes up one of them.   *)
(***************************************************************************)
EXTENDS JobRuns, AuditedWrite, Contracts

CONSTANTS w1, w2, w3, c1, c2, day

ThreeWrites == {w1, w2, w3}
OneInvalid == {w3}
TwoConns == {c1, c2}
OneServer == {c2}

-----------------------------------------------------------------------------
(* Payloads: the statuses, provenances and items that differ in what more  *)
(* than one rule looks at, right and wrong, and every list of two items.   *)

TwoIds == {"a", "b"}
TwoInstants == 1..2
OneDay == {day}
OneText == {"text"}
OneDestination == {"inside"}

Qualifiers == {<<>>, <<"partial">>, <<"stale">>, <<"partial", "stale">>, <<"stale", "stale">>, Other}

Statuses ==
    [status: {"ok", "empty", "unavailable", "unheard of"}, qualifiers: Qualifiers,
     retryable: BOOLEAN, as_of: {Absent, 1}, missing: {Absent, <<>>, <<"text">>},
     retry_after: {Absent, SafeInteger, SafeInteger + 1}]

Plain(status, qualifiers, missing) ==
    [status |-> status, qualifiers |-> qualifiers, retryable |-> FALSE,
     as_of |-> Absent, missing |-> missing, retry_after |-> Absent]

Provenances ==
    [source_id: TwoIds, observed_at: {Null, Other, 1, 2}, fetched_at: {Null, 1},
     destination: {Absent, "inside", "outside"}]

Fetched(id) == [source_id |-> id, observed_at |-> Null, fetched_at |-> 1, destination |-> Absent]

Dates == [name: TwoIds, value: {1, day, Other}]

Signal(id, source, dates) ==
    [signal_id |-> id, source_app_id |-> source, kind |-> "update", action_label |-> Absent,
     destination |-> "inside", updated_at |-> 1, dates |-> dates]

Signals ==
    {Signal(id, source, Absent) : id \in TwoIds, source \in TwoIds}

OddSignals ==
    [signal_id: {"a", Other}, source_app_id: {"a"}, kind: {"action", "update", "unheard of"},
     action_label: {Absent, "text", Other}, destination: {"inside", "outside"},
     updated_at: {1, Null}, dates: {Absent, <<>>}]

Lists(S) == {<<>>} \cup {<<x>> : x \in S} \cup {<<x, y>> : x, y \in S}

Snapshot(statuses, provenances, items) ==
    [schema_version: {1}, status: statuses, provenance: provenances,
     complete: BOOLEAN, items: items]

Good == Plain("ok", <<>>, Absent)

SomeSnapshots ==
    UNION {Snapshot(Statuses, {Fetched("a")}, {Other, <<>>, <<Signal("a", "a", Absent)>>}),
           Snapshot({Good}, Provenances, Lists(Signals)),
           Snapshot({Good}, {Fetched("a")}, Lists(OddSignals)),
           Snapshot({Plain("ok", <<"partial">>, <<"text">>)}, {Fetched("b")},
                    {<<Signal("b", "b", d)>> : d \in Lists(Dates)})}

-----------------------------------------------------------------------------
(* Jobs or writes go on, beside one payload only.                          *)

Quiet == [schema_version |-> 1, status |-> Good, provenance |-> Fetched("a"),
          complete |-> TRUE, items |-> <<>>]

SuiteInit == Init /\ AuditedInit /\ Offered

SuiteNext ==
    /\ offered = Quiet
    /\ UNCHANGED offered
    /\ \/ AuditedInit /\ Next /\ UNCHANGED auditedVars
       \/ Init /\ AuditedNext /\ UNCHANGED vars

SuiteSpec == SuiteInit /\ [][SuiteNext]_<<vars, auditedVars, offered>> /\ Fairness
=============================================================================
