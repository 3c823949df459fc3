---------------------------- MODULE RateLimiter ----------------------------
(***************************************************************************)
(* aj_shared.aj_auth._RateLimiter: the sliding-window limiter behind       *)
(* rate_limited, kept in a dictionary of the process.                      *)
(*                                                                         *)
(* One element of Checks is one call of check().  A call samples the       *)
(* clock, builds a filtered copy of the key's hits, decides, and stores    *)
(* its copy: four operations with no lock around them, so the calls of a   *)
(* server with more than one thread interleave.  A hit is named by the     *)
(* call that made it; its timestamp is when[c].                            *)
(***************************************************************************)
EXTENDS Integers, FiniteSets

CONSTANTS
    Checks,      \* calls of check()
    Keys,        \* route and remote address, or what key_func returns
    MaxCalls,    \* max_calls
    PerSeconds,  \* per_seconds
    Threads,     \* how many calls may be in progress at a time
    MaxTime      \* bound on the clock

ASSUME CheckAssumption == IsFiniteSet(Checks)
ASSUME LimitAssumption ==
    MaxCalls \in Nat /\ PerSeconds \in Nat /\ Threads \in Nat \ {0} /\ MaxTime \in Nat

VARIABLES
    now,   \* time.time()
    hits,  \* self._hits
    pc,    \* where each call stands
    key,   \* the key it was made with
    when,  \* its sample of the clock
    kept,  \* its copy of the hits
    clash  \* keys of which two calls were once in progress together

vars == <<now, hits, pc, key, when, kept, clash>>

InProgress == {c \in Checks : pc[c] \in {"timed", "loaded"}}
Admitted(k) == {c \in Checks : pc[c] = "admitted" /\ key[c] = k}

\* The hits that are younger than the window at the time t.
Within(S, t) == {h \in S : t - when[h] < PerSeconds}

Init ==
    /\ now = 0
    /\ hits = [k \in Keys |-> {}]
    /\ pc = [c \in Checks |-> "idle"]
    /\ key \in [Checks -> Keys]
    /\ when = [c \in Checks |-> 0]
    /\ kept = [c \in Checks |-> {}]
    /\ clash = {}

\* Mutant: a hit is dated by the end of its window.
SampleEnd(c) ==
    /\ pc[c] = "idle"
    /\ Cardinality(InProgress) < Threads
    /\ pc' = [pc EXCEPT ![c] = "timed"]
    /\ when' = [when EXCEPT ![c] = now + PerSeconds]
    /\ clash' = clash \cup {key[d] : d \in {d \in InProgress : key[d] = key[c]}}
    /\ UNCHANGED <<now, hits, key, kept>>

Sample(c) ==
    /\ pc[c] = "idle"
    /\ Cardinality(InProgress) < Threads
    /\ pc' = [pc EXCEPT ![c] = "timed"]
    /\ when' = [when EXCEPT ![c] = now]
    /\ clash' = clash \cup {key[d] : d \in {d \in InProgress : key[d] = key[c]}}
    /\ UNCHANGED <<now, hits, key, kept>>

\* Mutant: hits of the youngest second of the window only.
LoadTooFew(c) ==
    /\ pc[c] = "timed"
    /\ pc' = [pc EXCEPT ![c] = "loaded"]
    /\ kept' = [kept EXCEPT ![c] = {h \in hits[key[c]] : when[c] - when[h] < PerSeconds - 1}]
    /\ UNCHANGED <<now, hits, key, when, clash>>

\* Mutant: a hit at the very end of the window is still in it.
LoadTooMany(c) ==
    /\ pc[c] = "timed"
    /\ pc' = [pc EXCEPT ![c] = "loaded"]
    /\ kept' = [kept EXCEPT ![c] = {h \in hits[key[c]] : when[c] - when[h] <= PerSeconds}]
    /\ UNCHANGED <<now, hits, key, when, clash>>

Load(c) ==
    /\ pc[c] = "timed"
    /\ pc' = [pc EXCEPT ![c] = "loaded"]
    /\ kept' = [kept EXCEPT ![c] = Within(hits[key[c]], when[c])]
    /\ UNCHANGED <<now, hits, key, when, clash>>

\* The window is full: the filtered copy is stored, the call turned away.
Refuse(c) ==
    /\ pc[c] = "loaded"
    /\ Cardinality(kept[c]) >= MaxCalls
    /\ hits' = [hits EXCEPT ![key[c]] = kept[c]]
    /\ pc' = [pc EXCEPT ![c] = "refused"]
    /\ UNCHANGED <<now, key, when, kept, clash>>

Admit(c) ==
    /\ pc[c] = "loaded"
    /\ Cardinality(kept[c]) < MaxCalls
    /\ hits' = [hits EXCEPT ![key[c]] = kept[c] \cup {c}]
    /\ pc' = [pc EXCEPT ![c] = "admitted"]
    /\ UNCHANGED <<now, key, when, kept, clash>>

Tick ==
    /\ now < MaxTime
    /\ now' = now + 1
    /\ UNCHANGED <<hits, pc, key, when, kept, clash>>

Check(c) == Sample(c) \/ Load(c) \/ Refuse(c) \/ Admit(c)

Next == Tick \/ \E c \in Checks : Check(c)

Spec == Init /\ [][Next]_vars

-----------------------------------------------------------------------------
TypeOK ==
    /\ now \in 0..MaxTime
    /\ hits \in [Keys -> SUBSET Checks]
    /\ pc \in [Checks -> {"idle", "timed", "loaded", "refused", "admitted"}]
    /\ key \in [Checks -> Keys]
    /\ when \in [Checks -> 0..MaxTime]
    /\ kept \in [Checks -> SUBSET Checks]
    /\ clash \subseteq Keys

Bounded(k) ==
    \A c \in Admitted(k) :
        Cardinality({d \in Within(Admitted(k), when[c]) : when[d] <= when[c]}) <= MaxCalls

\* No window of per_seconds sees more than max_calls admissions of a key, as long
\* as calls of that key come one after the other; calls of other keys may do
\* what they like to the dictionary meanwhile.
SerialWindowBound == \A k \in Keys \ clash : Bounded(k)

\* The same of every key: what the comment above the limiter claims of any
\* process, however many threads it has.
WindowBound == \A k \in Keys : Bounded(k)

\* A call is turned away only when max_calls calls of its key were admitted
\* within the window, whatever other threads do to the dictionary.
RefusalJustified ==
    \A c \in Checks : pc[c] = "refused" =>
        Cardinality(Within(Admitted(key[c]), when[c])) >= MaxCalls
=============================================================================
