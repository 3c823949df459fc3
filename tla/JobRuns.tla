------------------------------ MODULE JobRuns ------------------------------
(***************************************************************************)
(* aj_shared.suite: the job records of start_job, finish_job and           *)
(* interrupt_stale_job, over the attempts at one logical operation.        *)
(*                                                                         *)
(* The helpers are pure: each takes a record and returns a new one, or     *)
(* raises.  The application stores the records, runs the attempts one      *)
(* after the other, and sweeps the store for runs that have gone stale;    *)
(* a worker may die, or go on after the sweep has given it up.  Whoever    *)
(* reads a record stores the new one later: worker and sweep each go by a  *)
(* copy, and one may overwrite what the other stored meanwhile.  They read *)
(* clocks of their own, none ahead of now and none more than Skew behind.  *)
(***************************************************************************)
EXTENDS Integers

CONSTANTS
    Attempts,    \* how many attempts are made at most
    StaleAfter,  \* stale_after_seconds
    Skew,        \* how far clocks are behind
    MaxTime      \* bound on the clock

ASSUME AttemptAssumption == Attempts \in Nat
ASSUME TimeAssumption == StaleAfter \in Nat \ {0} /\ Skew \in Nat /\ MaxTime \in Nat

VARIABLES
    now,       \* the time
    jobs,      \* the stored record of each attempt
    mine,      \* what its worker takes for the record
    seen,      \* what the sweep has read of it
    alive,     \* attempts whose worker runs
    succeeded  \* when which attempt was stored as succeeded, at any time so far

vars == <<now, jobs, mine, seen, alive, succeeded>>

Nth == 1..Attempts
None == -1
Times == 0..MaxTime

\* "failed" stands for "partial" and "cancelled" too: no rule tells them apart.
Outcomes == {"succeeded", "failed", "interrupted"}

\* The fields of a record on which the others depend.
Jobs == [state : {"running"} \cup Outcomes, start : Times,
         finish : Times \cup {None}, last : Times \cup {None}]

NoJob == [state |-> "none", start |-> None, finish |-> None, last |-> None]

Clocks == {t \in Times : t \in (now - Skew)..now}

\* Mutant: the last success is not compared with the start.
ValidAnyFreshness(j) ==
    /\ IF j.state = "running" THEN j.finish = None
       ELSE j.finish # None /\ j.finish >= j.start
    /\ j.state = "succeeded" => j.last = j.finish

\* What validate_job asks of the times of a record that has been started.
Valid(j) ==
    /\ IF j.state = "running" THEN j.finish = None
       ELSE j.finish # None /\ j.finish >= j.start
    /\ j.state = "succeeded" => j.last = j.finish
    /\ j.state # "succeeded" /\ j.last # None => j.last < j.start

Started(t, last) == [state |-> "running", start |-> t, finish |-> None, last |-> last]

\* Mutant: a run is dated by its start.
FinishedAtStart(j, s, t) ==
    [j EXCEPT !.state = s, !.finish = j.start, !.last = IF s = "succeeded" THEN j.start ELSE @]

Finished(j, s, t) ==
    [j EXCEPT !.state = s, !.finish = t,
              !.last = IF s = "succeeded" THEN t ELSE @]

\* finish_job(j, s, now=t) returns: it raises unless the job is running and the
\* record that comes out is valid.
MayFinish(j, s, t) == j.state = "running" /\ Valid(Finished(j, s, t))

-----------------------------------------------------------------------------
Init ==
    /\ now = 0
    /\ jobs = [a \in Nth |-> NoJob]
    /\ mine = [a \in Nth |-> NoJob]
    /\ seen = [a \in Nth |-> NoJob]
    /\ alive = {}
    /\ succeeded = {}

Store(a, j) == jobs' = [jobs EXCEPT ![a] = j]

\* A first attempt, or one after the previous has ended, which hands on the last
\* success.  start_job raises if that is not before the start.
Start(a) ==
    /\ jobs[a] = NoJob
    /\ a > 1 => jobs[a - 1].state \in Outcomes
    /\ \E t \in Clocks :
          LET j == Started(t, IF a = 1 THEN None ELSE jobs[a - 1].last) IN
          /\ Valid(j)
          /\ Store(a, j)
          /\ mine' = [mine EXCEPT ![a] = j]
    /\ alive' = alive \cup {a}
    /\ UNCHANGED <<now, seen, succeeded>>

\* The worker reads the store, as it may before it finishes.
Reread(a) ==
    /\ a \in alive
    /\ mine' = [mine EXCEPT ![a] = jobs[a]]
    /\ UNCHANGED <<now, jobs, seen, alive, succeeded>>

Finish(a) ==
    /\ a \in alive
    /\ \E s \in Outcomes \ {"interrupted"}, t \in Clocks :
          /\ MayFinish(mine[a], s, t)
          /\ Store(a, Finished(mine[a], s, t))
          /\ succeeded' = succeeded \cup (IF s = "succeeded" THEN {<<a, t>>} ELSE {})
    /\ alive' = alive \ {a}
    /\ UNCHANGED <<now, mine, seen>>

\* The process that runs the attempt ends without a word.
Crash(a) ==
    /\ a \in alive
    /\ alive' = alive \ {a}
    /\ UNCHANGED <<now, jobs, mine, seen, succeeded>>

\* The sweep reads a record that says "running".
Look(a) ==
    /\ jobs[a].state = "running"
    /\ seen[a] # jobs[a]
    /\ seen' = [seen EXCEPT ![a] = jobs[a]]
    /\ UNCHANGED <<now, jobs, mine, alive, succeeded>>

Swept(a) == seen' = [seen EXCEPT ![a] = NoJob] /\ UNCHANGED <<now, mine, alive, succeeded>>

\* Mutant: the difference is taken the wrong way round.
SweepNever(a) ==
    /\ seen[a].state = "running"
    /\ \E t \in Clocks :
          /\ seen[a].start - t > StaleAfter
          /\ MayFinish(seen[a], "interrupted", t)
          /\ Store(a, Finished(seen[a], "interrupted", t))
    /\ Swept(a)

\* Mutant: the sweep writes a state of its own.
SweepStale(a) ==
    /\ seen[a].state = "running"
    /\ \E t \in Clocks :
          /\ t - seen[a].start > StaleAfter
          /\ Store(a, Finished(seen[a], "stale", t))
    /\ Swept(a)

\* interrupt_stale_job of what was read, once it is stale.
Sweep(a) ==
    /\ seen[a].state = "running"
    /\ \E t \in Clocks :
          /\ t - seen[a].start > StaleAfter
          /\ MayFinish(seen[a], "interrupted", t)
          /\ Store(a, Finished(seen[a], "interrupted", t))
    /\ Swept(a)

Tick ==
    /\ now < MaxTime
    /\ now' = now + 1
    /\ UNCHANGED <<jobs, mine, seen, alive, succeeded>>

Next ==
    \/ Tick
    \/ \E a \in Nth : Start(a) \/ Reread(a) \/ Finish(a) \/ Crash(a) \/ Look(a) \/ Sweep(a)

\* Time passes, and the application sweeps.
Fairness == WF_vars(Tick) /\ \A a \in Nth : WF_vars(Look(a)) /\ WF_vars(Sweep(a))

Spec == Init /\ [][Next]_vars /\ Fairness

-----------------------------------------------------------------------------
TypeOK ==
    /\ now \in Times
    /\ jobs \in [Nth -> Jobs \cup {NoJob}]
    /\ mine \in [Nth -> Jobs \cup {NoJob}]
    /\ seen \in [Nth -> Jobs \cup {NoJob}]
    /\ alive \subseteq Nth
    /\ succeeded \subseteq Nth \X Times

\* The last success a record speaks of happened: this attempt or an earlier one was
\* stored as succeeded then.  Crashes, a sweep that is late and workers that come back
\* after it may overwrite one another's records, but cannot make freshness up.
FreshnessTruthful ==
    \A a \in Nth : jobs[a].last # None =>
        \E b \in 1..a : <<b, jobs[a].last>> \in succeeded

\* A success is later than the one it takes the place of, though clocks disagree.
SuccessAdvances ==
    [][\A a \in Nth :
          jobs[a] # NoJob /\ jobs[a].state # "succeeded" /\ jobs'[a].state = "succeeded"
             => jobs'[a].last > jobs[a].last]_vars

\* A run whose worker died does not stay "running" for ever: it is swept, at least
\* when the clock still has StaleAfter ticks to go.
RunsEnd ==
    \A a \in Nth :
        jobs[a].state = "running" /\ jobs[a].start + StaleAfter < MaxTime
           ~> jobs[a].state \in Outcomes
=============================================================================
