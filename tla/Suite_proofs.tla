---------------------------- MODULE Suite_proofs ----------------------------
(***************************************************************************)
(* Proofs about aj_shared.suite, whose parts share no state: about JobRuns *)
(* for any number of attempts, copies however old, and clocks; about       *)
(* AuditedWrite for all sets of calls and connections, local and remote,   *)
(* and both kinds of adapter; about Contracts for all payloads.            *)
(***************************************************************************)
EXTENDS JobRuns, AuditedWrite, Contracts, TLAPS

-----------------------------------------------------------------------------
(* Job records.                                                            *)

(* The inductive invariant.  Worker and sweep store what they make of      *)
(* copies that may be out of date, so it asks of every copy what it asks   *)
(* of the stored record, and that the copy tells of the same start.        *)

\* The success a record hands on is one of an attempt up to a.
Backed(last, a, successes) ==
    last # None => \E b \in 1..a : <<b, last>> \in successes

\* A record of a that has not succeeded tells of an earlier attempt, from before it
\* began; one that has tells of itself.
Truthful(j, a, successes) ==
    /\ j \in Jobs
    /\ j.state # "succeeded" => /\ Backed(j.last, a - 1, successes)
                                /\ j.last # None => j.last < j.start
    /\ j.state = "succeeded" => <<a, j.last>> \in successes

Copy(j, a) ==
    j # NoJob =>
        jobs[a] # NoJob /\ Truthful(j, a, succeeded) /\ j.start = jobs[a].start

JobInv ==
    /\ TypeOK
    /\ \A a \in Nth : Copy(jobs[a], a) /\ Copy(mine[a], a) /\ Copy(seen[a], a)

-----------------------------------------------------------------------------
LEMMA NoJobIsNone == NoJob \notin Jobs /\ None \notin Times
  BY DEF NoJob, Jobs, Times, None

LEMMA InitJobInv == Init => JobInv
  <1> SUFFICES ASSUME Init
               PROVE  JobInv
    OBVIOUS
  <1>1. TypeOK
    BY TimeAssumption DEF Init, TypeOK, Times
  <1>2. \A a \in Nth : Copy(jobs[a], a) /\ Copy(mine[a], a) /\ Copy(seen[a], a)
    BY DEF Init, Copy
  <1> QED  BY <1>1, <1>2 DEF JobInv

\* What a running record becomes.
LEMMA FinishedRecord ==
    ASSUME NEW j \in Jobs, j.state = "running", NEW s \in Outcomes, NEW t \in Times
    PROVE  /\ Finished(j, s, t) \in Jobs
           /\ Finished(j, s, t).state = s
           /\ Finished(j, s, t).start = j.start
           /\ Finished(j, s, t).finish = t
           /\ s = "succeeded" => Finished(j, s, t).last = t
           /\ s # "succeeded" => Finished(j, s, t).last = j.last
  BY DEF Finished, Jobs

\* What is true of the successes so far stays true when more are added.
LEMMA TruthfulGrows ==
    ASSUME NEW j, NEW a, NEW before, NEW after, before \subseteq after,
           Truthful(j, a, before)
    PROVE  Truthful(j, a, after)
  BY DEF Truthful, Backed

\* A truthful record is truthful when it has ended, its own success among the others.
LEMMA FinishedIsTruthful ==
    ASSUME NEW j, j.state = "running", NEW a, NEW before, NEW after,
           Truthful(j, a, before), before \subseteq after,
           NEW s \in Outcomes, NEW t \in Times, s = "succeeded" => <<a, t>> \in after
    PROVE  Truthful(Finished(j, s, t), a, after)
  <1>1. Truthful(j, a, after) /\ j \in Jobs
    BY TruthfulGrows DEF Truthful
  <1> QED  BY <1>1, FinishedRecord DEF Truthful

\* Whoever stores a truthful record with the start of the stored one keeps the
\* invariant, whatever successes are added and whatever copies dropped.
LEMMA StoreKeepsJobInv ==
    ASSUME JobInv, NEW a \in Nth, NEW j, Store(a, j), jobs[a] # NoJob,
           Truthful(j, a, succeeded'), j.start = jobs[a].start,
           now' = now, alive' \subseteq Nth, mine' = mine,
           seen' \in [Nth -> Jobs \cup {NoJob}],
           \A b \in Nth : seen'[b] = seen[b] \/ seen'[b] = NoJob,
           succeeded \subseteq succeeded', succeeded' \subseteq Nth \X Times
    PROVE  JobInv'
  <1>1. j \in Jobs /\ j # NoJob
    BY NoJobIsNone DEF Truthful
  <1>2. TypeOK'
    BY <1>1 DEF JobInv, TypeOK, Store
  <1>3. jobs'[a] = j /\ \A b \in Nth \ {a} : jobs'[b] = jobs[b]
    BY DEF JobInv, TypeOK, Store
  <1>4. ASSUME NEW b \in Nth, NEW c, Copy(c, b), c # NoJob
        PROVE  /\ jobs'[b] # NoJob
               /\ Truthful(c, b, succeeded')
               /\ c.start = jobs'[b].start
    <2>1. jobs[b] # NoJob /\ Truthful(c, b, succeeded) /\ c.start = jobs[b].start
      BY <1>4 DEF Copy
    <2> QED  BY <1>1, <1>3, <2>1, TruthfulGrows
  <1>5. ASSUME NEW b \in Nth
        PROVE  Copy(mine[b], b)' /\ Copy(seen[b], b)' /\ Copy(jobs[b], b)'
    <2>1. Copy(mine[b], b) /\ Copy(seen[b], b) /\ Copy(jobs[b], b)
      BY DEF JobInv
    <2>2. Copy(mine[b], b)' /\ Copy(seen[b], b)'
      BY <1>4, <2>1 DEF Copy
    <2>3. Copy(jobs[b], b)'
      <3>1. CASE b = a
        BY <1>1, <1>3, <3>1 DEF Copy
      <3>2. CASE b # a
        BY <1>3, <1>4, <2>1, <3>2 DEF Copy
      <3> QED  BY <3>1, <3>2
    <2> QED  BY <2>2, <2>3
  <1> QED  BY <1>2, <1>5 DEF JobInv

\* What the previous attempt hands on is backed.
LEMMA HandedOn ==
    ASSUME JobInv, NEW a \in Nth, a > 1 => jobs[a - 1].state \in Outcomes
    PROVE  LET last == IF a = 1 THEN None ELSE jobs[a - 1].last
           IN  last \in Times \cup {None} /\ Backed(last, a - 1, succeeded)
  <1>1. CASE a = 1
    BY <1>1 DEF Backed
  <1>2. CASE a # 1
    <2>1. a - 1 \in Nth /\ a > 1 /\ a \in Int
      BY <1>2, AttemptAssumption DEF Nth
    <2>2. jobs[a - 1] # NoJob
      BY <2>1 DEF NoJob, Outcomes
    <2>3. Truthful(jobs[a - 1], a - 1, succeeded)
      BY <2>1, <2>2 DEF JobInv, Copy
    <2>4. jobs[a - 1].last \in Times \cup {None}
      BY <2>3 DEF Truthful, Jobs
    <2>5. Backed(jobs[a - 1].last, a - 1, succeeded)
      BY <2>1, <2>3 DEF Truthful, Backed
    <2> QED  BY <1>2, <2>4, <2>5
  <1> QED  BY <1>1, <1>2

LEMMA StartKeepsJobInv ==
    ASSUME JobInv, NEW a \in Nth, Start(a)
    PROVE  JobInv'
  <1>0. PICK last : last = IF a = 1 THEN None ELSE jobs[a - 1].last
    OBVIOUS
  <1>1. PICK t \in Clocks :
           /\ Valid(Started(t, last)) /\ Store(a, Started(t, last))
           /\ mine' = [mine EXCEPT ![a] = Started(t, last)]
    BY <1>0 DEF Start
  <1>2. /\ jobs[a] = NoJob /\ alive' = alive \cup {a} /\ UNCHANGED <<now, seen, succeeded>>
        /\ a > 1 => jobs[a - 1].state \in Outcomes
    BY DEF Start
  <1>3. t \in Times
    BY DEF Clocks
  <1>4. last \in Times \cup {None} /\ Backed(last, a - 1, succeeded)
    BY <1>0, <1>2, HandedOn
  <1>5. /\ Started(t, last) \in Jobs
        /\ Started(t, last).state = "running"
        /\ Started(t, last).last = last /\ Started(t, last).start = t
        /\ Started(t, last).finish = None
    BY <1>3, <1>4 DEF Started, Jobs
  <1> DEFINE j == Started(t, last)
  <1> HIDE DEF j
  <1>6. j # NoJob /\ Truthful(j, a, succeeded)
    <2>1. last # None => last < t
      BY <1>1, <1>5 DEF Valid
    <2> QED  BY <1>4, <1>5, <2>1, NoJobIsNone DEF Truthful, j
  <1>7. /\ jobs'[a] = j /\ mine'[a] = j
        /\ \A b \in Nth \ {a} : jobs'[b] = jobs[b] /\ mine'[b] = mine[b]
    BY <1>1 DEF Store, JobInv, TypeOK, j
  <1>8. TypeOK'
    BY <1>1, <1>2, <1>5 DEF Store, JobInv, TypeOK
  <1>9. ASSUME NEW b \in Nth
        PROVE  Copy(jobs[b], b)' /\ Copy(mine[b], b)' /\ Copy(seen[b], b)'
    <2>1. Copy(jobs[b], b) /\ Copy(mine[b], b) /\ Copy(seen[b], b)
      BY DEF JobInv
    <2>2. CASE b = a
      <3>1. seen[a] = NoJob
        BY <1>2, <2>1, <2>2 DEF Copy
      <3> QED  BY <1>2, <1>6, <1>7, <2>2, <3>1 DEF Copy
    <2>3. CASE b # a
      BY <1>2, <1>7, <2>1, <2>3 DEF Copy
    <2> QED  BY <2>2, <2>3
  <1> QED  BY <1>8, <1>9 DEF JobInv

\* Taking a copy keeps the invariant.
LEMMA ReadKeepsJobInv ==
    ASSUME JobInv, NEW a \in Nth, Reread(a) \/ Look(a)
    PROVE  JobInv'
  <1>1. TypeOK'
    BY DEF Reread, Look, JobInv, TypeOK
  <1>2. ASSUME NEW b \in Nth
        PROVE  /\ jobs'[b] = jobs[b] /\ succeeded' = succeeded
               /\ mine'[b] = mine[b] \/ mine'[b] = jobs[b]
               /\ seen'[b] = seen[b] \/ seen'[b] = jobs[b]
    BY DEF Reread, Look, JobInv, TypeOK
  <1>3. ASSUME NEW b \in Nth
        PROVE  Copy(jobs[b], b)' /\ Copy(mine[b], b)' /\ Copy(seen[b], b)'
    <2>1. Copy(jobs[b], b) /\ Copy(mine[b], b) /\ Copy(seen[b], b)
      BY DEF JobInv
    <2> QED  BY <1>2, <2>1 DEF Copy
  <1> QED  BY <1>1, <1>3 DEF JobInv

LEMMA FinishKeepsJobInv ==
    ASSUME JobInv, NEW a \in Nth, Finish(a)
    PROVE  JobInv'
  <1>1. PICK s \in Outcomes \ {"interrupted"}, t \in Clocks :
           /\ MayFinish(mine[a], s, t) /\ Store(a, Finished(mine[a], s, t))
           /\ succeeded' = succeeded \cup (IF s = "succeeded" THEN {<<a, t>>} ELSE {})
    BY DEF Finish
  <1>2. alive' = alive \ {a} /\ UNCHANGED <<now, mine, seen>>
    BY DEF Finish
  <1>3. mine[a].state = "running" /\ mine[a] # NoJob /\ t \in Times
    BY <1>1 DEF MayFinish, Clocks, NoJob
  <1>4. Truthful(mine[a], a, succeeded) /\ mine[a].start = jobs[a].start /\ jobs[a] # NoJob
    BY <1>3 DEF JobInv, Copy
  <1>5. Truthful(Finished(mine[a], s, t), a, succeeded')
    BY <1>1, <1>3, <1>4, FinishedIsTruthful
  <1>6. Finished(mine[a], s, t).start = jobs[a].start
    BY <1>3, <1>4, FinishedRecord DEF Truthful
  <1>7. succeeded' \subseteq Nth \X Times /\ alive' \subseteq Nth /\ seen \in [Nth -> Jobs \cup {NoJob}]
    BY <1>1, <1>2, <1>3 DEF JobInv, TypeOK
  <1> QED  BY <1>1, <1>2, <1>4, <1>5, <1>6, <1>7, StoreKeepsJobInv

LEMMA SweepKeepsJobInv ==
    ASSUME JobInv, NEW a \in Nth, Sweep(a)
    PROVE  JobInv'
  <1>1. PICK t \in Clocks : Store(a, Finished(seen[a], "interrupted", t))
    BY DEF Sweep
  <1>2. /\ seen[a].state = "running" /\ seen' = [seen EXCEPT ![a] = NoJob]
        /\ UNCHANGED <<now, mine, alive, succeeded>>
    BY DEF Sweep, Swept
  <1>3. seen[a] # NoJob /\ t \in Times /\ "interrupted" \in Outcomes
    BY <1>2 DEF Clocks, NoJob, Outcomes
  <1>4. Truthful(seen[a], a, succeeded) /\ seen[a].start = jobs[a].start /\ jobs[a] # NoJob
    BY <1>3 DEF JobInv, Copy
  <1>5. Truthful(Finished(seen[a], "interrupted", t), a, succeeded')
    BY <1>2, <1>3, <1>4, FinishedIsTruthful
  <1>6. Finished(seen[a], "interrupted", t).start = jobs[a].start
    BY <1>2, <1>3, <1>4, FinishedRecord DEF Truthful
  <1>7. /\ succeeded' \subseteq Nth \X Times /\ alive' \subseteq Nth
        /\ seen' \in [Nth -> Jobs \cup {NoJob}]
        /\ \A b \in Nth : seen'[b] = seen[b] \/ seen'[b] = NoJob
    BY <1>2 DEF JobInv, TypeOK
  <1> QED  BY <1>1, <1>2, <1>4, <1>5, <1>6, <1>7, StoreKeepsJobInv

\* Time and the end of a worker touch no record.
LEMMA SameRecords ==
    ASSUME JobInv, UNCHANGED <<jobs, mine, seen, succeeded>>, now' \in Times, alive' \subseteq Nth
    PROVE  JobInv'
  <1>1. TypeOK'
    BY DEF JobInv, TypeOK
  <1>2. \A a \in Nth : Copy(jobs[a], a)' /\ Copy(mine[a], a)' /\ Copy(seen[a], a)'
    BY DEF JobInv, Copy
  <1> QED  BY <1>1, <1>2 DEF JobInv

LEMMA NextKeepsJobInv == JobInv /\ [Next]_vars => JobInv'
  <1> SUFFICES ASSUME JobInv, [Next]_vars
               PROVE  JobInv'
    OBVIOUS
  <1>1. CASE Tick
    BY <1>1, SameRecords, TimeAssumption DEF Tick, JobInv, TypeOK, Times
  <1>2. ASSUME NEW a \in Nth, Start(a) \/ Reread(a) \/ Finish(a) \/ Look(a) \/ Sweep(a)
        PROVE  JobInv'
    BY <1>2, StartKeepsJobInv, ReadKeepsJobInv, FinishKeepsJobInv, SweepKeepsJobInv
  <1>3. ASSUME NEW a \in Nth, Crash(a)
        PROVE  JobInv'
    BY <1>3, SameRecords DEF Crash, JobInv, TypeOK
  <1>4. CASE UNCHANGED vars
    BY <1>4, SameRecords DEF vars, JobInv, TypeOK
  <1> QED  BY <1>1, <1>2, <1>3, <1>4 DEF Next

LEMMA JobInvHolds == Spec => []JobInv
  BY InitJobInv, NextKeepsJobInv, PTL DEF Spec

\* The stored records and every copy of them keep their types.
THEOREM JobTypesCorrect == Spec => []TypeOK
  <1>1. JobInv => TypeOK
    BY DEF JobInv
  <1> QED  BY <1>1, JobInvHolds, PTL

\* The last success a record speaks of happened, whatever workers and sweeps overwrite.
THEOREM FreshnessIsTruthful == Spec => []FreshnessTruthful
  <1>1. ASSUME JobInv, NEW a \in Nth, jobs[a].last # None
        PROVE  \E b \in 1..a : <<b, jobs[a].last>> \in succeeded
    <2>1. Truthful(jobs[a], a, succeeded)
      BY <1>1 DEF JobInv, Copy, NoJob
    <2>2. a \in 1..a /\ 1..(a - 1) \subseteq 1..a
      BY AttemptAssumption DEF Nth
    <2> QED  BY <1>1, <2>1, <2>2 DEF Truthful, Backed
  <1>2. JobInv => FreshnessTruthful
    BY <1>1 DEF FreshnessTruthful
  <1> QED  BY <1>2, JobInvHolds, PTL

\* A success is later than the one it takes the place of: finish_job refuses an end
\* before the start, and start_job a last success that is not before it.
THEOREM SuccessOnlyAdvances == Spec => SuccessAdvances
  <1>1. ASSUME JobInv, [Next]_vars, NEW a \in Nth, jobs[a] # NoJob,
               jobs[a].state # "succeeded", jobs'[a].state = "succeeded"
        PROVE  jobs'[a].last > jobs[a].last
    <2>1. /\ jobs[a] \in Jobs
          /\ jobs[a].last = None \/ jobs[a].last < jobs[a].start
      BY <1>1 DEF JobInv, Copy, Truthful
    <2>2. ASSUME NEW b \in Nth, Start(b)
          PROVE  FALSE
      BY <1>1, <2>2 DEF Start, Store, Started, JobInv, TypeOK
    <2>3. ASSUME NEW b \in Nth, Finish(b)
          PROVE  jobs'[a].last > jobs[a].last
      <3>1. PICK s \in Outcomes, t \in Clocks :
               MayFinish(mine[b], s, t) /\ Store(b, Finished(mine[b], s, t))
        BY <2>3 DEF Finish
      <3>2. a = b /\ jobs'[a] = Finished(mine[a], s, t)
        BY <1>1, <3>1 DEF Store, JobInv, TypeOK
      <3>3. mine[a].state = "running" /\ mine[a] # NoJob /\ t \in Times
        BY <3>1, <3>2 DEF MayFinish, NoJob, Clocks
      <3>4. mine[a] \in Jobs /\ mine[a].start = jobs[a].start
        BY <1>1, <3>2, <3>3 DEF JobInv, Copy, Truthful
      <3>5. /\ s = "succeeded" /\ jobs'[a].last = t /\ Finished(mine[a], s, t).finish = t
            /\ Finished(mine[a], s, t).start = jobs[a].start
        BY <1>1, <3>2, <3>3, <3>4, FinishedRecord
      <3>6. t >= jobs[a].start
        BY <1>1, <3>1, <3>2, <3>5 DEF MayFinish, Valid
      <3> QED  BY <2>1, <3>3, <3>5, <3>6 DEF Jobs, Times, None
    <2>4. ASSUME NEW b \in Nth, Sweep(b)
          PROVE  FALSE
      <3>1. PICK t \in Clocks : Store(b, Finished(seen[b], "interrupted", t))
        BY <2>4 DEF Sweep
      <3>2. seen[b].state = "running" /\ seen[b] # NoJob /\ t \in Times
        BY <2>4 DEF Sweep, NoJob, Clocks
      <3>3. seen[b] \in Jobs /\ "interrupted" \in Outcomes
        BY <1>1, <3>2 DEF JobInv, Copy, Truthful, Outcomes
      <3>4. Finished(seen[b], "interrupted", t).state = "interrupted"
        BY <3>2, <3>3, FinishedRecord
      <3> QED  BY <1>1, <3>1, <3>4 DEF Store, JobInv, TypeOK
    <2> QED  BY <1>1, <2>2, <2>3, <2>4 DEF Next, Tick, Crash, Reread, Look, vars
  <1>2. JobInv /\ [Next]_vars =>
          [\A a \in Nth :
              jobs[a] # NoJob /\ jobs[a].state # "succeeded" /\ jobs'[a].state = "succeeded"
                 => jobs'[a].last > jobs[a].last]_vars
    BY <1>1
  <1> QED  BY <1>2, JobInvHolds, PTL DEF Spec, SuccessAdvances

-----------------------------------------------------------------------------
(* Audited writes.                                                         *)

(* The inductive invariant.  The properties speak of the store; what goes  *)
(* into it is what is pending, so the invariant says whose that is.        *)

\* No two calls hold a connection.
Exclusive ==
    \A w, v \in Writes :
        pc[w] \in Held /\ pc[v] \in Held /\ conn[w] = conn[v] => w = v

\* What a call has done so far is pending on its connection, and nowhere else.
OwnersOfPending ==
    \A w \in Writes : \A c \in Conns :
        /\ Change(w) \in pending[c] => /\ pc[w] \in {"written", "audited", "failing", "doubt"}
                                       /\ conn[w] = c
        /\ AuditRecord(w) \in pending[c] => /\ pc[w] \in {"audited", "failing", "doubt"}
                                       /\ conn[w] = c

Complete ==
    \A w \in Writes :
        /\ pc[w] \in {"written", "audited", "doubt"} => Change(w) \in pending[conn[w]]
        /\ pc[w] \in {"audited", "doubt"} => AuditRecord(w) \in pending[conn[w]]

\* Where a call stands and what of it is in the store.
StoreFollows ==
    \A w \in Writes :
        /\ pc[w] \in Held \cup {"idle", "error"} => Change(w) \notin store
        /\ pc[w] \in {"committed", "ok"} => Change(w) \in store

\* The application's own statements stay on their connection, and off one in use.
OwnStays ==
    \A c, d \in Conns :
        Own(d) \in pending[c] => d = c /\ (Reports => ~InUse(c))

AuditInv ==
    /\ AuditedTypeOK
    /\ Exclusive
    /\ OwnersOfPending
    /\ Complete
    /\ StoreFollows
    /\ OwnStays
    /\ AuditedTogether
    /\ NothingSmuggled

-----------------------------------------------------------------------------
\* The three kinds of item are distinct, and each names its call or connection.
LEMMA ItemsDistinct ==
    /\ \A w, v \in Writes : /\ Change(w) = Change(v) => w = v
                            /\ AuditRecord(w) = AuditRecord(v) => w = v
                            /\ Change(w) # AuditRecord(v)
    /\ \A c, d \in Conns : Own(c) = Own(d) => c = d
    /\ \A w \in Writes, c \in Conns : Change(w) # Own(c) /\ AuditRecord(w) # Own(c)
    /\ \A w \in Writes : Change(w) \in Items /\ AuditRecord(w) \in Items
    /\ \A c \in Conns : Own(c) \in Items
  BY DEF Change, AuditRecord, Own, Items

\* The invariant holds at first.
LEMMA InitAuditInv == AuditedInit => AuditInv
  BY DEF AuditedInit, AuditInv, AuditedTypeOK, Exclusive, OwnersOfPending, Complete,
     StoreFollows, OwnStays, AuditedTogether, NothingSmuggled, Running, Held, Items

\* What a commit of the call w would store: its write, its record, no one else's, and
\* where transactions are reported nothing of the application's own.
LEMMA PendingOfCall ==
    ASSUME AuditInv, NEW w \in Writes, pc[w] \in {"audited", "doubt"}
    PROVE  /\ conn[w] \in Conns /\ Change(w) \notin store
           /\ \A v \in Writes : /\ Change(v) \in pending[conn[w]] <=> v = w
                                /\ AuditRecord(v) \in pending[conn[w]] <=> v = w
           /\ Reports => \A c \in Conns : Own(c) \notin pending[conn[w]]
  BY DEF AuditInv, AuditedTypeOK, Exclusive, OwnersOfPending, Complete, StoreFollows, OwnStays,
     Held, Running, InUse

\* It holds after a step of a call.  The steps that matter are those that commit: they
\* put in the store the write and the record of the one call on this connection.
LEMMA CallKeepsAuditInv ==
    ASSUME AuditInv, NEW w \in Writes, Call(w)
    PROVE  AuditInv'
  <1> USE ItemsDistinct
      DEF AuditInv, AuditedTypeOK, Exclusive, OwnersOfPending, Complete, StoreFollows, OwnStays,
          AuditedTogether, NothingSmuggled, Goto, Add, Running, Held, InUse
  <1>1. CASE Reject(w)
    BY <1>1 DEF Reject
  <1>2. CASE Enter(w)
    BY <1>2 DEF Enter, InTransaction
  <1>3. CASE Write(w)
    BY <1>3 DEF Write
  <1>4. CASE Audit(w)
    BY <1>4 DEF Audit
  <1>5. CASE WriteRaises(w)
    BY <1>5 DEF WriteRaises
  <1>6. CASE AuditRaises(w)
    BY <1>6 DEF AuditRaises
  <1>7. CASE Rollback(w)
    BY <1>7 DEF Rollback
  <1>8. ASSUME pc[w] \in {"audited", "doubt"}, store' = store \cup pending[conn[w]],
               pending' = [pending EXCEPT ![conn[w]] = {}],
               pc' = [pc EXCEPT ![w] = IF pc[w] = "audited" THEN "committed" ELSE "settled"],
               UNCHANGED <<conn, approved>>
        PROVE  AuditInv'
    <2>1. conn[w] \in Conns
      BY <1>8, PendingOfCall
    <2>2. \A v \in Writes :
             /\ Change(v) \in pending[conn[w]] <=> v = w
             /\ AuditRecord(v) \in pending[conn[w]] <=> v = w
      BY <1>8, PendingOfCall
    <2>3. Reports => \A c \in Conns : Own(c) \notin pending[conn[w]]
      BY <1>8, PendingOfCall
    <2>4. AuditedTogether' /\ NothingSmuggled'
      BY <1>8, <2>2, <2>3
    <2>5. StoreFollows'
      BY <1>8, <2>1, <2>2
    <2> QED  BY <1>8, <2>1, <2>4, <2>5
  <1>9. CASE Return(w)
    BY <1>9 DEF Return
  <1>10. CASE Commit(w)
    BY <1>8, <1>10 DEF Commit
  <1>11. CASE CommitUnheard(w)
    BY <1>11 DEF CommitUnheard
  <1>12. CASE Settle(w)
    <2>1. CASE store' = store \cup pending[conn[w]]
      BY <1>8, <1>12, <2>1 DEF Settle
    <2>2. CASE UNCHANGED store
      BY <1>12, <2>2 DEF Settle
    <2> QED  BY <1>12, <2>1, <2>2 DEF Settle
  <1> QED  BY <1>1, <1>2, <1>3, <1>4, <1>5, <1>6, <1>7, <1>9, <1>10, <1>11, <1>12 DEF Call

\* It holds after a step of the application, and after the end of the process.
LEMMA ApplicationKeepsAuditInv ==
    ASSUME AuditInv,
           \/ \E c \in Conns : OwnStatement(c) \/ OwnCommit(c) \/ OwnRollback(c)
           \/ ProcessEnds
    PROVE  AuditInv'
  <1> USE ItemsDistinct
      DEF AuditInv, AuditedTypeOK, Exclusive, OwnersOfPending, Complete, StoreFollows, OwnStays,
          AuditedTogether, NothingSmuggled, Running, Held, InUse
  <1>1. ASSUME NEW c \in Conns, OwnStatement(c)
        PROVE  AuditInv'
    BY <1>1 DEF OwnStatement
  <1>2. ASSUME NEW c \in Conns, OwnCommit(c)
        PROVE  AuditInv'
    <2>1. \A v \in Writes : Change(v) \notin pending[c] /\ AuditRecord(v) \notin pending[c]
      BY <1>2 DEF OwnCommit
    <2> QED  BY <1>2, <2>1 DEF OwnCommit
  <1>3. ASSUME NEW c \in Conns, OwnRollback(c)
        PROVE  AuditInv'
    BY <1>3 DEF OwnRollback
  <1>4. CASE ProcessEnds
    BY <1>4 DEF ProcessEnds
  <1> QED  BY <1>1, <1>2, <1>3, <1>4

LEMMA StutterKeepsAuditInv == AuditInv /\ UNCHANGED auditedVars => AuditInv'
  BY DEF AuditInv, auditedVars, AuditedTypeOK, Exclusive, OwnersOfPending, Complete, StoreFollows,
     OwnStays, AuditedTogether, NothingSmuggled, Running, Held, InUse

LEMMA NextKeepsAuditInv == AuditInv /\ [AuditedNext]_auditedVars => AuditInv'
  BY CallKeepsAuditInv, ApplicationKeepsAuditInv, StutterKeepsAuditInv DEF AuditedNext

LEMMA AuditInvHolds == AuditedSpec => []AuditInv
  BY InitAuditInv, NextKeepsAuditInv, PTL DEF AuditedSpec

\* The state keeps its types.
THEOREM AuditTypesCorrect == AuditedSpec => []AuditedTypeOK
  <1>1. AuditInv => AuditedTypeOK
    BY DEF AuditInv
  <1> QED  BY <1>1, AuditInvHolds, PTL

\* No governed write is ever in the store without its audit record, nor a record
\* without its write.
THEOREM WritesAreAudited == AuditedSpec => []AuditedTogether
  <1>1. AuditInv => AuditedTogether
    BY DEF AuditInv
  <1> QED  BY <1>1, AuditInvHolds, PTL

\* Where the adapter reports open transactions, record_audited_write never commits a
\* statement of the application's own.
THEOREM NothingElseCommitted == AuditedSpec => []NothingSmuggled
  <1>1. AuditInv => NothingSmuggled
    BY DEF AuditInv
  <1> QED  BY <1>1, AuditInvHolds, PTL

-----------------------------------------------------------------------------
(* The refinement: a step of the program is a Commit, a Tell or a stutter  *)
(* of AtomicWrite.                                                         *)

Done == {w \in Writes : Change(w) \in store}
ToldMap == [w \in Writes |-> Told(w)]

\* A step that changes neither the store nor what a caller has been told.
LEMMA Quiet ==
    ASSUME store' = store, \A v \in Writes : Told(v)' = Told(v)
    PROVE  Done' = Done /\ ToldMap' = ToldMap
  BY DEF Done, ToldMap

\* A call that ends tells its caller what AtomicWrite allows.
LEMMA EndIsTell ==
    ASSUME AuditInv, NEW w \in Writes, store' = store, NEW what \in Atomic!Answers,
           pc' = [pc EXCEPT ![w] = what], Told(w) = "nothing",
           what # "doubt" => (what = "ok" <=> Change(w) \in store)
    PROVE  Atomic!Tell(w, what)
  BY DEF Atomic!Tell, Atomic!Answers, AuditInv, AuditedTypeOK, Told

\* A commit for the call w is one of AtomicWrite.
LEMMA CommitIsCommit ==
    ASSUME AuditInv, NEW w \in Writes, pc[w] \in {"audited", "doubt"},
           store' = store \cup pending[conn[w]], \A v \in Writes : Told(v)' = Told(v)
    PROVE  Atomic!AtomicNext
  <1>1. \A v \in Writes : Change(v) \in pending[conn[w]] <=> v = w
    BY PendingOfCall
  <1>2. Done' = Done \cup {w}
    BY <1>1 DEF Done
  <1>3. ToldMap' = ToldMap
    BY DEF ToldMap
  <1>4. ToldMap[w] \in {"nothing", "doubt"}
    BY DEF ToldMap, Told
  <1>5. Atomic!Commit(w)
    BY <1>2, <1>3, <1>4 DEF Atomic!Commit, Done, ToldMap
  <1> QED  BY <1>5 DEF Atomic!AtomicNext

LEMMA StepRefines ==
    ASSUME AuditInv, [AuditedNext]_auditedVars
    PROVE  [Atomic!AtomicNext]_<<Done, ToldMap>>
  <1> USE DEF AuditInv, AuditedTypeOK, Running, Held, Goto, Told
  <1>1. ASSUME NEW w \in Writes, Reject(w) \/ Rollback(w) \/ Return(w) \/ CommitUnheard(w)
        PROVE  Atomic!AtomicNext
    <2>1. \E what \in Atomic!Answers : Atomic!Tell(w, what)
      <3>1. CASE Return(w)
        BY <3>1, EndIsTell DEF Return, StoreFollows, Atomic!Answers
      <3>2. CASE Reject(w) \/ Rollback(w)
        BY <3>2, EndIsTell DEF Reject, Rollback, StoreFollows, Atomic!Answers
      <3>3. CASE CommitUnheard(w)
        BY <3>3, EndIsTell DEF CommitUnheard, Atomic!Answers
      <3> QED  BY <1>1, <3>1, <3>2, <3>3
    <2> QED  BY <2>1 DEF Atomic!AtomicNext
  <1>2. ASSUME NEW w \in Writes, Commit(w)
        PROVE  Atomic!AtomicNext
    BY <1>2, CommitIsCommit DEF Commit
  <1>3. ASSUME NEW w \in Writes,
               Enter(w) \/ Write(w) \/ Audit(w) \/ WriteRaises(w) \/ AuditRaises(w)
        PROVE  Done' = Done /\ ToldMap' = ToldMap
    BY <1>3, Quiet DEF Enter, Write, Audit, WriteRaises, AuditRaises
  <1>4. ASSUME NEW c \in Conns, OwnStatement(c) \/ OwnCommit(c) \/ OwnRollback(c)
        PROVE  Done' = Done /\ ToldMap' = ToldMap
    <2>1. \A v \in Writes : Change(v) \in pending[c] => InUse(c)
      BY DEF OwnersOfPending, InUse
    <2>2. \A v \in Writes : Change(v) \in store' <=> Change(v) \in store
      BY <1>4, <2>1 DEF OwnStatement, OwnCommit, OwnRollback
    <2> QED  BY <1>4, <2>2 DEF Done, ToldMap, OwnStatement, OwnCommit, OwnRollback
  <1>5. CASE ProcessEnds
    BY <1>5, Quiet DEF ProcessEnds
  <1>6. CASE UNCHANGED auditedVars
    BY <1>6, Quiet DEF auditedVars
  <1>7. ASSUME NEW w \in Writes, Settle(w)
        PROVE  Atomic!AtomicNext \/ (Done' = Done /\ ToldMap' = ToldMap)
    <2>1. \A v \in Writes : Told(v)' = Told(v)
      BY <1>7 DEF Settle
    <2>2. CASE store' = store \cup pending[conn[w]]
      BY <1>7, <2>1, <2>2, CommitIsCommit DEF Settle
    <2>3. CASE UNCHANGED store
      BY <2>1, <2>3, Quiet
    <2> QED  BY <1>7, <2>2, <2>3 DEF Settle
  <1> QED  BY <1>1, <1>2, <1>3, <1>4, <1>5, <1>6, <1>7 DEF AuditedNext, Call

\* record_audited_write implements AtomicWrite: the store has a write once its caller
\* is told "ok", and never has it if the caller is told of an error, whatever servers
\* make of commits they do not answer; without a server there is no doubt.
THEOREM AuditedWriteIsAtomic == AuditedSpec => ImplementsAtomicWrite
  <1>1. AuditedInit => Atomic!AtomicInit
    BY DEF AuditedInit, Atomic!AtomicInit, Told
  <1>2. AuditInv /\ [AuditedNext]_auditedVars => [Atomic!AtomicNext]_(Atomic!atomicVars)
    BY StepRefines DEF Atomic!atomicVars, Done, ToldMap
  <1> QED  BY <1>1, <1>2, AuditInvHolds, PTL DEF AuditedSpec, ImplementsAtomicWrite, Atomic!AtomicSpec

-----------------------------------------------------------------------------
(* Payloads: what validate_status and validate_attention promise of what   *)
(* they accept.                                                            *)

\* suite.timestamp accepts the timestamps of the contract and nothing else, though it
\* asks validate_status, which is about more.
THEOREM TimestampIsInstant ==
    ASSUME NEW t
    PROVE  ValidTime(t) <=> t \in Instants
  <1> DEFINE s == StaleAt(t)
  <1>1. /\ s.status = "ok" /\ s.qualifiers = <<"stale">> /\ s.retryable = FALSE
        /\ s.as_of = t /\ s.missing = Absent /\ s.retry_after = Absent
    BY DEF StaleAt
  <1>2. Range(s.qualifiers) = {"stale"} /\ IsInjective(s.qualifiers)
    BY <1>1 DEF Range, IsInjective
  <1>3. ValidTime(t) => t \in Instants
    BY <1>1, <1>2 DEF ValidTime, ValidStatus, Qualified, Has
  <1>4. t \in Instants => ValidTime(t)
    <2>1. Other # <<"stale">>
      BY KindsAssumption DEF DATA_QUALIFIERS
    <2>2. Range(s.qualifiers) \subseteq DATA_QUALIFIERS
      BY <1>2 DEF DATA_QUALIFIERS
    <2>3. Qualified(s, "stale") /\ ~Qualified(s, "partial")
      BY <1>2 DEF Qualified
    <2>4. t \in Instants => t # Absent
      BY KindsAssumption
    <2> HIDE DEF s
    <2>5. t \in Instants => ValidStatus(s)
      BY <1>1, <1>2, <2>1, <2>2, <2>3, <2>4 DEF ValidStatus, REQUEST_OUTCOMES, ListOf, Has
    <2> QED  BY <2>5 DEF ValidTime, s
  <1> QED  BY <1>3, <1>4

\* A provenance that is accepted was not observed after it was fetched, and both
\* instants are known ones.
LEMMA ProvenanceOrdered ==
    ASSUME NEW p, ValidProvenance(p)
    PROVE  /\ p.fetched_at \in Instants
           /\ p.observed_at # Null => /\ p.observed_at \in Instants
                                      /\ p.observed_at <= p.fetched_at
  BY TimestampIsInstant DEF ValidProvenance, NullOrTime

\* The two ways to read a snapshot agree, whatever the payload.
THEOREM ReadingsAlwaysAgree == ReadingsAgree
  <1> SUFFICES ASSUME Accepted
               PROVE  /\ offered.complete <=> /\ offered.status.status \in {"ok", "empty"}
                                              /\ ~Qualified(offered.status, "partial")
                      /\ offered.items # <<>> => offered.status.status = "ok"
    BY DEF ReadingsAgree
  <1> DEFINE outcome == offered.status.status
             partial == Qualified(offered.status, "partial")
  <1>1. Readable(outcome, partial, offered.complete, offered.items)
    BY DEF Accepted, ValidAttention
  <1>2. offered.complete \in BOOLEAN
    BY DEF Accepted, ValidAttention
  <1> QED  BY <1>1, <1>2 DEF Readable
=============================================================================
