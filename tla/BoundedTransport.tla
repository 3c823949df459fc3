-------------------------- MODULE BoundedTransport --------------------------
(***************************************************************************)
(* aj_shared.transport.BoundedTransport: one transport shared by every     *)
(* thread of an application that calls one dependency.                     *)
(*                                                                         *)
(* A call takes a slot without waiting, hands the HTTP exchange to a       *)
(* daemon thread (the worker) and waits for the worker's answer on a       *)
(* one-place queue, no longer than the call's total budget.  The worker    *)
(* gives the slot back when it exits, which may be long after the caller   *)
(* went home with a timeout; the dependency may apply a write at any time  *)
(* after the request was sent, so even after that.                         *)
(*                                                                         *)
(* One element of Calls is one invocation of request(): its caller, its    *)
(* worker and the dependency are three actors that interleave freely.      *)
(* Bodies, sizes and clocks are abstracted to the tests the code makes on  *)
(* them: a chunk over the size bound, the deadline having passed.          *)
(***************************************************************************)
EXTENDS Integers, FiniteSets

CONSTANTS
    Calls,         \* invocations of request()
    Writes,        \* those whose method is not GET, HEAD or OPTIONS
    Capacity,      \* policy.capacity
    Statuses,      \* status codes the dependency answers with
    StartMayFail   \* whether Thread.start() may raise ("can't start new thread")

ASSUME CallsAssumption == IsFiniteSet(Calls) /\ Writes \subseteq Calls
ASSUME CapacityAssumption == Capacity \in 1..32
ASSUME StatusAssumption == Statuses \subseteq 200..599
ASSUME StartAssumption == StartMayFail \in BOOLEAN

VARIABLES
    slots,    \* permits left in the semaphore self._slots
    pc,       \* where the thread that called request() stands
    worker,   \* where the daemon thread of the call stands
    expired,  \* the call's deadline has passed
    queue,    \* the one-place queue between worker and caller
    result,   \* what request() returned
    reply,    \* status line the dependency sent, 0 if none
    applied   \* the dependency has carried out the write

vars == <<slots, pc, worker, expired, queue, result, reply, applied>>

-----------------------------------------------------------------------------
(* What request() returns: the failure bodies and the success.             *)

FailureCodes == {"invalid_destination", "capacity", "redirect",
                 "unauthenticated", "forbidden", "rate_limited", "unavailable",
                 "oversized", "timeout", "invalid_response", "rejected"}

RetryableCodes == {"timeout", "capacity", "unavailable", "rate_limited"}

Responses == [code : FailureCodes \cup {"none", "ok"}, status : 0..599,
              retryable : BOOLEAN, unknown : BOOLEAN]

Nothing == [code |-> "none", status |-> 0, retryable |-> FALSE, unknown |-> FALSE]

Failure(c, code, status, ambiguous) ==
    [code |-> code, status |-> status,
     retryable |-> c \notin Writes /\ code \in RetryableCodes,
     unknown |-> c \in Writes /\ ambiguous]

\* failure(code, status) and failure(code, status, ambiguous=True).
Definite(c, code, status) == Failure(c, code, status, FALSE)
Ambiguous(c, code, status) == Failure(c, code, status, TRUE)

Success(s) == [code |-> "ok", status |-> s, retryable |-> FALSE, unknown |-> FALSE]

Redirects == 300..399
ServerErrors == 500..599

\* Status codes the worker turns into a failure without reading the body.
FailsAtOnce(s) == s \in Redirects \cup ServerErrors \cup {401, 403, 429}

Refusal(s) ==
    CASE s = 401 -> "unauthenticated"
      [] s = 403 -> "forbidden"
      [] OTHER   -> "rate_limited"

\* Mutant: a server error is taken for a refusal of the write.
FailureForCertain(c, s) ==
    IF s \in Redirects THEN Definite(c, "redirect", 502)
    ELSE IF s \in ServerErrors THEN Definite(c, "unavailable", s)
    ELSE Definite(c, Refusal(s), s)

FailureFor(c, s) ==
    IF s \in Redirects THEN Definite(c, "redirect", 502)
    ELSE IF s \in ServerErrors THEN Ambiguous(c, "unavailable", s)
    ELSE Definite(c, Refusal(s), s)

-----------------------------------------------------------------------------
Init ==
    /\ slots = Capacity
    /\ pc = [c \in Calls |-> "idle"]
    /\ worker = [c \in Calls |-> "none"]
    /\ expired = [c \in Calls |-> FALSE]
    /\ queue = [c \in Calls |-> Nothing]
    /\ result = [c \in Calls |-> Nothing]
    /\ reply = [c \in Calls |-> 0]
    /\ applied = [c \in Calls |-> FALSE]

(* The calling thread.                                                     *)

Return(c, r) ==
    /\ pc' = [pc EXCEPT ![c] = "done"]
    /\ result' = [result EXCEPT ![c] = r]

\* The destination is not a plain http(s) URL: no slot is taken.
Reject(c) ==
    /\ pc[c] = "idle"
    /\ Return(c, Definite(c, "invalid_destination", 502))
    /\ UNCHANGED <<slots, worker, expired, queue, reply, applied>>

\* The non-blocking acquire fails.
Refuse(c) ==
    /\ pc[c] = "idle"
    /\ slots = 0
    /\ Return(c, Definite(c, "capacity", 502))
    /\ UNCHANGED <<slots, worker, expired, queue, reply, applied>>

\* Mutant: acquire without a look at the permits.
AcquireAnyway(c) ==
    /\ pc[c] = "idle"
    /\ slots' = slots - 1
    /\ pc' = [pc EXCEPT ![c] = "acquired"]
    /\ UNCHANGED <<worker, expired, queue, result, reply, applied>>

\* The acquire succeeds; the queue and the deadline are made.
Acquire(c) ==
    /\ pc[c] = "idle"
    /\ slots > 0
    /\ slots' = slots - 1
    /\ pc' = [pc EXCEPT ![c] = "acquired"]
    /\ UNCHANGED <<worker, expired, queue, result, reply, applied>>

Start(c) ==
    /\ pc[c] = "acquired"
    /\ pc' = [pc EXCEPT ![c] = "waiting"]
    /\ worker' = [worker EXCEPT ![c] = "requesting"]
    /\ UNCHANGED <<slots, expired, queue, result, reply, applied>>

\* Thread.start() raises RuntimeError: nothing in request() catches it, and
\* only the worker that never came to be would have released the slot.
StartFails(c) ==
    /\ StartMayFail
    /\ pc[c] = "acquired"
    /\ pc' = [pc EXCEPT ![c] = "raised"]
    /\ UNCHANGED <<slots, worker, expired, queue, result, reply, applied>>

\* result.get() finds an answer; it looks before it looks at the time.
Get(c) ==
    /\ pc[c] = "waiting"
    /\ queue[c] # Nothing
    /\ Return(c, queue[c])
    /\ queue' = [queue EXCEPT ![c] = Nothing]
    /\ UNCHANGED <<slots, worker, expired, reply, applied>>

\* Mutant: the caller that times out gives the slot back itself.
TimeOutReleases(c) ==
    /\ pc[c] = "waiting"
    /\ queue[c] = Nothing
    /\ expired[c]
    /\ Return(c, Ambiguous(c, "timeout", 502))
    /\ slots' = slots + 1
    /\ UNCHANGED <<worker, expired, queue, reply, applied>>

\* Mutant: the caller waits for the worker, however late (get with no timeout).
TimeOutNever(c) ==
    /\ worker[c] = "exited"
    /\ pc[c] = "waiting"
    /\ queue[c] = Nothing
    /\ Return(c, Ambiguous(c, "timeout", 502))
    /\ UNCHANGED <<slots, worker, expired, queue, reply, applied>>

\* result.get() raises Empty.
TimeOut(c) ==
    /\ pc[c] = "waiting"
    /\ queue[c] = Nothing
    /\ expired[c]
    /\ Return(c, Ambiguous(c, "timeout", 502))
    /\ UNCHANGED <<slots, worker, expired, queue, reply, applied>>

\* The monotonic clock reaches the call's deadline.
Expire(c) ==
    /\ pc[c] \in {"acquired", "waiting"}
    /\ ~expired[c]
    /\ expired' = [expired EXCEPT ![c] = TRUE]
    /\ UNCHANGED <<slots, pc, worker, queue, result, reply, applied>>

-----------------------------------------------------------------------------
(* The worker: run().                                                      *)

\* result.put(r), then return (or fall) into the finally block.
Put(c, r) ==
    /\ queue[c] = Nothing
    /\ queue' = [queue EXCEPT ![c] = r]
    /\ worker' = [worker EXCEPT ![c] = "exiting"]

\* session.request() raises: nothing was received.
RequestRaises(c) ==
    /\ worker[c] = "requesting"
    /\ \E code \in {"timeout", "invalid_response"} :
          Put(c, Ambiguous(c, code, 502))
    /\ UNCHANGED <<slots, pc, expired, result, reply, applied>>

\* What the dependency may answer: a success only for a write it applied, a
\* redirect or a client error only for one it did not apply and never will.
MayAnswer(c, s) ==
    c \in Writes => /\ s \in 200..299 => applied[c]
                    /\ s \in 300..499 => ~applied[c]

\* session.request() returns, with a status that settles the call.
RespondFinal(c) ==
    /\ worker[c] = "requesting"
    /\ \E s \in Statuses :
          /\ MayAnswer(c, s)
          /\ FailsAtOnce(s)
          /\ reply' = [reply EXCEPT ![c] = s]
          /\ Put(c, FailureFor(c, s))
    /\ UNCHANGED <<slots, pc, expired, result, applied>>

\* session.request() returns, with a body still to be read.
RespondBody(c) ==
    /\ worker[c] = "requesting"
    /\ \E s \in Statuses :
          /\ MayAnswer(c, s)
          /\ ~FailsAtOnce(s)
          /\ reply' = [reply EXCEPT ![c] = s]
    /\ worker' = [worker EXCEPT ![c] = "reading"]
    /\ UNCHANGED <<slots, pc, expired, queue, result, applied>>

\* Mutant: an oversized answer is reported as a plain failure.
BodyTooLargeCertain(c) ==
    /\ worker[c] = "reading"
    /\ Put(c, Definite(c, "oversized", 502))
    /\ UNCHANGED <<slots, pc, expired, result, reply, applied>>

\* A Content-Length or a chunk over policy.max_bytes.
BodyTooLarge(c) ==
    /\ worker[c] = "reading"
    /\ Put(c, Ambiguous(c, "oversized", 502))
    /\ UNCHANGED <<slots, pc, expired, result, reply, applied>>

\* Mutant: no return after the answer of a late chunk.
DeadlinePassedGoesOn(c) ==
    /\ worker[c] = "reading"
    /\ expired[c]
    /\ queue[c] = Nothing
    /\ queue' = [queue EXCEPT ![c] = Ambiguous(c, "timeout", 502)]
    /\ UNCHANGED <<slots, pc, worker, expired, result, reply, applied>>

\* A chunk arrives after the deadline.
DeadlinePassed(c) ==
    /\ worker[c] = "reading"
    /\ expired[c]
    /\ Put(c, Ambiguous(c, "timeout", 502))
    /\ UNCHANGED <<slots, pc, expired, result, reply, applied>>

\* The body breaks off, or is no JSON object.
BodyRaises(c) ==
    /\ worker[c] = "reading"
    /\ \E code \in {"timeout", "invalid_response"} :
          Put(c, Ambiguous(c, code, 502))
    /\ UNCHANGED <<slots, pc, expired, result, reply, applied>>

\* A JSON object came with one of the remaining 4xx codes.
Rejected(c) ==
    /\ worker[c] = "reading"
    /\ reply[c] >= 400
    /\ Put(c, Definite(c, "rejected", reply[c]))
    /\ UNCHANGED <<slots, pc, expired, result, reply, applied>>

Complete(c) ==
    /\ worker[c] = "reading"
    /\ reply[c] < 400
    /\ Put(c, Success(reply[c]))
    /\ UNCHANGED <<slots, pc, expired, result, reply, applied>>

\* Mutant: a worker whose caller timed out forgets the slot.
ExitKeepsSlot(c) ==
    /\ worker[c] = "exiting"
    /\ worker' = [worker EXCEPT ![c] = "exited"]
    /\ slots' = IF pc[c] = "done" /\ result[c].code = "timeout" THEN slots ELSE slots + 1
    /\ UNCHANGED <<pc, expired, queue, result, reply, applied>>

\* The finally block: close the response, release the slot.
Exit(c) ==
    /\ worker[c] = "exiting"
    /\ worker' = [worker EXCEPT ![c] = "exited"]
    /\ slots' = slots + 1
    /\ UNCHANGED <<pc, expired, queue, result, reply, applied>>

(* The dependency: it applies a write it received, once, whenever it likes, *)
(* unless it answered that it would not.                                   *)
Apply(c) ==
    /\ c \in Writes
    /\ worker[c] # "none"
    /\ ~applied[c]
    /\ reply[c] \notin 300..499
    /\ applied' = [applied EXCEPT ![c] = TRUE]
    /\ UNCHANGED <<slots, pc, worker, expired, queue, result, reply>>

-----------------------------------------------------------------------------
CallerStep(c) == Start(c) \/ StartFails(c) \/ Get(c) \/ TimeOut(c)

WorkerStep(c) ==
    \/ RequestRaises(c) \/ RespondFinal(c) \/ RespondBody(c)
    \/ BodyTooLarge(c) \/ DeadlinePassed(c) \/ BodyRaises(c)
    \/ Rejected(c) \/ Complete(c) \/ Exit(c)

CallStep(c) ==
    \/ Reject(c) \/ Refuse(c) \/ Acquire(c) \/ CallerStep(c)
    \/ Expire(c) \/ WorkerStep(c) \/ Apply(c)

Next == \E c \in Calls : CallStep(c)

Spec == Init /\ [][Next]_vars

\* The calling thread runs and time passes; nothing is assumed of the worker.
CallerFairness == \A c \in Calls : WF_vars(CallerStep(c)) /\ WF_vars(Expire(c))

\* Every exchange ends: the connect and read timeouts of requests see to it.
WorkerFairness == \A c \in Calls : WF_vars(WorkerStep(c))

CallerSpec == Spec /\ CallerFairness
-----------------------------------------------------------------------------
(* Properties.                                                             *)

TypeOK ==
    /\ slots \in 0..Capacity
    /\ pc \in [Calls -> {"idle", "acquired", "waiting", "raised", "done"}]
    /\ worker \in [Calls -> {"none", "requesting", "reading", "exiting", "exited"}]
    /\ expired \in [Calls -> BOOLEAN]
    /\ queue \in [Calls -> Responses]
    /\ result \in [Calls -> Responses]
    /\ reply \in [Calls -> {0} \cup Statuses]
    /\ applied \in [Calls -> BOOLEAN]

Running(c) == worker[c] \in {"requesting", "reading", "exiting"}

\* Calls at work, and besides them those whose thread could not be started.
Busy == {c \in Calls : pc[c] = "acquired" \/ Running(c)}
Holders == Busy \cup {c \in Calls : pc[c] = "raised"}

\* The permits missing from the semaphore are exactly those of the calls that
\* hold one: none is returned twice (BoundedSemaphore would raise in the
\* worker's finally block), none is lost when the caller gives up first, and
\* no more than Capacity workers ever run.
SlotAccounting == slots = Capacity - Cardinality(Holders)

\* The caller of a write is told the truth, and it stays the truth whatever the
\* dependency does later: a success was applied; a failure that is not marked
\* outcome_unknown was not applied and never will be.
TruthfulOutcome ==
    \A c \in Writes : pc[c] = "done" =>
        /\ result[c].code = "ok" => applied[c]
        /\ result[c].code # "ok" /\ ~result[c].unknown => ~applied[c]

\* A worker about to answer finds the one-place queue empty: result.put() has no
\* timeout, and a worker stuck in it would never release its slot.
PutNeverBlocks ==
    \A c \in Calls : worker[c] \in {"requesting", "reading"} => queue[c] = Nothing

\* A call is refused for capacity only while Capacity calls are really at work:
\* a slot is held from the acquire until its worker exits and no longer.
RefusalMeansBusy ==
    [][\A c \in Calls :
          result'[c].code = "capacity" /\ result[c] = Nothing
             => Cardinality(Busy) = Capacity]_vars

\* request() returns within its total budget even if the worker never gets
\* anywhere (a stalled DNS lookup, a custom adapter): CallerSpec lets it hang.
EveryCallReturns ==
    \A c \in Calls : pc[c] = "acquired" ~> pc[c] \in {"done", "raised"}

\* Exhausted capacity is not for ever: timed-out workers keep their slots, but
\* provided that exchanges end, give them back.
CapacityComesBack == WorkerFairness => (slots = 0 ~> slots > 0)

-----------------------------------------------------------------------------
(* The transport implements DependencyCall.                                *)

Stage(c) ==
    IF c \in Holders THEN "working"
    ELSE IF worker[c] = "exited" THEN "finished" ELSE "new"

Told(c) ==
    IF pc[c] # "done" THEN "nothing"
    ELSE IF result[c].code = "ok" THEN "ok"
    ELSE IF result[c].unknown THEN "unknown" ELSE "failed"

Dependency == INSTANCE DependencyCall WITH
    stage <- [c \in Calls |-> Stage(c)],
    told <- [c \in Calls |-> Told(c)],
    committed <- applied

\* Every step of caller, worker and dependency is a step of the promise, or none:
\* one answer per call, true for good, with at most Capacity calls at work.
ImplementsDependencyCall == Dependency!DepSpec
=============================================================================
