----------------------- MODULE BoundedTransport_proofs -----------------------
(***************************************************************************)
(* Proofs about BoundedTransport, for every set of calls and every         *)
(* capacity: types, slot accounting, truthful outcomes, justified          *)
(* refusals, the refinement.                                               *)
(***************************************************************************)
EXTENDS BoundedTransport, FiniteSetTheorems, TLAPS

-----------------------------------------------------------------------------
(* The inductive invariant.  TypeOK alone is not inductive: that slots + 1  *)
(* stays within Capacity rests on SlotAccounting, and that a call holds no  *)
(* slot before it acquires one on CallOK.                                   *)

\* An answer that is final for a write: a success of an applied write, an
\* admission of ignorance, or a failure after which Apply is shut out.
FinalFor(c, r) ==
    c \in Writes =>
        /\ r.code = "ok" => applied[c]
        /\ r.code # "ok" /\ ~r.unknown =>
              ~applied[c] /\ (worker[c] = "none" \/ reply[c] \in 300..499)

\* The same of an answer the worker is about to put, where s is what the
\* dependency answered.
Settles(c, r, s) ==
    c \in Writes =>
        /\ r.code = "ok" => applied[c]
        /\ r.code # "ok" /\ ~r.unknown => s \in 300..499

\* What ties the program counters, the queue and the dependency of one call.
CallOK(c) ==
    /\ pc[c] \in {"idle", "acquired", "raised"} => worker[c] = "none"
    /\ pc[c] = "waiting" => worker[c] # "none"
    /\ worker[c] = "none" => ~applied[c]
    /\ worker[c] \in {"none", "requesting"} => reply[c] = 0
    /\ worker[c] = "reading" => reply[c] \in 200..299 \cup 400..499
    /\ worker[c] \in {"none", "requesting", "reading"} => queue[c] = Nothing
    /\ c \in Writes => /\ reply[c] \in 200..299 => applied[c]
                       /\ reply[c] \in 300..499 => ~applied[c]
    /\ queue[c] # Nothing => FinalFor(c, queue[c])
    /\ pc[c] = "done" => FinalFor(c, result[c])
    /\ pc[c] # "done" => result[c] = Nothing

IInv ==
    /\ TypeOK
    /\ SlotAccounting
    /\ \A c \in Calls : CallOK(c)
-----------------------------------------------------------------------------
(* Lemmas about the operators of the model.                                *)

\* The failure bodies request() builds are responses, none looks like an empty
\* queue or a success, and only an ambiguous one tells a writer that the outcome
\* is unknown.
LEMMA FailureShape ==
    ASSUME NEW c \in Calls, NEW code \in FailureCodes, NEW s \in 0..599
    PROVE  /\ Definite(c, code, s) \in Responses
           /\ Definite(c, code, s) # Nothing
           /\ Definite(c, code, s).code # "ok"
           /\ Ambiguous(c, code, s) \in Responses
           /\ Ambiguous(c, code, s) # Nothing
           /\ Ambiguous(c, code, s).code # "ok"
           /\ c \in Writes => Ambiguous(c, code, s).unknown
  <1>1. "none" \notin FailureCodes /\ "ok" \notin FailureCodes
    BY DEF FailureCodes
  <1>2. /\ Definite(c, code, s) \in Responses
        /\ Definite(c, code, s).code = code
    BY DEF Definite, Failure, Responses
  <1>3. /\ Ambiguous(c, code, s) \in Responses
        /\ Ambiguous(c, code, s).code = code
    BY DEF Ambiguous, Failure, Responses
  <1>4. ASSUME c \in Writes
        PROVE  Ambiguous(c, code, s).unknown
    BY <1>4 DEF Ambiguous, Failure
  <1> QED  BY <1>1, <1>2, <1>3, <1>4 DEF Nothing

\* An ambiguous failure is true of every write, a definite one of a write that was
\* not applied and never will be.
LEMMA AmbiguousIsTrue ==
    ASSUME NEW c \in Calls, NEW code \in FailureCodes, NEW s
    PROVE  /\ FinalFor(c, Ambiguous(c, code, 502))
           /\ Settles(c, Ambiguous(c, code, 502), s)
  <1>1. 502 \in 0..599
    OBVIOUS
  <1>2. Ambiguous(c, code, 502).code # "ok"
    BY <1>1, FailureShape
  <1>3. c \in Writes => Ambiguous(c, code, 502).unknown
    BY <1>1, FailureShape
  <1> QED  BY <1>2, <1>3, Zenon DEF FinalFor, Settles

LEMMA DefiniteIsTrue ==
    ASSUME NEW c \in Calls, NEW code \in FailureCodes, NEW s \in 0..599
    PROVE  /\ ~applied[c] /\ worker[c] = "none" => FinalFor(c, Definite(c, code, s))
           /\ \A t \in 300..499 : Settles(c, Definite(c, code, s), t)
  <1>1. Definite(c, code, s).code # "ok"
    BY FailureShape
  <1> QED  BY <1>1, Zenon DEF FinalFor, Settles

\* What the worker puts for a status that settles the call at once is a response,
\* and true of a write given the status.
LEMMA FailureForShape ==
    ASSUME NEW c \in Calls, NEW s \in Statuses, FailsAtOnce(s)
    PROVE  /\ FailureFor(c, s) \in Responses
           /\ FailureFor(c, s) # Nothing
           /\ Settles(c, FailureFor(c, s), s)
  <1>1. s \in 200..599 /\ 502 \in 0..599 /\ s \in 0..599
    <2>1. s \in 200..599
      BY StatusAssumption
    <2> QED  BY <2>1
  <1>2. CASE s \in Redirects
    <2>1. FailureFor(c, s) = Definite(c, "redirect", 502)
      BY <1>2, Zenon DEF FailureFor
    <2>2. "redirect" \in FailureCodes /\ s \in 300..499
      BY <1>2 DEF FailureCodes, Redirects
    <2>3. Settles(c, Definite(c, "redirect", 502), s)
      BY <1>1, <2>2, DefiniteIsTrue
    <2>4. Definite(c, "redirect", 502) \in Responses /\ Definite(c, "redirect", 502) # Nothing
      BY <1>1, <2>2, FailureShape
    <2> QED  BY <2>1, <2>3, <2>4, Zenon
  <1>3. CASE s \in ServerErrors
    <2>1. s \notin Redirects /\ "unavailable" \in FailureCodes
      BY <1>3 DEF ServerErrors, Redirects, FailureCodes
    <2>2. FailureFor(c, s) = Ambiguous(c, "unavailable", s)
      BY <1>3, <2>1, Zenon DEF FailureFor
    <2>3. /\ Ambiguous(c, "unavailable", s) \in Responses
          /\ Ambiguous(c, "unavailable", s) # Nothing
      BY <1>1, <2>1, FailureShape
    <2>4. Ambiguous(c, "unavailable", s).code # "ok"
      BY <1>1, <2>1, FailureShape
    <2>5. c \in Writes => Ambiguous(c, "unavailable", s).unknown
      BY <1>1, <2>1, FailureShape
    <2>6. Settles(c, Ambiguous(c, "unavailable", s), s)
      BY <2>4, <2>5, Zenon DEF Settles
    <2> QED  BY <2>2, <2>3, <2>6, Zenon
  <1>4. CASE s \in {401, 403, 429}
    <2>1. s \notin Redirects /\ s \notin ServerErrors /\ s \in 300..499
      BY <1>4 DEF ServerErrors, Redirects
    <2>2. FailureFor(c, s) = Definite(c, Refusal(s), s)
      BY <2>1, Zenon DEF FailureFor
    <2>3. Refusal(s) \in FailureCodes
      BY DEF Refusal, FailureCodes
    <2>4. Settles(c, Definite(c, Refusal(s), s), s)
      BY <1>1, <2>1, <2>3, DefiniteIsTrue
    <2>5. Definite(c, Refusal(s), s) \in Responses /\ Definite(c, Refusal(s), s) # Nothing
      BY <1>1, <2>3, FailureShape
    <2> QED  BY <2>2, <2>4, <2>5, Zenon
  <1> QED  BY <1>2, <1>3, <1>4 DEF FailsAtOnce

LEMMA SuccessShape ==
    ASSUME NEW s \in 200..299
    PROVE  /\ Success(s) \in Responses
           /\ Success(s) # Nothing
           /\ Success(s).code = "ok"
  BY DEF Success, Responses, Nothing

LEMMA NothingShape == Nothing \in Responses
  BY DEF Nothing, Responses

\* The slot holders are finitely many, so that they can be counted.
LEMMA HoldersFinite == IsFiniteSet(Holders) /\ Cardinality(Holders) \in Nat
  <1>1. Holders \in SUBSET Calls
    BY DEF Holders, Busy
  <1>2. IsFiniteSet(Holders)
    BY <1>1, CallsAssumption, FS_Subset
  <1> QED  BY <1>2, FS_CardinalityType
-----------------------------------------------------------------------------
(* The slots.                                                              *)

\* A step that takes no slot and returns none leaves the holders as they are.
LEMMA SameHolders ==
    ASSUME UNCHANGED slots, SlotAccounting, Holders' = Holders
    PROVE  SlotAccounting'
  BY DEF SlotAccounting

\* Every step keeps the count of the missing permits right.
LEMMA AccountingStep ==
    ASSUME IInv, NEW c \in Calls, CallStep(c)
    PROVE  SlotAccounting' /\ slots' \in 0..Capacity
  <1> USE DEF IInv
  <1>1. /\ Cardinality(Holders) \in Nat
        /\ IsFiniteSet(Holders)
        /\ slots \in 0..Capacity
        /\ Capacity \in Nat
        /\ slots = Capacity - Cardinality(Holders)
    BY HoldersFinite, CapacityAssumption DEF TypeOK, SlotAccounting
  <1>2. /\ pc \in [Calls -> {"idle", "acquired", "waiting", "raised", "done"}]
        /\ worker \in [Calls -> {"none", "requesting", "reading", "exiting", "exited"}]
        /\ CallOK(c)
    BY DEF TypeOK
  <1>3. CASE Acquire(c)
    <2>1. c \notin Holders
      BY <1>2, <1>3 DEF Acquire, CallOK, Holders, Busy, Running
    <2>2. Holders' = Holders \cup {c}
      BY <1>2, <1>3 DEF Acquire, Holders, Busy, Running
    <2>3. Cardinality(Holders') = Cardinality(Holders) + 1
      BY <1>1, <2>1, <2>2, FS_AddElement
    <2> QED  BY <1>1, <1>3, <2>3 DEF Acquire, SlotAccounting
  <1>4. CASE Exit(c)
    <2>1. c \in Holders /\ pc[c] \notin {"acquired", "raised"}
      BY <1>2, <1>4 DEF Exit, CallOK, Holders, Busy, Running
    <2>2. Holders' = Holders \ {c}
      BY <1>2, <1>4, <2>1 DEF Exit, Holders, Busy, Running
    <2>3. Cardinality(Holders') = Cardinality(Holders) - 1 /\ Cardinality(Holders') \in Nat
      BY <1>1, <2>1, <2>2, FS_RemoveElement, FS_CardinalityType
    <2> QED  BY <1>1, <1>4, <2>3 DEF Exit, SlotAccounting
  <1>5. CASE Reject(c)
    <2>1. UNCHANGED slots /\ Holders' = Holders
      BY <1>2, <1>5 DEF Reject, Return, CallOK, Holders, Busy, Running
    <2> QED  BY <1>1, <2>1, SameHolders
  <1>6. CASE Refuse(c)
    <2>1. UNCHANGED slots /\ Holders' = Holders
      BY <1>2, <1>6 DEF Refuse, Return, CallOK, Holders, Busy, Running
    <2> QED  BY <1>1, <2>1, SameHolders
  <1>7. CASE Start(c)
    <2>1. UNCHANGED slots /\ Holders' = Holders
      BY <1>2, <1>7 DEF Start, CallOK, Holders, Busy, Running
    <2> QED  BY <1>1, <2>1, SameHolders
  <1>8. CASE StartFails(c)
    <2>1. UNCHANGED slots /\ Holders' = Holders
      BY <1>2, <1>8 DEF StartFails, CallOK, Holders, Busy, Running
    <2> QED  BY <1>1, <2>1, SameHolders
  <1>9. CASE Get(c)
    <2>1. UNCHANGED slots /\ Holders' = Holders
      BY <1>2, <1>9 DEF Get, Return, CallOK, Holders, Busy, Running
    <2> QED  BY <1>1, <2>1, SameHolders
  <1>10. CASE TimeOut(c)
    <2>1. UNCHANGED slots /\ Holders' = Holders
      BY <1>2, <1>10 DEF TimeOut, Return, CallOK, Holders, Busy, Running
    <2> QED  BY <1>1, <2>1, SameHolders
  <1>11. CASE Expire(c)
    <2>1. UNCHANGED slots /\ Holders' = Holders
      BY <1>2, <1>11 DEF Expire, CallOK, Holders, Busy, Running
    <2> QED  BY <1>1, <2>1, SameHolders
  <1>12. CASE RequestRaises(c)
    <2>1. UNCHANGED slots /\ Holders' = Holders
      BY <1>2, <1>12 DEF RequestRaises, Put, CallOK, Holders, Busy, Running
    <2> QED  BY <1>1, <2>1, SameHolders
  <1>13. CASE RespondFinal(c)
    <2>1. UNCHANGED slots /\ Holders' = Holders
      BY <1>2, <1>13 DEF RespondFinal, Put, CallOK, Holders, Busy, Running
    <2> QED  BY <1>1, <2>1, SameHolders
  <1>14. CASE RespondBody(c)
    <2>1. UNCHANGED slots /\ Holders' = Holders
      BY <1>2, <1>14 DEF RespondBody, CallOK, Holders, Busy, Running
    <2> QED  BY <1>1, <2>1, SameHolders
  <1>15. CASE BodyTooLarge(c)
    <2>1. UNCHANGED slots /\ Holders' = Holders
      BY <1>2, <1>15 DEF BodyTooLarge, Put, CallOK, Holders, Busy, Running
    <2> QED  BY <1>1, <2>1, SameHolders
  <1>16. CASE DeadlinePassed(c)
    <2>1. UNCHANGED slots /\ Holders' = Holders
      BY <1>2, <1>16 DEF DeadlinePassed, Put, CallOK, Holders, Busy, Running
    <2> QED  BY <1>1, <2>1, SameHolders
  <1>17. CASE BodyRaises(c)
    <2>1. UNCHANGED slots /\ Holders' = Holders
      BY <1>2, <1>17 DEF BodyRaises, Put, CallOK, Holders, Busy, Running
    <2> QED  BY <1>1, <2>1, SameHolders
  <1>18. CASE Rejected(c)
    <2>1. UNCHANGED slots /\ Holders' = Holders
      BY <1>2, <1>18 DEF Rejected, Put, CallOK, Holders, Busy, Running
    <2> QED  BY <1>1, <2>1, SameHolders
  <1>19. CASE Complete(c)
    <2>1. UNCHANGED slots /\ Holders' = Holders
      BY <1>2, <1>19 DEF Complete, Put, CallOK, Holders, Busy, Running
    <2> QED  BY <1>1, <2>1, SameHolders
  <1>20. CASE Apply(c)
    <2>1. UNCHANGED slots /\ Holders' = Holders
      BY <1>2, <1>20 DEF Apply, CallOK, Holders, Busy, Running
    <2> QED  BY <1>1, <2>1, SameHolders
  <1> QED
    BY <1>3, <1>4, <1>5, <1>6, <1>7, <1>8, <1>9, <1>10, <1>11, <1>12, <1>13,
       <1>14, <1>15, <1>16, <1>17, <1>18, <1>19, <1>20
    DEF CallStep, CallerStep, WorkerStep
-----------------------------------------------------------------------------
(* Types.                                                                  *)

\* The worker puts a response: queue and worker stay typed.
LEMMA PutType ==
    ASSUME TypeOK, NEW c \in Calls, NEW r \in Responses, Put(c, r)
    PROVE  /\ queue' \in [Calls -> Responses]
           /\ worker' \in [Calls -> {"none", "requesting", "reading", "exiting", "exited"}]
  BY DEF TypeOK, Put

\* request() returns a response: result and pc stay typed.
LEMMA ReturnType ==
    ASSUME TypeOK, NEW c \in Calls, NEW r \in Responses, Return(c, r)
    PROVE  /\ result' \in [Calls -> Responses]
           /\ pc' \in [Calls -> {"idle", "acquired", "waiting", "raised", "done"}]
  BY DEF TypeOK, Return

LEMMA TypeStep ==
    ASSUME IInv, NEW c \in Calls, CallStep(c)
    PROVE  TypeOK'
  <1>1. TypeOK /\ CallOK(c)
    BY DEF IInv
  <1>2. slots' \in 0..Capacity
    BY AccountingStep
  <1>3. \A code \in FailureCodes, s \in 0..599 :
           /\ Ambiguous(c, code, s) \in Responses
           /\ Definite(c, code, s) \in Responses
    BY FailureShape
  <1>4. /\ {"invalid_destination", "capacity", "oversized", "timeout",
             "invalid_response", "rejected"} \subseteq FailureCodes
        /\ 502 \in 0..599
        /\ reply[c] \in 0..599
    <2>1. reply[c] = 0 \/ reply[c] \in Statuses
      BY <1>1 DEF TypeOK
    <2>2. reply[c] \in 0..599
      <3>1. reply[c] \in Statuses => reply[c] \in 200..599
        BY StatusAssumption
      <3> QED  BY <2>1, <3>1
    <2> QED  BY <2>2 DEF FailureCodes
  <1>5. CASE Reject(c)
    <2>1. Definite(c, "invalid_destination", 502) \in Responses
      BY <1>3, <1>4
    <2> QED  BY <1>1, <1>2, <1>5, <2>1, ReturnType DEF Reject, TypeOK
  <1>6. CASE Refuse(c)
    <2>1. Definite(c, "capacity", 502) \in Responses
      BY <1>3, <1>4
    <2> QED  BY <1>1, <1>2, <1>6, <2>1, ReturnType DEF Refuse, TypeOK
  <1>7. CASE Acquire(c)
    BY <1>1, <1>2, <1>7 DEF Acquire, TypeOK
  <1>8. CASE Start(c)
    BY <1>1, <1>2, <1>8 DEF Start, TypeOK
  <1>9. CASE StartFails(c)
    BY <1>1, <1>2, <1>9 DEF StartFails, TypeOK
  <1>10. CASE Get(c)
    <2>1. queue[c] \in Responses
      BY <1>1 DEF TypeOK
    <2> QED  BY <1>1, <1>2, <1>10, <2>1, ReturnType, NothingShape DEF Get, TypeOK
  <1>11. CASE TimeOut(c)
    <2>1. Ambiguous(c, "timeout", 502) \in Responses
      BY <1>3, <1>4
    <2> QED  BY <1>1, <1>2, <1>11, <2>1, ReturnType DEF TimeOut, TypeOK
  <1>12. CASE Expire(c)
    BY <1>1, <1>2, <1>12 DEF Expire, TypeOK
  <1>13. CASE RequestRaises(c)
    <2>1. PICK code \in {"timeout", "invalid_response"} : Put(c, Ambiguous(c, code, 502))
      BY <1>13 DEF RequestRaises
    <2>2. Ambiguous(c, code, 502) \in Responses
      BY <1>3, <1>4
    <2> QED  BY <1>1, <1>2, <1>13, <2>1, <2>2, PutType DEF RequestRaises, TypeOK
  <1>14. CASE RespondFinal(c)
    <2>1. PICK s \in Statuses :
             /\ FailsAtOnce(s)
             /\ reply' = [reply EXCEPT ![c] = s]
             /\ Put(c, FailureFor(c, s))
      BY <1>14 DEF RespondFinal
    <2>2. FailureFor(c, s) \in Responses
      BY <2>1, FailureForShape
    <2> QED  BY <1>1, <1>2, <1>14, <2>1, <2>2, PutType DEF RespondFinal, TypeOK
  <1>15. CASE RespondBody(c)
    BY <1>1, <1>2, <1>15 DEF RespondBody, TypeOK
  <1>16. CASE BodyTooLarge(c)
    <2>1. Ambiguous(c, "oversized", 502) \in Responses
      BY <1>3, <1>4
    <2> QED  BY <1>1, <1>2, <1>16, <2>1, PutType DEF BodyTooLarge, TypeOK
  <1>17. CASE DeadlinePassed(c)
    <2>1. Ambiguous(c, "timeout", 502) \in Responses
      BY <1>3, <1>4
    <2> QED  BY <1>1, <1>2, <1>17, <2>1, PutType DEF DeadlinePassed, TypeOK
  <1>18. CASE BodyRaises(c)
    <2>1. PICK code \in {"timeout", "invalid_response"} : Put(c, Ambiguous(c, code, 502))
      BY <1>18 DEF BodyRaises
    <2>2. Ambiguous(c, code, 502) \in Responses
      BY <1>3, <1>4
    <2> QED  BY <1>1, <1>2, <1>18, <2>1, <2>2, PutType DEF BodyRaises, TypeOK
  <1>19. CASE Rejected(c)
    <2>1. Definite(c, "rejected", reply[c]) \in Responses
      BY <1>3, <1>4
    <2> QED  BY <1>1, <1>2, <1>19, <2>1, PutType DEF Rejected, TypeOK
  <1>20. CASE Complete(c)
    <2>1. reply[c] \in 200..299
      BY <1>1, <1>20 DEF Complete, CallOK
    <2>2. Success(reply[c]) \in Responses
      BY <2>1, SuccessShape
    <2> QED  BY <1>1, <1>2, <1>20, <2>2, PutType DEF Complete, TypeOK
  <1>21. CASE Exit(c)
    BY <1>1, <1>2, <1>21 DEF Exit, TypeOK
  <1>22. CASE Apply(c)
    BY <1>1, <1>2, <1>22 DEF Apply, TypeOK
  <1> QED
    BY <1>5, <1>6, <1>7, <1>8, <1>9, <1>10, <1>11, <1>12, <1>13, <1>14,
       <1>15, <1>16, <1>17, <1>18, <1>19, <1>20, <1>21, <1>22
    DEF CallStep, CallerStep, WorkerStep
-----------------------------------------------------------------------------
(* The calls, one by one.                                                  *)

\* A call is as it was when nothing of it changed.
LEMMA Frame ==
    ASSUME NEW d \in Calls, CallOK(d),
           pc'[d] = pc[d], worker'[d] = worker[d], queue'[d] = queue[d],
           result'[d] = result[d], reply'[d] = reply[d], applied'[d] = applied[d]
    PROVE  CallOK(d)'
  BY DEF CallOK, FinalFor

\* A step of one call leaves the others alone.
LEMMA OthersStep ==
    ASSUME IInv, NEW c \in Calls, CallStep(c), NEW d \in Calls, d # c
    PROVE  CallOK(d)'
  <1>1. TypeOK /\ CallOK(d)
    BY DEF IInv
  <1>2. CASE Reject(c) \/ Refuse(c) \/ Acquire(c) \/ Start(c) \/ StartFails(c)
             \/ Get(c) \/ TimeOut(c) \/ Expire(c)
    <2>1. /\ pc'[d] = pc[d] /\ worker'[d] = worker[d] /\ queue'[d] = queue[d]
          /\ result'[d] = result[d] /\ reply'[d] = reply[d] /\ applied'[d] = applied[d]
      BY <1>1, <1>2 DEF Reject, Refuse, Acquire, Start, StartFails, Get, TimeOut, Expire,
                        Return, TypeOK
    <2> QED  BY <1>1, <2>1, Frame
  <1>3. CASE WorkerStep(c) \/ Apply(c)
    <2>1. /\ pc'[d] = pc[d] /\ worker'[d] = worker[d] /\ queue'[d] = queue[d]
          /\ result'[d] = result[d] /\ reply'[d] = reply[d] /\ applied'[d] = applied[d]
      BY <1>1, <1>3 DEF WorkerStep, RequestRaises, RespondFinal, RespondBody, BodyTooLarge,
                        DeadlinePassed, BodyRaises, Rejected, Complete, Exit, Apply,
                        Put, TypeOK
    <2> QED  BY <1>1, <2>1, Frame
  <1> QED  BY <1>2, <1>3 DEF CallStep, CallerStep

\* What the worker puts must be final in the state it leaves behind, where the
\* worker is exiting and the dependency has answered what it answered.
LEMMA PutStep ==
    ASSUME TypeOK, NEW c \in Calls, CallOK(c), NEW r, Put(c, r),
           worker[c] \in {"requesting", "reading"},
           UNCHANGED <<pc, result, applied>>,
           reply'[c] = reply[c] \/ (worker[c] = "requesting" /\ reply'[c] \in 200..599),
           c \in Writes => /\ reply'[c] \in 200..299 => applied[c]
                           /\ reply'[c] \in 300..499 => ~applied[c],
           Settles(c, r, reply'[c])
    PROVE  CallOK(c)'
  <1>1. worker'[c] = "exiting" /\ queue'[c] = r /\ pc'[c] = pc[c]
        /\ result'[c] = result[c] /\ applied'[c] = applied[c]
    BY DEF Put, TypeOK
  <1>2. FinalFor(c, r)'
    BY <1>1 DEF FinalFor, Settles
  <1>3. pc[c] = "done" => FinalFor(c, result[c])'
    <2>1. pc[c] = "done" => FinalFor(c, result[c])
      BY DEF CallOK
    <2>2. worker[c] = "requesting" => reply[c] \notin 300..499
      BY DEF CallOK
    <2> QED  BY <1>1, <2>1, <2>2 DEF FinalFor
  <1> QED  BY <1>1, <1>2, <1>3 DEF CallOK

\* What request() returns must be final in the state it was found in.
LEMMA ReturnStep ==
    ASSUME TypeOK, NEW c \in Calls, CallOK(c), NEW r, Return(c, r),
           pc[c] \in {"idle", "waiting"}, FinalFor(c, r),
           UNCHANGED <<worker, reply, applied>>,
           queue'[c] \in {queue[c], Nothing}
    PROVE  CallOK(c)'
  <1>1. /\ worker'[c] = worker[c] /\ reply'[c] = reply[c] /\ applied'[c] = applied[c]
        /\ pc'[c] = "done" /\ result'[c] = r
    BY DEF Return, TypeOK
  <1>2. FinalFor(c, r)'
    BY <1>1 DEF FinalFor
  <1>3. queue'[c] # Nothing => FinalFor(c, queue[c])'
    <2>1. queue[c] # Nothing => FinalFor(c, queue[c])
      BY DEF CallOK
    <2>2. queue'[c] # Nothing => queue'[c] = queue[c]
      OBVIOUS
    <2> QED  BY <1>1, <2>1, <2>2 DEF FinalFor
  <1> QED  BY <1>1, <1>2, <1>3 DEF CallOK

\* A step of the call itself keeps its invariant.
LEMMA OwnStep ==
    ASSUME IInv, NEW c \in Calls, CallStep(c)
    PROVE  CallOK(c)'
  <1>1. TypeOK /\ CallOK(c)
    BY DEF IInv
  <1>2. /\ "invalid_destination" \in FailureCodes /\ "capacity" \in FailureCodes
        /\ "oversized" \in FailureCodes /\ "timeout" \in FailureCodes
        /\ "invalid_response" \in FailureCodes /\ "rejected" \in FailureCodes
        /\ 502 \in 0..599
    BY DEF FailureCodes
  <1>3. CASE Reject(c)
    <2>1. pc[c] = "idle" /\ ~applied[c] /\ worker[c] = "none"
      BY <1>1, <1>3 DEF Reject, CallOK
    <2>2. FinalFor(c, Definite(c, "invalid_destination", 502))
      BY <1>2, <2>1, DefiniteIsTrue
    <2> QED  BY <1>1, <1>3, <2>2, ReturnStep DEF Reject
  <1>4. CASE Refuse(c)
    <2>1. pc[c] = "idle" /\ ~applied[c] /\ worker[c] = "none"
      BY <1>1, <1>4 DEF Refuse, CallOK
    <2>2. FinalFor(c, Definite(c, "capacity", 502))
      BY <1>2, <2>1, DefiniteIsTrue
    <2> QED  BY <1>1, <1>4, <2>2, ReturnStep DEF Refuse
  <1>5. CASE Acquire(c)
    BY <1>1, <1>5 DEF Acquire, TypeOK, CallOK, FinalFor
  <1>6. CASE Start(c)
    BY <1>1, <1>6 DEF Start, TypeOK, CallOK, FinalFor
  <1>7. CASE StartFails(c)
    BY <1>1, <1>7 DEF StartFails, TypeOK, CallOK, FinalFor
  <1>8. CASE Get(c)
    <2>1. FinalFor(c, queue[c]) /\ queue'[c] = Nothing
      BY <1>1, <1>8 DEF Get, TypeOK, CallOK
    <2> QED  BY <1>1, <1>8, <2>1, ReturnStep DEF Get
  <1>9. CASE TimeOut(c)
    <2>1. FinalFor(c, Ambiguous(c, "timeout", 502))
      BY <1>2, AmbiguousIsTrue
    <2> QED  BY <1>1, <1>9, <2>1, ReturnStep DEF TimeOut
  <1>10. CASE Expire(c)
    BY <1>1, <1>10 DEF Expire, TypeOK, CallOK, FinalFor
  <1>11. CASE RequestRaises(c)
    <2>1. PICK code \in {"timeout", "invalid_response"} : Put(c, Ambiguous(c, code, 502))
      BY <1>11 DEF RequestRaises
    <2>2. Settles(c, Ambiguous(c, code, 502), reply'[c])
      BY <1>2, AmbiguousIsTrue
    <2>3. worker[c] \in {"requesting", "reading"} /\ UNCHANGED <<pc, result, applied>>
      BY <1>11 DEF RequestRaises
    <2>4. reply'[c] = reply[c] \/ (worker[c] = "requesting" /\ reply'[c] \in 200..599)
      BY <1>11 DEF RequestRaises
    <2>5. c \in Writes => /\ reply'[c] \in 200..299 => applied[c]
                          /\ reply'[c] \in 300..499 => ~applied[c]
      BY <1>1, <1>11 DEF RequestRaises, CallOK
    <2> QED  BY <1>1, <2>1, <2>2, <2>3, <2>4, <2>5, PutStep
  <1>12. CASE RespondFinal(c)
    <2>1. PICK s \in Statuses :
             /\ MayAnswer(c, s)
             /\ FailsAtOnce(s)
             /\ reply' = [reply EXCEPT ![c] = s]
             /\ Put(c, FailureFor(c, s))
      BY <1>12 DEF RespondFinal
    <2>2. Settles(c, FailureFor(c, s), s)
      BY <2>1, FailureForShape
    <2>3. reply'[c] = s /\ s \in 200..599
      BY <1>1, <2>1, StatusAssumption DEF TypeOK
    <2>4. /\ worker[c] = "requesting"
          /\ UNCHANGED <<pc, result, applied>>
          /\ c \in Writes => /\ reply'[c] \in 200..299 => applied[c]
                             /\ reply'[c] \in 300..499 => ~applied[c]
      BY <1>12, <2>1, <2>3 DEF RespondFinal, MayAnswer
    <2> QED  BY <1>1, <2>1, <2>2, <2>3, <2>4, PutStep
  <1>13. CASE RespondBody(c)
    <2>1. PICK s \in Statuses :
             /\ MayAnswer(c, s)
             /\ ~FailsAtOnce(s)
             /\ reply' = [reply EXCEPT ![c] = s]
      BY <1>13 DEF RespondBody
    <2>2. s \in 200..299 \cup 400..499
      <3>1. s \in 200..599
        BY <2>1, StatusAssumption
      <3> QED  BY <2>1, <3>1 DEF FailsAtOnce, Redirects, ServerErrors
    <2>3. /\ reply'[c] = s /\ worker'[c] = "reading" /\ worker[c] = "requesting"
          /\ UNCHANGED <<pc, queue, result, applied>>
      BY <1>1, <1>13, <2>1 DEF RespondBody, TypeOK
    <2>4. FinalFor(c, result[c]) => FinalFor(c, result[c])'
      BY <1>1, <2>3 DEF FinalFor, CallOK
    <2> QED  BY <1>1, <2>1, <2>2, <2>3, <2>4 DEF MayAnswer, CallOK
  <1>14. CASE BodyTooLarge(c)
    <2>1. Settles(c, Ambiguous(c, "oversized", 502), reply'[c])
      BY <1>2, AmbiguousIsTrue
    <2> QED  BY <1>1, <1>14, <2>1, PutStep DEF BodyTooLarge, CallOK
  <1>15. CASE DeadlinePassed(c)
    <2>1. Settles(c, Ambiguous(c, "timeout", 502), reply'[c])
      BY <1>2, AmbiguousIsTrue
    <2> QED  BY <1>1, <1>15, <2>1, PutStep DEF DeadlinePassed, CallOK
  <1>16. CASE BodyRaises(c)
    <2>1. PICK code \in {"timeout", "invalid_response"} : Put(c, Ambiguous(c, code, 502))
      BY <1>16 DEF BodyRaises
    <2>2. Settles(c, Ambiguous(c, code, 502), reply'[c])
      BY <1>2, AmbiguousIsTrue
    <2> QED  BY <1>1, <1>16, <2>1, <2>2, PutStep DEF BodyRaises, CallOK
  <1>17. CASE Rejected(c)
    <2>1. reply[c] \in 400..499 /\ worker[c] = "reading"
      BY <1>1, <1>17 DEF Rejected, CallOK
    <2>2. Settles(c, Definite(c, "rejected", reply[c]), reply[c])
      <3>1. reply[c] \in 0..599 /\ reply[c] \in 300..499
        BY <2>1
      <3> QED  BY <1>2, <3>1, DefiniteIsTrue
    <2>3. /\ Put(c, Definite(c, "rejected", reply[c]))
          /\ UNCHANGED <<pc, result, reply, applied>>
      BY <1>17 DEF Rejected
    <2>4. c \in Writes => ~applied[c]
      BY <1>1, <2>1 DEF CallOK
    <2> QED  BY <1>1, <2>1, <2>2, <2>3, <2>4, PutStep
  <1>18. CASE Complete(c)
    <2>1. reply[c] \in 200..299 /\ worker[c] = "reading"
      BY <1>1, <1>18 DEF Complete, CallOK
    <2>2. Success(reply[c]).code = "ok"
      BY DEF Success
    <2>3. Put(c, Success(reply[c])) /\ UNCHANGED <<pc, result, reply, applied>>
      BY <1>18 DEF Complete
    <2>4. c \in Writes => applied[c]
      BY <1>1, <2>1 DEF CallOK
    <2>5. Settles(c, Success(reply[c]), reply[c])
      BY <2>2, <2>4 DEF Settles
    <2> QED  BY <1>1, <2>1, <2>3, <2>4, <2>5, PutStep
  <1>19. CASE Exit(c)
    BY <1>1, <1>19 DEF Exit, TypeOK, CallOK, FinalFor
  <1>20. CASE Apply(c)
    BY <1>1, <1>20 DEF Apply, TypeOK, CallOK, FinalFor
  <1> QED
    BY <1>3, <1>4, <1>5, <1>6, <1>7, <1>8, <1>9, <1>10, <1>11, <1>12,
       <1>13, <1>14, <1>15, <1>16, <1>17, <1>18, <1>19, <1>20
    DEF CallStep, CallerStep, WorkerStep

-----------------------------------------------------------------------------
(* The invariant holds from the start, and every step keeps it.            *)

LEMMA InitInvariant == Init => IInv
  <1> SUFFICES ASSUME Init PROVE IInv
    OBVIOUS
  <1>1. TypeOK
    BY CapacityAssumption, NothingShape DEF Init, TypeOK
  <1>2. Holders = {}
    BY DEF Init, Holders, Busy, Running
  <1>3. SlotAccounting
    BY <1>2, FS_EmptySet, CapacityAssumption DEF Init, SlotAccounting
  <1>4. \A c \in Calls : CallOK(c)
    BY DEF Init, CallOK, FinalFor
  <1> QED  BY <1>1, <1>3, <1>4 DEF IInv

LEMMA StepInvariant == IInv /\ [Next]_vars => IInv'
  <1> SUFFICES ASSUME IInv, [Next]_vars PROVE IInv'
    OBVIOUS
  <1>1. CASE Next
    <2>1. PICK c \in Calls : CallStep(c)
      BY <1>1 DEF Next
    <2>2. TypeOK'
      BY <2>1, TypeStep
    <2>3. SlotAccounting'
      BY <2>1, AccountingStep
    <2>4. \A d \in Calls : CallOK(d)'
      BY <2>1, OwnStep, OthersStep
    <2> QED  BY <2>2, <2>3, <2>4 DEF IInv
  <1>2. CASE UNCHANGED vars
    BY <1>2 DEF vars, IInv, TypeOK, SlotAccounting, Holders, Busy, Running, CallOK, FinalFor
  <1> QED  BY <1>1, <1>2

LEMMA Invariant == Spec => []IInv
  BY InitInvariant, StepInvariant, PTL DEF Spec

-----------------------------------------------------------------------------
(* What follows for the transport.                                         *)

\* Every variable keeps its type whatever the interleaving; the semaphore stays
\* between 0 and its initial value.
THEOREM TypeCorrect == Spec => []TypeOK
  <1>1. IInv => TypeOK
    BY DEF IInv
  <1> QED  BY <1>1, Invariant, PTL

\* The permits missing from self._slots are those of the calls that hold one, for
\* any number of calls and any capacity: at most Capacity workers ever run.
THEOREM SlotsAccounted == Spec => []SlotAccounting
  <1>1. IInv => SlotAccounting
    BY DEF IInv
  <1> QED  BY <1>1, Invariant, PTL

\* The worker never waits in result.put(): its queue is empty when it answers.
THEOREM NoWorkerStuck == Spec => []PutNeverBlocks
  <1>1. IInv => PutNeverBlocks
    BY DEF IInv, CallOK, PutNeverBlocks
  <1> QED  BY <1>1, Invariant, PTL

\* What request() reports of a write is true when it is reported and for ever.
THEOREM OutcomesTruthful == Spec => []TruthfulOutcome
  <1>1. IInv => TruthfulOutcome
    BY CallsAssumption DEF IInv, CallOK, FinalFor, TruthfulOutcome
  <1> QED  BY <1>1, Invariant, PTL

-----------------------------------------------------------------------------
(* Refusals.  They are justified as long as threads start: then every slot  *)
(* that is missing belongs to a call at work.                               *)

\* No slot is lost, and an answer that says "capacity" can only be Refuse's own:
\* no worker puts one.
NoneLost == \A c \in Calls : pc[c] # "raised" /\ queue[c].code # "capacity"

\* What the worker puts never says "capacity".
LEMMA WorkerCodes ==
    ASSUME NEW c \in Calls, NEW s
    PROVE  /\ Nothing.code # "capacity"
           /\ Success(s).code # "capacity"
           /\ Definite(c, "rejected", s).code # "capacity"
           /\ FailureFor(c, s).code # "capacity"
           /\ \A code \in {"timeout", "invalid_response", "oversized"} :
                 Ambiguous(c, code, 502).code # "capacity"
  BY DEF Nothing, Success, FailureFor, Refusal, Definite, Ambiguous, Failure

LEMMA PutKeepsNoneLost ==
    ASSUME TypeOK, NoneLost, NEW c \in Calls, NEW r, Put(c, r), r.code # "capacity",
           UNCHANGED pc
    PROVE  NoneLost'
  BY DEF TypeOK, NoneLost, Put

LEMMA NoneLostStep ==
    ASSUME ~StartMayFail, TypeOK, NoneLost, NEW c \in Calls, CallStep(c)
    PROVE  NoneLost'
  <1>1. CASE Reject(c) \/ Refuse(c) \/ TimeOut(c)
    BY <1>1 DEF Reject, Refuse, TimeOut, Return, TypeOK, NoneLost
  <1>2. CASE Acquire(c) \/ Start(c) \/ Expire(c)
    BY <1>2 DEF Acquire, Start, Expire, TypeOK, NoneLost
  <1>3. CASE StartFails(c)
    BY <1>3 DEF StartFails
  <1>4. CASE Get(c)
    BY <1>4, WorkerCodes DEF Get, Return, TypeOK, NoneLost
  <1>5. CASE RequestRaises(c)
    BY <1>5, WorkerCodes, PutKeepsNoneLost DEF RequestRaises
  <1>6. CASE RespondFinal(c)
    BY <1>6, WorkerCodes, PutKeepsNoneLost DEF RespondFinal
  <1>7. CASE BodyTooLarge(c) \/ DeadlinePassed(c)
    BY <1>7, WorkerCodes, PutKeepsNoneLost DEF BodyTooLarge, DeadlinePassed
  <1>8. CASE BodyRaises(c)
    BY <1>8, WorkerCodes, PutKeepsNoneLost DEF BodyRaises
  <1>9. CASE Rejected(c)
    BY <1>9, WorkerCodes, PutKeepsNoneLost DEF Rejected
  <1>10. CASE Complete(c)
    BY <1>10, WorkerCodes, PutKeepsNoneLost DEF Complete
  <1>11. CASE RespondBody(c) \/ Exit(c) \/ Apply(c)
    BY <1>11 DEF RespondBody, Exit, Apply, NoneLost
  <1> QED
    BY <1>1, <1>2, <1>3, <1>4, <1>5, <1>6, <1>7, <1>8, <1>9, <1>10, <1>11
    DEF CallStep, CallerStep, WorkerStep

\* A call that comes back with "capacity" was refused in this step.
LEMMA CapacityIsRefused ==
    ASSUME IInv, NoneLost, NEW d \in Calls, CallStep(d), NEW c \in Calls,
           result'[c].code = "capacity", result[c] = Nothing
    PROVE  Refuse(c)
  <1>1. TypeOK
    BY DEF IInv
  <1>2. result'[c] # result[c]
    BY WorkerCodes
  <1>3. CASE Reject(d)
    <2>1. Definite(d, "invalid_destination", 502).code # "capacity"
      BY DEF Definite, Failure
    <2> QED  BY <1>1, <1>2, <1>3, <2>1 DEF Reject, Return, TypeOK
  <1>4. CASE Refuse(d)
    BY <1>1, <1>2, <1>4 DEF Refuse, Return, TypeOK
  <1>5. CASE Get(d)
    BY <1>1, <1>2, <1>5 DEF Get, Return, TypeOK, NoneLost
  <1>6. CASE TimeOut(d)
    BY <1>1, <1>2, <1>6, WorkerCodes DEF TimeOut, Return, TypeOK
  <1>7. CASE Acquire(d) \/ Start(d) \/ StartFails(d) \/ Expire(d) \/ WorkerStep(d) \/ Apply(d)
    BY <1>2, <1>7 DEF Acquire, Start, StartFails, Expire, WorkerStep, RequestRaises,
                      RespondFinal, RespondBody, BodyTooLarge, DeadlinePassed, BodyRaises,
                      Rejected, Complete, Exit, Apply
  <1> QED  BY <1>3, <1>4, <1>5, <1>6, <1>7 DEF CallStep, CallerStep

\* While no slot is lost, no permit left means Capacity calls at work.
LEMMA RefusedWhileBusy ==
    ASSUME IInv, NoneLost, NEW c \in Calls, Refuse(c)
    PROVE  Cardinality(Busy) = Capacity
  <1>1. Holders = Busy
    BY DEF NoneLost, Holders
  <1>2. slots = 0 /\ slots = Capacity - Cardinality(Holders)
    BY DEF IInv, SlotAccounting, Refuse
  <1> QED  BY <1>1, <1>2, HoldersFinite, CapacityAssumption

\* Provided that threads start, a call is refused for capacity only while Capacity
\* calls are really at work, for any number of calls and any capacity.  (If one does
\* not start, its slot is lost, and the calls after it may be refused for nothing.)
THEOREM RefusalsMeanBusy == ~StartMayFail => (Spec => RefusalMeansBusy)
  <1> SUFFICES ASSUME ~StartMayFail PROVE Spec => RefusalMeansBusy
    OBVIOUS
  <1>1. Init => NoneLost
    BY WorkerCodes DEF Init, NoneLost
  <1>2. IInv /\ NoneLost /\ [Next]_vars => NoneLost'
    <2> SUFFICES ASSUME IInv, NoneLost, [Next]_vars PROVE NoneLost'
      OBVIOUS
    <2>1. CASE Next
      BY <2>1, NoneLostStep DEF Next, IInv
    <2>2. CASE UNCHANGED vars
      BY <2>2 DEF vars, NoneLost
    <2> QED  BY <2>1, <2>2
  <1>3. IInv /\ NoneLost /\ [Next]_vars =>
          [\A c \in Calls :
              result'[c].code = "capacity" /\ result[c] = Nothing
                 => Cardinality(Busy) = Capacity]_vars
    <2> SUFFICES ASSUME IInv, NoneLost, Next, NEW c \in Calls,
                        result'[c].code = "capacity", result[c] = Nothing
                 PROVE  Cardinality(Busy) = Capacity
      OBVIOUS
    <2>1. PICK d \in Calls : CallStep(d)
      BY DEF Next
    <2> QED  BY <2>1, CapacityIsRefused, RefusedWhileBusy
  <1> QED  BY <1>1, <1>2, <1>3, Invariant, PTL DEF Spec, RefusalMeansBusy

-----------------------------------------------------------------------------
(* The refinement: every step of a call, its worker and the dependency is  *)
(* a step of DependencyCall, or none.                                      *)

StageMap == [c \in Calls |-> Stage(c)]
ToldMap == [c \in Calls |-> Told(c)]

\* What DependencyCall sees of a call is a function of its pc, worker and result.
LEMMA ViewFrame ==
    ASSUME NEW d \in Calls, pc'[d] = pc[d], worker'[d] = worker[d], result'[d] = result[d]
    PROVE  Stage(d)' = Stage(d) /\ Told(d)' = Told(d)
  BY DEF Stage, Told, Holders, Busy, Running

\* A step of one call does not change what is seen of another.
LEMMA OthersView ==
    ASSUME TypeOK, NEW c \in Calls, CallStep(c), NEW d \in Calls, d # c
    PROVE  Stage(d)' = Stage(d) /\ Told(d)' = Told(d)
  <1>1. CASE Reject(c) \/ Refuse(c) \/ Acquire(c) \/ Start(c) \/ StartFails(c)
             \/ Get(c) \/ TimeOut(c) \/ Expire(c)
    <2>1. pc'[d] = pc[d] /\ worker'[d] = worker[d] /\ result'[d] = result[d]
      BY <1>1 DEF Reject, Refuse, Acquire, Start, StartFails, Get, TimeOut, Expire,
                  Return, TypeOK
    <2> QED  BY <2>1, ViewFrame
  <1>2. CASE WorkerStep(c) \/ Apply(c)
    <2>1. pc'[d] = pc[d] /\ worker'[d] = worker[d] /\ result'[d] = result[d]
      BY <1>2 DEF WorkerStep, RequestRaises, RespondFinal, RespondBody, BodyTooLarge,
                  DeadlinePassed, BodyRaises, Rejected, Complete, Exit, Apply,
                  Put, TypeOK
    <2> QED  BY <2>1, ViewFrame
  <1> QED  BY <1>1, <1>2 DEF CallStep, CallerStep

\* A call whose own view stays as it was: nothing is seen to change.
LEMMA QuietStep ==
    ASSUME TypeOK, NEW c \in Calls, CallStep(c),
           Stage(c)' = Stage(c), Told(c)' = Told(c)
    PROVE  StageMap' = StageMap /\ ToldMap' = ToldMap
  <1>1. \A d \in Calls : Stage(d)' = Stage(d) /\ Told(d)' = Told(d)
    BY OthersView
  <1> QED  BY <1>1 DEF StageMap, ToldMap

\* The maps follow the one call that moved.
LEMMA MapsFollow ==
    ASSUME TypeOK, NEW c \in Calls, CallStep(c)
    PROVE  /\ StageMap' = [StageMap EXCEPT ![c] = Stage(c)']
           /\ ToldMap' = [ToldMap EXCEPT ![c] = Told(c)']
  <1>1. \A d \in Calls : d # c => Stage(d)' = Stage(d) /\ Told(d)' = Told(d)
    BY OthersView
  <1> QED  BY <1>1 DEF StageMap, ToldMap

\* The steps DependencyCall does not see: the thread starts or fails to, time
\* passes, the worker gets its answer and puts it.
LEMMA UnseenStep ==
    ASSUME IInv, NEW c \in Calls, CallStep(c),
           \/ Start(c) \/ StartFails(c) \/ Expire(c)
           \/ RequestRaises(c) \/ RespondFinal(c) \/ RespondBody(c) \/ BodyTooLarge(c)
           \/ DeadlinePassed(c) \/ BodyRaises(c) \/ Rejected(c) \/ Complete(c)
    PROVE  StageMap' = StageMap /\ ToldMap' = ToldMap /\ applied' = applied
  <1>1. TypeOK /\ CallOK(c)
    BY DEF IInv
  <1>2. CASE Start(c) \/ StartFails(c) \/ Expire(c)
    <2>1. Stage(c)' = Stage(c) /\ Told(c)' = Told(c) /\ applied' = applied
      BY <1>1, <1>2 DEF Start, StartFails, Expire, TypeOK, CallOK,
                        Stage, Told, Holders, Busy, Running
    <2> QED  BY <1>1, <2>1, QuietStep
  <1>3. CASE \/ RequestRaises(c) \/ RespondFinal(c) \/ RespondBody(c) \/ BodyTooLarge(c)
             \/ DeadlinePassed(c) \/ BodyRaises(c) \/ Rejected(c) \/ Complete(c)
    <2>1. Running(c) /\ Running(c)' /\ UNCHANGED <<pc, result, applied>>
      BY <1>1, <1>3 DEF RequestRaises, RespondFinal, RespondBody, BodyTooLarge,
                        DeadlinePassed, BodyRaises, Rejected, Complete, Put, TypeOK, Running
    <2>2. Stage(c)' = Stage(c) /\ Told(c)' = Told(c)
      BY <2>1 DEF Stage, Told, Holders, Busy
    <2> QED  BY <1>1, <2>1, <2>2, QuietStep
  <1> QED  BY <1>2, <1>3

\* A caller that was let in learns what DependencyCall lets it be told.
LEMMA ReturnIsTell ==
    ASSUME IInv, NEW c \in Calls, CallStep(c), NEW r, Return(c, r),
           pc[c] = "waiting", FinalFor(c, r), UNCHANGED <<worker, applied>>
    PROVE  Dependency!Tell(c)
  <1>1. TypeOK /\ CallOK(c)
    BY DEF IInv
  <1>2. pc'[c] = "done" /\ result'[c] = r
    BY <1>1 DEF Return, TypeOK
  <1>3. Stage(c)' = Stage(c) /\ Stage(c) # "new" /\ Told(c) = "nothing"
    BY <1>1, <1>2 DEF CallOK, TypeOK, Stage, Told, Holders, Busy, Running
  <1>4. Told(c)' = IF r.code = "ok" THEN "ok" ELSE IF r.unknown THEN "unknown" ELSE "failed"
    BY <1>2 DEF Told
  <1>5. Told(c)' \in {"ok", "failed", "unknown"}
    BY <1>4
  <1>6. Dependency!Truthful(c, Told(c)')
    BY <1>4 DEF Dependency!Truthful, FinalFor
  <1>7. StageMap' = StageMap /\ ToldMap' = [ToldMap EXCEPT ![c] = Told(c)']
    <2>1. StageMap' = [StageMap EXCEPT ![c] = Stage(c)]
      BY <1>1, <1>3, MapsFollow
    <2> QED  BY <1>1, <2>1, MapsFollow DEF StageMap
  <1> QED  BY <1>3, <1>5, <1>6, <1>7 DEF Dependency!Tell, StageMap, ToldMap

\* A caller that is not let in is told of a failure, before anything was sent.
LEMMA TurnedAway ==
    ASSUME IInv, NEW c \in Calls, CallStep(c), NEW code \in {"invalid_destination", "capacity"},
           pc[c] = "idle", Return(c, Definite(c, code, 502)), UNCHANGED <<worker, applied>>
    PROVE  Dependency!TurnAway(c)
  <1>1. TypeOK /\ CallOK(c)
    BY DEF IInv
  <1>2. pc'[c] = "done" /\ result'[c] = Definite(c, code, 502)
    BY <1>1 DEF Return, TypeOK
  <1>3. Definite(c, code, 502).code # "ok" /\ ~Definite(c, code, 502).unknown
    BY DEF Definite, Failure
  <1>4. Stage(c)' = Stage(c) /\ Stage(c) = "new" /\ Told(c) = "nothing" /\ Told(c)' = "failed"
    BY <1>1, <1>2, <1>3 DEF CallOK, TypeOK, Stage, Told, Holders, Busy, Running
  <1>5. StageMap' = StageMap /\ ToldMap' = [ToldMap EXCEPT ![c] = "failed"]
    <2>1. StageMap' = [StageMap EXCEPT ![c] = Stage(c)]
      BY <1>1, <1>4, MapsFollow
    <2> QED  BY <1>1, <1>4, <2>1, MapsFollow DEF StageMap
  <1> QED  BY <1>4, <1>5 DEF Dependency!TurnAway, StageMap, ToldMap

\* The calls DependencyCall counts as working are those that hold a slot.
LEMMA WorkingHold == Dependency!Working = Holders
  <1>1. Dependency!Working = {c \in Calls : Stage(c) = "working"}
    BY DEF Dependency!Working
  <1>2. Holders \subseteq Calls
    BY DEF Holders, Busy
  <1> QED  BY <1>1, <1>2 DEF Stage

\* DependencyCall counts as BoundedTransport does.
LEMMA SameCount == \A S : Dependency!Cardinality(S) = Cardinality(S)
  BY DEF Dependency!Cardinality, Cardinality

LEMMA AcquireIsBegin ==
    ASSUME IInv, NEW c \in Calls, CallStep(c), Acquire(c)
    PROVE  Dependency!Begin(c)
  <1>1. TypeOK /\ CallOK(c) /\ SlotAccounting
    BY DEF IInv
  <1>2. Cardinality(Dependency!Working) < Capacity
    BY <1>1, WorkingHold, HoldersFinite, CapacityAssumption DEF Acquire, SlotAccounting
  <1>3. /\ Stage(c) = "new" /\ Told(c) = "nothing"
        /\ Stage(c)' = "working" /\ Told(c)' = Told(c)
    BY <1>1 DEF Acquire, CallOK, TypeOK, Stage, Told, Holders, Busy, Running
  <1>4. StageMap' = [StageMap EXCEPT ![c] = "working"] /\ ToldMap' = ToldMap
    <2>1. ToldMap' = [ToldMap EXCEPT ![c] = Told(c)]
      BY <1>1, <1>3, MapsFollow
    <2> QED  BY <1>1, <1>3, <2>1, MapsFollow DEF ToldMap
  <1>5. applied' = applied
    BY DEF Acquire
  <1> QED  BY <1>2, <1>3, <1>4, <1>5, SameCount DEF Dependency!Begin, StageMap, ToldMap

LEMMA ExitIsFinish ==
    ASSUME IInv, NEW c \in Calls, CallStep(c), Exit(c)
    PROVE  Dependency!Finish(c)
  <1>1. TypeOK /\ CallOK(c)
    BY DEF IInv
  <1>2. /\ Stage(c) = "working" /\ Stage(c)' = "finished" /\ Told(c)' = Told(c)
    BY <1>1 DEF Exit, CallOK, TypeOK, Stage, Told, Holders, Busy, Running
  <1>3. StageMap' = [StageMap EXCEPT ![c] = "finished"] /\ ToldMap' = ToldMap
    <2>1. ToldMap' = [ToldMap EXCEPT ![c] = Told(c)]
      BY <1>1, <1>2, MapsFollow
    <2> QED  BY <1>1, <1>2, <2>1, MapsFollow DEF ToldMap
  <1>4. applied' = applied
    BY DEF Exit
  <1> QED  BY <1>2, <1>3, <1>4 DEF Dependency!Finish, StageMap, ToldMap

\* The dependency applies no write whose caller was told that it failed.
LEMMA ApplyIsCommit ==
    ASSUME IInv, NEW c \in Calls, CallStep(c), Apply(c)
    PROVE  Dependency!Commit(c)
  <1>1. TypeOK /\ CallOK(c) /\ c \in Writes
    BY DEF IInv, Apply
  <1>2. Stage(c) # "new"
    BY <1>1 DEF Apply, TypeOK, Stage, Holders, Busy, Running
  <1>3. Told(c) # "failed"
    BY <1>1 DEF Apply, CallOK, FinalFor, Told
  <1>4. Stage(c)' = Stage(c) /\ Told(c)' = Told(c)
    BY DEF Apply, Stage, Told, Holders, Busy, Running
  <1>5. StageMap' = StageMap /\ ToldMap' = ToldMap
    BY <1>1, <1>4, QuietStep
  <1> QED  BY <1>1, <1>2, <1>3, <1>5 DEF Apply, Dependency!Commit, StageMap, ToldMap

LEMMA CallStepRefines ==
    ASSUME IInv, NEW c \in Calls, CallStep(c)
    PROVE  \/ Dependency!DepNext
           \/ StageMap' = StageMap /\ ToldMap' = ToldMap /\ applied' = applied
  <1>1. TypeOK /\ CallOK(c) /\ "timeout" \in FailureCodes
    BY DEF IInv, FailureCodes
  <1>2. CASE Reject(c) \/ Refuse(c)
    <2>1. Dependency!TurnAway(c)
      BY <1>2, TurnedAway DEF Reject, Refuse
    <2> QED  BY <2>1 DEF Dependency!DepNext
  <1>3. CASE Acquire(c)
    BY <1>3, AcquireIsBegin DEF Dependency!DepNext
  <1>4. CASE Get(c)
    <2>1. FinalFor(c, queue[c])
      BY <1>1, <1>4 DEF Get, CallOK
    <2>2. Dependency!Tell(c)
      BY <1>4, <2>1, ReturnIsTell DEF Get
    <2> QED  BY <2>2 DEF Dependency!DepNext
  <1>5. CASE TimeOut(c)
    <2>1. FinalFor(c, Ambiguous(c, "timeout", 502))
      BY <1>1, AmbiguousIsTrue
    <2>2. Dependency!Tell(c)
      BY <1>5, <2>1, ReturnIsTell DEF TimeOut
    <2> QED  BY <2>2 DEF Dependency!DepNext
  <1>6. CASE Exit(c)
    BY <1>6, ExitIsFinish DEF Dependency!DepNext
  <1>7. CASE Apply(c)
    BY <1>7, ApplyIsCommit DEF Dependency!DepNext
  <1> QED
    BY <1>2, <1>3, <1>4, <1>5, <1>6, <1>7, UnseenStep DEF CallStep, CallerStep, WorkerStep

\* The transport implements DependencyCall: each caller is told once, truly and for
\* good, with at most Capacity calls at work, for any number of calls.
THEOREM TransportKeepsPromise == Spec => ImplementsDependencyCall
  <1>1. Init => Dependency!DepInit
    BY DEF Init, Dependency!DepInit, Stage, Told, Holders, Busy, Running
  <1>2. ASSUME IInv, [Next]_vars
        PROVE  [Dependency!DepNext]_(Dependency!depVars)
    <2>1. CASE Next
      <3>1. PICK c \in Calls : CallStep(c)
        BY <2>1 DEF Next
      <3> QED  BY <1>2, <3>1, CallStepRefines DEF Dependency!depVars, StageMap, ToldMap
    <2>2. CASE UNCHANGED vars
      <3>1. StageMap' = StageMap /\ ToldMap' = ToldMap /\ applied' = applied
        BY <2>2 DEF vars, StageMap, ToldMap, Stage, Told, Holders, Busy, Running
      <3> QED  BY <3>1 DEF Dependency!depVars, StageMap, ToldMap
    <2> QED  BY <1>2, <2>1, <2>2
  <1> QED  BY <1>1, <1>2, Invariant, PTL DEF Spec, ImplementsDependencyCall, Dependency!DepSpec
=============================================================================
