--------------------------- MODULE HQProxy_proofs ---------------------------
(***************************************************************************)
(* Proofs about HQProxy, for a client with a transport or without, every   *)
(* number of attempts and every set of statuses: what the client tells the *)
(* route is true, as DependencyCall has it; and a person who tries again   *)
(* only upon "failed" has no write carried out twice.                      *)
(***************************************************************************)
EXTENDS HQProxy, FiniteSetTheorems, TLAPS

-----------------------------------------------------------------------------
(* What holds whatever the person does.  A failure of which the client is   *)
(* certain is a refusal, and a refusal is for good.                         *)

Answers == [status: Nat, unknown: BOOLEAN, ref: BOOLEAN]

Shows == {"safe to retry", "server error", "done", "outcome unknown", "failed"}

TypeInv ==
    /\ at \in [Nth -> {"idle", "sent", "answered", "shown"}]
    /\ answer \in [Nth -> Answers]
    /\ page \in [Nth -> Shows \cup {"none"}]
    /\ refused \in [Nth -> BOOLEAN]
    /\ applied \in [Nth -> BOOLEAN]

\* Only an attempt that was made is applied, and none that HQ refused.
AppliedWasSent == \A n \in Nth : applied[n] => at[n] # "idle" /\ ~refused[n]

RefusedIsAnswered == \A n \in Nth : refused[n] => at[n] \in {"answered", "shown"}

FailedIsRefused == \A n \in Nth : Told(n) = "failed" => refused[n]

ClientInv == TypeInv /\ AppliedWasSent /\ RefusedIsAnswered /\ FailedIsRefused

(* What holds of a person who is careful.  That an attempt is made at all is *)
(* a promise about all attempts before it: each was refused, for good.       *)

PageIsRefused == \A n \in Nth : page[n] = "failed" => at[n] = "shown" /\ refused[n]

EarlierFailed == \A n, m \in Nth : m < n /\ at[n] # "idle" => page[m] = "failed"

IInv == ClientInv /\ PageIsRefused /\ EarlierFailed

-----------------------------------------------------------------------------
(* The answers of the client.                                              *)

\* What _request_json shows as failed is what the client said had failed.
LEMMA ShownFailed ==
    ASSUME NEW r \in Answers
    PROVE  /\ Shown(r) \in Shows
           /\ Shown(r) = "failed" => Says(r) = "failed"
  BY DEF Answers, Shown, Says, LeavesOpen, Shows

\* HQ's answer as the client hands it on: a success of an applied write, a failure of
\* one that HQ refused, or no word on the outcome.
TrueAnswer(n, r) ==
    /\ Says(r) = "ok" => applied[n]
    /\ Says(r) = "failed" => refused'[n]

ClientStep(n) == Answered(n) \/ Unanswered(n) \/ TurnedAway(n)

\* The words the client has for an answer of its own, and for HQ's status.
LEMMA OwnWords ==
    ASSUME Bounded \in BOOLEAN, NEW unknown \in BOOLEAN
    PROVE  /\ [status |-> 502, unknown |-> unknown, ref |-> TRUE] \in Answers
           /\ Says([status |-> 502, unknown |-> unknown, ref |-> TRUE])
                 = IF unknown \/ ~Bounded THEN "unknown" ELSE "failed"
  BY DEF Answers, Says, LeavesOpen

\* What is said of HQ's status when every 5xx leaves the outcome open, by the
\* transport's mark or by its status.
LEMMA WordsOfStatus ==
    ASSUME NEW s \in 200..599, NEW r \in Answers, r.status = s, r.unknown => s >= 500,
           s >= 500 => LeavesOpen(r)
    PROVE  /\ Says(r) = "ok" => s < 400
           /\ Says(r) = "failed" => s \in 400..499
  <1>1. CASE LeavesOpen(r)
    BY <1>1 DEF Says
  <1>2. CASE ~LeavesOpen(r)
    BY <1>2 DEF Says
  <1> QED  BY <1>1, <1>2

BoundedWords(s) == [status |-> s, unknown |-> s >= 500, ref |-> s >= 400]
LegacyWords(s, ref) == [status |-> s, unknown |-> FALSE, ref |-> ref]

LEMMA WordsOfTransport ==
    ASSUME NEW s \in 200..599
    PROVE  /\ BoundedWords(s) \in Answers
           /\ Says(BoundedWords(s)) = "ok" => s < 400
           /\ Says(BoundedWords(s)) = "failed" => s \in 400..499
  <1> DEFINE r == BoundedWords(s)
  <1>1. s \in Nat /\ r.status = s /\ r.unknown = (s >= 500) /\ r \in Answers
    BY DEF Answers, BoundedWords
  <1>2. (r.unknown => s >= 500) /\ (s >= 500 => LeavesOpen(r))
    BY <1>1, Zenon DEF LeavesOpen
  <1> HIDE DEF r
  <1> QED  BY <1>1, <1>2, WordsOfStatus DEF r

LEMMA WordsOfLegacy ==
    ASSUME ~Bounded, NEW s \in 200..599, NEW ref \in BOOLEAN
    PROVE  /\ LegacyWords(s, ref) \in Answers
           /\ Says(LegacyWords(s, ref)) = "ok" => s < 400
           /\ Says(LegacyWords(s, ref)) = "failed" => s \in 400..499
  <1> DEFINE r == LegacyWords(s, ref)
  <1>1. s \in Nat /\ r.status = s /\ ~r.unknown /\ r \in Answers
    BY DEF Answers, LegacyWords
  <1>2. (r.unknown => s >= 500) /\ (s >= 500 => LeavesOpen(r))
    BY <1>1, Zenon DEF LeavesOpen
  <1> HIDE DEF r
  <1> QED  BY <1>1, <1>2, WordsOfStatus DEF r

\* HQ answers with a status: the refusals are those it sends as 3xx and 4xx.
LEMMA AnsweredShape ==
    ASSUME Statuses \subseteq 200..599, Bounded \in BOOLEAN, TypeInv, RefusedIsAnswered,
           NEW n \in Nth, Answered(n)
    PROVE  /\ refused' \in [Nth -> BOOLEAN]
           /\ \A m \in Nth \ {n} : refused'[m] = refused[m]
           /\ refused'[n] => ~applied[n]
           /\ \E r \in Answers :
                 /\ TrueAnswer(n, r)
                 /\ at[n] = "sent"
                 /\ at' = [at EXCEPT ![n] = "answered"]
                 /\ answer' = [answer EXCEPT ![n] = r]
  <1>1. PICK s \in Statuses :
           /\ s < 300 => applied[n]
           /\ \/ s \in 300..499 /\ ~applied[n] /\ refused' = [refused EXCEPT ![n] = TRUE]
              \/ s \notin 300..499 /\ UNCHANGED refused
           /\ \/ s \in 300..399 /\ Return(n, 502, FALSE, TRUE)
              \/ s \notin 300..399 /\ Bounded /\ Return(n, s, s >= 500, s >= 400)
              \/ s \notin 300..399 /\ ~Bounded /\ \E ref \in Refs(s) : Return(n, s, FALSE, ref)
    BY Zenon DEF Answered
  <1>2. s \in 200..599
    OBVIOUS
  <1>3. at[n] = "sent" /\ ~refused[n]
    BY <1>1 DEF Return, RefusedIsAnswered
  <1>4. refused \in [Nth -> BOOLEAN]
    BY DEF TypeInv
  <1>5. /\ refused' \in [Nth -> BOOLEAN]
        /\ \A m \in Nth \ {n} : refused'[m] = refused[m]
        /\ refused'[n] <=> s \in 300..499
    <2>1. \/ s \in 300..499 /\ refused' = [refused EXCEPT ![n] = TRUE]
          \/ s \notin 300..499 /\ UNCHANGED refused
      BY <1>1, Zenon
    <2>2. CASE s \in 300..499 /\ refused' = [refused EXCEPT ![n] = TRUE]
      <3>1. refused'[n] /\ refused' \in [Nth -> BOOLEAN]
        BY <1>4, <2>2
      <3>2. \A m \in Nth \ {n} : refused'[m] = refused[m]
        BY <1>4, <2>2
      <3> QED  BY <2>2, <3>1, <3>2, Zenon
    <2>3. CASE s \notin 300..499 /\ UNCHANGED refused
      BY <1>3, <1>4, <2>3, Zenon
    <2> QED  BY <2>1, <2>2, <2>3, Zenon
  <1>6. refused'[n] => ~applied[n]
    BY <1>1, <1>5, Zenon
  <1>7. \E r \in Answers :
           /\ TrueAnswer(n, r)
           /\ at[n] = "sent"
           /\ at' = [at EXCEPT ![n] = "answered"]
           /\ answer' = [answer EXCEPT ![n] = r]
    <2>1. CASE s \in 300..399
      <3> DEFINE r == [status |-> 502, unknown |-> FALSE, ref |-> TRUE]
      <3>1. Return(n, 502, FALSE, TRUE)
        BY <1>1, <2>1, Zenon
      <3>2. /\ at' = [at EXCEPT ![n] = "answered"]
            /\ answer' = [answer EXCEPT ![n] = r]
        BY <3>1, Zenon DEF Return
      <3>3. r \in Answers /\ Says(r) # "ok"
        BY OwnWords
      <3>4. s \in 300..499
        BY <2>1
      <3>5. TrueAnswer(n, r)
        BY <1>5, <3>3, <3>4, Zenon DEF TrueAnswer
      <3> HIDE DEF r
      <3> QED  BY <1>3, <3>2, <3>3, <3>5, Zenon
    <2>2. CASE s \notin 300..399 /\ Bounded
      <3> DEFINE r == BoundedWords(s)
      <3>1. Return(n, s, s >= 500, s >= 400)
        BY <1>1, <2>2, Zenon
      <3>2. /\ at' = [at EXCEPT ![n] = "answered"]
            /\ answer' = [answer EXCEPT ![n] = r]
        BY <3>1, Zenon DEF Return, BoundedWords
      <3>3. /\ r \in Answers
            /\ Says(r) = "ok" => s < 400
            /\ Says(r) = "failed" => s \in 400..499
        BY <1>2, WordsOfTransport
      <3>4. (s < 400 => s < 300) /\ (s \in 400..499 => s \in 300..499)
        BY <1>2, <2>2
      <3>5. TrueAnswer(n, r)
        BY <1>1, <1>5, <3>3, <3>4, Zenon DEF TrueAnswer
      <3> HIDE DEF r
      <3> QED  BY <1>3, <3>2, <3>3, <3>5, Zenon
    <2>3. CASE s \notin 300..399 /\ ~Bounded
      <3>0. PICK ref \in Refs(s) : Return(n, s, FALSE, ref)
        BY <1>1, <2>3, Zenon
      <3>a. ref \in BOOLEAN
        BY DEF Refs
      <3> DEFINE r == LegacyWords(s, ref)
      <3>1. Return(n, s, FALSE, ref)
        BY <3>0
      <3>2. /\ at' = [at EXCEPT ![n] = "answered"]
            /\ answer' = [answer EXCEPT ![n] = r]
        BY <3>1, Zenon DEF Return, LegacyWords
      <3>3. /\ r \in Answers
            /\ Says(r) = "ok" => s < 400
            /\ Says(r) = "failed" => s \in 400..499
        BY <1>2, <2>3, <3>a, WordsOfLegacy
      <3>4. (s < 400 => s < 300) /\ (s \in 400..499 => s \in 300..499)
        BY <1>2, <2>3
      <3>5. TrueAnswer(n, r)
        BY <1>1, <1>5, <3>3, <3>4, Zenon DEF TrueAnswer
      <3> HIDE DEF r
      <3> QED  BY <1>3, <3>2, <3>3, <3>5, Zenon
    <2> QED  BY <2>1, <2>2, <2>3
  <1> QED  BY <1>5, <1>6, <1>7, Zenon

\* Whatever the client returns is true of the write.
LEMMA ClientAnswers ==
    ASSUME Statuses \subseteq 200..599, Bounded \in BOOLEAN, TypeInv, RefusedIsAnswered,
           NEW n \in Nth, ClientStep(n)
    PROVE  /\ refused' \in [Nth -> BOOLEAN]
           /\ \A m \in Nth \ {n} : refused'[m] = refused[m]
           /\ refused'[n] => ~applied[n]
           /\ UNCHANGED <<page, applied>>
           /\ \E r \in Answers :
                 /\ TrueAnswer(n, r)
                 /\ at[n] = "sent"
                 /\ at' = [at EXCEPT ![n] = "answered"]
                 /\ answer' = [answer EXCEPT ![n] = r]
  <1>1. UNCHANGED <<page, applied>>
    BY DEF ClientStep, Answered, Unanswered, TurnedAway
  <1>2. CASE Answered(n)
    BY <1>1, <1>2, AnsweredShape
  <1>3. CASE Unanswered(n)
    <2> DEFINE r == [status |-> 502, unknown |-> Bounded, ref |-> TRUE]
    <2>1. /\ at[n] = "sent"
          /\ at' = [at EXCEPT ![n] = "answered"]
          /\ answer' = [answer EXCEPT ![n] = r]
          /\ UNCHANGED refused
      BY <1>3 DEF Unanswered, Return
    <2>2. r \in Answers /\ Says(r) = "unknown"
      BY OwnWords
    <2>3. TrueAnswer(n, r)
      BY <2>2 DEF TrueAnswer
    <2>4. refused' \in [Nth -> BOOLEAN] /\ ~refused'[n]
      BY <2>1 DEF TypeInv, RefusedIsAnswered
    <2> HIDE DEF r
    <2> QED  BY <1>1, <2>1, <2>2, <2>3, <2>4, Zenon
  <1>4. CASE TurnedAway(n)
    <2> DEFINE r == [status |-> 502, unknown |-> FALSE, ref |-> TRUE]
    <2>1. /\ at[n] = "sent"
          /\ at' = [at EXCEPT ![n] = "answered"]
          /\ answer' = [answer EXCEPT ![n] = r]
          /\ ~applied[n] /\ refused' = [refused EXCEPT ![n] = TRUE]
      BY <1>4 DEF TurnedAway, Return
    <2>2. r \in Answers /\ Says(r) # "ok"
      BY OwnWords
    <2>3. /\ refused' \in [Nth -> BOOLEAN] /\ refused'[n]
          /\ \A m \in Nth \ {n} : refused'[m] = refused[m]
      BY <2>1 DEF TypeInv
    <2>4. TrueAnswer(n, r)
      BY <2>2, <2>3 DEF TrueAnswer
    <2> HIDE DEF r
    <2> QED  BY <1>1, <2>1, <2>2, <2>3, <2>4, Zenon
  <1> QED  BY <1>2, <1>3, <1>4 DEF ClientStep

-----------------------------------------------------------------------------
(* What the client's answers keep, for any person.                         *)

\* What a step of one attempt does to what its route, and others', were told.
LEMMA ToldFrame ==
    ASSUME NEW m \in Nth, at'[m] = at[m], answer'[m] = answer[m]
    PROVE  Told(m)' = Told(m)
  BY DEF Told, Says, LeavesOpen

LEMMA ClientStepKeeps ==
    ASSUME Statuses \subseteq 200..599, Bounded \in BOOLEAN, ClientInv, NEW n \in Nth, ClientStep(n)
    PROVE  ClientInv'
  <1> USE DEF ClientInv
  <1>1. PICK r \in Answers :
           /\ TrueAnswer(n, r)
           /\ at[n] = "sent"
           /\ at' = [at EXCEPT ![n] = "answered"]
           /\ answer' = [answer EXCEPT ![n] = r]
    BY ClientAnswers
  <1>2. /\ refused' \in [Nth -> BOOLEAN]
        /\ \A m \in Nth \ {n} : refused'[m] = refused[m]
        /\ refused'[n] => ~applied[n]
        /\ UNCHANGED <<page, applied>>
    BY ClientAnswers
  <1>3. TypeInv'
    BY <1>1, <1>2 DEF TypeInv
  <1>4. AppliedWasSent' /\ RefusedIsAnswered'
    BY <1>1, <1>2 DEF TypeInv, AppliedWasSent, RefusedIsAnswered
  <1>5. /\ answer'[n] = r
        /\ \A m \in Nth \ {n} : at'[m] = at[m] /\ answer'[m] = answer[m]
    BY <1>1 DEF TypeInv
  <1>6. ASSUME NEW m \in Nth, Told(m)' = "failed"
        PROVE  refused'[m]
    <2>1. CASE m = n
      <3>1. Told(n)' = Says(r)
        BY <1>1, <1>5 DEF TypeInv, Told, Says, LeavesOpen
      <3> QED  BY <1>1, <1>6, <2>1, <3>1 DEF TrueAnswer
    <2>2. CASE m # n
      BY <1>2, <1>5, <1>6, <2>2, ToldFrame DEF FailedIsRefused
    <2> QED  BY <2>1, <2>2
  <1> QED  BY <1>3, <1>4, <1>6 DEF FailedIsRefused

LEMMA NextKeepsClientInv ==
    ASSUME Statuses \subseteq 200..599, Bounded \in BOOLEAN, ClientInv, [Next]_vars
    PROVE  ClientInv'
  <1> USE DEF ClientInv
  <1>1. ASSUME NEW n \in Nth, Post(n)
        PROVE  ClientInv'
    <2>1. /\ at[n] = "idle" /\ at' = [at EXCEPT ![n] = "sent"]
          /\ UNCHANGED <<answer, page, refused, applied>>
      BY <1>1 DEF Post, MayPost
    <2>2. TypeInv' /\ AppliedWasSent' /\ RefusedIsAnswered'
      BY <2>1 DEF TypeInv, AppliedWasSent, RefusedIsAnswered
    <2>3. FailedIsRefused'
      BY <2>1 DEF TypeInv, FailedIsRefused, Told, Says, LeavesOpen
    <2> QED  BY <2>2, <2>3
  <1>2. ASSUME NEW n \in Nth, Apply(n)
        PROVE  ClientInv'
    <2>1. TypeInv' /\ AppliedWasSent' /\ RefusedIsAnswered'
      BY <1>2 DEF Apply, TypeInv, AppliedWasSent, RefusedIsAnswered
    <2>2. FailedIsRefused'
      BY <1>2 DEF Apply, FailedIsRefused, Told, Says, LeavesOpen
    <2> QED  BY <2>1, <2>2
  <1>3. ASSUME NEW n \in Nth, ClientStep(n)
        PROVE  ClientInv'
    BY <1>3, ClientStepKeeps
  <1>4. ASSUME NEW n \in Nth, Show(n)
        PROVE  ClientInv'
    <2>1. answer[n] \in Answers
      BY DEF TypeInv
    <2>2. Shown(answer[n]) \in Shows
      BY <2>1, ShownFailed
    <2>3. TypeInv' /\ AppliedWasSent' /\ RefusedIsAnswered'
      BY <1>4, <2>2 DEF Show, TypeInv, AppliedWasSent, RefusedIsAnswered
    <2>4. FailedIsRefused'
      BY <1>4 DEF Show, TypeInv, FailedIsRefused, Told, Says, LeavesOpen
    <2> QED  BY <2>3, <2>4
  <1>5. CASE UNCHANGED vars
    BY <1>5 DEF vars, TypeInv, AppliedWasSent, RefusedIsAnswered, FailedIsRefused, Told, Says, LeavesOpen
  <1> QED  BY <1>1, <1>2, <1>3, <1>4, <1>5 DEF Next, ClientStep

LEMMA InitClientInv == Init => ClientInv
  <1>1. NoAnswer \in Answers
    BY DEF NoAnswer, Answers
  <1> QED
    BY <1>1 DEF Init, ClientInv, TypeInv, Shows, AppliedWasSent, RefusedIsAnswered,
                FailedIsRefused, Told

-----------------------------------------------------------------------------
(* The client as a DependencyCall.                                         *)

StageMap == [n \in Nth |-> IF at[n] = "idle" THEN "new" ELSE "working"]
ToldMap == [n \in Nth |-> Told(n)]

\* DependencyCall counts as HQProxy does.
LEMMA SameCount == \A S : Dependency!Cardinality(S) = Cardinality(S)
  BY DEF Dependency!Cardinality, Cardinality

\* There is room for each attempt.
LEMMA RoomForOneMore ==
    ASSUME Attempts \in Nat, NEW n \in Nth, at[n] = "idle"
    PROVE  Cardinality(Dependency!Working) < Attempts
  <1>1. Dependency!Working \in SUBSET Nth /\ n \notin Dependency!Working
    BY DEF Dependency!Working
  <1>2. IsFiniteSet(Nth) /\ Cardinality(Nth) = Attempts
    BY FS_Interval DEF Nth
  <1>3. /\ IsFiniteSet(Dependency!Working)
        /\ Cardinality(Dependency!Working) <= Attempts
        /\ Cardinality(Dependency!Working) # Attempts
    BY <1>1, <1>2, FS_Subset
  <1>4. Cardinality(Dependency!Working) \in Nat
    BY <1>3, FS_CardinalityType
  <1> QED  BY <1>3, <1>4

LEMMA StepKeepsPromise ==
    ASSUME Attempts \in Nat, Statuses \subseteq 200..599, Bounded \in BOOLEAN, ClientInv, Next
    PROVE  \/ Dependency!DepNext
           \/ StageMap' = StageMap /\ ToldMap' = ToldMap /\ applied' = applied
  <1> USE DEF ClientInv
  <1>1. ASSUME NEW n \in Nth, Post(n)
        PROVE  Dependency!Begin(n)
    <2>1. /\ at[n] = "idle" /\ at' = [at EXCEPT ![n] = "sent"]
          /\ UNCHANGED <<answer, applied>>
      BY <1>1 DEF Post, MayPost
    <2>2. StageMap' = [StageMap EXCEPT ![n] = "working"]
      BY <2>1 DEF TypeInv, StageMap
    <2>3. ToldMap' = ToldMap /\ Told(n) = "nothing"
      BY <2>1 DEF TypeInv, ToldMap, Told, Says, LeavesOpen
    <2> QED  BY <2>1, <2>2, <2>3, RoomForOneMore, SameCount DEF Dependency!Begin, StageMap, ToldMap
  <1>2. ASSUME NEW n \in Nth, Apply(n)
        PROVE  Dependency!Commit(n)
    <2>1. Told(n) # "failed"
      BY <1>2 DEF Apply, FailedIsRefused
    <2>2. StageMap' = StageMap /\ ToldMap' = ToldMap
      BY <1>2 DEF Apply, StageMap, ToldMap, Told, Says, LeavesOpen
    <2> QED  BY <1>2, <2>1, <2>2 DEF Apply, Dependency!Commit, StageMap, ToldMap
  <1>3. ASSUME NEW n \in Nth, ClientStep(n)
        PROVE  Dependency!Tell(n)
    <2>1. PICK r \in Answers :
             /\ TrueAnswer(n, r)
             /\ at[n] = "sent"
             /\ at' = [at EXCEPT ![n] = "answered"]
             /\ answer' = [answer EXCEPT ![n] = r]
      BY <1>3, ClientAnswers
    <2>2. UNCHANGED applied /\ (refused'[n] => ~applied[n])
      BY <1>3, ClientAnswers
    <2>3. /\ answer'[n] = r
          /\ \A m \in Nth \ {n} : at'[m] = at[m] /\ answer'[m] = answer[m]
      BY <2>1 DEF TypeInv
    <2>4. Told(n)' = Says(r) /\ Told(n) = "nothing"
      BY <2>1, <2>3 DEF TypeInv, Told, Says, LeavesOpen
    <2>5. \A m \in Nth \ {n} : Told(m)' = Told(m)
      BY <2>3, ToldFrame
    <2>6. StageMap' = StageMap /\ ToldMap' = [ToldMap EXCEPT ![n] = Says(r)]
      <3>1. StageMap' = StageMap
        BY <2>1 DEF TypeInv, StageMap
      <3>2. ToldMap' = [ToldMap EXCEPT ![n] = Says(r)]
        BY <2>4, <2>5 DEF ToldMap
      <3> QED  BY <3>1, <3>2
    <2>7. Says(r) \in {"ok", "failed", "unknown"}
      BY DEF Says
    <2>8. Dependency!Truthful(n, Says(r))
      BY <2>1, <2>2 DEF TrueAnswer, Dependency!Truthful
    <2> QED  BY <2>1, <2>2, <2>4, <2>6, <2>7, <2>8 DEF Dependency!Tell, StageMap, ToldMap
  <1>4. ASSUME NEW n \in Nth, Show(n)
        PROVE  StageMap' = StageMap /\ ToldMap' = ToldMap /\ applied' = applied
    BY <1>4 DEF Show, TypeInv, StageMap, ToldMap, Told, Says, LeavesOpen
  <1> QED  BY <1>1, <1>2, <1>3, <1>4 DEF Next, ClientStep, Dependency!DepNext

\* HQClient, with a transport or without, gives its routes what the transport promises:
\* each write is told of once, truly and for good, for any number of attempts and any
\* statuses, if a 5xx without a transport is taken to say nothing of the outcome.
THEOREM ClientIsTruthful ==
    ASSUME Attempts \in Nat, Statuses \subseteq 200..599, Bounded \in BOOLEAN
    PROVE  Spec => ClientKeepsPromise
  <1>1. Init => Dependency!DepInit
    BY DEF Init, Dependency!DepInit, Told
  <1>2. ASSUME ClientInv, [Next]_vars
        PROVE  [Dependency!DepNext]_(Dependency!depVars)
    <2>1. CASE Next
      BY <1>2, <2>1, StepKeepsPromise DEF Dependency!depVars, StageMap, ToldMap
    <2>2. CASE UNCHANGED vars
      <3>1. StageMap' = StageMap /\ ToldMap' = ToldMap /\ applied' = applied
        BY <2>2 DEF vars, StageMap, ToldMap, Told, Says, LeavesOpen
      <3> QED  BY <3>1 DEF Dependency!depVars, StageMap, ToldMap
    <2> QED  BY <1>2, <2>1, <2>2
  <1>3. ClientInv /\ [Next]_vars => ClientInv'
    BY NextKeepsClientInv
  <1> QED  BY <1>1, <1>2, <1>3, InitClientInv, PTL DEF Spec, ClientKeepsPromise, Dependency!DepSpec

-----------------------------------------------------------------------------
(* A person who tries again only upon "failed".                            *)

\* That the person posts says that the attempt before was refused, and with it all.
LEMMA PostMeansFailed ==
    ASSUME Attempts \in Nat, RetriesOn = {"failed"}, IInv,
           NEW n \in Nth, Post(n), NEW m \in Nth, m < n
    PROVE  page[m] = "failed"
  <1>1. n \in Int /\ m \in Int /\ n > 1 /\ n - 1 \in Nth
    BY DEF Nth
  <1>2. page[n - 1] = "failed"
    BY <1>1 DEF Post, MayPost
  <1>3. at[n - 1] = "shown"
    BY <1>1, <1>2 DEF IInv, PageIsRefused
  <1>4. CASE m = n - 1
    BY <1>2, <1>4
  <1>5. CASE m < n - 1
    BY <1>1, <1>3, <1>5 DEF IInv, EarlierFailed
  <1> QED  BY <1>1, <1>4, <1>5

LEMMA NextKeepsIInv ==
    ASSUME Attempts \in Nat, Statuses \subseteq 200..599, Bounded \in BOOLEAN, RetriesOn = {"failed"},
           IInv, [Next]_vars
    PROVE  IInv'
  <1>1. ClientInv /\ PageIsRefused /\ EarlierFailed /\ TypeInv /\ RefusedIsAnswered
    BY DEF IInv, ClientInv
  <1>2. ClientInv'
    BY <1>1, NextKeepsClientInv
  <1>3. ASSUME NEW n \in Nth, Post(n)
        PROVE  PageIsRefused' /\ EarlierFailed'
    <2>1. /\ at[n] = "idle" /\ at' = [at EXCEPT ![n] = "sent"]
          /\ UNCHANGED <<page, refused>>
      BY <1>3 DEF Post, MayPost
    <2>2. \A m \in Nth : m < n => page[m] = "failed"
      BY <1>3, PostMeansFailed
    <2> QED  BY <1>1, <2>1, <2>2 DEF TypeInv, PageIsRefused, EarlierFailed
  <1>4. ASSUME NEW n \in Nth, Apply(n)
        PROVE  PageIsRefused' /\ EarlierFailed'
    BY <1>1, <1>4 DEF Apply, PageIsRefused, EarlierFailed
  <1>5. ASSUME NEW n \in Nth, ClientStep(n)
        PROVE  PageIsRefused' /\ EarlierFailed'
    <2>1. /\ \A m \in Nth \ {n} : refused'[m] = refused[m]
          /\ UNCHANGED page
          /\ at[n] = "sent" /\ at' = [at EXCEPT ![n] = "answered"]
      BY <1>1, <1>5, ClientAnswers
    <2> QED  BY <1>1, <2>1 DEF TypeInv, PageIsRefused, EarlierFailed
  <1>6. ASSUME NEW n \in Nth, Show(n)
        PROVE  PageIsRefused' /\ EarlierFailed'
    <2>1. answer[n] \in Answers
      BY <1>1 DEF TypeInv
    <2>2. Shown(answer[n]) = "failed" => refused[n]
      <3>1. at[n] = "answered"
        BY <1>6 DEF Show
      <3>2. Told(n) = Says(answer[n])
        BY <3>1 DEF Told
      <3>3. Shown(answer[n]) = "failed" => Says(answer[n]) = "failed"
        BY <2>1, ShownFailed
      <3> QED  BY <1>1, <3>2, <3>3 DEF ClientInv, FailedIsRefused
    <2>3. /\ at[n] = "answered" /\ at' = [at EXCEPT ![n] = "shown"]
          /\ page' = [page EXCEPT ![n] = Shown(answer[n])]
          /\ UNCHANGED refused
      BY <1>6 DEF Show
    <2>4. page[n] # "failed"
      BY <1>1, <2>3 DEF PageIsRefused
    <2> HIDE DEF Shown
    <2> QED  BY <1>1, <2>2, <2>3, <2>4 DEF TypeInv, PageIsRefused, EarlierFailed
  <1>7. ASSUME UNCHANGED vars
        PROVE  PageIsRefused' /\ EarlierFailed'
    BY <1>1, <1>7 DEF vars, PageIsRefused, EarlierFailed
  <1>8. PageIsRefused' /\ EarlierFailed'
    BY <1>3, <1>4, <1>5, <1>6, <1>7 DEF Next, ClientStep
  <1> QED  BY <1>2, <1>8 DEF IInv

LEMMA InitIInv == Init => IInv
  BY InitClientInv DEF Init, IInv, PageIsRefused, EarlierFailed, Nth

\* Two attempts that were both carried out would be one.
LEMMA IInvMeansOnce == IInv /\ Attempts \in Nat => AppliedAtMostOnce
  <1> SUFFICES ASSUME IInv, Attempts \in Nat
               PROVE  AppliedAtMostOnce
    OBVIOUS
  <1> DEFINE S == {n \in Nth : applied[n]}
  <1>1. \A n, m \in S : n = m
    BY DEF IInv, ClientInv, TypeInv, AppliedWasSent, PageIsRefused, EarlierFailed, Nth
  <1>2. CASE S = {}
    BY <1>2, FS_EmptySet DEF AppliedAtMostOnce
  <1>3. CASE S # {}
    <2>1. PICK n \in S : TRUE
      BY <1>3
    <2>2. S = {n}
      BY <1>1, <2>1
    <2>3. Cardinality({n}) = 1
      BY FS_Singleton
    <2> QED  BY <2>2, <2>3 DEF AppliedAtMostOnce
  <1> QED  BY <1>2, <1>3

\* Whatever HQ and the network do, a person who tries again only upon "failed", HQ's own
\* 4xx, has a write carried out once at most, over either client.
THEOREM CautiousWriteAppliesOnce ==
    ASSUME Attempts \in Nat, Statuses \subseteq 200..599, Bounded \in BOOLEAN, RetriesOn = {"failed"}
    PROVE  Spec => []AppliedAtMostOnce
  <1>1. IInv /\ [Next]_vars => IInv'
    BY NextKeepsIInv
  <1>2. IInv => AppliedAtMostOnce
    BY IInvMeansOnce
  <1> QED  BY <1>1, <1>2, InitIInv, PTL DEF Spec
=============================================================================
