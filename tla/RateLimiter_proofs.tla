------------------------ MODULE RateLimiter_proofs -------------------------
(***************************************************************************)
(* Proofs about RateLimiter, for any calls, keys and threads, any limit    *)
(* and any window.                                                         *)
(***************************************************************************)
EXTENDS RateLimiter, FiniteSetTheorems, TLAPS

-----------------------------------------------------------------------------
(* What the dictionary and the copies hold, however calls interleave.      *)

HitsWereAdmitted == \A k \in Keys : hits[k] \subseteq Admitted(k)

CopiesWereAdmitted ==
    \A c \in Checks : pc[c] \in {"loaded", "refused"} =>
        kept[c] \subseteq Within(Admitted(key[c]), when[c])

RefusedWasFull == \A c \in Checks : pc[c] = "refused" => Cardinality(kept[c]) >= MaxCalls

PastSamples == \A c \in Checks : when[c] <= now

(* What they hold besides, of a key whose calls came one after the other:  *)
(* no other call is in progress with it, a hit that is missing has left    *)
(* the window for good, and samples are taken in the order of admissions.  *)

OneAtATime(k) == \A c, d \in InProgress : key[c] = k /\ key[d] = k => c = d

Calling(c, k) == c \in InProgress /\ key[c] = k

MissingExpired(k) ==
    \A d \in Admitted(k) : d \notin hits[k] =>
        /\ now - when[d] >= PerSeconds
        /\ \A c \in Checks : Calling(c, k) => when[c] - when[d] >= PerSeconds

CopyComplete(k) ==
    \A c \in Checks, d \in Admitted(k) :
        pc[c] = "loaded" /\ key[c] = k /\ when[c] - when[d] < PerSeconds => d \in kept[c]

InOrder(k) == \A c \in Checks, d \in Admitted(k) : Calling(c, k) => when[d] <= when[c]

SerialFacts(k) ==
    OneAtATime(k) /\ MissingExpired(k) /\ CopyComplete(k) /\ InOrder(k) /\ Bounded(k)

Shared == TypeOK /\ HitsWereAdmitted /\ CopiesWereAdmitted /\ RefusedWasFull /\ PastSamples

IInv == Shared /\ \A k \in Keys \ clash : SerialFacts(k)

-----------------------------------------------------------------------------
LEMMA InitIInv == Init => IInv
  <1> SUFFICES ASSUME Init
               PROVE  IInv
    OBVIOUS
  <1>1. Shared
    BY LimitAssumption
       DEF Init, Shared, TypeOK, HitsWereAdmitted, CopiesWereAdmitted, RefusedWasFull, PastSamples
  <1>2. InProgress = {} /\ \A k \in Keys : Admitted(k) = {}
    BY DEF Init, InProgress, Admitted
  <1>3. \A c \in Checks : pc[c] # "loaded"
    BY DEF Init
  <1>4. \A k \in Keys : SerialFacts(k)
    BY <1>2, <1>3 DEF SerialFacts, OneAtATime, Calling, MissingExpired, CopyComplete, InOrder, Bounded
  <1> QED  BY <1>1, <1>4 DEF IInv

LEMMA NextKeepsTypes == TypeOK /\ [Next]_vars => TypeOK'
  <1> SUFFICES ASSUME TypeOK, [Next]_vars
               PROVE  TypeOK'
    OBVIOUS
  <1>1. CASE Tick
    BY <1>1, LimitAssumption DEF Tick, TypeOK
  <1>2. ASSUME NEW c \in Checks, Sample(c)
        PROVE  TypeOK'
    <2>1. clash' \subseteq Keys
      BY <1>2 DEF Sample, TypeOK, InProgress
    <2> QED  BY <1>2, <2>1 DEF Sample, TypeOK
  <1>3. ASSUME NEW c \in Checks, Load(c)
        PROVE  TypeOK'
    BY <1>3 DEF Load, TypeOK, Within
  <1>4. ASSUME NEW c \in Checks, Refuse(c) \/ Admit(c)
        PROVE  TypeOK'
    BY <1>4 DEF Refuse, Admit, TypeOK
  <1>5. CASE UNCHANGED vars
    BY <1>5 DEF vars, TypeOK
  <1> QED  BY <1>1, <1>2, <1>3, <1>4, <1>5 DEF Next, Check

-----------------------------------------------------------------------------
(* The facts that hold under any interleaving.                             *)

\* An admission is for good, and so is the time it was dated.
LEMMA AdmissionsStay ==
    ASSUME Shared, [Next]_vars
    PROVE  \A k \in Keys : /\ Admitted(k) \subseteq Admitted(k)'
                           /\ \A d \in Admitted(k) : when'[d] = when[d]
  <1>1. ASSUME NEW d \in Checks, pc[d] # "idle"
        PROVE  key'[d] = key[d] /\ when'[d] = when[d] /\ (pc[d] = "admitted" => pc'[d] = "admitted")
    BY <1>1 DEF Next, Check, Tick, Sample, Load, Refuse, Admit, vars, Shared, TypeOK
  <1> QED  BY <1>1 DEF Admitted

LEMMA NextKeepsShared == Shared /\ [Next]_vars => Shared'
  <1> SUFFICES ASSUME Shared, [Next]_vars
               PROVE  Shared'
    OBVIOUS
  <1>1. TypeOK'
    BY NextKeepsTypes DEF Shared
  <1>2. HitsWereAdmitted'
    <2> SUFFICES ASSUME NEW k \in Keys
                 PROVE  hits'[k] \subseteq Admitted(k)'
      BY DEF HitsWereAdmitted
    <2>1. hits[k] \subseteq Admitted(k)'
      BY AdmissionsStay DEF Shared, HitsWereAdmitted
    <2>2. ASSUME NEW c \in Checks, Refuse(c) \/ Admit(c)
          PROVE  hits'[k] \subseteq Admitted(k)'
      <3>1. CASE k # key[c]
        BY <2>1, <2>2, <3>1 DEF Refuse, Admit, Shared, TypeOK
      <3>2. CASE k = key[c]
        <4>1. kept[c] \subseteq Admitted(k)'
          BY <2>2, <3>2, AdmissionsStay DEF Refuse, Admit, Shared, CopiesWereAdmitted, Within
        <4>2. Admit(c) => c \in Admitted(k)'
          BY <3>2 DEF Admit, Admitted, Shared, TypeOK
        <4>3. hits'[k] = kept[c] \/ (Admit(c) /\ hits'[k] = kept[c] \cup {c})
          BY <2>2, <3>2 DEF Refuse, Admit, Shared, TypeOK
        <4> QED  BY <4>1, <4>2, <4>3
      <3> QED  BY <3>1, <3>2
    <2>3. CASE UNCHANGED hits
      BY <2>1, <2>3
    <2> QED  BY <2>2, <2>3 DEF Next, Check, Tick, Sample, Load, vars
  <1>3. CopiesWereAdmitted'
    <2> SUFFICES ASSUME NEW c \in Checks, pc'[c] \in {"loaded", "refused"}
                 PROVE  kept'[c] \subseteq Within(Admitted(key[c]), when[c])'
      BY DEF CopiesWereAdmitted
    <2>1. key'[c] = key[c] /\ when'[c] = when[c] /\ key[c] \in Keys
      BY DEF Next, Check, Tick, Sample, Load, Refuse, Admit, vars, Shared, TypeOK
    <2>2. \/ pc[c] \in {"loaded", "refused"} /\ kept'[c] = kept[c]
          \/ Load(c)
      BY DEF Next, Check, Tick, Sample, Load, Refuse, Admit, vars, Shared, TypeOK
    <2>3. kept'[c] \subseteq Within(Admitted(key[c]), when[c])
      <3>1. CASE pc[c] \in {"loaded", "refused"} /\ kept'[c] = kept[c]
        BY <3>1 DEF Shared, CopiesWereAdmitted
      <3>2. CASE Load(c)
        BY <3>2, <2>1 DEF Load, Within, Shared, TypeOK, HitsWereAdmitted
      <3> QED  BY <2>2, <3>1, <3>2
    <2> QED  BY <2>1, <2>3, AdmissionsStay DEF Within
  <1>4. RefusedWasFull'
    BY DEF Next, Check, Tick, Sample, Load, Refuse, Admit, vars, Shared, TypeOK, RefusedWasFull
  <1>5. PastSamples'
    BY LimitAssumption
       DEF Next, Check, Tick, Sample, Load, Refuse, Admit, vars, Shared, TypeOK, PastSamples
  <1> QED  BY <1>1, <1>2, <1>3, <1>4, <1>5 DEF Shared

\* What was refused found its window full.
LEMMA RefusedAtTheLimit == Shared => RefusalJustified
  <1> SUFFICES ASSUME Shared, NEW c \in Checks, pc[c] = "refused"
               PROVE  Cardinality(Within(Admitted(key[c]), when[c])) >= MaxCalls
    BY DEF RefusalJustified
  <1> DEFINE W == Within(Admitted(key[c]), when[c])
  <1>1. kept[c] \subseteq W /\ Cardinality(kept[c]) >= MaxCalls
    BY DEF Shared, CopiesWereAdmitted, RefusedWasFull
  <1>2. IsFiniteSet(W)
    BY CheckAssumption, FS_Subset DEF Within, Admitted
  <1>3. /\ Cardinality(kept[c]) <= Cardinality(W)
        /\ Cardinality(kept[c]) \in Nat /\ Cardinality(W) \in Nat
    BY <1>1, <1>2, FS_Subset, FS_CardinalityType
  <1> QED  BY <1>1, <1>3, LimitAssumption

-----------------------------------------------------------------------------
(* The facts of a key whose calls came one after the other.                *)

LEMMA TimesAreIntegers ==
    ASSUME Shared
    PROVE  now \in Int /\ PerSeconds \in Int /\ \A c \in Checks : when[c] \in Int
  BY LimitAssumption DEF Shared, TypeOK

\* A step that admits nobody, and neither loads nor samples with the key.
LEMMA OthersKeepSerialFacts ==
    ASSUME Shared, NEW k \in Keys, SerialFacts(k),
           UNCHANGED key, now' \in Int, now' >= now, hits'[k] = hits[k],
           \A c \in Checks : key[c] = k =>
               pc'[c] = pc[c] /\ when'[c] = when[c] /\ kept'[c] = kept[c]
    PROVE  SerialFacts(k)'
  <1>1. Admitted(k)' = Admitted(k)
    BY DEF Admitted
  <1>2. \A c \in Checks : key[c] = k => (c \in InProgress)' = (c \in InProgress)
    BY DEF InProgress
  <1>3. \A c \in Checks : Calling(c, k)' = Calling(c, k)
    BY <1>2 DEF Calling
  <1>4. OneAtATime(k)'
    BY DEF SerialFacts, OneAtATime, InProgress
  <1>5. MissingExpired(k)'
    BY <1>1, <1>3, TimesAreIntegers DEF SerialFacts, MissingExpired, Calling, Admitted
  <1>6. CopyComplete(k)'
    BY <1>1 DEF SerialFacts, CopyComplete, Admitted
  <1>7. InOrder(k)'
    BY <1>1, <1>3 DEF SerialFacts, InOrder, Calling, Admitted
  <1>8. Bounded(k)'
    <2>1. \A c, d \in Admitted(k) : when'[c] = when[c] /\ when'[d] = when[d]
      BY DEF Admitted
    <2>2. \A c \in Admitted(k) :
             {d \in Within(Admitted(k), when[c]) : when[d] <= when[c]}'
                 = {d \in Within(Admitted(k), when[c]) : when[d] <= when[c]}
      BY <1>1, <2>1 DEF Within
    <2> QED  BY <1>1, <2>2 DEF SerialFacts, Bounded
  <1> QED  BY <1>4, <1>5, <1>6, <1>7, <1>8 DEF SerialFacts

\* A call that begins while no other of its key is in progress sees every hit that
\* is missing expired, and every admission in its past.
LEMMA SampleKeepsSerialFacts ==
    ASSUME Shared, NEW c \in Checks, Sample(c), NEW k \in Keys, k \notin clash', SerialFacts(k)
    PROVE  SerialFacts(k)'
  <1>1. /\ pc[c] = "idle" /\ pc' = [pc EXCEPT ![c] = "timed"]
        /\ when' = [when EXCEPT ![c] = now]
        /\ UNCHANGED <<now, hits, key, kept>>
    BY DEF Sample
  <1>2. CASE key[c] # k
    BY <1>1, <1>2, OthersKeepSerialFacts, TimesAreIntegers DEF Shared, TypeOK
  <1>3. CASE key[c] = k
    <2>1. \A d \in InProgress : key[d] # k
      BY <1>3 DEF Sample
    <2>2. Admitted(k)' = Admitted(k)
      BY <1>1 DEF Admitted, Shared, TypeOK
    <2>3. \A d \in Checks : Calling(d, k)' => d = c
      BY <1>1, <2>1 DEF Calling, InProgress, Shared, TypeOK
    <2>4. when'[c] = now /\ \A d \in Admitted(k) : when'[d] = when[d] /\ when[d] \in Int
      BY <1>1, TimesAreIntegers DEF Admitted, Shared, TypeOK
    <2>5. OneAtATime(k)'
      BY <2>3 DEF OneAtATime, Calling, InProgress
    <2>6. MissingExpired(k)'
      BY <1>1, <2>2, <2>3, <2>4 DEF SerialFacts, MissingExpired
    <2>7. CopyComplete(k)'
      BY <1>1, <1>3, <2>2, <2>4 DEF SerialFacts, CopyComplete, Shared, TypeOK
    <2>8. InOrder(k)'
      BY <2>2, <2>3, <2>4 DEF InOrder, Admitted, Shared, PastSamples
    <2>9. Bounded(k)'
      <3>1. \A e \in Admitted(k) :
               {d \in Within(Admitted(k), when[e]) : when[d] <= when[e]}'
                   = {d \in Within(Admitted(k), when[e]) : when[d] <= when[e]}
        BY <2>2, <2>4 DEF Within
      <3> QED  BY <2>2, <3>1 DEF SerialFacts, Bounded
    <2> QED  BY <2>5, <2>6, <2>7, <2>8, <2>9 DEF SerialFacts
  <1> QED  BY <1>2, <1>3

\* The filtered copy lacks nothing that is still in the window.
LEMMA LoadKeepsSerialFacts ==
    ASSUME Shared, NEW c \in Checks, Load(c), NEW k \in Keys, SerialFacts(k)
    PROVE  SerialFacts(k)'
  <1>1. /\ pc[c] = "timed" /\ pc' = [pc EXCEPT ![c] = "loaded"]
        /\ kept' = [kept EXCEPT ![c] = Within(hits[key[c]], when[c])]
        /\ UNCHANGED <<now, hits, key, when, clash>>
    BY DEF Load
  <1>2. CASE key[c] # k
    BY <1>1, <1>2, OthersKeepSerialFacts, TimesAreIntegers DEF Shared, TypeOK
  <1>3. CASE key[c] = k
    <2>1. Admitted(k)' = Admitted(k)
      BY <1>1 DEF Admitted, Shared, TypeOK
    <2>2. InProgress' = InProgress
      BY <1>1 DEF InProgress, Shared, TypeOK
    <2>3. \A d \in Checks : Calling(d, k)' = Calling(d, k)
      BY <1>1, <2>2 DEF Calling
    <2>4. OneAtATime(k)' /\ MissingExpired(k)' /\ InOrder(k)' /\ Bounded(k)'
      BY <1>1, <2>1, <2>2, <2>3
         DEF SerialFacts, OneAtATime, MissingExpired, InOrder, Bounded, Within
    <2>5. ASSUME NEW e \in Checks, NEW d \in Admitted(k),
                 pc'[e] = "loaded", key[e] = k, when[e] - when[d] < PerSeconds
          PROVE  d \in kept'[e]
      <3>1. CASE e # c
        BY <1>1, <2>5, <3>1 DEF SerialFacts, CopyComplete, Shared, TypeOK
      <3>2. CASE e = c
        <4>1. Calling(c, k)
          BY <1>1, <1>3 DEF Calling, InProgress
        <4>2. d \in Checks /\ when[d] \in Int /\ when[c] \in Int /\ PerSeconds \in Int
          BY TimesAreIntegers DEF Admitted
        <4>3. d \in hits[k]
          BY <2>5, <3>2, <4>1, <4>2 DEF SerialFacts, MissingExpired
        <4>4. kept'[c] = Within(hits[k], when[c])
          BY <1>1, <1>3 DEF Shared, TypeOK
        <4> QED  BY <2>5, <3>2, <4>3, <4>4 DEF Within
      <3> QED  BY <3>1, <3>2
    <2>6. CopyComplete(k)'
      BY <1>1, <2>1, <2>5 DEF CopyComplete
    <2> QED  BY <2>4, <2>6 DEF SerialFacts
  <1> QED  BY <1>2, <1>3

\* What a call that stores its copy leaves behind has left the window.
LEMMA StoreKeepsMissingExpired ==
    ASSUME Shared, NEW c \in Checks, pc[c] = "loaded", NEW k \in Keys, key[c] = k, SerialFacts(k),
           UNCHANGED <<now, key, when>>,
           pc'[c] \in {"refused", "admitted"}, \A d \in Checks : d # c => pc'[d] = pc[d],
           kept[c] \subseteq hits'[k], pc'[c] = "admitted" => c \in hits'[k]
    PROVE  MissingExpired(k)'
  <1>1. Calling(c, k)
    BY DEF Calling, InProgress
  <1>2. \A e \in Checks : ~Calling(e, k)'
    BY <1>1 DEF Calling, InProgress, SerialFacts, OneAtATime
  <1>3. ASSUME NEW d \in Checks, pc'[d] = "admitted", key[d] = k, d \notin hits'[k]
        PROVE  now - when[d] >= PerSeconds
    <2>1. d \in Admitted(k) /\ d \notin kept[c]
      BY <1>3 DEF Admitted
    <2>2. ~(when[c] - when[d] < PerSeconds)
      BY <2>1 DEF SerialFacts, CopyComplete
    <2>3. when[c] <= now
      BY DEF Shared, PastSamples
    <2> QED  BY <2>2, <2>3, TimesAreIntegers
  <1> QED  BY <1>2, <1>3 DEF MissingExpired, Admitted

LEMMA RefuseKeepsSerialFacts ==
    ASSUME Shared, NEW c \in Checks, Refuse(c), NEW k \in Keys, SerialFacts(k)
    PROVE  SerialFacts(k)'
  <1>1. /\ pc[c] = "loaded" /\ pc' = [pc EXCEPT ![c] = "refused"]
        /\ hits' = [hits EXCEPT ![key[c]] = kept[c]]
        /\ UNCHANGED <<now, key, when, kept, clash>>
    BY DEF Refuse
  <1>2. CASE key[c] # k
    BY <1>1, <1>2, OthersKeepSerialFacts, TimesAreIntegers DEF Shared, TypeOK
  <1>3. CASE key[c] = k
    <2>1. /\ pc'[c] = "refused" /\ hits'[k] = kept[c]
          /\ \A d \in Checks : d # c => pc'[d] = pc[d]
      BY <1>1, <1>3 DEF Shared, TypeOK
    <2>2. Admitted(k)' = Admitted(k)
      BY <1>1, <2>1 DEF Admitted
    <2>3. \A d \in Checks : Calling(d, k)' => Calling(d, k)
      BY <1>1, <2>1 DEF Calling, InProgress
    <2>4. MissingExpired(k)'
      BY <1>1, <1>3, <2>1, StoreKeepsMissingExpired
    <2>5. OneAtATime(k)' /\ CopyComplete(k)' /\ InOrder(k)' /\ Bounded(k)'
      BY <1>1, <2>1, <2>2, <2>3
         DEF SerialFacts, OneAtATime, Calling, InProgress, CopyComplete, InOrder, Bounded, Within
    <2> QED  BY <2>4, <2>5 DEF SerialFacts
  <1> QED  BY <1>2, <1>3

\* The admissions that count against a call are its copy and itself.
LEMMA AdmitKeepsBounded ==
    ASSUME Shared, NEW c \in Checks, Admit(c), NEW k \in Keys, key[c] = k, SerialFacts(k)
    PROVE  Bounded(k)'
  <1> DEFINE Window(S, t) == {d \in Within(S, t) : when[d] <= t}
  <1>1. /\ pc[c] = "loaded" /\ pc' = [pc EXCEPT ![c] = "admitted"]
        /\ Cardinality(kept[c]) < MaxCalls
        /\ UNCHANGED <<now, key, when, kept, clash>>
    BY DEF Admit
  <1>2. Admitted(k)' = Admitted(k) \cup {c}
    BY <1>1 DEF Admitted, Shared, TypeOK
  <1>3. \A d \in Admitted(k) : when[d] <= when[c] /\ d \in Checks
    BY <1>1 DEF SerialFacts, InOrder, Calling, InProgress, Admitted
  <1>4. Cardinality(Window(Admitted(k) \cup {c}, when[c])) <= MaxCalls
    <2>1. kept[c] \in SUBSET Checks
      BY DEF Shared, TypeOK
    <2>2. Window(Admitted(k) \cup {c}, when[c]) \subseteq kept[c] \cup {c}
      BY <1>1 DEF Within, SerialFacts, CopyComplete
    <2>3. IsFiniteSet(kept[c]) /\ Cardinality(kept[c]) \in Nat
      BY <2>1, CheckAssumption, FS_Subset, FS_CardinalityType
    <2>4. /\ IsFiniteSet(kept[c] \cup {c})
          /\ Cardinality(kept[c] \cup {c}) <= Cardinality(kept[c]) + 1
          /\ Cardinality(kept[c] \cup {c}) \in Nat
      <3>1. /\ IsFiniteSet(kept[c] \cup {c})
            /\ Cardinality(kept[c] \cup {c}) =
                  IF c \in kept[c] THEN Cardinality(kept[c]) ELSE Cardinality(kept[c]) + 1
        BY <2>3, FS_AddElement
      <3> QED  BY <2>3, <3>1
    <2>5. /\ Cardinality(Window(Admitted(k) \cup {c}, when[c])) <= Cardinality(kept[c] \cup {c})
          /\ Cardinality(Window(Admitted(k) \cup {c}, when[c])) \in Nat
      <3> HIDE DEF Window
      <3> QED  BY <2>2, <2>4, FS_Subset, FS_CardinalityType
    <2> HIDE DEF Window
    <2> QED  BY <1>1, <2>3, <2>4, <2>5, LimitAssumption
  <1>5. ASSUME NEW e \in Admitted(k) \cup {c}
        PROVE  Cardinality(Window(Admitted(k) \cup {c}, when[e])) <= MaxCalls
    <2>1. CASE when[e] = when[c]
      BY <1>4, <2>1
    <2>2. CASE when[e] # when[c]
      <3>1. e \in Admitted(k) /\ e \in Checks /\ when[e] <= when[c]
        BY <1>3, <2>2
      <3>2. ~(when[c] <= when[e])
        BY <2>2, <3>1, TimesAreIntegers
      <3>3. Window(Admitted(k) \cup {c}, when[e]) = Window(Admitted(k), when[e])
        BY <3>2 DEF Within
      <3>4. Cardinality(Window(Admitted(k), when[e])) <= MaxCalls
        BY <3>1 DEF SerialFacts, Bounded
      <3> QED  BY <3>3, <3>4
    <2> QED  BY <2>1, <2>2
  <1> QED  BY <1>1, <1>2, <1>5 DEF Bounded, Within

LEMMA AdmitKeepsSerialFacts ==
    ASSUME Shared, NEW c \in Checks, Admit(c), NEW k \in Keys, SerialFacts(k)
    PROVE  SerialFacts(k)'
  <1>1. /\ pc[c] = "loaded" /\ pc' = [pc EXCEPT ![c] = "admitted"]
        /\ hits' = [hits EXCEPT ![key[c]] = kept[c] \cup {c}]
        /\ UNCHANGED <<now, key, when, kept, clash>>
    BY DEF Admit
  <1>2. CASE key[c] # k
    BY <1>1, <1>2, OthersKeepSerialFacts, TimesAreIntegers DEF Shared, TypeOK
  <1>3. CASE key[c] = k
    <2>1. /\ pc'[c] = "admitted" /\ hits'[k] = kept[c] \cup {c}
          /\ \A d \in Checks : d # c => pc'[d] = pc[d]
      BY <1>1, <1>3 DEF Shared, TypeOK
    <2>2. \A d \in Checks : ~Calling(d, k)'
      BY <1>1, <1>3, <2>1 DEF Calling, InProgress, SerialFacts, OneAtATime
    <2>3. MissingExpired(k)'
      BY <1>1, <1>3, <2>1, StoreKeepsMissingExpired
    <2>4. OneAtATime(k)' /\ InOrder(k)'
      BY <2>2 DEF OneAtATime, InOrder, Calling, InProgress
    <2>5. CopyComplete(k)'
      BY <1>1, <2>2 DEF CopyComplete, Calling, InProgress
    <2>6. Bounded(k)'
      BY <1>3, AdmitKeepsBounded
    <2> QED  BY <2>3, <2>4, <2>5, <2>6 DEF SerialFacts
  <1> QED  BY <1>2, <1>3

LEMMA NextKeepsIInv == IInv /\ [Next]_vars => IInv'
  <1> SUFFICES ASSUME IInv, [Next]_vars
               PROVE  IInv'
    OBVIOUS
  <1>1. Shared /\ Shared'
    BY NextKeepsShared DEF IInv
  <1>2. ASSUME NEW k \in Keys \ clash'
        PROVE  SerialFacts(k)'
    <2>1. clash \subseteq clash'
      BY DEF Next, Check, Tick, Sample, Load, Refuse, Admit, vars
    <2>2. SerialFacts(k)
      BY <2>1 DEF IInv
    <2>3. CASE Tick \/ UNCHANGED vars
      <3>1. now' \in Int /\ now' >= now /\ UNCHANGED <<hits, pc, key, when, kept>>
        BY <1>1, <2>3, TimesAreIntegers DEF Tick, vars
      <3> QED  BY <1>1, <2>2, <3>1, OthersKeepSerialFacts
    <2>4. ASSUME NEW c \in Checks, Check(c)
          PROVE  SerialFacts(k)'
      BY <1>1, <2>2, <2>4, SampleKeepsSerialFacts, LoadKeepsSerialFacts, RefuseKeepsSerialFacts,
         AdmitKeepsSerialFacts DEF Check
    <2> QED  BY <2>3, <2>4 DEF Next
  <1> QED  BY <1>1, <1>2 DEF IInv

-----------------------------------------------------------------------------
\* Hits, copies and samples keep their types, and a key whose calls came one after
\* the other its facts.
THEOREM Invariance == Spec => []IInv
  BY InitIInv, NextKeepsIInv, PTL DEF Spec

\* The limiter's dictionary and every call's copy hold calls, however they interleave.
THEOREM TypeCorrect == Spec => []TypeOK
  <1>1. IInv => TypeOK
    BY DEF IInv, Shared
  <1> QED  BY <1>1, Invariance, PTL

\* No call is turned away that the limit would have let through.
THEOREM RefusalsAreJustified == Spec => []RefusalJustified
  <1>1. IInv => RefusalJustified
    BY RefusedAtTheLimit DEF IInv
  <1> QED  BY <1>1, Invariance, PTL

\* Of a key whose calls come one after the other, no window sees more admissions
\* than the limit.
THEOREM SerialCallsAreLimited == Spec => []SerialWindowBound
  <1>1. IInv => SerialWindowBound
    BY DEF IInv, SerialFacts, SerialWindowBound
  <1> QED  BY <1>1, Invariance, PTL

\* With one thread no two calls are ever in progress together.
NeverClashed == clash = {}

LEMMA OneThreadNeverClashes ==
    ASSUME Threads = 1, NeverClashed, [Next]_vars
    PROVE  NeverClashed'
  <1> USE DEF NeverClashed
  <1>1. ASSUME NEW c \in Checks, Sample(c)
        PROVE  clash' = {}
    <2>1. InProgress \in SUBSET Checks
      BY DEF InProgress
    <2>2. IsFiniteSet(InProgress)
      BY <2>1, CheckAssumption, FS_Subset
    <2>3. Cardinality(InProgress) = 0
      <3>1. Cardinality(InProgress) \in Nat
        BY <2>2, FS_CardinalityType
      <3> QED  BY <1>1, <3>1 DEF Sample
    <2>4. InProgress = {}
      BY <2>2, <2>3, FS_EmptySet
    <2> QED  BY <1>1, <2>4 DEF Sample
  <1>2. ASSUME Next, \A c \in Checks : ~Sample(c)
        PROVE  clash' = {}
    BY <1>2 DEF Next, Check, Load, Admit, Refuse, Tick
  <1> QED  BY <1>1, <1>2 DEF vars

\* With one thread, then, the limit holds of every key: what the comment above the limiter
\* says of a single process, and what two threads break.
THEOREM OneThreadIsLimited == Threads = 1 => (Spec => []WindowBound)
  <1> SUFFICES ASSUME Threads = 1 PROVE Spec => []WindowBound
    OBVIOUS
  <1>1. Init => NeverClashed
    BY DEF Init, NeverClashed
  <1>2. NeverClashed /\ [Next]_vars => NeverClashed'
    BY OneThreadNeverClashes
  <1>3. NeverClashed /\ SerialWindowBound => WindowBound
    BY DEF NeverClashed, SerialWindowBound, WindowBound
  <1> QED  BY <1>1, <1>2, <1>3, SerialCallsAreLimited, PTL DEF Spec
=============================================================================
