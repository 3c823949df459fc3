----------------------- MODULE FastAPISession_proofs -----------------------
(***************************************************************************)
(* Proofs about FastAPISession, for any number of overlapping requests and *)
(* people, any TTL, any latency of HQ, any number of logins and any bound  *)
(* on the clock.                                                           *)
(***************************************************************************)
EXTENDS FastAPISession, FiniteSetTheorems, TLAPS

-----------------------------------------------------------------------------
(* Types.  A session made by a login has a nonce of its own, so that the   *)
(* nonces last as long as HQ's tokens do.                                  *)

Budget == logins + Pending <= MaxLogins

TokensAsked == \A q \in Requests : stage[q] \in {"asking", "confirmed"} => token[q] # NoUser

TypeInv == TypeOK /\ Budget /\ TokensAsked

(* Age, as in FlaskSession_proofs.                                         *)

Aged(s) ==
    s.user # NoUser => /\ lastIn[s.user] # Never
                       /\ s.at - lastIn[s.user] <= MaxLatency

SessionsAged == Aged(jar) /\ \A q \in Requests : Aged(session[q])

Exchanges ==
    \A q \in Requests : stage[q] \in {"asking", "confirmed"} =>
        /\ asked[q] # Never /\ asked[q] <= now /\ now - asked[q] <= MaxLatency
        /\ stage[q] = "confirmed" => lastIn[token[q]] >= asked[q]

SignInsPast == \A u \in Users : lastIn[u] <= now

AgeInv == SessionsAged /\ Exchanges /\ SignInsPast

(* Nonces.  Whatever bears a nonce, cookie, copy or form, bears the user   *)
(* of the login that made it.                                              *)

Bearers ==
    {Empty, NoForm, jar} \cup forms \cup {form[q] : q \in Requests}
        \cup {session[q] : q \in Requests}

OneUserPerNonce == \A x, y \in Bearers : x.nonce = y.nonce => x.user = y.user

NoncesAreUsed == \A x \in Bearers : x.nonce <= logins

AnswersAgree ==
    \A q \in Requests : served[q] # NoUser =>
        /\ stage[q] = "replied"
        /\ kind[q] = "page" => served[q] = session[q].user
        /\ kind[q] = "submit" => served[q] = form[q].user

NonceInv == OneUserPerNonce /\ NoncesAreUsed /\ AnswersAgree

-----------------------------------------------------------------------------
LEMMA TimesAreIntegers ==
    /\ \A t \in Times : t \in Nat /\ t # Never
    /\ Never \in Int
    /\ \A t \in Times \cup {Never} : t \in Int /\ (t # Never => t \in Times)
    /\ TTL \in Nat /\ TTL > 0 /\ MaxLatency \in Nat
  BY BoundAssumption DEF Times, Never

LEMMA EmptyRecords ==
    /\ Empty \in Sessions /\ Empty.user = NoUser /\ Empty.nonce = 0
    /\ NoForm \in Forms /\ NoForm.user = NoUser /\ NoForm.nonce = 0
  BY BoundAssumption DEF Empty, NoForm, Sessions, Forms

Answers(q) ==
    \/ Open(q) \/ ServePage(q) \/ TurnAway(q) \/ Submit(q) \/ Forbid(q)
    \/ Logout(q) \/ Validate(q) \/ HQDenies(q) \/ HQFails(q)

\* Every answer keeps the session or empties it, and serves its user or nobody.
LEMMA AnswersArePlain ==
    ASSUME NEW q \in Requests, Answers(q)
    PROVE  \E s \in {session[q], Empty}, u \in {NoUser, session[q].user} :
              /\ Answer(q, s, u)
              /\ stage[q] \in {"sent", "asking"}
              /\ u # NoUser =>
                    /\ s = session[q] /\ u = session[q].user /\ Fresh(session[q])
                    /\ kind[q] = "submit" => session[q].nonce = form[q].nonce
  <1> USE DEF At
  <1>1. CASE Open(q) \/ Forbid(q) \/ HQFails(q)
    BY <1>1 DEF Open, Forbid, HQFails
  <1>2. CASE TurnAway(q) \/ Logout(q) \/ HQDenies(q)
    BY <1>2 DEF TurnAway, Logout, HQDenies
  <1>3. CASE ServePage(q) \/ Submit(q) \/ Validate(q)
    BY <1>3 DEF ServePage, Submit, Validate
  <1> QED  BY <1>1, <1>2, <1>3 DEF Answers

LEMMA WaitingIsFinite ==
    /\ IsFiniteSet(Waiting) /\ Pending \in Nat
    /\ \A S \in SUBSET Requests : IsFiniteSet(S) /\ Cardinality(S) \in Nat
  <1>1. \A S \in SUBSET Requests : IsFiniteSet(S) /\ Cardinality(S) \in Nat
    BY RequestAssumption, FS_Subset, FS_CardinalityType
  <1> QED  BY <1>1 DEF Waiting, Pending

LEMMA FewerWait ==
    ASSUME TypeOK, Budget, NEW n \in Nat, n <= logins, NEW S \in SUBSET Waiting
    PROVE  n + Cardinality(S) <= MaxLogins
  <1>1. Cardinality(S) <= Pending /\ Cardinality(S) \in Nat
    BY WaitingIsFinite, FS_Subset DEF Pending, Waiting
  <1> QED  BY <1>1, WaitingIsFinite, BoundAssumption DEF TypeOK, Budget

-----------------------------------------------------------------------------
LEMMA InitTypeInv == Init => TypeInv
  <1> SUFFICES ASSUME Init
               PROVE  TypeInv
    OBVIOUS
  <1>1. TypeOK
    BY EmptyRecords, BoundAssumption DEF Init, TypeOK, Times, Kinds
  <1>2. Waiting = {}
    BY DEF Init, Waiting
  <1>3. Budget
    BY <1>2, FS_EmptySet, BoundAssumption DEF Init, Budget, Pending
  <1>4. TokensAsked
    BY DEF Init, TokensAsked
  <1> QED  BY <1>1, <1>3, <1>4 DEF TypeInv

\* A token is sent only while HQ has one to give.
LEMMA SendKeepsTypeInv ==
    ASSUME TypeInv, NEW q \in Requests, Send(q)
    PROVE  TypeInv'
  <1>1. /\ stage[q] = "idle" /\ stage' = [stage EXCEPT ![q] = "sent"]
        /\ loaded' = [loaded EXCEPT ![q] = jar] /\ session' = [session EXCEPT ![q] = jar]
        /\ UNCHANGED <<now, jar, forms, logins, asked, served, lastIn>>
    BY DEF Send
  <1>2. PICK k \in Kinds, u \in Users \cup {NoUser}, f \in forms \cup {NoForm} :
           /\ u # NoUser => logins + Pending < MaxLogins
           /\ kind' = [kind EXCEPT ![q] = k]
           /\ token' = [token EXCEPT ![q] = u]
           /\ form' = [form EXCEPT ![q] = f]
    BY DEF Send
  <1>3. f \in Forms
    BY EmptyRecords DEF TypeInv, TypeOK
  <1>4. TypeOK'
    BY <1>1, <1>2, <1>3 DEF TypeInv, TypeOK
  <1>5. TokensAsked'
    BY <1>1, <1>2 DEF TypeInv, TypeOK, TokensAsked
  <1>6. \A r \in Requests : r # q => stage'[r] = stage[r] /\ token'[r] = token[r]
    BY <1>1, <1>2 DEF TypeInv, TypeOK
  <1>7. stage'[q] = "sent" /\ token'[q] = u
    BY <1>1, <1>2 DEF TypeInv, TypeOK
  <1>8. CASE u = NoUser
    <2>1. Waiting' = Waiting
      BY <1>1, <1>6, <1>7, <1>8 DEF Waiting
    <2>2. Budget'
      BY <1>1, <2>1 DEF TypeInv, Budget, Pending
    <2> QED  BY <1>4, <1>5, <2>2 DEF TypeInv
  <1>9. CASE u # NoUser
    <2>1. Waiting' = Waiting \cup {q}
      BY <1>1, <1>6, <1>7, <1>9 DEF Waiting
    <2>2. Cardinality(Waiting \cup {q}) <= Pending + 1 /\ Cardinality(Waiting \cup {q}) \in Nat
      <3>1. Cardinality(Waiting \cup {q}) = IF q \in Waiting THEN Pending ELSE Pending + 1
        BY WaitingIsFinite, FS_AddElement DEF Pending
      <3> QED  BY <3>1, WaitingIsFinite
    <2>3. logins + (Pending + 1) <= MaxLogins /\ logins \in Nat
      BY <1>2, <1>9, WaitingIsFinite, BoundAssumption DEF TypeInv, TypeOK
    <2>4. logins + Cardinality(Waiting \cup {q}) <= MaxLogins
      BY <2>2, <2>3, WaitingIsFinite, BoundAssumption
    <2>5. Budget'
      BY <1>1, <2>1, <2>4 DEF Budget, Pending
    <2> QED  BY <1>4, <1>5, <2>5 DEF TypeInv
  <1> QED  BY <1>8, <1>9

LEMMA EndKeepsTypeInv ==
    ASSUME TypeInv, NEW q \in Requests, Receive(q) \/ Lose(q)
    PROVE  TypeInv'
  <1>1. Forget(q) /\ UNCHANGED <<now, logins, lastIn>>
    BY DEF Receive, Lose
  <1>2. jar' \in Sessions
    BY EmptyRecords DEF Receive, Lose, Cookies, TypeInv, TypeOK
  <1>3. forms' \subseteq Forms
    <2>1. session[q].nonce \in 0..MaxLogins /\ served[q] \in Users \cup {NoUser}
      BY DEF TypeInv, TypeOK, Sessions
    <2> QED  BY <2>1 DEF Receive, Lose, TypeInv, TypeOK, Forms
  <1>4. TypeOK'
    BY <1>1, <1>2, <1>3, EmptyRecords DEF Forget, TypeInv, TypeOK, Kinds
  <1>5. TokensAsked'
    BY <1>1 DEF Forget, TypeInv, TypeOK, TokensAsked
  <1>6. Waiting' \subseteq Waiting
    BY <1>1 DEF Forget, Waiting, TypeInv, TypeOK
  <1>7. Budget'
    BY <1>1, <1>6, FewerWait DEF TypeInv, TypeOK, Budget, Pending
  <1> QED  BY <1>4, <1>5, <1>7 DEF TypeInv

LEMMA AnswerKeepsTypeInv ==
    ASSUME TypeInv, NEW q \in Requests, Answers(q)
    PROVE  TypeInv'
  <1>1. PICK s \in {session[q], Empty}, u \in {NoUser, session[q].user} :
           Answer(q, s, u) /\ stage[q] \in {"sent", "asking"}
    BY AnswersArePlain
  <1>2. s \in Sessions /\ u \in Users \cup {NoUser}
    BY EmptyRecords DEF TypeInv, TypeOK, Sessions
  <1>3. TypeOK'
    BY <1>1, <1>2 DEF Answer, TypeInv, TypeOK
  <1>4. TokensAsked'
    BY <1>1 DEF Answer, TypeInv, TypeOK, TokensAsked
  <1>5. Waiting' = Waiting
    BY <1>1 DEF Answer, Waiting, TypeInv, TypeOK
  <1>6. Budget'
    BY <1>1, <1>5 DEF Answer, TypeInv, Budget, Pending
  <1> QED  BY <1>3, <1>4, <1>6 DEF TypeInv

LEMMA AskKeepsTypeInv ==
    ASSUME TypeInv, NEW q \in Requests, Ask(q) \/ HQConfirms(q)
    PROVE  TypeInv'
  <1>1. TypeOK'
    <2>1. CASE Ask(q)
      <3>1. session' \in [Requests -> Sessions]
        BY <2>1, EmptyRecords DEF Ask, TypeInv, TypeOK
      <3> QED  BY <2>1, <3>1 DEF Ask, TypeInv, TypeOK
    <2>2. CASE HQConfirms(q)
      BY <2>2 DEF HQConfirms, TypeInv, TypeOK
    <2> QED  BY <2>1, <2>2
  <1>2. /\ token[q] # NoUser /\ stage[q] # "idle" /\ UNCHANGED <<logins, token>>
        /\ stage'[q] \in {"asking", "confirmed"}
        /\ \A r \in Requests : r # q => stage'[r] = stage[r]
    BY DEF Ask, HQConfirms, TypeInv, TypeOK, TokensAsked
  <1>3. TokensAsked'
    BY <1>2 DEF TypeInv, TokensAsked
  <1>4. Waiting' = Waiting
    BY <1>2 DEF Waiting
  <1>5. Budget'
    BY <1>2, <1>4 DEF TypeInv, Budget, Pending
  <1> QED  BY <1>1, <1>3, <1>5 DEF TypeInv

\* A login turns one token that was waiting into one nonce.
LEMMA LogInKeepsTypeInv ==
    ASSUME TypeInv, NEW q \in Requests, LogIn(q)
    PROVE  TypeInv'
  <1>1. /\ stage[q] = "confirmed" /\ logins' = logins + 1
        /\ session' = [session EXCEPT ![q] = LoggedIn(token[q], session[q])]
        /\ token' = [token EXCEPT ![q] = NoUser]
        /\ UNCHANGED <<now, jar, forms, kind, form, loaded, asked, lastIn>>
    BY DEF LogIn
  <1>2. token[q] \in Users /\ q \in Waiting
    BY <1>1 DEF TypeInv, TypeOK, TokensAsked, Waiting
  <1>3. /\ stage' \in [Requests -> {"idle", "sent", "asking", "confirmed", "replied"}]
        /\ stage'[q] \in {"sent", "replied"}
        /\ \A r \in Requests : r # q => stage'[r] = stage[r]
    BY DEF LogIn, TypeInv, TypeOK
  <1>4. served' \in [Requests -> Users \cup {NoUser}]
    BY <1>2 DEF LogIn, TypeInv, TypeOK
  <1>5. Waiting' = Waiting \ {q}
    BY <1>1, <1>3 DEF Waiting, TypeInv, TypeOK
  <1>6. Cardinality(Waiting \ {q}) = Pending - 1 /\ Cardinality(Waiting \ {q}) \in Nat
    <2>1. Cardinality(Waiting \ {q}) = Pending - 1
      BY <1>2, WaitingIsFinite, FS_RemoveElement DEF Pending
    <2>2. Waiting \ {q} \in SUBSET Requests
      BY DEF Waiting
    <2> QED  BY <2>1, <2>2, WaitingIsFinite
  <1>7. /\ logins + 1 \in 0..MaxLogins
        /\ (logins + 1) + Cardinality(Waiting \ {q}) <= MaxLogins
    BY <1>6, WaitingIsFinite, BoundAssumption DEF TypeInv, TypeOK, Budget
  <1>8. LoggedIn(token[q], session[q]) \in Sessions
    BY <1>2, <1>7 DEF LoggedIn, Sessions, TypeInv, TypeOK
  <1>9. TypeOK'
    BY <1>1, <1>3, <1>4, <1>7, <1>8 DEF TypeInv, TypeOK
  <1>10. Budget'
    BY <1>1, <1>5, <1>7 DEF Budget, Pending
  <1>11. TokensAsked'
    BY <1>1, <1>3 DEF TypeInv, TypeOK, TokensAsked
  <1> QED  BY <1>9, <1>10, <1>11 DEF TypeInv

LEMMA NextKeepsTypeInv == TypeInv /\ [Next]_vars => TypeInv'
  <1> SUFFICES ASSUME TypeInv, [Next]_vars
               PROVE  TypeInv'
    OBVIOUS
  <1>1. ASSUME NEW q \in Requests, RequestStep(q)
        PROVE  TypeInv'
    BY <1>1, SendKeepsTypeInv, EndKeepsTypeInv, AnswerKeepsTypeInv, AskKeepsTypeInv,
       LogInKeepsTypeInv DEF RequestStep, Answers
  <1>2. CASE UNCHANGED vars
    BY <1>2 DEF vars, requestVars, TypeInv, TypeOK, Budget, Pending, Waiting, TokensAsked
  <1>3. ASSUME NEW u \in Users, SignIn(u)
        PROVE  TypeInv'
    <2>1. TypeOK'
      BY <1>3 DEF SignIn, requestVars, TypeInv, TypeOK
    <2> QED  BY <1>3, <2>1 DEF SignIn, requestVars, TypeInv, Budget, Pending, Waiting, TokensAsked
  <1>4. CASE Tick
    <2>1. now < MaxTime /\ now' = now + 1 /\ UNCHANGED <<jar, forms, logins, requestVars>>
      BY <1>4, Zenon DEF Tick
    <2>2. now \in 0..MaxTime /\ now' \in 0..MaxTime
      BY <2>1, BoundAssumption DEF TypeInv, TypeOK, Times
    <2>3. lastIn' \in [Users -> Times \cup {Never}]
      BY <1>4, <2>1, <2>2 DEF Tick, TypeInv, TypeOK, Times
    <2>4. TypeOK'
      BY <2>1, <2>2, <2>3 DEF requestVars, TypeInv, TypeOK, Times
    <2> QED  BY <2>1, <2>4 DEF requestVars, TypeInv, Budget, Pending, Waiting, TokensAsked
  <1> QED  BY <1>1, <1>2, <1>3, <1>4 DEF Next

\* Cookies, copies and forms keep their types, and a login always finds a nonce that
\* nothing bears, however many requests overlap.
THEOREM TypeCorrect == Spec => []TypeOK
  <1>1. TypeInv => TypeOK
    BY DEF TypeInv
  <1> QED  BY <1>1, InitTypeInv, NextKeepsTypeInv, PTL DEF Spec

-----------------------------------------------------------------------------
(* Age.                                                                    *)

LEMMA InitAgeInv == Init => AgeInv
  BY EmptyRecords DEF Init, AgeInv, SessionsAged, Aged, Exchanges, SignInsPast, Never

LEMMA RequestKeepsAgeInv ==
    ASSUME TypeInv, AgeInv, NEW q \in Requests, RequestStep(q)
    PROVE  AgeInv'
  <1>1. CASE Send(q)
    <2>1. /\ stage' = [stage EXCEPT ![q] = "sent"] /\ session' = [session EXCEPT ![q] = jar]
          /\ \A r \in Requests : r # q => token'[r] = token[r]
          /\ UNCHANGED <<now, jar, asked, lastIn>>
      BY <1>1 DEF Send, TypeInv, TypeOK
    <2> QED  BY <2>1 DEF AgeInv, SessionsAged, Aged, Exchanges, SignInsPast, TypeInv, TypeOK
  <1>2. CASE Receive(q) \/ Lose(q)
    <2>1. Forget(q) /\ UNCHANGED <<now, lastIn>>
      BY <1>2 DEF Receive, Lose
    <2>2. jar' \in {jar, session[q]}
      BY <1>2 DEF Receive, Lose, Cookies
    <2>3. SessionsAged'
      BY <2>1, <2>2, EmptyRecords DEF Forget, AgeInv, SessionsAged, Aged, TypeInv, TypeOK
    <2>4. Exchanges' /\ SignInsPast'
      BY <2>1 DEF Forget, AgeInv, Exchanges, SignInsPast, TypeInv, TypeOK
    <2> QED  BY <2>3, <2>4 DEF AgeInv
  <1>3. CASE Answers(q)
    <2>1. PICK s \in {session[q], Empty}, u \in {NoUser, session[q].user} : Answer(q, s, u)
      BY <1>3, AnswersArePlain
    <2>2. Aged(s)
      BY EmptyRecords DEF Aged, AgeInv, SessionsAged
    <2>3. SessionsAged'
      BY <2>1, <2>2 DEF Answer, AgeInv, SessionsAged, Aged, TypeInv, TypeOK
    <2>4. Exchanges' /\ SignInsPast'
      BY <2>1 DEF Answer, AgeInv, Exchanges, SignInsPast, TypeInv, TypeOK
    <2> QED  BY <2>3, <2>4 DEF AgeInv
  <1>4. CASE Ask(q)
    <2>1. /\ session'[q] \in {session[q], Empty}
          /\ \A r \in Requests : r # q => session'[r] = session[r]
          /\ UNCHANGED <<now, jar, lastIn, token>>
      BY <1>4 DEF Ask, TypeInv, TypeOK
    <2>2. SessionsAged' /\ SignInsPast'
      BY <2>1, EmptyRecords DEF AgeInv, SessionsAged, Aged, SignInsPast
    <2>3. /\ stage'[q] = "asking" /\ asked'[q] = now
          /\ \A r \in Requests : r # q => stage'[r] = stage[r] /\ asked'[r] = asked[r]
      BY <1>4 DEF Ask, TypeInv, TypeOK
    <2>4. now \in Nat /\ now # Never /\ now <= now /\ now - now <= MaxLatency
      <3>1. now \in Times
        BY DEF TypeInv, TypeOK
      <3> QED  BY <3>1, TimesAreIntegers
    <2>5. Exchanges'
      BY <2>1, <2>3, <2>4 DEF AgeInv, Exchanges
    <2> QED  BY <2>2, <2>5 DEF AgeInv
  <1>5. CASE HQConfirms(q)
    BY <1>5 DEF HQConfirms, SignedIn, AgeInv, SessionsAged, Aged, Exchanges, SignInsPast,
                TypeInv, TypeOK
  <1>6. CASE LogIn(q)
    <2>1. PICK s : s = LoggedIn(token[q], session[q])
      OBVIOUS
    <2>2. /\ stage[q] = "confirmed" /\ session' = [session EXCEPT ![q] = s]
          /\ UNCHANGED <<now, jar, lastIn, asked>>
      BY <1>6, <2>1 DEF LogIn
    <2>3. s.user = token[q] /\ s.at = now
      BY <2>1 DEF LoggedIn
    <2>4. now - lastIn[token[q]] <= MaxLatency /\ lastIn[token[q]] # Never
      <3>1. /\ token[q] \in Users /\ now \in Times /\ asked[q] \in Times
            /\ lastIn[token[q]] \in Times \cup {Never}
            /\ now - asked[q] <= MaxLatency /\ lastIn[token[q]] >= asked[q]
        BY <2>2 DEF AgeInv, Exchanges, TypeInv, TypeOK, TokensAsked
      <3>2. /\ asked[q] \in Nat /\ now \in Nat /\ MaxLatency \in Nat
            /\ lastIn[token[q]] \in Int
        BY <3>1, TimesAreIntegers
      <3>3. Never < 0
        BY DEF Never
      <3> QED  BY <3>1, <3>2, <3>3
    <2>5. Aged(s)
      BY <2>3, <2>4 DEF Aged
    <2>6. SessionsAged'
      BY <2>2, <2>5 DEF AgeInv, SessionsAged, Aged, TypeInv, TypeOK
    <2>7. /\ stage'[q] \in {"sent", "replied"}
          /\ \A r \in Requests : r # q => stage'[r] = stage[r] /\ token'[r] = token[r]
      BY <1>6 DEF LogIn, TypeInv, TypeOK
    <2>8. Exchanges' /\ SignInsPast'
      BY <2>2, <2>7 DEF AgeInv, Exchanges, SignInsPast
    <2> QED  BY <2>6, <2>8 DEF AgeInv
  <1> QED  BY <1>1, <1>2, <1>3, <1>4, <1>5, <1>6 DEF RequestStep, Answers

\* Sign-ins and the clock only make lastIn later.
LEMMA LaterKeepsAge ==
    ASSUME TypeOK, SessionsAged,
           \A u \in Users : lastIn'[u] \in Times \cup {Never} /\ lastIn'[u] >= lastIn[u],
           UNCHANGED <<jar, session>>
    PROVE  SessionsAged'
  <1>1. ASSUME NEW s \in Sessions, Aged(s)
        PROVE  s.user # NoUser => /\ lastIn'[s.user] # Never
                                  /\ s.at - lastIn'[s.user] <= MaxLatency
    <2>1. SUFFICES ASSUME s.user # NoUser
                   PROVE  /\ lastIn'[s.user] # Never
                          /\ s.at - lastIn'[s.user] <= MaxLatency
      OBVIOUS
    <2>2. s.user \in Users /\ s.at \in Int
      BY <2>1, TimesAreIntegers DEF Sessions
    <2>3. lastIn[s.user] \in Times /\ s.at - lastIn[s.user] <= MaxLatency
      BY <1>1, <2>1, <2>2, TimesAreIntegers DEF Aged, TypeOK
    <2>4. lastIn'[s.user] \in Int /\ lastIn'[s.user] >= lastIn[s.user] /\ lastIn[s.user] \in Nat
      BY <2>2, <2>3, TimesAreIntegers
    <2>5. MaxLatency \in Nat /\ Never < 0
      BY TimesAreIntegers DEF Never
    <2> QED  BY <2>2, <2>3, <2>4, <2>5
  <1> QED  BY <1>1 DEF SessionsAged, Aged, TypeOK

LEMMA SignInKeepsAgeInv ==
    ASSUME TypeInv, AgeInv, NEW u \in Users, SignIn(u)
    PROVE  AgeInv'
  <1>1. ASSUME NEW v \in Users
        PROVE  /\ lastIn'[v] \in Times \cup {Never}
               /\ lastIn'[v] >= lastIn[v] /\ lastIn'[v] <= now
    <2>1. lastIn'[v] = now \/ lastIn'[v] = lastIn[v]
      BY DEF SignIn, TypeInv, TypeOK
    <2>2. lastIn[v] \in Times \cup {Never} /\ lastIn[v] <= now /\ now \in Times
      BY DEF TypeInv, TypeOK, AgeInv, SignInsPast
    <2>3. lastIn[v] \in Int /\ now \in Int
      BY <2>2, TimesAreIntegers
    <2> QED  BY <2>1, <2>2, <2>3
  <1>2. UNCHANGED <<now, jar, session, stage, token, asked>>
    BY DEF SignIn, requestVars
  <1>3. SessionsAged'
    BY <1>1, <1>2, LaterKeepsAge DEF TypeInv, AgeInv
  <1>4. ASSUME NEW q \in Requests, stage[q] = "confirmed"
        PROVE  lastIn'[token[q]] >= asked[q]
    <2>1. token[q] \in Users /\ asked[q] \in Times /\ lastIn[token[q]] >= asked[q]
      BY <1>4 DEF AgeInv, Exchanges, TypeInv, TypeOK, TokensAsked
    <2>2. lastIn[token[q]] \in Times \cup {Never} /\ lastIn'[token[q]] \in Times \cup {Never}
          /\ lastIn'[token[q]] >= lastIn[token[q]]
      BY <1>1, <2>1 DEF TypeInv, TypeOK
    <2>3. lastIn'[token[q]] \in Int /\ lastIn[token[q]] \in Int /\ asked[q] \in Int
      BY <2>1, <2>2, TimesAreIntegers
    <2> QED  BY <2>1, <2>2, <2>3
  <1>5. Exchanges'
    BY <1>2, <1>4 DEF AgeInv, Exchanges
  <1>6. SignInsPast'
    BY <1>1, <1>2 DEF SignInsPast
  <1> QED  BY <1>3, <1>5, <1>6 DEF AgeInv

LEMMA TickKeepsAgeInv ==
    ASSUME TypeInv, AgeInv, Tick
    PROVE  AgeInv'
  <1>1. PICK stay \in SUBSET {u \in Users : SignedIn(u)} :
           lastIn' = [u \in Users |-> IF u \in stay THEN now + 1 ELSE lastIn[u]]
    BY DEF Tick
  <1>2. now < MaxTime /\ now' = now + 1 /\ UNCHANGED <<jar, session, stage, token, asked>>
    BY DEF Tick, requestVars
  <1>3. now \in 0..MaxTime /\ now' \in 0..MaxTime /\ MaxTime \in Nat
    BY <1>2, BoundAssumption DEF TypeInv, TypeOK, Times
  <1>4. ASSUME NEW u \in Users
        PROVE  /\ lastIn'[u] \in Times \cup {Never}
               /\ lastIn'[u] >= lastIn[u] /\ lastIn'[u] <= now'
    <2>1. lastIn'[u] = now' \/ lastIn'[u] = lastIn[u]
      BY <1>1, <1>2
    <2>2. lastIn[u] \in (0..MaxTime) \cup {-1} /\ lastIn[u] <= now
      BY DEF TypeInv, TypeOK, AgeInv, SignInsPast, Times, Never
    <2> QED  BY <1>2, <1>3, <2>1, <2>2 DEF Times, Never
  <1>5. SessionsAged'
    BY <1>2, <1>4, LaterKeepsAge DEF TypeInv, AgeInv
  <1>6. ASSUME NEW q \in Requests, stage[q] \in {"asking", "confirmed"}
        PROVE  /\ asked[q] # Never /\ asked[q] <= now' /\ now' - asked[q] <= MaxLatency
               /\ stage[q] = "confirmed" => lastIn'[token[q]] >= asked[q]
    <2>1. /\ token[q] \in Users /\ asked[q] \in Times
          /\ asked[q] <= now /\ now - asked[q] < MaxLatency
          /\ stage[q] = "confirmed" => lastIn[token[q]] >= asked[q]
      BY <1>6 DEF Tick, AgeInv, Exchanges, TypeInv, TypeOK, TokensAsked
    <2>2. lastIn[token[q]] \in Times \cup {Never} /\ lastIn'[token[q]] \in Times \cup {Never}
          /\ lastIn'[token[q]] >= lastIn[token[q]]
      BY <1>4, <2>1 DEF TypeInv, TypeOK
    <2>3. /\ asked[q] \in Nat /\ asked[q] # Never /\ MaxLatency \in Nat
          /\ lastIn[token[q]] \in Int /\ lastIn'[token[q]] \in Int
      BY <2>1, <2>2, TimesAreIntegers
    <2> QED  BY <1>2, <1>3, <2>1, <2>2, <2>3
  <1>7. Exchanges'
    BY <1>2, <1>6 DEF Exchanges
  <1>8. SignInsPast'
    BY <1>4 DEF SignInsPast
  <1> QED  BY <1>5, <1>7, <1>8 DEF AgeInv

LEMMA NextKeepsAgeInv == TypeInv /\ AgeInv /\ [Next]_vars => AgeInv'
  <1>1. TypeInv /\ AgeInv /\ UNCHANGED vars => AgeInv'
    BY DEF vars, requestVars, AgeInv, SessionsAged, Aged, Exchanges, SignInsPast
  <1> QED  BY <1>1, RequestKeepsAgeInv, SignInKeepsAgeInv, TickKeepsAgeInv DEF Next

LEMMA ServedWasSignedIn ==
    ASSUME TypeInv, AgeInv, [Next]_vars,
           NEW q \in Requests, served'[q] \notin {NoUser, served[q]}
    PROVE  /\ lastIn[served'[q]] # Never
           /\ now - lastIn[served'[q]] < TTL + MaxLatency
  <1>1. Answers(q) \/ LogIn(q)
    <2>1. \A r \in Requests : Send(r) \/ Ask(r) \/ HQConfirms(r) => UNCHANGED served
      BY DEF Send, Ask, HQConfirms
    <2>2. \A r \in Requests : Receive(r) \/ Lose(r) => served'[q] \in {NoUser, served[q]}
      BY DEF Receive, Lose, Forget, TypeInv, TypeOK
    <2>3. ASSUME NEW r \in Requests \ {q}, Answers(r)
          PROVE  served'[q] = served[q]
      <3>1. PICK s, u : Answer(r, s, u)
        BY <2>3, AnswersArePlain
      <3> QED  BY <3>1 DEF Answer, TypeInv, TypeOK
    <2>4. \A r \in Requests \ {q} : LogIn(r) => served'[q] = served[q]
      BY DEF LogIn, TypeInv, TypeOK
    <2>5. \A u \in Users : SignIn(u) => UNCHANGED served
      BY DEF SignIn, requestVars
    <2>6. Tick \/ UNCHANGED vars => UNCHANGED served
      BY DEF Tick, vars, requestVars
    <2> QED  BY <2>1, <2>2, <2>3, <2>4, <2>5, <2>6 DEF Next, RequestStep, Answers
  <1>2. /\ now \in Nat /\ TTL \in Nat /\ TTL > 0 /\ MaxLatency \in Nat /\ Never < 0
        /\ \A u \in Users : lastIn[u] \in Int
    <2>1. now \in Times /\ \A u \in Users : lastIn[u] \in Times \cup {Never}
      BY DEF TypeInv, TypeOK
    <2>2. Never < 0
      BY DEF Never
    <2> QED  BY <2>1, <2>2, TimesAreIntegers
  <1>3. CASE Answers(q)
    <2>1. /\ served'[q] = session[q].user /\ session[q].user \in Users
          /\ now - session[q].at \in 0..(TTL - 1)
      <3>1. PICK s \in {session[q], Empty}, u \in {NoUser, session[q].user} :
               /\ Answer(q, s, u)
               /\ u # NoUser => u = session[q].user /\ Fresh(session[q])
        BY <1>3, AnswersArePlain
      <3>2. served'[q] = u
        BY <3>1 DEF Answer, TypeInv, TypeOK
      <3> QED  BY <3>1, <3>2 DEF Fresh, TypeInv, TypeOK, Sessions
    <2>2. session[q].at \in Int
      <3>1. session[q].at \in Times \cup {Never}
        BY DEF TypeInv, TypeOK, Sessions
      <3> QED  BY <3>1, TimesAreIntegers
    <2>3. /\ lastIn[session[q].user] # Never
          /\ session[q].at - lastIn[session[q].user] <= MaxLatency
      BY <2>1, UserAssumption DEF AgeInv, SessionsAged, Aged
    <2> QED  BY <1>2, <2>1, <2>2, <2>3
  <1>4. CASE LogIn(q)
    <2>1. /\ served'[q] = token[q] /\ token[q] \in Users
          /\ asked[q] \in Times /\ now - asked[q] <= MaxLatency
          /\ lastIn[token[q]] >= asked[q]
      BY <1>4 DEF LogIn, AgeInv, Exchanges, TypeInv, TypeOK, TokensAsked
    <2>2. asked[q] \in Nat
      BY <2>1, TimesAreIntegers
    <2> QED  BY <1>2, <2>1, <2>2
  <1> QED  BY <1>1, <1>3, <1>4

\* Nobody is served as a user who left HQ longer ago than the TTL and one exchange,
\* in whatever order requests, responses and copies of cookies go.
THEOREM IdentityBounded == Spec => StaleIdentityBound
  <1>1. TypeInv /\ AgeInv /\ [Next]_vars =>
          [\A q \in Requests :
              LET u == served'[q] IN
              u \notin {NoUser, served[q]} =>
                 lastIn[u] # Never /\ now - lastIn[u] < TTL + MaxLatency]_vars
    BY ServedWasSignedIn
  <1> QED  BY <1>1, InitTypeInv, NextKeepsTypeInv, InitAgeInv, NextKeepsAgeInv, PTL
              DEF Spec, StaleIdentityBound

-----------------------------------------------------------------------------
(* Nonces.                                                                 *)

LEMMA InitNonceInv == Init => NonceInv
  <1> SUFFICES ASSUME Init
               PROVE  NonceInv
    OBVIOUS
  <1>1. Bearers \subseteq {Empty, NoForm}
    BY DEF Init, Bearers
  <1>2. \A x \in Bearers : x.nonce = 0 /\ x.user = NoUser
    BY <1>1, EmptyRecords
  <1>3. OneUserPerNonce /\ NoncesAreUsed
    BY <1>2 DEF Init, OneUserPerNonce, NoncesAreUsed
  <1> QED  BY <1>3 DEF Init, NonceInv, AnswersAgree

\* What bears no nonce and user together that was not borne before breaks nothing.
LEMMA NothingNewBorne ==
    ASSUME OneUserPerNonce, NoncesAreUsed, logins' = logins,
           \A x \in Bearers' : \E y \in Bearers : x.nonce = y.nonce /\ x.user = y.user
    PROVE  OneUserPerNonce' /\ NoncesAreUsed'
  BY DEF OneUserPerNonce, NoncesAreUsed

LEMMA RequestKeepsNonces ==
    ASSUME TypeInv, NonceInv, NEW q \in Requests, RequestStep(q), ~LogIn(q)
    PROVE  OneUserPerNonce' /\ NoncesAreUsed'
  <1>1. CASE Send(q)
    <2>1. UNCHANGED <<jar, forms, logins>>
          /\ \A r \in Requests : session'[r] \in {session[r], jar}
      BY <1>1 DEF Send, TypeInv, TypeOK
    <2>2. \A r \in Requests : form'[r] \in {form[r], NoForm} \cup forms
      BY <1>1 DEF Send, TypeInv, TypeOK
    <2>3. Bearers' \subseteq Bearers
      BY <2>1, <2>2 DEF Bearers
    <2> QED  BY <2>1, <2>3, NothingNewBorne DEF NonceInv
  <1>2. CASE Receive(q) \/ Lose(q)
    <2>1. /\ logins' = logins /\ jar' \in {jar, session[q]}
          /\ \A r \in Requests : /\ session'[r] \in {session[r], Empty}
                                 /\ form'[r] \in {form[r], NoForm}
      BY <1>2 DEF Receive, Lose, Forget, Cookies, TypeInv, TypeOK
    <2>2. ASSUME NEW f \in forms', f \notin forms
          PROVE  f.nonce = session[q].nonce /\ f.user = session[q].user
      <3>1. /\ f = [user |-> served[q], nonce |-> session[q].nonce]
            /\ kind[q] = "page" /\ served[q] # NoUser
        BY <1>2, <2>2 DEF Receive, Lose
      <3>2. served[q] = session[q].user
        BY <3>1 DEF NonceInv, AnswersAgree
      <3> QED  BY <3>1, <3>2
    <2>3. ASSUME NEW x \in Bearers'
          PROVE  \E y \in Bearers : x.nonce = y.nonce /\ x.user = y.user
      <3>1. x \in Bearers \/ (x \in forms' /\ x \notin forms)
        BY <2>1, <2>3 DEF Bearers
      <3>2. session[q] \in Bearers
        BY DEF Bearers
      <3> QED  BY <2>2, <3>1, <3>2
    <2> QED  BY <2>1, <2>3, NothingNewBorne DEF NonceInv
  <1>3. CASE Answers(q)
    <2>1. PICK s \in {session[q], Empty} : \E u : Answer(q, s, u)
      BY <1>3, AnswersArePlain
    <2>2. /\ UNCHANGED <<jar, forms, logins, form>>
          /\ \A r \in Requests : session'[r] \in {session[r], Empty}
      BY <2>1 DEF Answer, TypeInv, TypeOK
    <2>3. Bearers' \subseteq Bearers
      BY <2>2 DEF Bearers
    <2> QED  BY <2>2, <2>3, NothingNewBorne DEF NonceInv
  <1>4. CASE Ask(q) \/ HQConfirms(q)
    <2>1. /\ UNCHANGED <<jar, forms, logins, form>>
          /\ \A r \in Requests : session'[r] \in {session[r], Empty}
      BY <1>4 DEF Ask, HQConfirms, TypeInv, TypeOK
    <2>2. Bearers' \subseteq Bearers
      BY <2>1 DEF Bearers
    <2> QED  BY <2>1, <2>2, NothingNewBorne DEF NonceInv
  <1> QED  BY <1>1, <1>2, <1>3, <1>4 DEF RequestStep, Answers

\* A login's nonce is borne by nothing yet.
LEMMA LogInKeepsNonces ==
    ASSUME TypeInv, NonceInv, NEW q \in Requests, LogIn(q)
    PROVE  OneUserPerNonce' /\ NoncesAreUsed'
  <1>1. PICK s : s = LoggedIn(token[q], session[q])
    OBVIOUS
  <1>2. s.nonce = logins + 1
    BY <1>1 DEF LoggedIn
  <1>3. /\ logins' = logins + 1 /\ UNCHANGED <<jar, forms, form>>
        /\ \A r \in Requests : session'[r] \in {session[r], s}
    BY <1>1 DEF LogIn, TypeInv, TypeOK
  <1>4. Bearers' \subseteq Bearers \cup {s}
    BY <1>3 DEF Bearers
  <1>5. \A x \in Bearers : x.nonce \in Nat
    BY EmptyRecords, BoundAssumption DEF Bearers, TypeInv, TypeOK, Sessions, Forms
  <1>6. logins \in Nat
    BY BoundAssumption DEF TypeInv, TypeOK
  <1>7. \A x \in Bearers : x.nonce <= logins
    BY DEF NonceInv, NoncesAreUsed
  <1>8. NoncesAreUsed'
    BY <1>2, <1>3, <1>4, <1>5, <1>6, <1>7 DEF NoncesAreUsed
  <1>9. \A x \in Bearers : x.nonce # s.nonce
    BY <1>2, <1>5, <1>6, <1>7
  <1>10. OneUserPerNonce'
    BY <1>4, <1>9 DEF NonceInv, OneUserPerNonce
  <1> QED  BY <1>8, <1>10

\* A form is answered for the bearer of its nonce.
LEMMA RequestKeepsAnswers ==
    ASSUME TypeInv, NonceInv, NEW q \in Requests, RequestStep(q)
    PROVE  AnswersAgree'
  <1>1. ASSUME NEW r \in Requests, r # q
        PROVE  /\ stage'[r] = stage[r] /\ kind'[r] = kind[r] /\ form'[r] = form[r]
               /\ session'[r] = session[r] /\ served'[r] = served[r]
    <2>1. CASE Send(q) \/ Ask(q) \/ LogIn(q) \/ HQConfirms(q)
      BY <1>1, <2>1 DEF Send, Ask, LogIn, HQConfirms, TypeInv, TypeOK
    <2>2. CASE Receive(q) \/ Lose(q)
      BY <1>1, <2>2 DEF Receive, Lose, Forget, TypeInv, TypeOK
    <2>3. CASE Answers(q)
      <3>1. PICK s, u : Answer(q, s, u)
        BY <2>3, AnswersArePlain
      <3> QED  BY <1>1, <3>1 DEF Answer, TypeInv, TypeOK
    <2> QED  BY <2>1, <2>2, <2>3 DEF RequestStep, Answers
  <1>2. served'[q] # NoUser =>
           /\ stage'[q] = "replied"
           /\ kind'[q] = "page" => served'[q] = session'[q].user
           /\ kind'[q] = "submit" => served'[q] = form'[q].user
    <2>1. CASE Send(q) \/ Ask(q) \/ HQConfirms(q)
      BY <2>1 DEF Send, Ask, HQConfirms, TypeInv, TypeOK, NonceInv, AnswersAgree
    <2>2. CASE Receive(q) \/ Lose(q)
      BY <2>2 DEF Receive, Lose, Forget, TypeInv, TypeOK
    <2>3. CASE LogIn(q)
      BY <2>3 DEF LogIn, TypeInv, TypeOK
    <2>4. CASE Answers(q)
      <3>1. PICK s \in {session[q], Empty}, u \in {NoUser, session[q].user} :
               /\ Answer(q, s, u)
               /\ u # NoUser =>
                     /\ s = session[q] /\ u = session[q].user
                     /\ kind[q] = "submit" => session[q].nonce = form[q].nonce
        BY <2>4, AnswersArePlain
      <3>2. /\ stage'[q] = "replied" /\ served'[q] = u /\ session'[q] = s
            /\ UNCHANGED <<kind, form>>
        BY <3>1 DEF Answer, TypeInv, TypeOK
      <3>3. session[q] \in Bearers /\ form[q] \in Bearers
        BY DEF Bearers
      <3> QED  BY <3>1, <3>2, <3>3 DEF NonceInv, OneUserPerNonce
    <2> QED  BY <2>1, <2>2, <2>3, <2>4 DEF RequestStep, Answers
  <1> QED  BY <1>1, <1>2 DEF NonceInv, AnswersAgree

LEMMA NextKeepsNonceInv == TypeInv /\ NonceInv /\ [Next]_vars => NonceInv'
  <1> SUFFICES ASSUME TypeInv, NonceInv, [Next]_vars
               PROVE  NonceInv'
    OBVIOUS
  <1>1. ASSUME NEW q \in Requests, RequestStep(q)
        PROVE  NonceInv'
    BY <1>1, RequestKeepsNonces, LogInKeepsNonces, RequestKeepsAnswers DEF NonceInv
  <1>2. CASE (\E u \in Users : SignIn(u)) \/ Tick \/ UNCHANGED vars
    <2>1. UNCHANGED <<jar, forms, logins, stage, kind, form, session, served>>
      BY <1>2 DEF SignIn, Tick, vars, requestVars
    <2> QED  BY <2>1 DEF NonceInv, OneUserPerNonce, NoncesAreUsed, AnswersAgree, Bearers
  <1> QED  BY <1>1, <1>2 DEF Next

\* A form is carried out as the person it was rendered for or not at all, whoever
\* logs in and out meanwhile and whatever order responses arrive in.
THEOREM FormsKeepTheirUser == Spec => []FormKeepsItsUser
  <1>1. NonceInv => FormKeepsItsUser
    BY DEF NonceInv, AnswersAgree, FormKeepsItsUser
  <1> QED  BY <1>1, InitTypeInv, NextKeepsTypeInv, InitNonceInv, NextKeepsNonceInv, PTL DEF Spec
=============================================================================
