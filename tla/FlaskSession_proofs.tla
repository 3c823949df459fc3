------------------------ MODULE FlaskSession_proofs ------------------------
(***************************************************************************)
(* Proofs about FlaskSession, for any number of overlapping requests and   *)
(* people, any TTL, any latency of HQ and any bound on the clock.          *)
(***************************************************************************)
EXTENDS FlaskSession, TLAPS

-----------------------------------------------------------------------------
(* Age.  A session is as old as the identity in it: its user was signed in *)
(* at HQ at most one exchange before the session was dated.  What copies   *)
(* and late responses do to sessions cannot change that.                   *)

Aged(s) ==
    s.user # NoUser => /\ lastIn[s.user] # Never
                       /\ s.at - lastIn[s.user] <= MaxLatency

SessionsAged == Aged(jar) /\ \A q \in Requests : Aged(session[q])

Exchanges ==
    \A q \in Requests : stage[q] \in {"asking", "confirmed"} =>
        /\ token[q] # NoUser
        /\ asked[q] # Never /\ asked[q] <= now /\ now - asked[q] <= MaxLatency
        /\ stage[q] = "confirmed" => lastIn[token[q]] >= asked[q]

SignInsPast == \A u \in Users : lastIn[u] <= now

AgeInv == TypeOK /\ SessionsAged /\ Exchanges /\ SignInsPast

-----------------------------------------------------------------------------
LEMMA TimesAreIntegers ==
    /\ \A t \in Times : t \in Nat /\ t # Never
    /\ Never \in Int
    /\ \A t \in Times \cup {Never} : t \in Int /\ (t # Never => t \in Times)
    /\ TTL \in Nat /\ TTL > 0 /\ MaxLatency \in Nat
  BY TimeAssumption DEF Times, Never

LEMMA EmptySession == Empty \in Sessions /\ Empty.user = NoUser
  BY DEF Empty, Sessions

LEMMA PoppedSession ==
    ASSUME NEW s \in Sessions
    PROVE  Popped(s) \in Sessions /\ Popped(s).user = NoUser
  BY DEF Popped, Sessions

LEMMA InitAgeInv == Init => AgeInv
  <1> SUFFICES ASSUME Init
               PROVE  AgeInv
    OBVIOUS
  <1>1. TypeOK
    BY EmptySession, TimeAssumption DEF Init, TypeOK, Times, Kinds
  <1>2. SessionsAged
    BY EmptySession DEF Init, SessionsAged, Aged
  <1>3. Exchanges /\ SignInsPast
    BY DEF Init, Exchanges, SignInsPast, Never
  <1> QED  BY <1>1, <1>2, <1>3 DEF AgeInv

\* A request that sends nothing new to HQ and keeps the people's sign-ins.
LEMMA SendKeepsAgeInv ==
    ASSUME AgeInv, NEW q \in Requests, Send(q)
    PROVE  AgeInv'
  <1>1. /\ stage[q] = "idle" /\ stage' = [stage EXCEPT ![q] = "sent"]
        /\ session' = [session EXCEPT ![q] = jar]
        /\ UNCHANGED <<now, jar, dirty, asked, served, lastIn>>
    BY DEF Send
  <1>2. PICK k \in Kinds, u \in Users \cup {NoUser} :
           /\ kind' = [kind EXCEPT ![q] = k]
           /\ token' = [token EXCEPT ![q] = u]
           /\ out' = IF u # NoUser THEN "no" ELSE out
    BY DEF Send
  <1>3. overlap' \in [Requests -> {"nothing", "requests", "login"}]
    <2>1. overlap' = [r \in Requests |->
             IF r \in UnderWay THEN Together(overlap[r], token'[q])
             ELSE IF r = q THEN During(UnderWay) ELSE "nothing"]
      BY DEF Send
    <2>2. During(UnderWay) \in {"nothing", "requests", "login"}
      BY DEF During
    <2>3. \A r \in Requests : Together(overlap[r], token'[q]) \in {"nothing", "requests", "login"}
      BY DEF Together, AgeInv, TypeOK
    <2> QED  BY <2>1, <2>2, <2>3
  <1>4. TypeOK'
    BY <1>1, <1>2, <1>3 DEF AgeInv, TypeOK
  <1>5. SessionsAged'
    BY <1>1 DEF AgeInv, TypeOK, SessionsAged, Aged
  <1>6. Exchanges' /\ SignInsPast'
    BY <1>1, <1>2 DEF AgeInv, TypeOK, Exchanges, SignInsPast
  <1> QED  BY <1>4, <1>5, <1>6 DEF AgeInv

\* The end of a request leaves the others as they were.
LEMMA ForgetKeepsAgeInv ==
    ASSUME AgeInv, NEW q \in Requests, Forget(q), UNCHANGED <<now, lastIn>>,
           jar' = jar \/ jar' = session[q],
           out' \in {"no", "alone", "with others"}
    PROVE  AgeInv'
  <1>1. TypeOK'
    BY EmptySession DEF Forget, AgeInv, TypeOK, Kinds, Times
  <1>2. SessionsAged'
    BY EmptySession DEF Forget, AgeInv, TypeOK, SessionsAged, Aged
  <1>3. Exchanges' /\ SignInsPast'
    BY DEF Forget, AgeInv, TypeOK, Exchanges, SignInsPast
  <1> QED  BY <1>1, <1>2, <1>3 DEF AgeInv

LEMMA ReceiveKeepsAgeInv ==
    ASSUME AgeInv, NEW q \in Requests, Receive(q) \/ Lose(q)
    PROVE  AgeInv'
  <1>1. Forget(q) /\ UNCHANGED <<now, lastIn>>
    BY DEF Receive, Lose
  <1>2. jar' = jar \/ jar' = session[q]
    BY DEF Receive, Lose
  <1>3. out' \in {"no", "alone", "with others"}
    BY DEF Receive, Lose, AgeInv, TypeOK
  <1> QED  BY <1>1, <1>2, <1>3, ForgetKeepsAgeInv

LEMMA AppKeepsAgeInv ==
    ASSUME AgeInv, NEW q \in Requests,
           Open(q) \/ Logout(q) \/ ServeCached(q) \/ DropCached(q) \/ CacheUser(q)
    PROVE  AgeInv'
  <1>1. CASE Open(q)
    <2>1. TypeOK'
      BY <1>1 DEF Open, Reply, AgeInv, TypeOK
    <2>2. SessionsAged' /\ Exchanges' /\ SignInsPast'
      BY <1>1 DEF Open, Reply, AgeInv, TypeOK, SessionsAged, Aged, Exchanges, SignInsPast
    <2> QED  BY <2>1, <2>2 DEF AgeInv
  <1>2. CASE Logout(q)
    <2>1. Popped(session[q]) \in Sessions /\ Popped(session[q]).user = NoUser
      BY PoppedSession DEF AgeInv, TypeOK
    <2>2. dirty' \in [Requests -> BOOLEAN]
      BY <1>2 DEF Logout, AgeInv, TypeOK
    <2>3. TypeOK'
      BY <1>2, <2>1, <2>2 DEF Logout, Reply, AgeInv, TypeOK
    <2>4. SessionsAged'
      BY <1>2, <2>1 DEF Logout, AgeInv, TypeOK, SessionsAged, Aged
    <2>5. Exchanges' /\ SignInsPast'
      BY <1>2 DEF Logout, Reply, AgeInv, TypeOK, Exchanges, SignInsPast
    <2> QED  BY <2>3, <2>4, <2>5 DEF AgeInv
  <1>3. CASE ServeCached(q)
    <2>1. session[q].user \in Users
      BY <1>3 DEF ServeCached, Fresh, AgeInv, TypeOK, Sessions
    <2>2. TypeOK'
      BY <1>3, <2>1 DEF ServeCached, Reply, AgeInv, TypeOK
    <2>3. SessionsAged' /\ Exchanges' /\ SignInsPast'
      BY <1>3 DEF ServeCached, Reply, AgeInv, TypeOK, SessionsAged, Aged, Exchanges, SignInsPast
    <2> QED  BY <2>2, <2>3 DEF AgeInv
  <1>4. CASE DropCached(q)
    <2>1. Popped(session[q]) \in Sessions /\ Popped(session[q]).user = NoUser
      BY PoppedSession DEF AgeInv, TypeOK
    <2>2. dirty' \in [Requests -> BOOLEAN]
      BY <1>4 DEF DropCached, AgeInv, TypeOK
    <2>3. /\ stage' \in [Requests -> {"idle", "sent", "asking", "confirmed", "replied"}]
          /\ asked' \in [Requests -> Times \cup {Never}]
      BY <1>4 DEF DropCached, Reply, AgeInv, TypeOK
    <2>4. TypeOK'
      BY <1>4, <2>1, <2>2, <2>3 DEF DropCached, AgeInv, TypeOK
    <2>5. SessionsAged'
      BY <1>4, <2>1 DEF DropCached, AgeInv, TypeOK, SessionsAged, Aged
    <2>6. Exchanges' /\ SignInsPast'
      <3>1. UNCHANGED <<now, token, lastIn>>
        BY <1>4 DEF DropCached
      <3>2. /\ \A r \in Requests \ {q} : stage'[r] = stage[r] /\ asked'[r] = asked[r]
            /\ \/ stage'[q] = "replied"
               \/ stage'[q] = "asking" /\ asked'[q] = now /\ token[q] # NoUser
        BY <1>4 DEF DropCached, Reply, AgeInv, TypeOK
      <3>3. now \in Nat /\ now # Never /\ now <= now /\ now - now <= MaxLatency
        <4>1. now \in Times
          BY DEF AgeInv, TypeOK
        <4> QED  BY <4>1, TimesAreIntegers
      <3>4. ASSUME NEW r \in Requests, stage'[r] \in {"asking", "confirmed"}
            PROVE  /\ token'[r] # NoUser
                   /\ asked'[r] # Never /\ asked'[r] <= now' /\ now' - asked'[r] <= MaxLatency
                   /\ stage'[r] = "confirmed" => lastIn'[token'[r]] >= asked'[r]
        BY <3>1, <3>2, <3>3, <3>4 DEF AgeInv, Exchanges
      <3> QED  BY <3>1, <3>4 DEF AgeInv, Exchanges, SignInsPast
    <2> QED  BY <2>4, <2>5, <2>6 DEF AgeInv
  <1>5. CASE CacheUser(q)
    <2>1. token[q] \in Users /\ now \in Times
      BY <1>5 DEF CacheUser, AgeInv, TypeOK, Exchanges
    <2> DEFINE s == [user |-> token[q], at |-> now, permanent |-> TRUE]
    <2>2. s \in Sessions /\ s.user = token[q] /\ s.at = now
      BY <2>1 DEF Sessions
    <2>3. session' = [session EXCEPT ![q] = s]
      BY <1>5 DEF CacheUser
    <2>4. Aged(s)
      <3>1. /\ asked[q] \in Times /\ lastIn[token[q]] \in Times \cup {Never}
            /\ now - asked[q] <= MaxLatency /\ lastIn[token[q]] >= asked[q]
        BY <1>5, <2>1 DEF CacheUser, AgeInv, TypeOK, Exchanges
      <3>2. now - lastIn[token[q]] <= MaxLatency /\ lastIn[token[q]] # Never
        <4>1. asked[q] \in Nat /\ now \in Nat /\ MaxLatency \in Nat /\ Never < 0
              /\ lastIn[token[q]] \in Int
          BY <2>1, <3>1, TimesAreIntegers DEF Never
        <4> QED  BY <3>1, <4>1
      <3> HIDE DEF s
      <3> QED  BY <2>2, <3>2 DEF Aged
    <2> HIDE DEF s
    <2>5. TypeOK'
      BY <1>5, <2>1, <2>2, <2>3 DEF CacheUser, Reply, AgeInv, TypeOK
    <2>6. SessionsAged'
      BY <1>5, <2>3, <2>4 DEF CacheUser, AgeInv, TypeOK, SessionsAged, Aged
    <2>7. Exchanges' /\ SignInsPast'
      BY <1>5 DEF CacheUser, Reply, AgeInv, TypeOK, Exchanges, SignInsPast
    <2> QED  BY <2>5, <2>6, <2>7 DEF AgeInv
  <1> QED  BY <1>1, <1>2, <1>3, <1>4, <1>5

LEMMA HQKeepsAgeInv ==
    ASSUME AgeInv, NEW q \in Requests, HQConfirms(q) \/ HQDenies(q)
    PROVE  AgeInv'
  <1>1. TypeOK'
    BY DEF HQConfirms, HQDenies, Reply, AgeInv, TypeOK
  <1>2. SessionsAged' /\ SignInsPast'
    BY DEF HQConfirms, HQDenies, AgeInv, SessionsAged, Aged, SignInsPast
  <1>3. Exchanges'
    BY DEF HQConfirms, HQDenies, Reply, SignedIn, AgeInv, TypeOK, Exchanges
  <1> QED  BY <1>1, <1>2, <1>3 DEF AgeInv

\* Sign-ins and the clock only make lastIn later.
LEMMA LaterKeepsAge ==
    ASSUME TypeOK, SessionsAged,
           \A u \in Users : lastIn'[u] \in Times \cup {Never} /\ lastIn'[u] >= lastIn[u],
           UNCHANGED <<jar, session>>
    PROVE  SessionsAged'
  <1>1. ASSUME NEW s \in Sessions, Aged(s)
        PROVE  s.user # NoUser => /\ lastIn'[s.user] # Never
                                  /\ s.at - lastIn'[s.user] <= MaxLatency
    <2>1. SUFFICES ASSUME s.user # NoUser
                   PROVE  /\ lastIn'[s.user] # Never
                          /\ s.at - lastIn'[s.user] <= MaxLatency
      OBVIOUS
    <2>2. s.user \in Users /\ s.at \in Int
      BY <2>1, TimesAreIntegers DEF Sessions
    <2>3. /\ lastIn[s.user] \in Times /\ s.at - lastIn[s.user] <= MaxLatency
      BY <1>1, <2>1, <2>2, TimesAreIntegers DEF Aged, TypeOK
    <2>4. lastIn'[s.user] \in Int /\ lastIn'[s.user] >= lastIn[s.user] /\ lastIn[s.user] \in Nat
      BY <2>2, <2>3, TimesAreIntegers
    <2>5. MaxLatency \in Nat /\ Never < 0
      BY TimesAreIntegers DEF Never
    <2> QED  BY <2>2, <2>3, <2>4, <2>5
  <1> QED  BY <1>1 DEF SessionsAged, Aged, TypeOK

LEMMA TimeKeepsAgeInv ==
    ASSUME AgeInv, Tick \/ \E u \in Users : SignIn(u)
    PROVE  AgeInv'
  <1>1. ASSUME NEW u \in Users, SignIn(u)
        PROVE  AgeInv'
    <2>1. TypeOK'
      BY <1>1 DEF SignIn, AgeInv, TypeOK
    <2>2. ASSUME NEW v \in Users
          PROVE  /\ lastIn'[v] \in Times \cup {Never}
                 /\ lastIn'[v] >= lastIn[v] /\ lastIn'[v] <= now
      <3>1. lastIn'[v] = now \/ lastIn'[v] = lastIn[v]
        BY <1>1 DEF SignIn, AgeInv, TypeOK
      <3>2. /\ lastIn[v] \in Times \cup {Never} /\ lastIn[v] <= now
            /\ now \in Times
        BY DEF AgeInv, TypeOK, SignInsPast
      <3>3. lastIn[v] \in Int /\ now \in Int
        BY <3>2, TimesAreIntegers
      <3> QED  BY <3>1, <3>2, <3>3
    <2>3. SessionsAged'
      BY <1>1, <2>2, LaterKeepsAge DEF SignIn, AgeInv
    <2>4. Exchanges'
      <3>1. ASSUME NEW q \in Requests, stage[q] = "confirmed"
            PROVE  lastIn'[token[q]] >= asked[q]
        <4>1. token[q] \in Users /\ asked[q] \in Times /\ lastIn[token[q]] >= asked[q]
          BY <3>1 DEF AgeInv, TypeOK, Exchanges
        <4>2. /\ lastIn'[token[q]] \in Int /\ lastIn[token[q]] \in Int /\ asked[q] \in Int
              /\ lastIn'[token[q]] >= lastIn[token[q]]
          BY <2>2, <4>1, TimesAreIntegers DEF AgeInv, TypeOK
        <4> QED  BY <4>1, <4>2
      <3>2. UNCHANGED <<now, stage, token, asked>>
        BY <1>1 DEF SignIn
      <3> QED  BY <3>1, <3>2 DEF AgeInv, Exchanges
    <2>5. SignInsPast'
      BY <1>1, <2>2 DEF SignIn, SignInsPast
    <2> QED  BY <2>1, <2>3, <2>4, <2>5 DEF AgeInv
  <1>2. CASE Tick
    <2>1. PICK stay \in SUBSET {u \in Users : SignedIn(u)} :
             lastIn' = [u \in Users |-> IF u \in stay THEN now + 1 ELSE lastIn[u]]
      BY <1>2 DEF Tick
    <2>2. /\ now < MaxTime /\ now' = now + 1
          /\ now \in 0..MaxTime /\ now' \in 0..MaxTime /\ MaxTime \in Nat
      <3>1. now < MaxTime /\ now' = now + 1
        BY <1>2, Zenon DEF Tick
      <3>2. now \in 0..MaxTime
        BY DEF AgeInv, TypeOK, Times
      <3> QED  BY <3>1, <3>2, TimeAssumption
    <2>3. \A u \in Users : /\ lastIn'[u] \in Times \cup {Never}
                           /\ lastIn'[u] >= lastIn[u] /\ lastIn'[u] <= now'
      <3>1. ASSUME NEW u \in Users
            PROVE  /\ lastIn'[u] \in Times \cup {Never}
                   /\ lastIn'[u] >= lastIn[u] /\ lastIn'[u] <= now'
        <4>1. lastIn'[u] = now' \/ lastIn'[u] = lastIn[u]
          BY <2>1, <2>2
        <4>2. lastIn[u] \in (0..MaxTime) \cup {-1} /\ lastIn[u] <= now
          BY DEF AgeInv, TypeOK, SignInsPast, Times, Never
        <4> QED  BY <2>2, <4>1, <4>2 DEF Times, Never
      <3> QED  BY <3>1
    <2>4. TypeOK'
      <3>1. lastIn' \in [Users -> Times \cup {Never}]
        BY <2>1, <2>3
      <3>2. UNCHANGED <<jar, stage, kind, token, session, dirty, asked, served, overlap, out>>
        BY <1>2, Zenon DEF Tick
      <3> QED  BY <2>2, <3>1, <3>2 DEF AgeInv, TypeOK, Times
    <2>5. SessionsAged'
      BY <1>2, <2>3, LaterKeepsAge DEF Tick, AgeInv
    <2>6. Exchanges'
      <3>1. ASSUME NEW q \in Requests, stage'[q] \in {"asking", "confirmed"}
            PROVE  /\ token'[q] # NoUser
                   /\ asked'[q] # Never /\ asked'[q] <= now' /\ now' - asked'[q] <= MaxLatency
                   /\ stage'[q] = "confirmed" => lastIn'[token'[q]] >= asked'[q]
        <4>1. /\ token[q] \in Users /\ asked[q] \in Times
              /\ asked[q] <= now /\ now - asked[q] < MaxLatency
              /\ stage[q] = "confirmed" => lastIn[token[q]] >= asked[q]
          BY <1>2, <3>1 DEF Tick, AgeInv, TypeOK, Exchanges
        <4>2. UNCHANGED <<stage, token, asked>>
          BY <1>2 DEF Tick
        <4>3. /\ asked[q] \in Nat /\ MaxLatency \in Nat /\ asked[q] # Never
              /\ lastIn[token[q]] \in Int /\ lastIn'[token[q]] \in Int
          BY <2>3, <4>1, TimesAreIntegers DEF AgeInv, TypeOK
        <4>4. lastIn'[token[q]] >= lastIn[token[q]] /\ token[q] # NoUser
          BY <2>3, <4>1, UserAssumption
        <4> QED  BY <2>2, <4>1, <4>2, <4>3, <4>4
      <3> QED  BY <3>1 DEF Exchanges
    <2> QED  BY <2>3, <2>4, <2>5, <2>6 DEF AgeInv, SignInsPast
  <1> QED  BY <1>1, <1>2

LEMMA NextKeepsAgeInv == AgeInv /\ [Next]_vars => AgeInv'
  <1> SUFFICES ASSUME AgeInv, [Next]_vars
               PROVE  AgeInv'
    OBVIOUS
  <1>1. ASSUME NEW q \in Requests, RequestStep(q)
        PROVE  AgeInv'
    BY <1>1, SendKeepsAgeInv, ReceiveKeepsAgeInv, AppKeepsAgeInv, HQKeepsAgeInv DEF RequestStep
  <1>2. CASE UNCHANGED vars
    BY <1>2 DEF vars, AgeInv, TypeOK, SessionsAged, Aged, Exchanges, SignInsPast
  <1> QED  BY <1>1, <1>2, TimeKeepsAgeInv DEF Next

\* The types and the ages of sessions are kept by every step.
THEOREM AgesKnown == Spec => []AgeInv
  BY InitAgeInv, NextKeepsAgeInv, PTL DEF Spec

\* Cookie, requests and people keep their types, however many requests overlap.
THEOREM TypeCorrect == Spec => []TypeOK
  <1>1. AgeInv => TypeOK
    BY DEF AgeInv
  <1> QED  BY <1>1, AgesKnown, PTL

\* Whom a route answers was signed in at HQ less than the TTL and one exchange ago.
LEMMA ServedWasSignedIn ==
    ASSUME AgeInv, [Next]_vars, NEW q \in Requests, served'[q] \notin {NoUser, served[q]}
    PROVE  /\ lastIn[served'[q]] # Never
           /\ now - lastIn[served'[q]] < TTL + MaxLatency
  <1>1. \/ ServeCached(q) \/ CacheUser(q)
    <2>1. \A r \in Requests : Send(r) \/ Open(r) \/ Logout(r) \/ DropCached(r)
                                 \/ HQConfirms(r) \/ HQDenies(r) => UNCHANGED served
      BY DEF Send, Open, Logout, DropCached, HQConfirms, HQDenies
    <2>2. \A r \in Requests : Receive(r) \/ Lose(r) => served'[q] \in {NoUser, served[q]}
      BY DEF Receive, Lose, Forget, AgeInv, TypeOK
    <2>3. \A r \in Requests \ {q} : ServeCached(r) \/ CacheUser(r) => served'[q] = served[q]
      BY DEF ServeCached, CacheUser, AgeInv, TypeOK
    <2>4. \A u \in Users : SignIn(u) => UNCHANGED served
      BY DEF SignIn
    <2>5. Tick \/ UNCHANGED vars => UNCHANGED served
      BY DEF Tick, vars
    <2> QED  BY <2>1, <2>2, <2>3, <2>4, <2>5 DEF Next, RequestStep
  <1>2. /\ now \in Nat /\ TTL \in Nat /\ TTL > 0 /\ MaxLatency \in Nat /\ Never < 0
        /\ \A u \in Users : lastIn[u] \in Int
    <2>1. now \in Times /\ \A u \in Users : lastIn[u] \in Times \cup {Never}
      BY DEF AgeInv, TypeOK
    <2>2. Never < 0
      BY DEF Never
    <2> QED  BY <2>1, <2>2, TimesAreIntegers
  <1>3. CASE ServeCached(q)
    <2>1. /\ served'[q] = session[q].user /\ session[q].user \in Users
          /\ now - session[q].at \in 0..(TTL - 1)
      BY <1>3 DEF ServeCached, Fresh, AgeInv, TypeOK, Sessions
    <2>2. session[q].at \in Int
      BY TimesAreIntegers DEF AgeInv, TypeOK, Sessions
    <2>3. /\ lastIn[session[q].user] # Never
          /\ session[q].at - lastIn[session[q].user] <= MaxLatency
      BY <2>1, UserAssumption DEF AgeInv, SessionsAged, Aged
    <2> QED  BY <1>2, <2>1, <2>2, <2>3
  <1>4. CASE CacheUser(q)
    <2>1. /\ served'[q] = token[q] /\ token[q] \in Users
          /\ asked[q] \in Times /\ now - asked[q] <= MaxLatency
          /\ lastIn[token[q]] >= asked[q]
      BY <1>4 DEF CacheUser, AgeInv, TypeOK, Exchanges
    <2>2. asked[q] \in Nat
      BY <2>1, TimesAreIntegers
    <2> QED  BY <1>2, <2>1, <2>2
  <1> QED  BY <1>1, <1>3, <1>4

\* Nobody is served as a user who left HQ longer ago than the TTL and one exchange,
\* in whatever order requests, responses and copies of cookies go.
THEOREM IdentityBounded == Spec => StaleIdentityBound
  <1>1. AgeInv /\ [Next]_vars =>
          [\A q \in Requests :
              LET u == served'[q] IN
              u \notin {NoUser, served[q]} =>
                 lastIn[u] # Never /\ now - lastIn[u] < TTL + MaxLatency]_vars
    BY ServedWasSignedIn
  <1> QED  BY <1>1, AgesKnown, PTL DEF Spec, StaleIdentityBound

-----------------------------------------------------------------------------
(* Logout.  While nothing else is under way, the cookie a request works on *)
(* is the browser's; and once a logout has gone through alone, no request  *)
(* has a user to bring back, until a login comes along.                    *)

AloneIsAlone ==
    \A q, r \in Requests :
        overlap[q] = "nothing" /\ stage[q] # "idle" /\ stage[r] # "idle" => q = r

CookieIsCurrent ==
    \A q \in Requests : overlap[q] = "nothing" =>
        /\ stage[q] = "sent" => session[q] = jar
        /\ stage[q] = "replied" /\ kind[q] = "logout" /\ ~dirty[q] => session[q] = jar

StageFacts ==
    \A q \in Requests :
        /\ stage[q] \in {"idle", "sent"} => ~dirty[q]
        /\ stage[q] = "replied" /\ kind[q] = "logout" => session[q].user = NoUser
        /\ stage[q] \in {"asking", "confirmed"} => token[q] # NoUser /\ kind[q] = "page"

Quiet ==
    out = "alone" =>
        /\ jar.user = NoUser
        /\ \A q \in Requests : stage[q] # "idle" => token[q] = NoUser /\ session[q].user = NoUser

LogoutInv == TypeOK /\ AloneIsAlone /\ CookieIsCurrent /\ StageFacts /\ Quiet

LEMMA InitLogoutInv == Init => LogoutInv
  <1> SUFFICES ASSUME Init
               PROVE  LogoutInv
    OBVIOUS
  <1>1. TypeOK
    BY InitAgeInv DEF AgeInv
  <1>2. AloneIsAlone /\ CookieIsCurrent /\ StageFacts /\ Quiet
    BY DEF Init, AloneIsAlone, CookieIsCurrent, StageFacts, Quiet
  <1> QED  BY <1>1, <1>2 DEF LogoutInv

\* A request that leaves while another is under way overlaps it, and it them.
LEMMA SendKeepsLogoutInv ==
    ASSUME LogoutInv, NEW q \in Requests, Send(q), TypeOK'
    PROVE  LogoutInv'
  <1>1. /\ stage[q] = "idle" /\ stage' = [stage EXCEPT ![q] = "sent"]
        /\ session' = [session EXCEPT ![q] = jar]
        /\ UNCHANGED <<now, jar, dirty, asked, served, lastIn>>
    BY DEF Send
  <1>2. PICK k \in Kinds, u \in Users \cup {NoUser} :
           /\ kind' = [kind EXCEPT ![q] = k]
           /\ token' = [token EXCEPT ![q] = u]
           /\ out' = IF u # NoUser THEN "no" ELSE out
    BY DEF Send
  <1>3. overlap' = [r \in Requests |->
             IF r \in UnderWay THEN Together(overlap[r], token'[q])
             ELSE IF r = q THEN During(UnderWay) ELSE "nothing"]
    BY DEF Send
  <1>4. ASSUME NEW r \in Requests, overlap'[r] = "nothing", stage'[r] # "idle"
        PROVE  r = q /\ \A p \in Requests : stage[p] = "idle"
    <2>1. \A p \in Requests : p \in UnderWay <=> stage[p] # "idle"
      BY DEF UnderWay
    <2>2. Together(overlap[r], token'[q]) # "nothing"
      BY DEF Together
    <2>3. During(UnderWay) = "nothing" => UnderWay = {}
      BY DEF During
    <2>4. r \notin UnderWay
      BY <1>3, <1>4, <2>2
    <2>5. r = q
      BY <1>1, <1>4, <2>1, <2>4 DEF LogoutInv, TypeOK
    <2>6. UnderWay = {}
      BY <1>3, <1>4, <2>3, <2>4, <2>5
    <2> QED  BY <2>1, <2>5, <2>6
  <1>5. \A r \in Requests : r # q => stage'[r] = stage[r] /\ session'[r] = session[r]
                                    /\ token'[r] = token[r] /\ kind'[r] = kind[r]
    BY <1>1, <1>2 DEF LogoutInv, TypeOK
  <1>6. /\ stage'[q] = "sent" /\ session'[q] = jar /\ token'[q] = u
    BY <1>1, <1>2 DEF LogoutInv, TypeOK
  <1>7. AloneIsAlone'
    BY <1>4, <1>5 DEF AloneIsAlone
  <1>8. CookieIsCurrent'
    BY <1>1, <1>4, <1>6 DEF CookieIsCurrent
  <1>9. StageFacts'
    BY <1>1, <1>5, <1>6 DEF LogoutInv, StageFacts
  <1>10. Quiet'
    BY <1>1, <1>2, <1>5, <1>6 DEF LogoutInv, Quiet
  <1> QED  BY <1>7, <1>8, <1>9, <1>10 DEF LogoutInv

\* A request that ends drops out; the rest is about what its response does.
LEMMA ForgetKeepsTheRest ==
    ASSUME LogoutInv, NEW q \in Requests, Forget(q), stage[q] # "idle",
           jar' = jar \/ jar' = session[q]
    PROVE  AloneIsAlone' /\ CookieIsCurrent' /\ StageFacts'
  <1>1. /\ stage'[q] = "idle" /\ ~dirty'[q]
        /\ \A r \in Requests : r # q => /\ stage'[r] = stage[r] /\ kind'[r] = kind[r]
                                       /\ token'[r] = token[r] /\ session'[r] = session[r]
                                       /\ dirty'[r] = dirty[r] /\ overlap'[r] = overlap[r]
    BY DEF Forget, LogoutInv, TypeOK
  <1>2. AloneIsAlone'
    BY <1>1 DEF LogoutInv, AloneIsAlone
  <1>3. CookieIsCurrent'
    BY <1>1 DEF LogoutInv, AloneIsAlone, CookieIsCurrent
  <1>4. StageFacts'
    BY <1>1 DEF LogoutInv, StageFacts
  <1> QED  BY <1>2, <1>3, <1>4

LEMMA LoseKeepsLogoutInv ==
    ASSUME LogoutInv, NEW q \in Requests, Lose(q), TypeOK'
    PROVE  LogoutInv'
  <1>1. Forget(q) /\ stage[q] # "idle" /\ UNCHANGED <<jar, out>>
    BY DEF Lose
  <1>2. Quiet'
    BY <1>1 DEF Forget, LogoutInv, TypeOK, Quiet
  <1> QED  BY <1>1, <1>2, ForgetKeepsTheRest DEF LogoutInv

LEMMA ReceiveKeepsLogoutInv ==
    ASSUME LogoutInv, NEW q \in Requests, Receive(q), TypeOK'
    PROVE  LogoutInv'
  <1>1. /\ Forget(q) /\ stage[q] = "replied"
        /\ jar' = IF SetsCookie(q) THEN session[q] ELSE jar
    BY DEF Receive
  <1>2. out' = "alone" => \/ kind[q] = "logout" /\ overlap[q] = "nothing"
                          \/ kind[q] # "logout" /\ out = "alone"
    BY DEF Receive
  <1>3. /\ stage'[q] = "idle"
        /\ \A r \in Requests : r # q => /\ stage'[r] = stage[r]
                                       /\ token'[r] = token[r] /\ session'[r] = session[r]
    BY <1>1 DEF Forget, LogoutInv, TypeOK
  <1>4. Quiet'
    <2>1. CASE out' # "alone"
      BY <2>1 DEF Quiet
    <2>2. CASE kind[q] # "logout" /\ out = "alone"
      BY <1>1, <1>3, <2>2 DEF LogoutInv, Quiet
    <2>3. CASE kind[q] = "logout" /\ overlap[q] = "nothing"
      <3>1. \A r \in Requests : stage'[r] = "idle"
        BY <1>1, <1>3, <2>3 DEF LogoutInv, AloneIsAlone
      <3>2. session[q].user = NoUser
        BY <1>1, <2>3 DEF LogoutInv, StageFacts
      <3>3. ~SetsCookie(q) => session[q] = jar
        BY <1>1, <2>3 DEF SetsCookie, LogoutInv, CookieIsCurrent
      <3>4. jar'.user = NoUser
        BY <1>1, <3>2, <3>3
      <3> QED  BY <3>1, <3>4 DEF Quiet
    <2> QED  BY <1>2, <2>1, <2>2, <2>3
  <1> QED  BY <1>1, <1>4, ForgetKeepsTheRest DEF LogoutInv

LEMMA AppKeepsLogoutInv ==
    ASSUME LogoutInv, NEW q \in Requests, TypeOK',
           \/ Open(q) \/ Logout(q) \/ ServeCached(q) \/ DropCached(q) \/ CacheUser(q)
           \/ HQConfirms(q) \/ HQDenies(q)
    PROVE  LogoutInv'
  <1>1. UNCHANGED <<jar, kind, token, overlap, out>>
    BY DEF Open, Logout, ServeCached, DropCached, CacheUser, HQConfirms, HQDenies
  <1>2. /\ stage[q] # "idle"
        /\ \A r \in Requests : r # q => /\ stage'[r] = stage[r] /\ session'[r] = session[r]
                                       /\ dirty'[r] = dirty[r]
    BY DEF Open, Logout, ServeCached, DropCached, CacheUser, HQConfirms, HQDenies, Reply,
           LogoutInv, TypeOK
  <1>3. stage'[q] \in {"asking", "confirmed", "replied"}
    BY DEF Open, Logout, ServeCached, DropCached, CacheUser, HQConfirms, HQDenies, Reply,
           LogoutInv, TypeOK
  <1>4. stage'[q] \in {"asking", "confirmed"} => token[q] # NoUser /\ kind[q] = "page"
    BY DEF Open, Logout, ServeCached, DropCached, CacheUser, HQConfirms, HQDenies, Reply,
           LogoutInv, TypeOK, StageFacts
  <1>5. \/ session'[q] = session[q]
        \/ session'[q].user = NoUser
        \/ token[q] # NoUser
    <2>1. session[q] \in Sessions
      BY DEF LogoutInv, TypeOK
    <2>2. Popped(session[q]).user = NoUser
      BY <2>1, PoppedSession
    <2> QED  BY <2>2 DEF Open, Logout, ServeCached, DropCached, CacheUser, HQConfirms, HQDenies,
                        LogoutInv, TypeOK, StageFacts
  <1>6. kind[q] = "logout" /\ stage'[q] = "replied" =>
           /\ session'[q].user = NoUser
           /\ ~dirty'[q] => stage[q] = "sent" /\ session'[q] = session[q]
    <2>1. session[q] \in Sessions
      BY DEF LogoutInv, TypeOK
    <2>2. Popped(session[q]).user = NoUser
      BY <2>1, PoppedSession
    <2> QED  BY <2>2 DEF Open, Logout, ServeCached, DropCached, CacheUser, HQConfirms, HQDenies,
                        LogoutInv, TypeOK, StageFacts
  <1>7. AloneIsAlone'
    BY <1>1, <1>2 DEF LogoutInv, AloneIsAlone
  <1>8. CookieIsCurrent'
    BY <1>1, <1>2, <1>3, <1>6 DEF LogoutInv, CookieIsCurrent
  <1>9. StageFacts'
    BY <1>1, <1>2, <1>3, <1>4, <1>6 DEF LogoutInv, StageFacts
  <1>10. Quiet'
    BY <1>1, <1>2, <1>5 DEF LogoutInv, Quiet
  <1> QED  BY <1>7, <1>8, <1>9, <1>10 DEF LogoutInv

LEMMA NextKeepsLogoutInv == AgeInv /\ LogoutInv /\ [Next]_vars => LogoutInv'
  <1> SUFFICES ASSUME AgeInv, LogoutInv, [Next]_vars
               PROVE  LogoutInv'
    OBVIOUS
  <1>1. TypeOK'
    BY NextKeepsAgeInv DEF AgeInv
  <1>2. ASSUME NEW q \in Requests, RequestStep(q)
        PROVE  LogoutInv'
    BY <1>1, <1>2, SendKeepsLogoutInv, ReceiveKeepsLogoutInv, LoseKeepsLogoutInv,
       AppKeepsLogoutInv DEF RequestStep
  <1>3. CASE \/ \E u \in Users : SignIn(u)
             \/ Tick
             \/ UNCHANGED vars
    <2>1. UNCHANGED <<jar, stage, kind, token, session, dirty, overlap, out>>
      BY <1>3 DEF SignIn, Tick, vars
    <2>2. AloneIsAlone' /\ CookieIsCurrent' /\ StageFacts' /\ Quiet'
      BY <2>1 DEF LogoutInv, AloneIsAlone, CookieIsCurrent, StageFacts, Quiet
    <2> QED  BY <1>1, <2>2 DEF LogoutInv
  <1> QED  BY <1>2, <1>3 DEF Next

\* After a logout that nothing overlapped no identity comes back into the cookie
\* before somebody logs in.
THEOREM LogoutAloneIsFinal == Spec => []LogoutAloneSticks
  <1>1. Init => LogoutInv
    BY InitLogoutInv
  <1>2. AgeInv /\ LogoutInv /\ [Next]_vars => LogoutInv'
    BY NextKeepsLogoutInv
  <1>3. LogoutInv => LogoutAloneSticks
    BY DEF LogoutInv, Quiet, LogoutAloneSticks
  <1> QED  BY <1>1, <1>2, <1>3, AgesKnown, PTL DEF Spec
=============================================================================
