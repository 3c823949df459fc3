---------------------------- MODULE FlaskSession ----------------------------
(***************************************************************************)
(* aj_shared.aj_auth: the signed-cookie session in which a Flask app       *)
(* caches the identity HQ confirmed, as one browser sees it.               *)
(*                                                                         *)
(* The session lives in the browser's cookie jar.  A request carries the   *)
(* session as the jar had it when the request was sent; the handler works  *)
(* on that copy, may ask HQ in the middle, and its response may put the    *)
(* copy back into the jar.  Requests of one browser overlap (pages, tabs,  *)
(* fetch calls), and their responses arrive in any order or not at all.    *)
(*                                                                         *)
(* HQ signs users in and out on a domain of its own and the app hears of   *)
(* neither: it learns who is signed in only when a request brings a token  *)
(* that HQ confirms.  Time is a count of ticks, the same for app and HQ.   *)
(***************************************************************************)
EXTENDS Integers

CONSTANTS
    Requests,    \* how many requests of the browser may be under way: a set
    Users,       \* people who use this browser
    NoUser,      \* nobody
    TTL,         \* AJ_SESSION_TTL_SECONDS
    MaxLatency,  \* an exchange with HQ takes at most this long
    MaxTime      \* bound on the clock

ASSUME UserAssumption == NoUser \notin Users
ASSUME TimeAssumption == TTL \in Nat \ {0} /\ MaxLatency \in Nat /\ MaxTime \in Nat

VARIABLES
    now,      \* time.time()
    jar,      \* the session cookie in the browser
    stage,    \* where each request stands
    kind,     \* which route it is for
    token,    \* whose cross-app token it carries, or NoUser
    session,  \* the copy of the session the request works on
    dirty,    \* session.modified
    asked,    \* when the handler called HQ
    served,   \* whom the route answered, the user put on g
    lastIn,   \* when each user was last signed in at HQ, Never if they were not
    overlap,  \* what else was under way at any time during each request
    out       \* how the last logout went through; "no" if a login came with or after it

vars == <<now, jar, stage, kind, token, session, dirty, asked, served, lastIn, overlap, out>>

Times == 0..MaxTime
Never == -1

(* '_aj_user', '_aj_user_cached_at' and Flask's '_permanent'.              *)
Sessions == [user : Users \cup {NoUser}, at : Times \cup {Never}, permanent : BOOLEAN]
Empty == [user |-> NoUser, at |-> Never, permanent |-> FALSE]

\* "open" stands for a public route that looks at no user, "page" for every
\* route that calls _get_or_validate_user().
Kinds == {"open", "page", "logout"}

UnderWay == {q \in Requests : stage[q] # "idle"}

SignedIn(u) == lastIn[u] = now

\* Mutant: the last second of the TTL counts as fresh.
FreshThrough(s) == s.user # NoUser /\ now - s.at \in 0..TTL

\* session_is_fresh(cached_at, ttl, time.time()) of a cached user.
Fresh(s) == s.user # NoUser /\ now - s.at \in 0..(TTL - 1)

\* Mutant: the logout forgets when, not who, as if stale were gone.
PoppedTimestamp(s) == [s EXCEPT !.at = Never]

\* session.pop of both keys; '_permanent' stays.
Popped(s) == [s EXCEPT !.user = NoUser, !.at = Never]

-----------------------------------------------------------------------------
Init ==
    /\ now = 0
    /\ jar = Empty
    /\ stage = [q \in Requests |-> "idle"]
    /\ kind = [q \in Requests |-> "open"]
    /\ token = [q \in Requests |-> NoUser]
    /\ session = [q \in Requests |-> Empty]
    /\ dirty = [q \in Requests |-> FALSE]
    /\ asked = [q \in Requests |-> Never]
    /\ served = [q \in Requests |-> NoUser]
    /\ lastIn = [u \in Users |-> Never]
    /\ overlap = [q \in Requests |-> "nothing"]
    /\ out = "no"

(* The browser.                                                            *)

\* Bookkeeping of overlaps, for the properties: a request with a token counts as
\* a login, and outweighs any other.
Together(o, u) == IF u # NoUser THEN "login" ELSE IF o = "nothing" THEN "requests" ELSE o

During(others) ==
    IF others = {} THEN "nothing"
    ELSE IF \E r \in others : token[r] # NoUser THEN "login" ELSE "requests"

\* A request leaves with the cookie of this moment.  A token comes along when
\* HQ's login page sent the browser here.
Send(q) ==
    /\ stage[q] = "idle"
    /\ \E k \in Kinds, u \in Users \cup {NoUser} :
          /\ u # NoUser => k = "page" /\ SignedIn(u)
          /\ kind' = [kind EXCEPT ![q] = k]
          /\ token' = [token EXCEPT ![q] = u]
          /\ out' = IF u # NoUser THEN "no" ELSE out
    /\ stage' = [stage EXCEPT ![q] = "sent"]
    /\ session' = [session EXCEPT ![q] = jar]
    /\ overlap' = [r \in Requests |->
          IF r \in UnderWay THEN Together(overlap[r], token'[q])
          ELSE IF r = q THEN During(UnderWay) ELSE "nothing"]
    /\ UNCHANGED <<now, jar, dirty, asked, served, lastIn>>

\* Flask sends Set-Cookie for a modified session, and for a permanent one with
\* every response (SESSION_REFRESH_EACH_REQUEST).
SetsCookie(q) == dirty[q] \/ session[q].permanent

Forget(q) ==
    /\ stage' = [stage EXCEPT ![q] = "idle"]
    /\ kind' = [kind EXCEPT ![q] = "open"]
    /\ token' = [token EXCEPT ![q] = NoUser]
    /\ session' = [session EXCEPT ![q] = Empty]
    /\ dirty' = [dirty EXCEPT ![q] = FALSE]
    /\ asked' = [asked EXCEPT ![q] = Never]
    /\ served' = [served EXCEPT ![q] = NoUser]
    /\ overlap' = [overlap EXCEPT ![q] = "nothing"]

\* The response arrives, and its cookie replaces the browser's.
Receive(q) ==
    /\ stage[q] = "replied"
    /\ jar' = IF SetsCookie(q) THEN session[q] ELSE jar
    /\ out' = IF kind[q] # "logout" THEN out
              ELSE IF overlap[q] = "nothing" THEN "alone"
              ELSE IF overlap[q] = "requests" THEN "with others"
              ELSE "no"
    /\ Forget(q)
    /\ UNCHANGED <<now, lastIn>>

\* The request or its response is lost, or the browser gave it up.
Lose(q) ==
    /\ stage[q] \in {"sent", "replied"}
    /\ Forget(q)
    /\ UNCHANGED <<now, jar, lastIn, out>>

-----------------------------------------------------------------------------
(* The app.                                                                *)

Reply(q) == stage' = [stage EXCEPT ![q] = "replied"]

\* A public route.
Open(q) ==
    /\ stage[q] = "sent"
    /\ kind[q] = "open"
    /\ Reply(q)
    /\ UNCHANGED <<now, jar, kind, token, session, dirty, asked, served, lastIn, overlap, out>>

\* proxy_auth_logout, past csrf_protect.
Logout(q) ==
    /\ stage[q] = "sent"
    /\ kind[q] = "logout"
    /\ session' = [session EXCEPT ![q] = Popped(@)]
    /\ dirty' = IF session[q] = Popped(session[q]) THEN dirty ELSE [dirty EXCEPT ![q] = TRUE]
    /\ Reply(q)
    /\ UNCHANGED <<now, jar, kind, token, asked, served, lastIn, overlap, out>>

\* A fresh cached identity is served; a token that came along is not looked at.
ServeCached(q) ==
    /\ stage[q] = "sent"
    /\ kind[q] = "page"
    /\ Fresh(session[q])
    /\ served' = [served EXCEPT ![q] = session[q].user]
    /\ Reply(q)
    /\ UNCHANGED <<now, jar, kind, token, session, dirty, asked, lastIn, overlap, out>>

\* Otherwise the cached identity goes, and the token, if any, is put to HQ.
DropCached(q) ==
    /\ stage[q] = "sent"
    /\ kind[q] = "page"
    /\ ~Fresh(session[q])
    /\ session' = [session EXCEPT ![q] = Popped(@)]
    /\ dirty' = IF session[q] = Popped(session[q]) THEN dirty ELSE [dirty EXCEPT ![q] = TRUE]
    /\ IF token[q] = NoUser
       THEN Reply(q) /\ UNCHANGED asked
       ELSE /\ stage' = [stage EXCEPT ![q] = "asking"]
            /\ asked' = [asked EXCEPT ![q] = now]
    /\ UNCHANGED <<now, jar, kind, token, served, lastIn, overlap, out>>

\* Mutant: the cache notes when it ends, not when it began.
CacheUserUntil(q) ==
    /\ stage[q] = "confirmed"
    /\ session' = [session EXCEPT ![q] = [user |-> token[q], at |-> now + TTL, permanent |-> TRUE]]
    /\ dirty' = [dirty EXCEPT ![q] = TRUE]
    /\ served' = [served EXCEPT ![q] = token[q]]
    /\ Reply(q)
    /\ UNCHANGED <<now, jar, kind, token, asked, lastIn, overlap, out>>

\* HQ's answer reaches the app: the user is cached with the time of now.
CacheUser(q) ==
    /\ stage[q] = "confirmed"
    /\ session' = [session EXCEPT ![q] = [user |-> token[q], at |-> now, permanent |-> TRUE]]
    /\ dirty' = [dirty EXCEPT ![q] = TRUE]
    /\ served' = [served EXCEPT ![q] = token[q]]
    /\ Reply(q)
    /\ UNCHANGED <<now, jar, kind, token, asked, lastIn, overlap, out>>

-----------------------------------------------------------------------------
(* HQ, and time.                                                           *)

\* HQ finds the token good: the user is signed in at this moment.
HQConfirms(q) ==
    /\ stage[q] = "asking"
    /\ SignedIn(token[q])
    /\ stage' = [stage EXCEPT ![q] = "confirmed"]
    /\ UNCHANGED <<now, jar, kind, token, session, dirty, asked, served, lastIn, overlap, out>>

\* HQ refuses the token, or cannot be reached: nobody is served.
HQDenies(q) ==
    /\ stage[q] = "asking"
    /\ Reply(q)
    /\ UNCHANGED <<now, jar, kind, token, session, dirty, asked, served, lastIn, overlap, out>>

SignIn(u) ==
    /\ ~SignedIn(u)
    /\ lastIn' = [lastIn EXCEPT ![u] = now]
    /\ UNCHANGED <<now, jar, stage, kind, token, session, dirty, asked, served, overlap, out>>

\* Time passes, for each user signed in or out at HQ; no exchange with HQ
\* outlasts MaxLatency.
Tick ==
    /\ now < MaxTime
    /\ \A q \in Requests :
          stage[q] \in {"asking", "confirmed"} => now - asked[q] < MaxLatency
    /\ now' = now + 1
    /\ \E stay \in SUBSET {u \in Users : SignedIn(u)} :
          lastIn' = [u \in Users |-> IF u \in stay THEN now + 1 ELSE lastIn[u]]
    /\ UNCHANGED <<jar, stage, kind, token, session, dirty, asked, served, overlap, out>>

-----------------------------------------------------------------------------
RequestStep(q) ==
    \/ Send(q) \/ Receive(q) \/ Lose(q)
    \/ Open(q) \/ Logout(q) \/ ServeCached(q) \/ DropCached(q) \/ CacheUser(q)
    \/ HQConfirms(q) \/ HQDenies(q)

Next ==
    \/ \E q \in Requests : RequestStep(q)
    \/ \E u \in Users : SignIn(u)
    \/ Tick

Spec == Init /\ [][Next]_vars
-----------------------------------------------------------------------------
TypeOK ==
    /\ now \in Times
    /\ jar \in Sessions
    /\ stage \in [Requests -> {"idle", "sent", "asking", "confirmed", "replied"}]
    /\ kind \in [Requests -> Kinds]
    /\ token \in [Requests -> Users \cup {NoUser}]
    /\ session \in [Requests -> Sessions]
    /\ dirty \in [Requests -> BOOLEAN]
    /\ asked \in [Requests -> Times \cup {Never}]
    /\ served \in [Requests -> Users \cup {NoUser}]
    /\ lastIn \in [Users -> Times \cup {Never}]
    /\ overlap \in [Requests -> {"nothing", "requests", "login"}]
    /\ out \in {"no", "alone", "with others"}

\* Nobody is served as a user who left HQ longer ago than the TTL and one round
\* trip to HQ: overlapping requests may bring an old cookie back, but a cookie
\* brought back is as old as it was, and only HQ makes a new one.
StaleIdentityBound ==
    [][\A q \in Requests :
          LET u == served'[q] IN
          u \notin {NoUser, served[q]} =>
             lastIn[u] # Never /\ now - lastIn[u] < TTL + MaxLatency]_vars

\* A logout during which nothing else was under way leaves no identity
\* in the browser until somebody logs in again.
LogoutAloneSticks == out = "alone" => jar.user = NoUser

\* Every logout does so, other requests under way or not, unless one of them is
\* a login: after it the session holds no user.
LogoutSticks == out # "no" => jar.user = NoUser
=============================================================================
