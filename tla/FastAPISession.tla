--------------------------- MODULE FastAPISession ---------------------------
(***************************************************************************)
(* aj_shared.fastapi_integration: the signed-cookie session of a FastAPI   *)
(* app, with the nonce that the forms of its pages carry.                  *)
(*                                                                         *)
(* The browser, HQ and time are as in FlaskSession.  The app differs: the  *)
(* middleware puts every token to HQ, whoever is signed in; a refused      *)
(* token ends the session; a login replaces the session and its nonce; a   *)
(* logout empties it.  Pages stay open in the browser, so a form may be    *)
(* submitted when the cookie is no longer the one it was rendered under.   *)
(***************************************************************************)
EXTENDS Integers, FiniteSets

CONSTANTS
    Requests,    \* requests of the browser that may be under way: a set
    Users,       \* people who use this browser
    NoUser,      \* nobody
    TTL,         \* session_ttl_seconds
    MaxLatency,  \* an exchange with HQ takes at most this long
    MaxLogins,   \* bound on the tokens HQ hands out
    MaxTime      \* bound on the clock

ASSUME UserAssumption == NoUser \notin Users
ASSUME RequestAssumption == IsFiniteSet(Requests)
ASSUME BoundAssumption ==
    TTL \in Nat \ {0} /\ MaxLatency \in Nat /\ MaxLogins \in Nat /\ MaxTime \in Nat

VARIABLES
    now,      \* time.time()
    jar,      \* the session cookie in the browser
    forms,    \* forms on pages open in the browser
    logins,   \* how many sessions have been made: names their nonces
    stage,    \* where each request stands
    kind,     \* which route it is for
    token,    \* whose token it carries, or NoUser
    form,     \* the form it submits
    loaded,   \* the session as it came with the request
    session,  \* request.session
    asked,    \* when the app called HQ
    served,   \* whom the route answered
    lastIn    \* when each user was last signed in at HQ, Never if they were not

requestVars == <<stage, kind, token, form, loaded, session, asked, served>>
vars == <<now, jar, forms, logins, requestVars, lastIn>>

Times == 0..MaxTime
Never == -1

\* '_aj_user', '_aj_user_cached_at' and '_aj_csrf'; 0 for no nonce.
Sessions == [user : Users \cup {NoUser}, at : Times \cup {Never}, nonce : 0..MaxLogins]
Empty == [user |-> NoUser, at |-> Never, nonce |-> 0]

Forms == [user : Users \cup {NoUser}, nonce : 0..MaxLogins]
NoForm == [user |-> NoUser, nonce |-> 0]

\* A public route; a page that needs a user and has a form; the route that takes
\* the form; /auth/validate; /auth/logout.
Kinds == {"open", "page", "submit", "validate", "logout"}

SignedIn(u) == lastIn[u] = now

\* Mutant: the last second of the TTL counts as fresh.
FreshThrough(s) == s.user # NoUser /\ now - s.at \in 0..TTL

\* _session_user: it returns the user, or clears the session.
Fresh(s) == s.user # NoUser /\ now - s.at \in 0..(TTL - 1)

\* Mutant: a login leaves the nonce of the session it replaces.
LoggedInSameNonce(u, s) ==
    [user |-> u, at |-> now, nonce |-> IF s.nonce = 0 THEN logins + 1 ELSE s.nonce]

\* Mutant: the session notes when it ends, not when it began.
LoggedInUntil(u, s) == [user |-> u, at |-> now + TTL, nonce |-> logins + 1]

\* The session that a login makes in place of s.
LoggedIn(u, s) == [user |-> u, at |-> now, nonce |-> logins + 1]

-----------------------------------------------------------------------------
Init ==
    /\ now = 0
    /\ jar = Empty
    /\ forms = {}
    /\ logins = 0
    /\ stage = [q \in Requests |-> "idle"]
    /\ kind = [q \in Requests |-> "open"]
    /\ token = [q \in Requests |-> NoUser]
    /\ form = [q \in Requests |-> NoForm]
    /\ loaded = [q \in Requests |-> Empty]
    /\ session = [q \in Requests |-> Empty]
    /\ asked = [q \in Requests |-> Never]
    /\ served = [q \in Requests |-> NoUser]
    /\ lastIn = [u \in Users |-> Never]

(* The browser.                                                            *)

Waiting == {q \in Requests : stage[q] # "idle" /\ token[q] # NoUser}
Pending == Cardinality(Waiting)

Send(q) ==
    /\ stage[q] = "idle"
    /\ \E k \in Kinds, u \in Users \cup {NoUser}, f \in forms \cup {NoForm} :
          /\ u # NoUser => k \in {"page", "submit", "validate"} /\ SignedIn(u)
          /\ u # NoUser => logins + Pending < MaxLogins
          /\ (k = "submit") = (f # NoForm)
          /\ kind' = [kind EXCEPT ![q] = k]
          /\ token' = [token EXCEPT ![q] = u]
          /\ form' = [form EXCEPT ![q] = f]
    /\ stage' = [stage EXCEPT ![q] = "sent"]
    /\ loaded' = [loaded EXCEPT ![q] = jar]
    /\ session' = [session EXCEPT ![q] = jar]
    /\ UNCHANGED <<now, jar, forms, logins, asked, served, lastIn>>

Forget(q) ==
    /\ stage' = [stage EXCEPT ![q] = "idle"]
    /\ kind' = [kind EXCEPT ![q] = "open"]
    /\ token' = [token EXCEPT ![q] = NoUser]
    /\ form' = [form EXCEPT ![q] = NoForm]
    /\ loaded' = [loaded EXCEPT ![q] = Empty]
    /\ session' = [session EXCEPT ![q] = Empty]
    /\ asked' = [asked EXCEPT ![q] = Never]
    /\ served' = [served EXCEPT ![q] = NoUser]

\* SessionMiddleware sends a session that changed, deletes the cookie of one that
\* was emptied, and may send one back that did not change.
Cookies(q) ==
    IF session[q] # loaded[q] THEN {session[q]}
    ELSE IF session[q] = Empty THEN {jar} ELSE {jar, session[q]}

\* The response arrives; a page shows a form with csrf_token().
Receive(q) ==
    /\ stage[q] = "replied"
    /\ jar' \in Cookies(q)
    /\ forms' = IF kind[q] = "page" /\ served[q] # NoUser
                THEN forms \cup {[user |-> served[q], nonce |-> session[q].nonce]}
                ELSE forms
    /\ Forget(q)
    /\ UNCHANGED <<now, logins, lastIn>>

Lose(q) ==
    /\ stage[q] \in {"sent", "replied"}
    /\ Forget(q)
    /\ UNCHANGED <<now, jar, forms, logins, lastIn>>

-----------------------------------------------------------------------------
(* The app, for a request that stands before the route of its kind.        *)

At(q, k) == stage[q] = "sent" /\ kind[q] = k /\ token[q] = NoUser

\* The answer, with the session as s and the route's answer for u.
Answer(q, s, u) ==
    /\ session' = [session EXCEPT ![q] = s]
    /\ served' = [served EXCEPT ![q] = u]
    /\ stage' = [stage EXCEPT ![q] = "replied"]
    /\ UNCHANGED <<now, jar, forms, logins, kind, token, form, loaded, asked, lastIn>>

Open(q) == At(q, "open") /\ Answer(q, session[q], NoUser)

ServePage(q) ==
    /\ At(q, "page")
    /\ Fresh(session[q])
    /\ Answer(q, session[q], session[q].user)

\* The middleware, or /auth/validate, finds no user: login page or 401.
TurnAway(q) ==
    /\ At(q, "page") \/ At(q, "submit") \/ At(q, "validate")
    /\ ~Fresh(session[q])
    /\ Answer(q, Empty, NoUser)

\* require_csrf of a form.
Submit(q) ==
    /\ At(q, "submit")
    /\ Fresh(session[q])
    /\ session[q].nonce = form[q].nonce
    /\ Answer(q, session[q], session[q].user)

Forbid(q) ==
    /\ At(q, "submit")
    /\ Fresh(session[q])
    /\ session[q].nonce # form[q].nonce
    /\ Answer(q, session[q], NoUser)

\* proxy_auth_logout with the header; of a stale session require_csrf itself
\* clears what is left.
Logout(q) == At(q, "logout") /\ Answer(q, Empty, NoUser)

\* /auth/validate looks at the session first, with or without a token.
Validate(q) ==
    /\ stage[q] = "sent"
    /\ kind[q] = "validate"
    /\ Fresh(session[q])
    /\ Answer(q, session[q], session[q].user)

\* _validate_token: the middleware asks at once, /auth/validate when nobody is
\* signed in, by which it has cleared the session.
Ask(q) ==
    /\ stage[q] = "sent"
    /\ token[q] # NoUser
    /\ kind[q] = "validate" => ~Fresh(session[q])
    /\ session' = [session EXCEPT ![q] = IF kind[q] = "validate" THEN Empty ELSE @]
    /\ stage' = [stage EXCEPT ![q] = "asking"]
    /\ asked' = [asked EXCEPT ![q] = now]
    /\ UNCHANGED <<now, jar, forms, logins, kind, token, form, loaded, served, lastIn>>

\* The session becomes that of the token's user.  A page is then redirected to
\* itself without the token, a form goes on to its route.
LogIn(q) ==
    /\ stage[q] = "confirmed"
    /\ session' = [session EXCEPT ![q] = LoggedIn(token[q], @)]
    /\ logins' = logins + 1
    /\ served' = [served EXCEPT ![q] = IF kind[q] = "validate" THEN token[q] ELSE NoUser]
    /\ stage' = [stage EXCEPT ![q] = IF kind[q] = "submit" THEN "sent" ELSE "replied"]
    /\ token' = [token EXCEPT ![q] = NoUser]
    /\ UNCHANGED <<now, jar, forms, kind, form, loaded, asked, lastIn>>

-----------------------------------------------------------------------------
(* HQ, and time.                                                           *)

HQConfirms(q) ==
    /\ stage[q] = "asking"
    /\ SignedIn(token[q])
    /\ stage' = [stage EXCEPT ![q] = "confirmed"]
    /\ UNCHANGED <<now, jar, forms, logins, kind, token, form, loaded, session, asked,
                   served, lastIn>>

\* HQ refuses the token: the session goes.
HQDenies(q) ==
    /\ stage[q] = "asking"
    /\ Answer(q, Empty, NoUser)

\* HQ answers with a server error, or not at all: the session stays as it is.
HQFails(q) ==
    /\ stage[q] = "asking"
    /\ Answer(q, session[q], NoUser)

SignIn(u) ==
    /\ ~SignedIn(u)
    /\ lastIn' = [lastIn EXCEPT ![u] = now]
    /\ UNCHANGED <<now, jar, forms, logins, requestVars>>

Tick ==
    /\ now < MaxTime
    /\ \A q \in Requests :
          stage[q] \in {"asking", "confirmed"} => now - asked[q] < MaxLatency
    /\ now' = now + 1
    /\ \E stay \in SUBSET {u \in Users : SignedIn(u)} :
          lastIn' = [u \in Users |-> IF u \in stay THEN now + 1 ELSE lastIn[u]]
    /\ UNCHANGED <<jar, forms, logins, requestVars>>

-----------------------------------------------------------------------------
RequestStep(q) ==
    \/ Send(q) \/ Receive(q) \/ Lose(q)
    \/ Open(q) \/ ServePage(q) \/ TurnAway(q) \/ Submit(q) \/ Forbid(q)
    \/ Logout(q) \/ Validate(q) \/ Ask(q) \/ LogIn(q)
    \/ HQConfirms(q) \/ HQDenies(q) \/ HQFails(q)

Next ==
    \/ \E q \in Requests : RequestStep(q)
    \/ \E u \in Users : SignIn(u)
    \/ Tick

Spec == Init /\ [][Next]_vars
-----------------------------------------------------------------------------
TypeOK ==
    /\ now \in Times
    /\ jar \in Sessions
    /\ forms \subseteq Forms
    /\ logins \in 0..MaxLogins
    /\ stage \in [Requests -> {"idle", "sent", "asking", "confirmed", "replied"}]
    /\ kind \in [Requests -> Kinds]
    /\ token \in [Requests -> Users \cup {NoUser}]
    /\ form \in [Requests -> Forms]
    /\ loaded \in [Requests -> Sessions]
    /\ session \in [Requests -> Sessions]
    /\ asked \in [Requests -> Times \cup {Never}]
    /\ served \in [Requests -> Users \cup {NoUser}]
    /\ lastIn \in [Users -> Times \cup {Never}]

\* Nobody is served as a user who left HQ longer ago than the TTL and one round
\* trip to HQ, whatever order responses and their cookies arrive in.
StaleIdentityBound ==
    [][\A q \in Requests :
          LET u == served'[q] IN
          u \notin {NoUser, served[q]} =>
             lastIn[u] # Never /\ now - lastIn[u] < TTL + MaxLatency]_vars

\* A form is carried out as the person it was rendered for or not at all, though
\* the browser has changed hands, or cookies, since the page was opened.
FormKeepsItsUser ==
    \A q \in Requests :
        kind[q] = "submit" /\ served[q] # NoUser => served[q] = form[q].user
=============================================================================
