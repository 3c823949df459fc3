------------------------------ MODULE FlaskApp ------------------------------
(***************************************************************************)
(* A person's way through a Flask application on aj_auth and aj_proxy: the *)
(* default-deny hook, require_auth and csrf_protect in front of the views, *)
(* HQ's login with its one-time tokens, and proxied writes, which are      *)
(* those of HQProxy.                                                       *)
(*                                                                         *)
(* The person makes one request after another and the browser follows      *)
(* redirects (what overlapping requests do to the session is FlaskSession).*)
(* Meanwhile time passes: the cached session and unused tokens go stale,   *)
(* and HQ denies a good token, MaxUpsets times in the course of one click  *)
(* at most; and the person may sign out at HQ in another tab.              *)
(***************************************************************************)
EXTENDS Integers, FiniteSets

CONSTANTS
    Users, NoUser,
    Level,       \* _ROLE_LEVELS of each user's role
    Tokens, NoToken,
    Unset,       \* g has no _aj_user
    MaxUpsets,
    Attempts, Statuses, RetriesOn  \* of HQProxy

ASSUME NoneAssumption == NoUser \notin Users /\ NoToken \notin Tokens
ASSUME LevelAssumption == Level \in [Users -> 0..2]
ASSUME UnsetAssumption == Unset \notin Users \cup {NoUser}
ASSUME UpsetAssumption == MaxUpsets \in Nat

VARIABLES
    strict,      \* whether the application called require_auth_by_default
    request,     \* the current request, or the last one
    at,          \* where it is
    asking,      \* whether HQ is being asked about its token
    known,       \* g._aj_user
    failure,     \* g._aj_auth_failure is set
    session,     \* the user in the browser's session cookie
    fresh,       \* whether it is younger than the TTL
    shown,       \* what the browser shows
    hops,        \* redirects followed since the click
    upsets,      \* what went stale or was denied though good since the click
    owner,       \* whom HQ issued each unspent token to
    hqUser,      \* who is signed in at HQ
    at_HQ, answer, page, refused, applied  \* the proxied writes

gVars == <<asking, known, failure>>
cookie == <<session, fresh>>
clickVars == <<shown, hops, upsets>>
hqVars == <<owner, hqUser>>
appVars == <<strict, request, at, gVars, cookie, clickVars, hqVars>>
proxyVars == <<at_HQ, answer, page, refused, applied>>
rest == <<strict, proxyVars>>
vars == <<appVars, proxyVars>>

\* core_client gives no transport to the client it makes.
Proxy == INSTANCE HQProxy WITH at <- at_HQ, Bounded <- FALSE

\* The kinds of route: two pages of the application, and routes of the blueprint.
Route(r) ==
    LET Is(public, json, guarded, level, csrf, methods) ==
            [public |-> public, json |-> json, guarded |-> guarded, level |-> level,
             csrf |-> csrf, methods |-> methods]
    IN CASE r = "page"     -> Is(FALSE, FALSE, FALSE, 0, FALSE, {"GET", "POST"})
         [] r = "admin"    -> Is(FALSE, FALSE, TRUE, 2, FALSE, {"GET"})
         [] r = "apps"     -> Is(TRUE, TRUE, FALSE, 0, FALSE, {"GET"})
         [] r = "apps_all" -> Is(FALSE, TRUE, TRUE, 2, FALSE, {"GET"})
         [] r = "validate" -> Is(TRUE, FALSE, FALSE, 0, FALSE, {"GET"})
         [] r = "logout"   -> Is(TRUE, FALSE, FALSE, 0, TRUE, {"POST"})
         [] r = "feedback" -> Is(FALSE, TRUE, TRUE, 0, TRUE, {"POST"})

Pages == {"page", "admin"}
Routes == Pages \cup {"apps", "apps_all", "validate", "logout", "feedback"}

Here == Route(request.route)
Hooked == strict /\ ~Here.public

\* The browser is at HQ, or waits for the person.
AtLogin == {"login", "signing"}
Idle == {"reading", "signing"}

Init ==
    /\ strict \in BOOLEAN
    /\ request = [route |-> "page", method |-> "GET", script |-> FALSE, token |-> NoToken]
    /\ at = "reading"
    /\ asking = FALSE
    /\ known = Unset
    /\ failure = FALSE
    /\ session = NoUser
    /\ fresh = FALSE
    /\ shown = "nothing"
    /\ hops = 0
    /\ upsets = 0
    /\ owner = [t \in Tokens |-> NoUser]
    /\ hqUser \in Users \cup {NoUser}
    /\ Proxy!Init

-----------------------------------------------------------------------------
(* The browser.                                                            *)

\* A request begins with a g of its own, and the browser waits.
Begin(r) ==
    /\ request' = r
    /\ at' = "hook"
    /\ known' = Unset
    /\ failure' = FALSE

Click(route, method, script, token) ==
    /\ at \in Idle
    /\ Begin([route |-> route, method |-> method, script |-> script, token |-> token])
    /\ shown' = "nothing"
    /\ UNCHANGED <<rest, asking, cookie, hops, upsets, hqVars>>

\* A link, a bookmark or the history, with whatever token is in its address.
Visit(route, token) == Click(route, "GET", FALSE, token)

\* A form on a page.
Submit(route) == "POST" \in Route(route).methods /\ Click(route, "POST", FALSE, NoToken)

\* A script's request.  The person sends feedback as HQProxy!Post allows.
Fetch(route) ==
    /\ Route(route).json \/ Route(route).public \/ strict
    /\ route = "feedback" => \E n \in 1..Attempts : Proxy!MayPost(n)
    /\ \E method \in Route(route).methods : Click(route, method, TRUE, NoToken)

-----------------------------------------------------------------------------
(* _get_or_validate_user, called by the hook, the guard and two views.     *)

NeedsUser ==
    \/ at = "hook" /\ Hooked
    \/ at = "guard"
    \/ at = "view" /\ request.route \in {"apps", "validate"}

Looking == NeedsUser /\ known = Unset /\ ~asking

\* From the session, while it is fresh.
Recall ==
    /\ Looking
    /\ session # NoUser /\ fresh
    /\ known' = session
    /\ UNCHANGED <<rest, request, at, asking, failure, cookie, clickVars, hqVars>>

\* Mutant: HQ is asked about no token as well.
MustAskAlways == TRUE

MustAsk == request.token # NoToken

\* The session is dropped, and HQ asked if there is a token.
Forget ==
    /\ Looking
    /\ session = NoUser \/ ~fresh
    /\ session' = NoUser
    /\ fresh' = FALSE
    /\ asking' = MustAsk
    /\ known' = IF MustAsk THEN Unset ELSE NoUser
    /\ UNCHANGED <<rest, request, at, failure, clickVars, hqVars>>

\* What comes back from _validate_with_hq.
Answered(user, failed) ==
    /\ asking' = FALSE
    /\ known' = user
    /\ failure' = failed
    /\ UNCHANGED <<rest, request, at, shown, hops, hqUser>>

Spend(t) == owner' = [owner EXCEPT ![t] = NoUser]

\* Mutant: the user is kept in g only.
CachesNothing(u) == UNCHANGED cookie

Caches(u) == session' = u /\ fresh' = TRUE

Confirm ==
    /\ asking
    /\ owner[request.token] # NoUser
    /\ Answered(owner[request.token], FALSE)
    /\ Caches(owner[request.token])
    /\ Spend(request.token)
    /\ UNCHANGED upsets

\* The token is spent or unknown.
Deny ==
    /\ asking
    /\ owner[request.token] = NoUser
    /\ Answered(NoUser, FALSE)
    /\ UNCHANGED <<cookie, upsets, owner>>

\* A token that is good is denied like a bad one, by a 4xx that is about something else
\* (the application's key, the rate limit) or a user that is no dictionary.
DenyGood ==
    /\ asking
    /\ owner[request.token] # NoUser
    /\ upsets < MaxUpsets
    /\ upsets' = upsets + 1
    /\ Answered(NoUser, FALSE)
    /\ Spend(request.token) \/ UNCHANGED owner
    /\ UNCHANGED cookie

\* No answer, though HQ may have spent the token, or no secret to ask with.
Fail ==
    /\ asking
    /\ Answered(NoUser, TRUE)
    /\ Spend(request.token) \/ UNCHANGED owner
    /\ UNCHANGED <<cookie, upsets>>

-----------------------------------------------------------------------------
(* The hook and require_auth.                                              *)

\* Mutant: the hook looks at the route only.
JsonByRoute == Here.json

\* What is JSON to the hook, and what to require_auth.
Json == Here.json \/ (at = "hook" /\ request.script)

AllElse == UNCHANGED <<rest, asking, cookie, hqVars>>

Goto(there) ==
    /\ at' = there
    /\ UNCHANGED <<request, known, failure, clickVars>>
    /\ AllElse

\* The click has its answer, and the counters of the click end with it.
Ends(what) ==
    /\ shown' = what
    /\ known' = Unset
    /\ hops' = 0
    /\ upsets' = 0
    /\ UNCHANGED <<strict, request, asking, failure>>

Show(what) ==
    /\ at' = "reading"
    /\ Ends(what)
    /\ UNCHANGED <<cookie, hqVars, proxyVars>>

Gating == (at = "hook" /\ Hooked) \/ at = "guard"

\* The address without its token, which the browser gets with GET.
Clean == [request EXCEPT !.token = NoToken, !.method = "GET"]

\* Mutant: a failure of HQ is taken for a missing session.
HQFailedUnseen == FALSE

HQFailed == failure

\* _auth_failure
TurnAway ==
    /\ Gating
    /\ known = NoUser
    /\ IF HQFailed THEN Show("unavailable")
       ELSE IF Json THEN Show("unauthorized")
       ELSE /\ at' = "login"
            /\ request' = Clean
            /\ hops' = hops + 1
            /\ UNCHANGED <<known, failure, shown, upsets>>
            /\ AllElse

\* Mutant: a token that has done its work stays where it is.
NeedsCleanupNever == FALSE

\* The user is known; a page is left for the same page without the token.
NeedsCleanup == ~Json /\ request.method = "GET" /\ request.token # NoToken

CleanUp ==
    /\ Gating
    /\ known \in Users
    /\ NeedsCleanup
    /\ Begin(Clean)
    /\ hops' = hops + 1
    /\ UNCHANGED <<shown, upsets>>
    /\ AllElse

PassHook ==
    /\ at = "hook"
    /\ Hooked => known \in Users /\ ~NeedsCleanup
    /\ IF request.method \notin Here.methods THEN Show("not allowed")
       ELSE Goto(IF Here.guarded THEN "guard" ELSE "checks")

PassGuard ==
    /\ at = "guard"
    /\ known \in Users
    /\ ~NeedsCleanup
    /\ IF Level[known] < Here.level THEN Show("forbidden") ELSE Goto("checks")

\* csrf_protect
CheckCsrf ==
    /\ at = "checks"
    /\ IF Here.csrf /\ ~request.script THEN Show("forbidden") ELSE Goto("view")

-----------------------------------------------------------------------------
(* The views.                                                              *)

ViewPage ==
    /\ at = "view"
    /\ request.route \in Pages
    /\ Show("page")

\* /api/apps and /api/apps/all hand on what HQ says.
ViewApps ==
    /\ at = "view"
    /\ request.route \in {"apps", "apps_all"}
    /\ request.route = "apps" => known # Unset
    /\ Show("data") \/ Show("unavailable")

\* Mutant: only a user is told anything.
ViewValidateUser ==
    /\ at = "view"
    /\ request.route = "validate"
    /\ known \in Users
    /\ Show("valid")

ViewValidate ==
    /\ at = "view"
    /\ request.route = "validate"
    /\ known # Unset
    /\ CASE known \in Users -> Show("valid")
         [] failure          -> Show("unavailable")
         [] OTHER            -> Show("unauthorized")

ViewLogout ==
    /\ at = "view"
    /\ request.route = "logout"
    /\ session' = NoUser
    /\ fresh' = FALSE
    /\ at' = "reading"
    /\ Ends("logged out")
    /\ UNCHANGED <<hqVars, proxyVars>>

\* /api/feedback: the write goes to HQ, and the answer back to the browser.
ViewFeedback(n) ==
    /\ at = "view"
    /\ request.route = "feedback"
    /\ Proxy!Post(n)
    /\ at' = "proxied"
    /\ UNCHANGED <<strict, request, gVars, cookie, clickVars, hqVars>>

\* A screenshot of more than 5 MB goes nowhere.
TooLarge ==
    /\ at = "view"
    /\ request.route = "feedback"
    /\ Show("too large")

HQAnswersWrite(n) ==
    /\ Proxy!Answered(n) \/ Proxy!Unanswered(n) \/ Proxy!TurnedAway(n)
    /\ UNCHANGED appVars

ShowWrite(n) ==
    /\ Proxy!Show(n)
    /\ at' = "reading"
    /\ Ends(page'[n])
    /\ UNCHANGED <<cookie, hqVars>>

-----------------------------------------------------------------------------
(* HQ, the person and the clock.                                           *)

\* HQ's login sends a browser that is signed in straight back, with a new token (one
\* that is reissued here stands for a new one, and the old one has lapsed).
LoginReturns ==
    /\ at = "login"
    /\ hqUser # NoUser
    /\ \E t \in Tokens :
          /\ owner' = [owner EXCEPT ![t] = hqUser]
          /\ Begin([request EXCEPT !.token = t])
    /\ hops' = hops + 1
    /\ UNCHANGED <<rest, asking, cookie, shown, upsets, hqUser>>

LoginAsks ==
    /\ at = "login"
    /\ hqUser = NoUser
    /\ at' = "signing"
    /\ Ends("login")
    /\ UNCHANGED <<cookie, hqVars, proxyVars>>

SignIn(u) ==
    /\ at = "signing"
    /\ at' = "login"
    /\ hqUser' = u
    /\ shown' = "nothing"
    /\ UNCHANGED <<rest, request, gVars, cookie, hops, upsets, owner>>

SignOut ==
    /\ hqUser # NoUser
    /\ hqUser' = NoUser
    /\ UNCHANGED <<rest, request, at, gVars, cookie, clickVars, owner>>

ApplyWrite(n) == Proxy!Apply(n) /\ UNCHANGED appVars

GoesStale ==
    /\ at \notin Idle => upsets < MaxUpsets
    /\ upsets' = IF at \in Idle THEN upsets ELSE upsets + 1
    /\ \/ fresh /\ fresh' = FALSE /\ UNCHANGED owner
       \/ \E t \in Tokens : owner[t] # NoUser /\ Spend(t) /\ UNCHANGED fresh
    /\ UNCHANGED <<rest, request, at, gVars, session, shown, hops, hqUser>>

-----------------------------------------------------------------------------
Person ==
    \/ \E route \in Routes, token \in Tokens \cup {NoToken} : Visit(route, token)
    \/ \E route \in Routes : Submit(route) \/ Fetch(route)
    \/ \E u \in Users : SignIn(u)
    \/ SignOut

Step ==
    \/ Recall \/ Forget \/ Confirm \/ Deny \/ DenyGood \/ Fail
    \/ TurnAway \/ CleanUp \/ PassHook \/ PassGuard \/ CheckCsrf
    \/ ViewPage \/ ViewApps \/ ViewValidate \/ ViewLogout \/ TooLarge
    \/ \E n \in 1..Attempts : ViewFeedback(n) \/ HQAnswersWrite(n) \/ ShowWrite(n)
    \/ LoginReturns \/ LoginAsks

Next ==
    \/ Person
    \/ Step
    \/ GoesStale
    \/ \E n \in 1..Attempts : ApplyWrite(n)

\* Every call of HQ comes back (its timeout), and the browser follows redirects.
Spec == Init /\ [][Next]_vars /\ WF_vars(Step)
-----------------------------------------------------------------------------
TypeOK ==
    /\ strict \in BOOLEAN
    /\ request \in [route: Routes, method: {"GET", "POST"}, script: BOOLEAN,
                    token: Tokens \cup {NoToken}]
    /\ at \in Idle \cup {"hook", "guard", "checks", "view", "proxied", "login"}
    /\ asking \in BOOLEAN /\ (asking => NeedsUser /\ request.token # NoToken)
    /\ known \in Users \cup {NoUser, Unset}
    /\ failure \in BOOLEAN
    /\ session \in Users \cup {NoUser}
    /\ fresh \in BOOLEAN
    /\ hops \in Nat
    /\ upsets \in 0..MaxUpsets
    /\ owner \in [Tokens -> Users \cup {NoUser}]
    /\ hqUser \in Users \cup {NoUser}

\* A click costs three redirects at most, to HQ's login, back with a token, and on
\* without it, and three more for each upset in the middle: a session or token that went
\* stale, or a good token denied.  The browser goes round between the application and
\* HQ's login for no other reason; for that one, an HQ that denies every token because
\* the application's key is wrong, without end (here, MaxUpsets times).
RedirectsBounded == hops <= 3 * (1 + upsets)

\* A gated page is never shown, nor HQ's login visited, with a token in the address.
Gated == Here.guarded \/ Hooked

TokenLeavesAddress ==
    \/ at \in AtLogin
    \/ at = "reading" /\ shown \in {"page", "forbidden"} /\ Gated /\ ~Here.json
    => request.token = NoToken

\* A script's request to a route it may expect JSON from never ends at HQ's login.
FetchesStayInApp == at \in AtLogin => ~request.script

\* When HQ could not be asked, the person is told so, never sent to sign in again, and
\* the address keeps its token for another try.
OutageIsTold ==
    failure => /\ at \notin AtLogin
               /\ request.token # NoToken
               /\ at = "reading" => shown \in {"unavailable", "data"}

\* Every click ends with something to read, whatever HQ does but deny every good token.
EveryClickIsAnswered == at \notin Idle ~> at \in Idle

\* Behind the gates too, whoever tries a write again only upon the pages in RetriesOn
\* never has it carried out twice.
AppliedAtMostOnce == Proxy!AppliedAtMostOnce

\* Nor do gates and logins take anything from the client's promise: what the gated route
\* is told of a write is true and stays true, a 5xx saying nothing of the outcome.
ClientKeepsPromise == Proxy!ClientKeepsPromise
=============================================================================
