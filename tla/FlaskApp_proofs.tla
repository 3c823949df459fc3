--------------------------- MODULE FlaskApp_proofs ---------------------------
(***************************************************************************)
(* Proofs about FlaskApp, for any users, tokens and number of upsets: that *)
(* redirects end, that tokens leave the address, that scripts never end up *)
(* at HQ's login and that an outage is told as one.  That a gated write is *)
(* one of HQProxy's is a refinement, and carries HQProxy's promise over.   *)
(***************************************************************************)
EXTENDS FlaskApp, TLAPS

-----------------------------------------------------------------------------
(* What the way of a request implies about it.                             *)

\* Tokens come in the address of a page that the browser gets.
TokensByGet ==
    request.script \/ request.method = "POST" => request.token = NoToken

\* A script asks for routes where it may expect JSON: from the route, or from the hook.
ScriptsExpectJson == request.script => Here.json \/ Here.public \/ strict

\* HQ's login is visited by a browser that gets a page, and without a token.
LoginByGet ==
    at \in AtLogin =>
        request.token = NoToken /\ request.method = "GET" /\ ~request.script

\* Behind the hook and the guard.
Passed ==
    /\ asking => known = Unset
    /\ at = "guard" => Here.guarded
    /\ at \in {"guard", "checks", "view", "proxied"} /\ Hooked => known \in Users

\* A page that was gated has no token in its address any more.
PassedWithoutToken ==
    /\ at = "guard" /\ Hooked /\ ~Here.json => request.token = NoToken
    /\ at \in {"checks", "view", "proxied"} /\ Gated /\ ~Here.json => request.token = NoToken

\* A failure of HQ is remembered until it is told.
FailureIsKept ==
    failure =>
        /\ request.token # NoToken
        /\ \/ at \in {"hook", "guard"} /\ Gating /\ known = NoUser
           \/ at = "view" /\ request.route \in {"apps", "validate"} /\ known = NoUser
           \/ at = "reading" /\ shown \in {"unavailable", "data"}

(* The redirects that may be ahead if there are no more upsets.  Each adds  *)
(* three at most: a request that is known by a session that goes stale is   *)
(* still sent to its address without the token, where it begins anew, and   *)
(* one whose good token is denied goes to the login.                        *)

Good == session # NoUser /\ fresh
Live == request.token # NoToken /\ owner[request.token] # NoUser

Ahead ==
    IF at = "login" THEN 2
    ELSE IF at \notin {"hook", "guard"} THEN 0
    ELSE IF known = NoUser THEN IF failure THEN 0 ELSE 3
    ELSE IF known # Unset THEN IF request.token = NoToken THEN 0 ELSE IF Good THEN 1 ELSE 4
    ELSE IF Good /\ ~asking THEN IF request.token = NoToken THEN 0 ELSE 1
    ELSE IF Live THEN 1 ELSE 3

RedirectsAhead ==
    /\ at \in Idle => hops = 0 /\ upsets = 0
    /\ hops + Ahead <= 3 * (1 + upsets)

RequestInv ==
    /\ TypeOK
    /\ TokensByGet
    /\ ScriptsExpectJson
    /\ LoginByGet
    /\ Passed
    /\ PassedWithoutToken
    /\ TokenLeavesAddress
    /\ FailureIsKept
    /\ RedirectsAhead

\* The browser waits for the write that is under way, and sends no other.
UnderWay(n) == at_HQ[n] \in {"sent", "answered"}

WriteInTurn ==
    /\ at_HQ \in [1..Attempts -> {"idle", "sent", "answered", "shown"}]
    /\ DOMAIN page = 1..Attempts
    /\ \A n \in 1..Attempts : UnderWay(n) => at = "proxied"
    /\ \A m, n \in 1..Attempts : UnderWay(m) /\ UnderWay(n) => m = n

IInv == RequestInv /\ WriteInTurn

-----------------------------------------------------------------------------
(* Names that are not of users and tokens, and the routes.                 *)

LEMMA Nobody == /\ NoUser \notin Users /\ Unset \notin Users /\ Unset # NoUser
                /\ NoToken \notin Tokens
  BY NoneAssumption, UnsetAssumption

LEMMA RouteShape ==
    ASSUME NEW r \in Routes
    PROVE  /\ Route(r).methods \subseteq {"GET", "POST"}
           /\ Route(r).guarded /\ ~Route(r).json => ~Route(r).public
           /\ Route(r).csrf => Route(r).json \/ (Route(r).public /\ ~Route(r).guarded)
  BY DEF Routes, Pages, Route

LEMMA RequestShape ==
    ASSUME TypeOK
    PROVE  /\ request.route \in Routes
           /\ request.method \in {"GET", "POST"}
           /\ request.script \in BOOLEAN
           /\ request.token \in Tokens \cup {NoToken}
  BY DEF TypeOK

LEMMA AheadIsSmall ==
    /\ Ahead \in 0..4
    /\ at \notin {"login", "hook", "guard"} => Ahead = 0
  BY DEF Ahead

LEMMA CountersShape ==
    ASSUME RequestInv
    PROVE  /\ hops \in Nat /\ upsets \in Nat
           /\ hops + Ahead <= 3 * (1 + upsets)
  BY UpsetAssumption DEF RequestInv, TypeOK, RedirectsAhead

\* A redirect costs one of those that were ahead.
LEMMA Redirected ==
    ASSUME RequestInv, hops' = hops + 1, Ahead' + 1 <= Ahead, Ahead' \in 0..4
    PROVE  hops' \in Nat /\ hops' + Ahead' <= 3 * (1 + upsets)
  <1>1. hops \in Nat /\ upsets \in Nat /\ hops + Ahead <= 3 * (1 + upsets)
    BY CountersShape
  <1>2. \A h, u, a, b \in Nat : h + a <= 3 * (1 + u) /\ b + 1 <= a => (h + 1) + b <= 3 * (1 + u)
    OBVIOUS
  <1>3. Ahead \in Nat /\ Ahead' \in Nat
    BY AheadIsSmall
  <1>4. (hops + 1) + Ahead' <= 3 * (1 + upsets)
    BY <1>1, <1>2, <1>3, Zenon
  <1>5. hops + 1 \in Nat
    BY <1>1
  <1> QED  BY <1>4, <1>5, Zenon

\* A step without one that brings none.
LEMMA NotRedirected ==
    ASSUME RequestInv, hops' = hops, Ahead' <= Ahead, Ahead' \in 0..4
    PROVE  hops' + Ahead' <= 3 * (1 + upsets)
  <1>1. hops \in Nat /\ upsets \in Nat /\ hops + Ahead <= 3 * (1 + upsets)
    BY CountersShape
  <1>2. \A h, u, a, b \in Nat : h + a <= 3 * (1 + u) /\ b <= a => h + b <= 3 * (1 + u)
    OBVIOUS
  <1>3. Ahead \in Nat /\ Ahead' \in Nat
    BY AheadIsSmall
  <1>4. hops + Ahead' <= 3 * (1 + upsets)
    BY <1>1, <1>2, <1>3, Zenon
  <1> QED  BY <1>4

\* An upset brings three.
LEMMA Upset ==
    ASSUME RequestInv, hops' = hops, upsets' = upsets + 1, Ahead' <= Ahead + 3, Ahead' \in 0..4
    PROVE  hops' + Ahead' <= 3 * (1 + upsets')
  <1>1. \A h, u, a, b \in Nat : h + a <= 3 * (1 + u) /\ b <= a + 3 => h + b <= 3 * (1 + (u + 1))
    OBVIOUS
  <1>2. Ahead \in Nat /\ Ahead' \in Nat
    BY AheadIsSmall
  <1>3. hops + Ahead' <= 3 * (1 + (upsets + 1))
    BY <1>1, <1>2, CountersShape, Zenon
  <1> QED  BY <1>3, Zenon

\* What is said of a request in its place does not change while it stays there.
LEMMA SameRequest ==
    ASSUME RequestInv, UNCHANGED <<strict, request, at, shown>>
    PROVE  TokensByGet' /\ ScriptsExpectJson' /\ LoginByGet' /\ PassedWithoutToken'
           /\ TokenLeavesAddress'
  <1>1. Here' = Here /\ Hooked' = Hooked /\ Gated' = Gated
    BY DEF Here, Hooked, Gated
  <1>2. TokensByGet' /\ ScriptsExpectJson' /\ LoginByGet'
    BY <1>1 DEF RequestInv, TokensByGet, ScriptsExpectJson, LoginByGet
  <1>3. PassedWithoutToken' /\ TokenLeavesAddress'
    BY <1>1 DEF RequestInv, PassedWithoutToken, TokenLeavesAddress
  <1> QED  BY <1>2, <1>3

-----------------------------------------------------------------------------
(* Requests that begin.                                                    *)

LEMMA BeginStep ==
    ASSUME RequestInv, ~asking,
           NEW r \in [route: Routes, method: {"GET", "POST"}, script: BOOLEAN,
                      token: Tokens \cup {NoToken}],
           Begin(r), UNCHANGED <<strict, asking, cookie, hqUser>>,
           owner' \in [Tokens -> Users \cup {NoUser}],
           r.script \/ r.method = "POST" => r.token = NoToken,
           r.script => Route(r.route).json \/ Route(r.route).public \/ strict,
           hops' \in Nat, upsets' = upsets,
           hops' + Ahead' <= 3 * (1 + upsets)
    PROVE  RequestInv'
  <1>1. request' = r /\ at' = "hook" /\ known' = Unset /\ failure' = FALSE
    BY DEF Begin
  <1>2. TypeOK'
    BY <1>1 DEF RequestInv, TypeOK, cookie
  <1>3. TokensByGet' /\ ScriptsExpectJson' /\ LoginByGet'
    BY <1>1 DEF TokensByGet, ScriptsExpectJson, Here, LoginByGet, AtLogin
  <1>4. Passed' /\ PassedWithoutToken' /\ TokenLeavesAddress' /\ FailureIsKept'
    BY <1>1 DEF Passed, PassedWithoutToken, TokenLeavesAddress, FailureIsKept, AtLogin
  <1>5. RedirectsAhead'
    BY <1>1 DEF RedirectsAhead, Idle
  <1> QED  BY <1>2, <1>3, <1>4, <1>5 DEF RequestInv

\* No request is under way where the person may begin another, or HQ is visited.
LEMMA NotAsking ==
    ASSUME RequestInv, at \notin {"hook", "guard", "view"}
    PROVE  ~asking
  BY DEF RequestInv, TypeOK, NeedsUser

LEMMA ClickStep ==
    ASSUME RequestInv, NEW route \in Routes, NEW method \in Route(route).methods \cup {"GET"},
           NEW script \in BOOLEAN, NEW token \in Tokens \cup {NoToken},
           script \/ method = "POST" => token = NoToken,
           script => Route(route).json \/ Route(route).public \/ strict,
           Click(route, method, script, token)
    PROVE  RequestInv'
  <1> DEFINE r == [route |-> route, method |-> method, script |-> script, token |-> token]
  <1>1. /\ at \in Idle /\ Begin(r)
        /\ UNCHANGED <<strict, asking, cookie, hops, upsets, owner, hqUser>>
    BY DEF Click, rest, hqVars
  <1>2. hops = 0 /\ upsets = 0 /\ owner \in [Tokens -> Users \cup {NoUser}]
    BY <1>1 DEF RequestInv, RedirectsAhead, TypeOK
  <1>3. /\ r \in [route: Routes, method: {"GET", "POST"}, script: BOOLEAN,
                  token: Tokens \cup {NoToken}]
        /\ r.route = route /\ r.method = method /\ r.script = script /\ r.token = token
    BY RouteShape
  <1> HIDE DEF r
  <1>4. ~asking
    BY <1>1, NotAsking DEF Idle
  <1>5. Ahead' \in 0..3
    BY <1>1, Nobody DEF Ahead, Begin
  <1>6. hops' + Ahead' <= 3 * (1 + upsets)
    BY <1>1, <1>2, <1>5
  <1>7. owner' \in [Tokens -> Users \cup {NoUser}] /\ hops' \in Nat /\ upsets' = upsets
    BY <1>1, <1>2
  <1> QED  BY <1>1, <1>3, <1>4, <1>6, <1>7, BeginStep

LEMMA VisitStep ==
    ASSUME RequestInv, NEW route \in Routes, NEW token \in Tokens \cup {NoToken}, Visit(route, token)
    PROVE  RequestInv'
  BY ClickStep DEF Visit

LEMMA SubmitStep ==
    ASSUME RequestInv, NEW route \in Routes, Submit(route)
    PROVE  RequestInv'
  BY ClickStep DEF Submit

LEMMA FetchStep ==
    ASSUME RequestInv, NEW route \in Routes, Fetch(route)
    PROVE  RequestInv'
  <1>1. PICK method \in Route(route).methods : Click(route, method, TRUE, NoToken)
    BY DEF Fetch
  <1>2. Route(route).json \/ Route(route).public \/ strict
    BY DEF Fetch
  <1> QED  BY <1>1, <1>2, ClickStep

\* The browser goes to the address without its token; by then the user was known.
LEMMA CleanUpStep ==
    ASSUME RequestInv, CleanUp
    PROVE  RequestInv'
  <1>1. /\ Gating /\ known \in Users /\ request.token # NoToken
        /\ Begin(Clean) /\ hops' = hops + 1
        /\ UNCHANGED <<strict, asking, cookie, owner, hqUser, upsets>>
    BY DEF CleanUp, NeedsCleanup, AllElse, rest, hqVars
  <1>2. /\ Clean \in [route: Routes, method: {"GET", "POST"}, script: BOOLEAN,
                      token: Tokens \cup {NoToken}]
        /\ Clean.route = request.route /\ Clean.script = request.script
        /\ Clean.token = NoToken
    BY DEF Clean, RequestInv, TypeOK
  <1>3. ~asking
    BY <1>1, Nobody DEF RequestInv, Passed
  <1>4. hops \in Nat /\ upsets \in Nat /\ owner \in [Tokens -> Users \cup {NoUser}]
    BY UpsetAssumption DEF RequestInv, TypeOK
  <1>5. Ahead' + 1 <= Ahead /\ Ahead' \in 0..4
    <2>1. at \in {"hook", "guard"}
      BY <1>1 DEF Gating
    <2>2. Ahead = IF Good THEN 1 ELSE 4
      BY <1>1, <2>1, Nobody DEF Ahead
    <2>3. request'.token = NoToken /\ at' = "hook" /\ known' = Unset /\ ~asking' /\ Good' = Good
      BY <1>1, <1>2, <1>3 DEF Begin, Good, cookie
    <2>4. Ahead' = IF Good THEN 0 ELSE 3
      BY <2>3, Nobody DEF Ahead, Live
    <2> QED  BY <2>2, <2>4
  <1>6. hops' + Ahead' <= 3 * (1 + upsets)
    BY <1>1, <1>4, <1>5, Redirected
  <1>7. Clean.script => Route(Clean.route).json \/ Route(Clean.route).public \/ strict
    BY <1>2 DEF RequestInv, ScriptsExpectJson, Here
  <1>8. owner' \in [Tokens -> Users \cup {NoUser}] /\ hops' \in Nat /\ upsets' = upsets
    BY <1>1, <1>4
  <1> QED  BY <1>1, <1>2, <1>3, <1>6, <1>7, <1>8, BeginStep

-----------------------------------------------------------------------------
(* Finding out who the user is.                                            *)

\* What is left to be shown of a step that only looks for the user.
LEMMA LookStep ==
    ASSUME RequestInv, UNCHANGED <<strict, request, at, clickVars>>,
           TypeOK', Passed', FailureIsKept', Ahead' <= Ahead, Ahead' \in 0..4
    PROVE  RequestInv'
  <1>1. hops' = hops /\ upsets' = upsets /\ at' = at /\ shown' = shown
    BY DEF clickVars
  <1>2. RedirectsAhead'
    <2>1. hops' + Ahead' <= 3 * (1 + upsets)
      BY <1>1, NotRedirected
    <2>2. at' \in Idle => hops' = 0 /\ upsets' = 0
      BY <1>1 DEF RequestInv, RedirectsAhead
    <2> QED  BY <1>1, <2>1, <2>2 DEF RedirectsAhead
  <1> QED  BY <1>1, <1>2, SameRequest DEF RequestInv

\* While the user is not known, nothing is said of a failure.
LEMMA NoFailureYet ==
    ASSUME RequestInv, known = Unset, at \in {"hook", "guard", "view"}
    PROVE  ~failure
  BY Nobody DEF RequestInv, FailureIsKept

LEMMA RecallStep ==
    ASSUME RequestInv, Recall
    PROVE  RequestInv'
  <1>1. /\ NeedsUser /\ known = Unset /\ ~asking
        /\ session # NoUser /\ fresh /\ known' = session
        /\ UNCHANGED <<strict, request, at, asking, failure, cookie, clickVars, hqVars>>
    BY DEF Recall, Looking, rest
  <1>2. at \in {"hook", "guard", "view"} /\ session \in Users /\ ~failure
    BY <1>1, NoFailureYet DEF NeedsUser, RequestInv, TypeOK
  <1>3. TypeOK'
    BY <1>1, <1>2 DEF RequestInv, TypeOK, cookie, clickVars, hqVars
  <1>4. Passed' /\ FailureIsKept'
    BY <1>1, <1>2 DEF RequestInv, Passed, FailureIsKept, Hooked, Here
  <1>5. Ahead' <= Ahead /\ Ahead' \in 0..4
    <2>1. Good /\ Good'
      BY <1>1 DEF Good, cookie
    <2> QED  BY <1>1, <1>2, <2>1, Nobody DEF Ahead
  <1> QED  BY <1>1, <1>3, <1>4, <1>5, LookStep

LEMMA ForgetStep ==
    ASSUME RequestInv, Forget
    PROVE  RequestInv'
  <1>1. /\ NeedsUser /\ known = Unset /\ ~asking
        /\ ~Good /\ session' = NoUser /\ fresh' = FALSE
        /\ asking' = MustAsk /\ known' = IF MustAsk THEN Unset ELSE NoUser
        /\ UNCHANGED <<strict, request, at, failure, clickVars, hqVars>>
    BY DEF Forget, Looking, Good, rest
  <1>2. at \in {"hook", "guard", "view"} /\ ~failure
    BY <1>1, NoFailureYet DEF NeedsUser
  <1>3. NeedsUser' = NeedsUser /\ MustAsk \in BOOLEAN
    BY <1>1 DEF NeedsUser, Hooked, Here, MustAsk
  <1>4. TypeOK'
    <2>1. asking' => request'.token # NoToken
      BY <1>1 DEF MustAsk
    <2> QED  BY <1>1, <1>3, <2>1 DEF RequestInv, TypeOK, clickVars, hqVars
  <1>5. Passed' /\ FailureIsKept'
    <2>1. at = "hook" \/ at = "guard" \/ at = "view"
      BY <1>2
    <2>2. at \in {"guard", "view"} => ~Hooked
      BY <1>1, <2>1, Nobody DEF RequestInv, Passed
    <2> QED  BY <1>1, <1>2, <2>2 DEF RequestInv, Passed, FailureIsKept, Hooked, Here
  <1>6. Ahead' <= Ahead /\ Ahead' \in 0..4
    <2>1. ~Good' /\ Live' = Live
      BY <1>1 DEF Good, Live, hqVars
    <2>2. CASE MustAsk
      BY <1>1, <1>2, <2>1, <2>2, Nobody DEF Ahead
    <2>3. CASE ~MustAsk
      BY <1>1, <1>2, <2>1, <2>3, Nobody DEF Ahead, MustAsk, Live
    <2> QED  BY <2>2, <2>3
  <1> QED  BY <1>1, <1>4, <1>5, <1>6, LookStep

\* HQ is asked where the user is needed, and about a token.
LEMMA AskingShape ==
    ASSUME RequestInv, asking
    PROVE  /\ NeedsUser /\ at \in {"hook", "guard", "view"}
           /\ at = "view" => request.route \in {"apps", "validate"}
           /\ at # "view" => Gating
           /\ known = Unset /\ ~failure
           /\ request.token \in Tokens /\ request.token # NoToken
           /\ at \in {"guard", "view"} => ~Hooked
  <1>1. NeedsUser /\ known = Unset /\ request.token \in Tokens /\ request.token # NoToken
    BY DEF RequestInv, TypeOK, Passed
  <1>2. at \in {"hook", "guard", "view"}
    BY <1>1 DEF NeedsUser
  <1>3. at \in {"guard", "view"} => ~Hooked
    BY <1>1, Nobody DEF RequestInv, Passed
  <1>4. ~failure
    BY <1>1, <1>2, NoFailureYet
  <1> QED  BY <1>1, <1>2, <1>3, <1>4 DEF NeedsUser, Gating

LEMMA ConfirmStep ==
    ASSUME RequestInv, Confirm
    PROVE  RequestInv'
  <1> DEFINE u == owner[request.token]
  <1>1. /\ asking /\ u # NoUser /\ ~asking' /\ known' = u /\ ~failure'
        /\ failure' \in BOOLEAN /\ asking' \in BOOLEAN
        /\ session' = u /\ fresh' = TRUE
        /\ owner' = [owner EXCEPT ![request.token] = NoUser]
        /\ UNCHANGED <<strict, request, at, clickVars, hqUser>>
    BY DEF Confirm, Answered, Caches, Spend, rest, clickVars
  <1>2. /\ at \in {"hook", "guard", "view"}
        /\ request.token \in Tokens /\ request.token # NoToken /\ known = Unset
    BY <1>1, AskingShape
  <1>3. u \in Users
    BY <1>1, <1>2 DEF RequestInv, TypeOK
  <1> HIDE DEF u
  <1>4. TypeOK'
    <2>1. owner' \in [Tokens -> Users \cup {NoUser}]
      BY <1>1 DEF RequestInv, TypeOK
    <2> QED  BY <1>1, <1>3, <2>1 DEF RequestInv, TypeOK, clickVars
  <1>5. Passed' /\ FailureIsKept'
    BY <1>1, <1>3 DEF RequestInv, Passed, FailureIsKept, Hooked, Here
  <1>6. Ahead' <= Ahead /\ Ahead' \in 0..4
    <2>1. Good'
      BY <1>1 DEF Good
    <2>2. Live
      BY <1>1, <1>2 DEF Live, u
    <2> QED  BY <1>1, <1>2, <1>3, <2>1, <2>2, Nobody DEF Ahead
  <1> QED  BY <1>1, <1>4, <1>5, <1>6, LookStep

LEMMA DenyStep ==
    ASSUME RequestInv, Deny
    PROVE  RequestInv'
  <1>1. /\ asking /\ owner[request.token] = NoUser
        /\ ~asking' /\ known' = NoUser /\ ~failure'
        /\ failure' \in BOOLEAN /\ asking' \in BOOLEAN
        /\ UNCHANGED <<strict, request, at, clickVars, hqUser, cookie, owner>>
    BY DEF Deny, Answered, rest, clickVars
  <1>2. /\ at \in {"hook", "guard", "view"}
        /\ known = Unset
        /\ at \in {"guard", "view"} => ~Hooked
    BY <1>1, AskingShape
  <1>3. TypeOK'
    BY <1>1 DEF RequestInv, TypeOK, clickVars, cookie
  <1>4. Passed' /\ FailureIsKept'
    BY <1>1, <1>2 DEF RequestInv, Passed, FailureIsKept, Hooked, Here
  <1>5. Ahead' <= Ahead /\ Ahead' \in 0..4
    BY <1>1, <1>2, Nobody DEF Ahead, Live
  <1> QED  BY <1>1, <1>3, <1>4, <1>5, LookStep

\* A good token that is denied sends the browser to the login once more.
LEMMA DenyGoodStep ==
    ASSUME RequestInv, DenyGood
    PROVE  RequestInv'
  <1>1. /\ asking /\ ~asking' /\ known' = NoUser /\ ~failure'
        /\ failure' \in BOOLEAN /\ asking' \in BOOLEAN
        /\ upsets < MaxUpsets /\ upsets' = upsets + 1
        /\ UNCHANGED <<strict, request, at, shown, hops, hqUser, cookie>>
    BY DEF DenyGood, Answered, rest
  <1>2. /\ at \in {"hook", "guard", "view"}
        /\ known = Unset
        /\ at \in {"guard", "view"} => ~Hooked
    BY <1>1, AskingShape
  <1>3. TypeOK'
    <2>1. owner' \in [Tokens -> Users \cup {NoUser}]
      BY DEF DenyGood, Spend, RequestInv, TypeOK
    <2>2. upsets' \in 0..MaxUpsets
      BY <1>1, UpsetAssumption DEF RequestInv, TypeOK
    <2> QED  BY <1>1, <2>1, <2>2 DEF RequestInv, TypeOK, cookie
  <1>4. Passed' /\ FailureIsKept'
    BY <1>1, <1>2 DEF RequestInv, Passed, FailureIsKept, Hooked, Here
  <1>5. RedirectsAhead'
    <2>1. Ahead' <= Ahead + 3 /\ Ahead' \in 0..4
      BY <1>1, <1>2, Nobody DEF Ahead
    <2>2. hops' + Ahead' <= 3 * (1 + upsets')
      BY <1>1, <2>1, Upset
    <2>3. at' \notin Idle
      BY <1>1, <1>2 DEF Idle
    <2> QED  BY <2>2, <2>3 DEF RedirectsAhead
  <1> QED  BY <1>1, <1>3, <1>4, <1>5, SameRequest DEF RequestInv

LEMMA FailStep ==
    ASSUME RequestInv, Fail
    PROVE  RequestInv'
  <1>1. /\ asking /\ ~asking' /\ known' = NoUser /\ failure'
        /\ failure' \in BOOLEAN /\ asking' \in BOOLEAN
        /\ UNCHANGED <<strict, request, at, clickVars, hqUser, cookie>>
    BY DEF Fail, Answered, rest, clickVars
  <1>2. owner' = [owner EXCEPT ![request.token] = NoUser] \/ owner' = owner
    BY DEF Fail, Spend
  <1>3. /\ at \in {"hook", "guard", "view"}
        /\ at = "view" => request.route \in {"apps", "validate"}
        /\ at # "view" => Gating
        /\ request.token # NoToken
        /\ at \in {"guard", "view"} => ~Hooked
    BY <1>1, AskingShape
  <1>4. TypeOK'
    <2>1. owner' \in [Tokens -> Users \cup {NoUser}]
      BY <1>2 DEF RequestInv, TypeOK
    <2> QED  BY <1>1, <2>1 DEF RequestInv, TypeOK, clickVars, cookie
  <1>5. Gating' = Gating /\ Hooked' = Hooked
    BY <1>1 DEF Gating, Hooked, Here
  <1>6. Passed' /\ FailureIsKept'
    BY <1>1, <1>3, <1>5 DEF RequestInv, Passed, FailureIsKept, Here
  <1>7. Ahead' <= Ahead /\ Ahead' \in 0..4
    <2>1. Ahead' = 0
      BY <1>1, <1>3 DEF Ahead
    <2> QED  BY <2>1, AheadIsSmall
  <1> QED  BY <1>1, <1>4, <1>6, <1>7, LookStep

-----------------------------------------------------------------------------
(* The hook, the guard and csrf_protect.                                   *)

\* A click that has its answer.
LEMMA EndStep ==
    ASSUME RequestInv, ~asking, NEW what, Ends(what), at' = "reading",
           session' \in Users \cup {NoUser}, fresh' \in BOOLEAN, UNCHANGED hqVars,
           failure => what \in {"unavailable", "data"},
           what \in {"page", "forbidden"} /\ Gated /\ ~Here.json => request.token = NoToken
    PROVE  RequestInv'
  <1>1. /\ shown' = what /\ known' = Unset /\ hops' = 0 /\ upsets' = 0
        /\ UNCHANGED <<strict, request, asking, failure, owner, hqUser>>
    BY DEF Ends, hqVars
  <1>2. Here' = Here /\ Hooked' = Hooked /\ at' = "reading"
    BY <1>1 DEF Here, Hooked
  <1>3. TypeOK'
    BY <1>1, <1>2, UpsetAssumption DEF RequestInv, TypeOK, Idle
  <1>4. TokensByGet' /\ ScriptsExpectJson' /\ LoginByGet' /\ Passed' /\ PassedWithoutToken'
    BY <1>1, <1>2
    DEF RequestInv, TokensByGet, ScriptsExpectJson, LoginByGet, AtLogin, Passed, PassedWithoutToken
  <1>5. TokenLeavesAddress' /\ FailureIsKept'
    BY <1>1, <1>2 DEF RequestInv, TokenLeavesAddress, AtLogin, Gated, FailureIsKept
  <1>6. RedirectsAhead'
    BY <1>1, <1>2, AheadIsSmall DEF RedirectsAhead, Ahead
  <1> QED  BY <1>3, <1>4, <1>5, <1>6 DEF RequestInv

LEMMA ShowStep ==
    ASSUME RequestInv, ~asking, NEW what, Show(what),
           failure => what \in {"unavailable", "data"},
           what \in {"page", "forbidden"} /\ Gated /\ ~Here.json => request.token = NoToken
    PROVE  RequestInv'
  <1>1. session' \in Users \cup {NoUser} /\ fresh' \in BOOLEAN
    BY DEF Show, cookie, RequestInv, TypeOK
  <1> QED  BY <1>1, EndStep DEF Show

LEMMA TurnAwayStep ==
    ASSUME RequestInv, TurnAway
    PROVE  RequestInv'
  <1>1. Gating /\ known = NoUser /\ at \in {"hook", "guard"} /\ ~asking
    BY Nobody DEF TurnAway, Gating, RequestInv, Passed
  <1>2. CASE failure
    <2>1. Show("unavailable")
      BY <1>2 DEF TurnAway, HQFailed
    <2> QED  BY <1>1, <2>1, ShowStep
  <1>3. CASE ~failure /\ Json
    <2>1. Show("unauthorized")
      BY <1>3 DEF TurnAway, HQFailed
    <2> QED  BY <1>1, <1>3, <2>1, ShowStep
  <1>4. CASE ~failure /\ ~Json
    <2>1. /\ at' = "login" /\ request' = Clean /\ hops' = hops + 1
          /\ UNCHANGED <<strict, asking, known, failure, cookie, shown, upsets, hqVars>>
      BY <1>4 DEF TurnAway, HQFailed, AllElse, rest
    <2>2. /\ request' \in [route: Routes, method: {"GET", "POST"}, script: BOOLEAN,
                           token: Tokens \cup {NoToken}]
          /\ request'.token = NoToken /\ request'.method = "GET"
          /\ request'.script = request.script /\ request'.route = request.route
      BY <2>1 DEF Clean, RequestInv, TypeOK
    <2>3. ~request.script
      <3>1. CASE at = "hook"
        BY <1>4, <3>1 DEF Json
      <3>2. CASE at = "guard"
        <4>1. Here.guarded /\ ~Here.json /\ ~Hooked
          BY <1>1, <1>4, <3>2, Nobody DEF Json, RequestInv, Passed
        <4>2. ~Here.public
          BY <4>1, RouteShape, RequestShape DEF Here, RequestInv
        <4> QED  BY <4>1, <4>2 DEF RequestInv, ScriptsExpectJson, Hooked
      <3> QED  BY <1>1, <3>1, <3>2
    <2>4. hops' \in Nat /\ hops' + Ahead' <= 3 * (1 + upsets)
      <3>1. Ahead = 3 /\ Ahead' = 2
        BY <1>1, <1>4, <2>1 DEF Ahead
      <3> QED  BY <2>1, <3>1, Redirected
    <2>5. TypeOK'
      BY <1>1, <2>1, <2>2, <2>4 DEF RequestInv, TypeOK, cookie, hqVars
    <2>6. TokensByGet' /\ ScriptsExpectJson' /\ LoginByGet' /\ TokenLeavesAddress'
      BY <2>2, <2>3 DEF TokensByGet, ScriptsExpectJson, LoginByGet, TokenLeavesAddress
    <2>7. Passed' /\ PassedWithoutToken' /\ FailureIsKept' /\ RedirectsAhead'
      BY <1>1, <1>4, <2>1, <2>4
      DEF Passed, PassedWithoutToken, FailureIsKept, RedirectsAhead, Idle
    <2> QED  BY <2>5, <2>6, <2>7 DEF RequestInv
  <1> QED  BY <1>2, <1>3, <1>4

\* A request gets one further.
LEMMA GotoStep ==
    ASSUME RequestInv, ~asking, ~failure, at \in {"hook", "guard", "checks"},
           NEW there \in {"guard", "checks", "view"}, Goto(there),
           there = "guard" => at = "hook" /\ Here.guarded,
           Hooked => known \in Users,
           there = "guard" /\ Hooked /\ ~Here.json => request.token = NoToken,
           there # "guard" /\ Gated /\ ~Here.json => request.token = NoToken
    PROVE  RequestInv'
  <1>1. /\ at' = there
        /\ UNCHANGED <<strict, request, asking, known, failure, cookie, clickVars, hqVars>>
    BY DEF Goto, AllElse, rest
  <1>2. Here' = Here /\ Hooked' = Hooked
    BY <1>1 DEF Here, Hooked
  <1>3. TypeOK'
    BY <1>1 DEF RequestInv, TypeOK, cookie, clickVars, hqVars
  <1>4. TokensByGet' /\ ScriptsExpectJson' /\ LoginByGet'
    BY <1>1, <1>2 DEF RequestInv, TokensByGet, ScriptsExpectJson, LoginByGet, AtLogin
  <1>5. Passed' /\ PassedWithoutToken' /\ FailureIsKept'
    BY <1>1, <1>2 DEF Passed, PassedWithoutToken, Gated, FailureIsKept
  <1>6. TokenLeavesAddress'
    BY <1>1 DEF TokenLeavesAddress, AtLogin
  <1>7. RedirectsAhead'
    <2>1. hops' = hops /\ upsets' = upsets /\ at' \notin Idle
      BY <1>1 DEF clickVars, Idle
    <2>2. CASE there = "guard"
      <3>1. Ahead' = Ahead
        BY <1>1, <2>2 DEF Ahead, Good, Live, cookie, hqVars
      <3>2. hops' + Ahead' <= 3 * (1 + upsets)
        BY <2>1, <3>1, AheadIsSmall, NotRedirected
      <3> QED  BY <2>1, <3>2 DEF RedirectsAhead
    <2>3. CASE there # "guard"
      <3>1. Ahead' = 0
        BY <1>1, <2>3 DEF Ahead
      <3>2. hops' + Ahead' <= 3 * (1 + upsets)
        BY <2>1, <3>1, AheadIsSmall, NotRedirected
      <3> QED  BY <2>1, <3>2 DEF RedirectsAhead
    <2> QED  BY <2>2, <2>3
  <1> QED  BY <1>3, <1>4, <1>5, <1>6, <1>7 DEF RequestInv

\* A page that needs no cleaning up, where a script's address has no token anyway.
LEMMA CleanPage ==
    ASSUME RequestInv, ~NeedsCleanup, ~Here.json
    PROVE  request.token = NoToken
  BY RequestShape DEF RequestInv, NeedsCleanup, Json, TokensByGet

LEMMA PassHookStep ==
    ASSUME RequestInv, PassHook
    PROVE  RequestInv'
  <1>1. /\ at = "hook"
        /\ Hooked => known \in Users /\ ~NeedsCleanup
    BY DEF PassHook
  <1>2. ~asking /\ ~failure
    <2>1. known \in Users => ~asking /\ ~failure
      BY <1>1, Nobody DEF RequestInv, Passed, FailureIsKept
    <2>2. ~Hooked => ~asking /\ ~failure
      BY <1>1 DEF RequestInv, TypeOK, NeedsUser, FailureIsKept, Gating
    <2> QED  BY <1>1, <2>1, <2>2
  <1>3. CASE request.method \notin Here.methods
    BY <1>2, <1>3, ShowStep DEF PassHook
  <1>4. CASE request.method \in Here.methods
    <2>1. Hooked /\ ~Here.json => request.token = NoToken
      BY <1>1, CleanPage
    <2>2. CASE Here.guarded
      <3>1. Goto("guard")
        BY <1>4, <2>2 DEF PassHook
      <3> QED  BY <1>1, <1>2, <2>1, <2>2, <3>1, GotoStep
    <2>3. CASE ~Here.guarded
      <3>1. Goto("checks")
        BY <1>4, <2>3 DEF PassHook
      <3> QED  BY <1>1, <1>2, <2>1, <2>3, <3>1, GotoStep DEF Gated
    <2> QED  BY <2>2, <2>3
  <1> QED  BY <1>3, <1>4

LEMMA PassGuardStep ==
    ASSUME RequestInv, PassGuard
    PROVE  RequestInv'
  <1>1. at = "guard" /\ known \in Users /\ ~NeedsCleanup
    BY DEF PassGuard
  <1>2. ~asking /\ ~failure
    BY <1>1, Nobody DEF RequestInv, Passed, FailureIsKept
  <1>3. ~Here.json => request.token = NoToken
    BY <1>1, CleanPage
  <1>4. CASE Level[known] < Here.level
    <2>1. Show("forbidden")
      BY <1>4 DEF PassGuard
    <2> QED  BY <1>2, <1>3, <2>1, ShowStep
  <1>5. CASE ~(Level[known] < Here.level)
    <2>1. Goto("checks")
      BY <1>5 DEF PassGuard
    <2> QED  BY <1>1, <1>2, <1>3, <2>1, GotoStep
  <1> QED  BY <1>4, <1>5

LEMMA CheckCsrfStep ==
    ASSUME RequestInv, CheckCsrf
    PROVE  RequestInv'
  <1>1. at = "checks"
    BY DEF CheckCsrf
  <1>2. /\ ~asking /\ ~failure
        /\ Hooked => known \in Users
        /\ Gated /\ ~Here.json => request.token = NoToken
    BY <1>1 DEF RequestInv, TypeOK, NeedsUser, FailureIsKept, Passed, PassedWithoutToken
  <1>3. CASE Here.csrf /\ ~request.script
    <2>1. Show("forbidden")
      BY <1>3 DEF CheckCsrf
    <2> QED  BY <1>2, <2>1, ShowStep
  <1>4. CASE ~(Here.csrf /\ ~request.script)
    <2>1. Goto("view")
      BY <1>4 DEF CheckCsrf
    <2> QED  BY <1>1, <1>2, <2>1, GotoStep
  <1> QED  BY <1>3, <1>4

-----------------------------------------------------------------------------
(* The views.                                                              *)

\* In the other views nobody is asked about anything.
LEMMA ViewShape ==
    ASSUME RequestInv, at = "view", request.route \notin {"apps", "validate"}
    PROVE  ~asking /\ ~failure
  BY DEF RequestInv, TypeOK, NeedsUser, FailureIsKept

LEMMA ViewPageStep ==
    ASSUME RequestInv, ViewPage
    PROVE  RequestInv'
  <1>1. at = "view" /\ request.route \notin {"apps", "validate"} /\ Show("page")
    BY DEF ViewPage, Pages
  <1>2. ~asking /\ ~failure
    BY <1>1, ViewShape
  <1>3. Gated /\ ~Here.json => request.token = NoToken
    BY <1>1 DEF RequestInv, PassedWithoutToken
  <1> QED  BY <1>1, <1>2, <1>3, ShowStep

LEMMA ViewAppsStep ==
    ASSUME RequestInv, ViewApps
    PROVE  RequestInv'
  <1>1. /\ at = "view" /\ request.route \in {"apps", "apps_all"}
        /\ request.route = "apps" => known # Unset
        /\ Show("data") \/ Show("unavailable")
    BY DEF ViewApps
  <1>2. ~asking
    BY <1>1, AskingShape
  <1> QED  BY <1>1, <1>2, ShowStep

LEMMA ViewValidateStep ==
    ASSUME RequestInv, ViewValidate
    PROVE  RequestInv'
  <1>1. /\ at = "view" /\ known # Unset
        /\ CASE known \in Users -> Show("valid")
             [] failure          -> Show("unavailable")
             [] OTHER            -> Show("unauthorized")
    BY DEF ViewValidate
  <1>2. ~asking /\ (failure => known = NoUser)
    BY <1>1, AskingShape DEF RequestInv, FailureIsKept
  <1>3. CASE known \in Users
    <2>1. Show("valid") /\ ~failure
      BY <1>1, <1>2, <1>3, Nobody
    <2> QED  BY <1>2, <2>1, ShowStep
  <1>4. CASE known \notin Users /\ failure
    <2>1. Show("unavailable")
      BY <1>1, <1>4
    <2> QED  BY <1>2, <2>1, ShowStep
  <1>5. CASE known \notin Users /\ ~failure
    <2>1. Show("unauthorized")
      BY <1>1, <1>5
    <2> QED  BY <1>2, <1>5, <2>1, ShowStep
  <1> QED  BY <1>3, <1>4, <1>5

LEMMA ViewLogoutStep ==
    ASSUME RequestInv, ViewLogout
    PROVE  RequestInv'
  <1>1. /\ at = "view" /\ request.route \notin {"apps", "validate"}
        /\ session' = NoUser /\ fresh' = FALSE /\ at' = "reading"
        /\ Ends("logged out") /\ UNCHANGED hqVars
    BY DEF ViewLogout
  <1>2. ~asking /\ ~failure
    BY <1>1, ViewShape
  <1> QED  BY <1>1, <1>2, EndStep

LEMMA TooLargeStep ==
    ASSUME RequestInv, TooLarge
    PROVE  RequestInv'
  <1>1. at = "view" /\ request.route \notin {"apps", "validate"} /\ Show("too large")
    BY DEF TooLarge
  <1>2. ~asking /\ ~failure
    BY <1>1, ViewShape
  <1> QED  BY <1>1, <1>2, ShowStep

LEMMA ViewFeedbackStep ==
    ASSUME RequestInv, NEW n \in 1..Attempts, ViewFeedback(n)
    PROVE  RequestInv'
  <1>1. /\ at = "view" /\ request.route \notin {"apps", "validate"} /\ at' = "proxied"
        /\ UNCHANGED <<strict, request, gVars, cookie, clickVars, hqVars>>
    BY DEF ViewFeedback
  <1>2. ~asking /\ ~failure
    BY <1>1, ViewShape
  <1>3. Here' = Here /\ Hooked' = Hooked
    BY <1>1 DEF Here, Hooked
  <1>4. TypeOK'
    BY <1>1, <1>2 DEF RequestInv, TypeOK, gVars, cookie, clickVars, hqVars
  <1>5. TokensByGet' /\ ScriptsExpectJson' /\ LoginByGet' /\ TokenLeavesAddress'
    BY <1>1, <1>3
    DEF RequestInv, TokensByGet, ScriptsExpectJson, LoginByGet, AtLogin, TokenLeavesAddress
  <1>6. Passed' /\ PassedWithoutToken' /\ FailureIsKept'
    BY <1>1, <1>2, <1>3
    DEF RequestInv, Passed, PassedWithoutToken, Gated, FailureIsKept, gVars
  <1>7. RedirectsAhead'
    <2>1. hops' = hops /\ upsets' = upsets /\ Ahead' = 0
      BY <1>1 DEF clickVars, Ahead
    <2>2. hops' + Ahead' <= 3 * (1 + upsets)
      BY <2>1, AheadIsSmall, NotRedirected
    <2> QED  BY <1>1, <2>1, <2>2 DEF RedirectsAhead, Idle
  <1> QED  BY <1>4, <1>5, <1>6, <1>7 DEF RequestInv

\* The proxied write goes on without the app.
LEMMA AppStays ==
    ASSUME RequestInv, UNCHANGED appVars
    PROVE  RequestInv'
  <1>1. /\ UNCHANGED <<strict, request, at, clickVars>>
        /\ UNCHANGED <<asking, known, failure, session, fresh, owner, hqUser>>
        /\ UNCHANGED <<shown, hops, upsets>>
    BY DEF appVars, gVars, cookie, clickVars, hqVars
  <1>2. TypeOK' /\ Passed' /\ FailureIsKept'
    <2>1. Here' = Here /\ Hooked' = Hooked /\ NeedsUser' = NeedsUser /\ Gating' = Gating
      BY <1>1 DEF Here, Hooked, NeedsUser, Gating
    <2> QED  BY <1>1, <2>1 DEF RequestInv, TypeOK, Passed, FailureIsKept
  <1>3. Ahead' = Ahead
    BY <1>1 DEF Ahead, Good, Live
  <1> QED  BY <1>1, <1>2, <1>3, AheadIsSmall, LookStep

-----------------------------------------------------------------------------
(* HQ, the person and the clock.                                           *)

LEMMA LoginReturnsStep ==
    ASSUME RequestInv, LoginReturns
    PROVE  RequestInv'
  <1>1. /\ at = "login" /\ hqUser # NoUser /\ hops' = hops + 1
        /\ UNCHANGED <<strict, asking, cookie, shown, upsets, hqUser>>
    BY DEF LoginReturns, rest
  <1>2. PICK t \in Tokens :
           /\ owner' = [owner EXCEPT ![t] = hqUser]
           /\ Begin([request EXCEPT !.token = t])
    BY DEF LoginReturns
  <1> DEFINE r == [request EXCEPT !.token = t]
  <1>3. /\ request \in [route: Routes, method: {"GET", "POST"}, script: BOOLEAN,
                        token: Tokens \cup {NoToken}]
        /\ request.method = "GET" /\ ~request.script
    BY <1>1 DEF RequestInv, TypeOK, LoginByGet, AtLogin
  <1>4. /\ r \in [route: Routes, method: {"GET", "POST"}, script: BOOLEAN,
                  token: Tokens \cup {NoToken}]
        /\ r.method = "GET" /\ ~r.script /\ r.token = t
    BY <1>3
  <1>5. Begin(r)
    BY <1>2
  <1> HIDE DEF r
  <1>6. ~asking
    BY <1>1, NotAsking
  <1>7. owner' \in [Tokens -> Users \cup {NoUser}] /\ owner'[t] # NoUser
    BY <1>1, <1>2 DEF RequestInv, TypeOK
  <1>8. Ahead = 2 /\ Ahead' = 1
    <2>1. /\ request'.token = t /\ t # NoToken /\ at' = "hook" /\ known' = Unset
          /\ ~asking'
      BY <1>1, <1>4, <1>5, <1>6, Nobody DEF Begin
    <2>2. Live'
      BY <1>7, <2>1 DEF Live
    <2> QED  BY <1>1, <2>1, <2>2, Nobody DEF Ahead
  <1>9. hops' \in Nat /\ hops' + Ahead' <= 3 * (1 + upsets)
    BY <1>1, <1>8, Redirected
  <1>10. UNCHANGED <<strict, asking, cookie, hqUser>> /\ upsets' = upsets
    BY <1>1
  <1> QED  BY <1>4, <1>5, <1>6, <1>7, <1>9, <1>10, BeginStep

LEMMA LoginAsksStep ==
    ASSUME RequestInv, LoginAsks
    PROVE  RequestInv'
  <1>1. /\ at = "login" /\ at' = "signing"
        /\ known' = Unset /\ hops' = 0 /\ upsets' = 0
        /\ UNCHANGED <<strict, request, asking, failure, session, fresh, owner, hqUser>>
    BY DEF LoginAsks, Ends, cookie, hqVars
  <1>2. ~asking /\ ~failure /\ request.token = NoToken /\ request.method = "GET" /\ ~request.script
    BY <1>1, NotAsking DEF RequestInv, FailureIsKept, LoginByGet, AtLogin
  <1>3. TypeOK'
    BY <1>1, <1>2, UpsetAssumption DEF RequestInv, TypeOK, Idle
  <1>4. TokensByGet' /\ ScriptsExpectJson' /\ LoginByGet' /\ TokenLeavesAddress'
    BY <1>1, <1>2 DEF TokensByGet, ScriptsExpectJson, LoginByGet, TokenLeavesAddress
  <1>5. Passed' /\ PassedWithoutToken' /\ FailureIsKept'
    BY <1>1, <1>2 DEF Passed, PassedWithoutToken, FailureIsKept
  <1>6. RedirectsAhead'
    BY <1>1 DEF RedirectsAhead, Ahead
  <1> QED  BY <1>3, <1>4, <1>5, <1>6 DEF RequestInv

LEMMA SignInStep ==
    ASSUME RequestInv, NEW u \in Users, SignIn(u)
    PROVE  RequestInv'
  <1>1. /\ at = "signing" /\ at' = "login" /\ hqUser' = u
        /\ UNCHANGED <<strict, request, asking, known, failure, session, fresh, hops, upsets, owner>>
    BY DEF SignIn, rest, gVars, cookie
  <1>2. ~asking /\ ~failure /\ request.token = NoToken /\ request.method = "GET" /\ ~request.script
    BY <1>1, NotAsking DEF RequestInv, FailureIsKept, LoginByGet, AtLogin
  <1>3. TypeOK'
    BY <1>1, <1>2 DEF RequestInv, TypeOK
  <1>4. TokensByGet' /\ ScriptsExpectJson' /\ LoginByGet' /\ TokenLeavesAddress'
    BY <1>1, <1>2 DEF TokensByGet, ScriptsExpectJson, LoginByGet, TokenLeavesAddress
  <1>5. Passed' /\ PassedWithoutToken' /\ FailureIsKept'
    BY <1>1, <1>2 DEF Passed, PassedWithoutToken, FailureIsKept
  <1>6. RedirectsAhead'
    <2>1. hops = 0 /\ upsets = 0
      BY <1>1 DEF RequestInv, RedirectsAhead, Idle
    <2> QED  BY <1>1, <2>1 DEF RedirectsAhead, Ahead, Idle
  <1> QED  BY <1>3, <1>4, <1>5, <1>6 DEF RequestInv

LEMMA SignOutStep ==
    ASSUME RequestInv, SignOut
    PROVE  RequestInv'
  <1>1. /\ UNCHANGED <<strict, request, at, clickVars>> /\ hqUser' = NoUser
        /\ UNCHANGED <<asking, known, failure, session, fresh, owner>>
        /\ UNCHANGED <<shown, hops, upsets>>
    BY DEF SignOut, rest, gVars, cookie, clickVars
  <1>2. TypeOK' /\ Passed' /\ FailureIsKept'
    <2>1. Here' = Here /\ Hooked' = Hooked /\ NeedsUser' = NeedsUser /\ Gating' = Gating
      BY <1>1 DEF Here, Hooked, NeedsUser, Gating
    <2> QED  BY <1>1, <2>1 DEF RequestInv, TypeOK, Passed, FailureIsKept
  <1>3. Ahead' = Ahead
    BY <1>1 DEF Ahead, Good, Live
  <1> QED  BY <1>1, <1>2, <1>3, AheadIsSmall, LookStep

\* A session or a token that goes stale brings three redirects more at most.
LEMMA GoesStaleStep ==
    ASSUME RequestInv, GoesStale
    PROVE  RequestInv'
  <1>1. /\ at \notin Idle => upsets < MaxUpsets
        /\ upsets' = IF at \in Idle THEN upsets ELSE upsets + 1
        /\ UNCHANGED <<strict, request, at, asking, known, failure, session, shown, hops, hqUser>>
    BY DEF GoesStale, rest, gVars
  <1>2. owner \in [Tokens -> Users \cup {NoUser}] /\ fresh \in BOOLEAN
    BY DEF RequestInv, TypeOK
  <1>3. /\ owner' \in [Tokens -> Users \cup {NoUser}] /\ fresh' \in BOOLEAN
        /\ fresh' => fresh
        /\ \A t \in Tokens : owner'[t] # NoUser => owner[t] # NoUser
    <2>1. CASE fresh /\ fresh' = FALSE /\ UNCHANGED owner
      BY <1>2, <2>1
    <2>2. CASE \E t \in Tokens : owner[t] # NoUser /\ Spend(t) /\ UNCHANGED fresh
      BY <1>2, <2>2 DEF Spend
    <2> QED  BY <2>1, <2>2 DEF GoesStale
  <1>4. upsets \in Nat /\ upsets' \in 0..MaxUpsets /\ upsets' \in Nat
    <2>1. upsets \in 0..MaxUpsets
      BY DEF RequestInv, TypeOK
    <2> QED  BY <1>1, <2>1, UpsetAssumption
  <1>5. Here' = Here /\ Hooked' = Hooked /\ NeedsUser' = NeedsUser /\ Gating' = Gating
    BY <1>1 DEF Here, Hooked, NeedsUser, Gating
  <1>6. TypeOK'
    BY <1>1, <1>3, <1>4, <1>5 DEF RequestInv, TypeOK
  <1>7. Passed' /\ FailureIsKept'
    BY <1>1, <1>5 DEF RequestInv, Passed, FailureIsKept
  <1>8. RedirectsAhead'
    <2>1. CASE at \in Idle
      <3>1. hops' = 0 /\ upsets' = 0 /\ Ahead' = 0
        BY <1>1, <2>1 DEF RequestInv, RedirectsAhead, Ahead, Idle
      <3> QED  BY <3>1 DEF RedirectsAhead
    <2>2. CASE at \notin Idle
      <3>1. (Good' => Good) /\ (Live' => Live)
        BY <1>1, <1>3, RequestShape DEF Good, Live, RequestInv
      <3>2. Ahead' <= Ahead + 3 /\ Ahead' \in 0..4
        BY <1>1, <3>1 DEF Ahead
      <3>3. hops' = hops /\ upsets' = upsets + 1 /\ at' \notin Idle
        BY <1>1, <2>2
      <3>4. hops' + Ahead' <= 3 * (1 + upsets')
        BY <3>2, <3>3, Upset
      <3> QED  BY <3>3, <3>4, Zenon DEF RedirectsAhead
    <2> QED  BY <2>1, <2>2
  <1> QED  BY <1>1, <1>6, <1>7, <1>8, SameRequest DEF RequestInv

-----------------------------------------------------------------------------
(* The proxied write.                                                      *)

Proofs == INSTANCE HQProxy_proofs WITH at <- at_HQ, Bounded <- FALSE

\* What is shown of a write is none of the app's own pages.
LEMMA ShowWriteStep ==
    ASSUME IInv, NEW n \in 1..Attempts, ShowWrite(n)
    PROVE  IInv'
  <1>1. /\ at_HQ[n] = "answered" /\ at_HQ' = [at_HQ EXCEPT ![n] = "shown"]
        /\ page' = [page EXCEPT ![n] = Proxy!Shown(answer[n])]
        /\ at' = "reading" /\ Ends(page'[n]) /\ UNCHANGED <<cookie, hqVars>>
    BY DEF ShowWrite, Proxy!Show
  <1>2. at = "proxied"
    BY <1>1 DEF IInv, WriteInTurn, UnderWay
  <1>3. ~asking /\ ~failure
    BY <1>2 DEF IInv, RequestInv, TypeOK, NeedsUser, FailureIsKept
  <1>4. Proxy!Shown(answer[n]) \notin {"page", "forbidden"}
    BY DEF Proxy!Shown
  <1>5. page'[n] \notin {"page", "forbidden"} /\ DOMAIN page' = 1..Attempts
    BY <1>1, <1>4 DEF IInv, WriteInTurn
  <1>6. session' \in Users \cup {NoUser} /\ fresh' \in BOOLEAN
    BY <1>1 DEF cookie, IInv, RequestInv, TypeOK
  <1>7. RequestInv'
    <2> DEFINE what == page'[n]
    <2>1. Ends(what) /\ what \notin {"page", "forbidden"}
      BY <1>1, <1>5
    <2> HIDE DEF what
    <2> QED  BY <1>1, <1>3, <1>6, <2>1, EndStep DEF IInv
  <1>8. \A m \in 1..Attempts : ~UnderWay(m)'
    BY <1>1 DEF IInv, WriteInTurn, UnderWay
  <1>9. at_HQ' \in [1..Attempts -> {"idle", "sent", "answered", "shown"}]
    BY <1>1 DEF IInv, WriteInTurn
  <1> QED  BY <1>5, <1>7, <1>8, <1>9 DEF IInv, WriteInTurn

LEMMA SendWriteStep ==
    ASSUME IInv, NEW n \in 1..Attempts, ViewFeedback(n)
    PROVE  IInv'
  <1>1. /\ at = "view" /\ at' = "proxied"
        /\ at_HQ' = [at_HQ EXCEPT ![n] = "sent"] /\ UNCHANGED page
    BY DEF ViewFeedback, Proxy!Post
  <1>2. \A m \in 1..Attempts : ~UnderWay(m)
    BY <1>1 DEF IInv, WriteInTurn
  <1>3. \A m \in 1..Attempts \ {n} : ~UnderWay(m)'
    BY <1>1, <1>2 DEF IInv, WriteInTurn, UnderWay
  <1>4. WriteInTurn'
    BY <1>1, <1>3 DEF IInv, WriteInTurn
  <1> QED  BY <1>4, ViewFeedbackStep DEF IInv

LEMMA HQAnswersWriteStep ==
    ASSUME IInv, NEW n \in 1..Attempts, HQAnswersWrite(n)
    PROVE  IInv'
  <1>1. UNCHANGED appVars /\ at' = at
    BY DEF HQAnswersWrite, appVars
  <1>2. at_HQ[n] = "sent" /\ at_HQ' = [at_HQ EXCEPT ![n] = "answered"] /\ page' = page
    BY DEF HQAnswersWrite, Proxy!Answered, Proxy!Unanswered, Proxy!TurnedAway, Proxy!Return
  <1>3. \A m \in 1..Attempts : UnderWay(m)' <=> UnderWay(m)
    BY <1>2 DEF IInv, WriteInTurn, UnderWay
  <1>4. at_HQ' \in [1..Attempts -> {"idle", "sent", "answered", "shown"}]
    BY <1>2 DEF IInv, WriteInTurn
  <1>5. WriteInTurn'
    BY <1>1, <1>2, <1>3, <1>4 DEF IInv, WriteInTurn
  <1> QED  BY <1>1, <1>5, AppStays DEF IInv

\* Everything else leaves the write alone, and what waits for it waits on.
LEMMA WriteWaits ==
    ASSUME IInv, UNCHANGED <<at_HQ, page>>, at = "proxied" => at' = "proxied"
    PROVE  WriteInTurn'
  <1>1. \A m \in 1..Attempts : UnderWay(m)' <=> UnderWay(m)
    BY DEF UnderWay
  <1> QED  BY <1>1 DEF IInv, WriteInTurn

-----------------------------------------------------------------------------
(* The theorems.                                                           *)

LEMMA InitIInv == Init => IInv
  <1> SUFFICES ASSUME Init
               PROVE  IInv
    OBVIOUS
  <1>1. request = [route |-> "page", method |-> "GET", script |-> FALSE, token |-> NoToken]
    BY DEF Init
  <1>2. TypeOK
    <2>1. request \in [route: Routes, method: {"GET", "POST"}, script: BOOLEAN,
                      token: Tokens \cup {NoToken}]
      BY <1>1 DEF Routes, Pages
    <2>2. owner \in [Tokens -> Users \cup {NoUser}]
      BY DEF Init
    <2>3. at = "reading" /\ asking = FALSE /\ hops = 0 /\ upsets = 0
      BY DEF Init
    <2>4. /\ strict \in BOOLEAN /\ failure \in BOOLEAN /\ fresh \in BOOLEAN
          /\ known \in Users \cup {NoUser, Unset}
          /\ session \in Users \cup {NoUser} /\ hqUser \in Users \cup {NoUser}
      BY DEF Init
    <2>5. hops \in Nat /\ upsets \in 0..MaxUpsets /\ at \in Idle
      BY <2>3, UpsetAssumption DEF Idle
    <2>6. asking \in BOOLEAN /\ ~asking
      BY <2>3
    <2> QED  BY <2>1, <2>2, <2>4, <2>5, <2>6, Zenon DEF TypeOK
  <1>3. TokensByGet /\ ScriptsExpectJson /\ LoginByGet /\ TokenLeavesAddress
    BY <1>1 DEF Init, TokensByGet, ScriptsExpectJson, LoginByGet, AtLogin, TokenLeavesAddress
  <1>4. Passed /\ PassedWithoutToken /\ FailureIsKept
    BY DEF Init, Passed, PassedWithoutToken, FailureIsKept
  <1>5. RedirectsAhead
    BY DEF Init, RedirectsAhead, Ahead
  <1>6. WriteInTurn
    BY DEF Init, Proxy!Init, Proxy!Nth, WriteInTurn, UnderWay
  <1> QED  BY <1>2, <1>3, <1>4, <1>5, <1>6 DEF IInv, RequestInv

\* The steps of the browser, of the app and of HQ's login, without the write's.
OwnStep ==
    \/ Person \/ GoesStale
    \/ Recall \/ Forget \/ Confirm \/ Deny \/ DenyGood \/ Fail
    \/ TurnAway \/ CleanUp \/ PassHook \/ PassGuard \/ CheckCsrf
    \/ ViewPage \/ ViewApps \/ ViewValidate \/ ViewLogout \/ TooLarge
    \/ LoginReturns \/ LoginAsks

LEMMA NextSteps ==
    ASSUME Next
    PROVE  \/ OwnStep
           \/ \E n \in 1..Attempts :
                 ViewFeedback(n) \/ HQAnswersWrite(n) \/ ShowWrite(n) \/ ApplyWrite(n)
  BY DEF Next, Step, OwnStep

LEMMA PersonStep ==
    ASSUME RequestInv, Person
    PROVE  RequestInv'
  BY VisitStep, SubmitStep, FetchStep, SignInStep, SignOutStep DEF Person

LEMMA OwnStepKeepsRequestInv ==
    ASSUME RequestInv, OwnStep
    PROVE  RequestInv'
  BY PersonStep, GoesStaleStep, RecallStep, ForgetStep, ConfirmStep, DenyStep,
     DenyGoodStep, FailStep, TurnAwayStep, CleanUpStep, PassHookStep, PassGuardStep, CheckCsrfStep, ViewPageStep,
     ViewAppsStep, ViewValidateStep, ViewLogoutStep, TooLargeStep, LoginReturnsStep,
     LoginAsksStep
  DEF OwnStep

LEMMA OwnStepWaits ==
    ASSUME OwnStep
    PROVE  UNCHANGED proxyVars /\ (at = "proxied" => at' = "proxied")
  <1>1. CASE Person
    BY <1>1 DEF Person, Visit, Submit, Fetch, Click, SignIn, SignOut, Idle, rest
  <1>2. CASE GoesStale \/ Recall \/ Forget
    BY <1>2 DEF GoesStale, Recall, Forget, rest
  <1>3. CASE Confirm \/ Deny \/ DenyGood \/ Fail
    BY <1>3 DEF Confirm, Deny, DenyGood, Fail, Answered, rest
  <1>4. CASE TurnAway \/ CleanUp \/ PassHook \/ PassGuard \/ CheckCsrf
    BY <1>4 DEF TurnAway, CleanUp, PassHook, PassGuard, CheckCsrf, Gating, Show, Goto,
                AllElse, rest
  <1>5. CASE ViewPage \/ ViewApps \/ ViewLogout \/ TooLarge
    BY <1>5 DEF ViewPage, ViewApps, ViewLogout, TooLarge, Show
  <1>6. CASE ViewValidate
    <2>1. at = "view" /\ \E what : Show(what)
      BY <1>6 DEF ViewValidate
    <2> QED  BY <2>1 DEF Show
  <1>7. CASE LoginReturns \/ LoginAsks
    BY <1>7 DEF LoginReturns, LoginAsks, rest
  <1> QED  BY <1>1, <1>2, <1>3, <1>4, <1>5, <1>6, <1>7 DEF OwnStep

LEMMA NextKeepsIInv ==
    ASSUME IInv, [Next]_vars
    PROVE  IInv'
  <1>1. CASE OwnStep
    <2>1. RequestInv'
      BY <1>1, OwnStepKeepsRequestInv DEF IInv
    <2>2. WriteInTurn'
      BY <1>1, OwnStepWaits, WriteWaits DEF proxyVars
    <2> QED  BY <2>1, <2>2 DEF IInv
  <1>2. ASSUME NEW n \in 1..Attempts, ApplyWrite(n)
        PROVE  IInv'
    <2>1. UNCHANGED appVars /\ at' = at /\ UNCHANGED <<at_HQ, page>>
      BY <1>2 DEF ApplyWrite, Proxy!Apply, appVars
    <2> QED  BY <2>1, AppStays, WriteWaits DEF IInv
  <1>3. CASE UNCHANGED vars
    <2>1. UNCHANGED appVars /\ at' = at /\ UNCHANGED <<at_HQ, page>>
      BY <1>3 DEF vars, appVars, proxyVars
    <2> QED  BY <2>1, AppStays, WriteWaits DEF IInv
  <1> QED
    BY <1>1, <1>2, <1>3, NextSteps, SendWriteStep, HQAnswersWriteStep, ShowWriteStep

LEMMA InvariantHolds == Spec => []IInv
  BY InitIInv, NextKeepsIInv, PTL DEF Spec

\* A request, its gates and the cookie are typed; HQ is asked only where the user is
\* needed, about a token.
THEOREM TypeCorrect == Spec => []TypeOK
  <1>1. IInv => TypeOK
    BY DEF IInv, RequestInv
  <1> QED  BY InvariantHolds, <1>1, PTL

\* With any users, tokens and number of upsets, a click costs three redirects and
\* three for each upset: _auth_failure, HQ's login and the clean address send a browser
\* round for stale sessions and for good tokens denied, and for nothing else.
THEOREM RedirectsEnd == Spec => []RedirectsBounded
  <1>1. IInv => RedirectsBounded
    <2> SUFFICES ASSUME IInv
                 PROVE  RedirectsBounded
      OBVIOUS
    <2>1. hops \in Nat /\ upsets \in Nat /\ hops + Ahead <= 3 * (1 + upsets) /\ Ahead \in Nat
      BY CountersShape, AheadIsSmall DEF IInv
    <2>2. \A h, u, a \in Nat : h + a <= 3 * (1 + u) => h <= 3 * (1 + u)
      OBVIOUS
    <2> QED  BY <2>1, <2>2, Zenon DEF RedirectsBounded
  <1> QED  BY InvariantHolds, <1>1, PTL

\* What a gated page shows, and HQ's login, is never at an address with a token
\* (_current_url_without_aj_token).
THEOREM TokensLeave == Spec => []TokenLeavesAddress
  <1>1. IInv => TokenLeavesAddress
    BY DEF IInv, RequestInv
  <1> QED  BY InvariantHolds, <1>1, PTL

\* A script that may expect JSON gets it, from the hook or the guard.
THEOREM FetchesStay == Spec => []FetchesStayInApp
  <1>1. IInv => FetchesStayInApp
    BY DEF IInv, RequestInv, FetchesStayInApp, LoginByGet
  <1> QED  BY InvariantHolds, <1>1, PTL

\* A failure of HQ on the way of a request is what the browser is told of.
THEOREM OutagesAreTold == Spec => []OutageIsTold
  <1>1. IInv => OutageIsTold
    BY DEF IInv, RequestInv, OutageIsTold, FailureIsKept, AtLogin
  <1> QED  BY InvariantHolds, <1>1, PTL

\* What the gated route does to a write is what HQProxy says, step by step.
LEMMA StepsAreProxys ==
    ASSUME [Next]_vars
    PROVE  [Proxy!Next]_Proxy!vars
  <1>1. CASE OwnStep \/ UNCHANGED vars
    BY <1>1, OwnStepWaits DEF proxyVars, Proxy!vars, vars
  <1>2. CASE \E n \in 1..Attempts :
                ViewFeedback(n) \/ HQAnswersWrite(n) \/ ShowWrite(n) \/ ApplyWrite(n)
    BY <1>2 DEF ViewFeedback, HQAnswersWrite, ShowWrite, ApplyWrite, Proxy!Next, Proxy!Nth
  <1> QED  BY <1>1, <1>2, NextSteps

\* The application implements HQProxy, whatever its gates, sessions and logins do.
THEOREM WritesAreProxys == Spec => Proxy!Spec
  <1>1. Init => Proxy!Init
    BY DEF Init
  <1> QED  BY <1>1, StepsAreProxys, PTL DEF Spec, Proxy!Spec

\* The two instances of HQProxy, the module's and its proofs', say the same.
LEMMA SameProxy == Proxy!Spec => Proofs!Spec
  BY DEF Proxy!Spec, Proofs!Spec, Proxy!vars, Proofs!vars, Proxy!Nth, Proofs!Nth,
         Proxy!Init, Proofs!Init, Proxy!NoAnswer, Proofs!NoAnswer,
         Proxy!Next, Proofs!Next, Proxy!Post, Proofs!Post, Proxy!MayPost, Proofs!MayPost,
         Proxy!Apply, Proofs!Apply, Proxy!Answered, Proofs!Answered,
         Proxy!Unanswered, Proofs!Unanswered, Proxy!TurnedAway, Proofs!TurnedAway,
         Proxy!Return, Proofs!Return, Proxy!Show, Proofs!Show, Proxy!Shown, Proofs!Shown,
         Proxy!Refs, Proofs!Refs

\* Over the client that core_client makes, a person who tries again only upon "failed",
\* HQ's own 4xx, has a gated write carried out once.
THEOREM GatedWriteAppliesOnce ==
    ASSUME Attempts \in Nat, Statuses \subseteq 200..599, RetriesOn = {"failed"}
    PROVE  Spec => []AppliedAtMostOnce
  <1>1. Proofs!Spec => []Proofs!AppliedAtMostOnce
    BY Proofs!CautiousWriteAppliesOnce
  <1>2. Proofs!AppliedAtMostOnce => AppliedAtMostOnce
    BY DEF AppliedAtMostOnce, Proxy!AppliedAtMostOnce, Proofs!AppliedAtMostOnce,
           Proxy!Nth, Proofs!Nth, Proxy!Cardinality, Proofs!Cardinality
  <1> QED  BY WritesAreProxys, SameProxy, <1>1, <1>2, PTL

\* What the gated route is told of its writes by the client that core_client makes is
\* what DependencyCall promises, a 5xx saying nothing of the outcome, whatever the person
\* does and however often sessions and tokens go stale meanwhile.
THEOREM GatedClientIsTruthful ==
    ASSUME Attempts \in Nat, Statuses \subseteq 200..599
    PROVE  Spec => ClientKeepsPromise
  <1>1. Proofs!Spec => Proofs!ClientKeepsPromise
    BY Proofs!ClientIsTruthful
  <1>2. Proofs!ClientKeepsPromise => ClientKeepsPromise
    BY DEF ClientKeepsPromise, Proxy!ClientKeepsPromise, Proofs!ClientKeepsPromise,
           Proxy!Told, Proofs!Told, Proxy!Says, Proofs!Says, Proxy!LeavesOpen,
           Proofs!LeavesOpen, Proxy!Nth, Proofs!Nth,
           Proxy!Dependency!DepSpec, Proofs!Dependency!DepSpec,
           Proxy!Dependency!DepInit, Proofs!Dependency!DepInit,
           Proxy!Dependency!DepNext, Proofs!Dependency!DepNext,
           Proxy!Dependency!depVars, Proofs!Dependency!depVars, Proxy!Dependency!Begin,
           Proofs!Dependency!Begin, Proxy!Dependency!TurnAway,
           Proofs!Dependency!TurnAway, Proxy!Dependency!Commit,
           Proofs!Dependency!Commit, Proxy!Dependency!Tell, Proofs!Dependency!Tell,
           Proxy!Dependency!Finish, Proofs!Dependency!Finish,
           Proxy!Dependency!Truthful, Proofs!Dependency!Truthful,
           Proxy!Dependency!Working, Proofs!Dependency!Working,
           Proxy!Dependency!Cardinality, Proofs!Dependency!Cardinality
  <1> QED  BY WritesAreProxys, SameProxy, <1>1, <1>2, PTL
=============================================================================
