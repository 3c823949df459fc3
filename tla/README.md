# aj-shared: models, checks and proofs

`aj-shared` is the Python package that every AJ application installs. It has no
process of its own. Its concurrency is that of its users: threads of a Flask
server that share a transport or a limiter, daemon threads that outlive the call
that made them, overlapping requests of one browser that carry copies of one
cookie session, and HQ, the other side of every call, which may apply a write
after everyone has stopped waiting for it. These modules model that core, check
it with TLC on small instances, and prove its safety properties with TLAPS for
every size.

Paths below are relative to the repository; line numbers are in `PROJECT.json`
under `map`, `hazards` and `findings`.

## 1. Inventory

| Component | State | Operations | What makes it correct |
|---|---|---|---|
| Bounded transport (`aj_shared/transport.py`) | semaphore of `capacity` slots; per call a one-place queue, a deadline, a daemon thread | `request` and its worker `run` | slots are neither lost nor returned twice; a caller always comes back; what it is told about a write is true and stays true |
| HQ client (`hq_client.py`) | base URL, secret, session, optional transport | `_request`, `get_json`, `post_json`, `post_multipart`, Core wrappers | one response for every failure; redirects and oversized bodies refused |
| Flask proxy (`aj_proxy.py`) | none of its own | GET and POST routes, logout, `_request_json` | failures shown truthfully; logout ends the session |
| Flask session cache (`aj_auth.py`, `identity.py`) | `_aj_user`, `_aj_user_cached_at` in the cookie session; `g._aj_user` | `_get_or_validate_user`, `_validate_with_hq`, `require_auth`, `require_auth_by_default`, `csrf_protect` | nobody is served long after signing out of HQ; deny by default |
| Rate limiter (`aj_auth.py`) | `_hits`: key to timestamps | `check`, `rate_limited` | at most `max_calls` in any window; no call refused without cause |
| Job records (`suite.py`) | none; records in, records out | `start_job`, `finish_job`, `interrupt_stale_job`, `validate_job` | recorded freshness is real and only advances; runs end |
| Audited write (`suite.py`) | the caller's transaction | `record_audited_write` | a write is committed with its audit record or not at all; an exception means that it is not, as far as the helper can know |
| FastAPI integration (`fastapi_integration.py`) | signed cookie session, CSRF nonce | middleware, `_validate_token`, `_session_user`, `require_csrf`, routes | as for Flask; a form is carried out as the person it was rendered for |
| Core configuration (`flask_config.py`) | `app.extensions['aj_core']`: base, key, the client made on first use | `configure_core`, `core_config`, `core_client` | an app keeps one destination and one key; its requests go there |
| Contract route (`contract.py`) | none | `GET /api/contract` | opens to HQ's key |
| Contracts (`suite.py`, `status.py`) | none | `validate_status`, `validate_provenance`, `validate_attention`, `protected_read`, `emit_diagnostic` | fail closed; status, completeness and items agree |
| Runtime identity, adoption probe, compatibility script | none | read only | - |

How they interact: a Flask route asks `_get_or_validate_user` for the user. A
stale session with a token makes that call HQ through `core_client()`. A proxied
route calls HQ through `_request_json`, `HQClient._request` and, if the client
has a transport policy, `BoundedTransport.request`. The worker thread of the
transport talks back to the caller only through the queue, and to later callers
only through the semaphore.

What is hard here, and hard to test: a caller that times out while its worker
puts an answer; a worker that outlives its caller and owns a slot; a write
applied after it was reported; a thread that cannot be started; responses that
reach a browser in another order than their requests left; a logout in the
middle of that; redirects between application and HQ's login while sessions and
tokens go stale; two threads in an unlocked read-modify-write; start-up code in
an order nobody tried; a transaction that someone else has open, or a commit that
is not answered; records that overwrite one another; clocks that disagree. `PROJECT.json` lists each at its line.

## 2. Modules

| Module | Models | Correspondence |
|---|---|---|
| `DependencyCall` | what a transport promises | no threads, queues or clocks: a call begins, is told one thing, finishes; the write is committed whenever the dependency likes |
| `BoundedTransport` | `BoundedTransport.request`, caller and worker | `slots` is `_slots`; `pc` and `worker` are the two threads; `queue`, `expired`, `result` the locals; `reply`, `applied` belong to the dependency. One action per step another thread can see: `Acquire`, `Start`, `Get`, `TimeOut`, each `result.put` of `run`, and `Exit` for the `finally` block |
| `HQProxy` | `_request_json` over `HQClient._request` for a POST route | one record per attempt at one write; `Shown` is what the browser is shown. `Bounded` says whether the client has a transport; `core_client` (`flask_config.py:42`) never gives it one |
| `FlaskSession` | `_get_or_validate_user`, logout, the cookie | `jar` is the browser's cookie, `session[q]` the copy of it a request works on. `served`, `lastIn`, `overlap`, `out` record facts for the properties |
| `FastAPISession` | the middleware, `/auth/validate`, `/auth/logout`, `require_csrf` | as `FlaskSession`, with `forms` for pages left open in the browser; `logins` names each session's nonce; `LogIn` replaces session and nonce, `Ask` and the three HQ actions are `_validate_token` |
| `FlaskApp` | a person's way through the default-deny hook, `require_auth`, `csrf_protect`, the views, HQ's login and back | `request`, `at`: the one request under way and where it is; `known`, `failure` are `g._aj_user` and `g._aj_auth_failure`; `session`, `fresh` the cookie. The proxied write is an instance of `HQProxy` with the client of `core_client`, which has no transport |
| `CoreConfiguration` | `configure_core`, `core_config`, `core_client`, the contract route | `core[a]` says which object is in `app.extensions['aj_core']`, so that two requests can each store their own; `request[t]` says where the request of thread `t` stands, and `objects` what each has made |
| `RateLimiter` | `_RateLimiter.check` | sample the clock, copy the hits, decide and store |
| `JobRuns` | job records and the processes that use them | `Valid` is `validate_job` on times; `Start`, `Finish`, `Sweep` the three functions. They are pure: `mine` and `seen` are the copies that worker and sweep go by (`Reread`, `Look`), and storing is a later step; `succeeded` records which successes were ever stored |
| `AtomicWrite` | what an audited write promises | done or not done, told or not told |
| `AuditedWrite` | `record_audited_write` on the application's connections | `pending` is what is uncommitted on a connection, `store` what is committed; one action per call the helper makes and per way it can fail; over a connection to a server (`Remote`) the commit may raise (`CommitUnheard`) and the server decide later (`Settle`) |
| `Contracts` | `validate_status`, `validate_provenance`, `validate_attention` | one operator per validator, over a payload `offered` |
| `MC*` | instances | sets of model values, symmetry. `MCSuite` and `MCProcess` put components that share no state into one run: a behaviour takes up one of them (`CoreConfiguration` prefixes its `Init`, `Next` and `Spec` with `Core` for that) |
| `*_proofs` | theorems | see section 5 |

`BoundedTransport` is related to `DependencyCall` by the refinement mapping at its
end: a call is at work while it holds a slot, and is told what its result says of
the write. `AuditedWrite` is related to `AtomicWrite` likewise: a write is done when
its change is in the store. An exception raised before the commit, or by a local
commit, is "error" and of a write that is never stored. The exception of a commit
asked of a server is "doubt": nothing that runs here can tell whether the server
applied it, the helper passes it on like any other, and `AtomicWrite` allows it only
where there are servers (`Doubtful`).

`HQProxy` covers two clients. With a transport an answer not marked
`outcome_unknown` is true, which is what the transport promises. Without one, as in
every Flask application, nothing is marked: `_failure` makes a 502 of an exception or
a body it cannot use, and HQ's own 5xx is handed on. What such a client tells of a
write is then true in one reading only: a success is of an applied write, a 4xx of
one that HQ refused, and any 5xx leaves the outcome open (`LeavesOpen`). In that
reading it refines `DependencyCall` (`ClientKeepsPromise`, with a place for every
attempt). `_request_json` does not read it so: it says of every 502 that it is safe to
retry, see the run `proxied_write`.

Abstractions. Bodies, sizes and chunks are the tests the code makes on them, each
free to go either way. The deadline is one bit per call that turns true at any
time (`Expire`); the code's monotonic clock gives no more. A user is a name, a
token is the user it belongs to. HTTP statuses are one per path through the code.

In `AuditedWrite` a connection serves one call at a time and a callback does not
commit, as the helper's contract asks. `FlaskApp` has one request under way at a time
(overlap is `FlaskSession`); a token HQ issues again stands for a new one; HEAD is
GET; scripts fetch JSON and public routes, or any once the hook is installed. HQ may
deny a token that is good (`DenyGood`: a 4xx about something else, or a user that is
no dictionary), `MaxUpsets` times per click at most. In `JobRuns` "failed" stands for
"partial" and "cancelled" too. In `Contracts` a rule about one field is membership in a set,
and a field that only such a rule looks at is left out. In `CoreConfiguration` a base
URL is its spelling without trailing slashes, the environment is loaded once, each
`app.config` is set once, and `_request_json`'s comparison of the destination and
`core_client`'s look at the client are one step. A base that `HQClient` refuses
goes the way of a blank key, so the instance has only the latter.

The age of a FastAPI cookie (`max_age`) is left out: it is at least the age of the
identity in it, which `_session_user` checks for itself. Starlette's middleware may
or may not send back a session that did not change (`Cookies`): versions differ.
A script's request shows a header in place of the nonce and is not a form.

External parts, modelled from how the code uses them: the dependency (it applies
a write at most once, never after answering 3xx or 4xx, and never answers 2xx
without having applied it: `MayAnswer` and `HQProxy!Answered`; a 303 See Other to an
applied POST would make the transport's certain failure untrue), Flask's rule for sending the session
cookie (modified, or permanent), the browser, HQ's login, the job store and its
processes, the database and its callbacks, start-up code.

## 3. Runs

| Run | Bounds | Shows |
|---|---|---|
| `transport` | 2 writes, 1 read, capacity 2, statuses 200 302 404 503, threads may fail to start | slots accounted for, outcomes true, `put` never blocks, refinement of `DependencyCall` |
| `transport_progress` | 1 write, 1 read, capacity 1, statuses 200 401 403 429, threads start | a capacity refusal means busy; every call returns; capacity comes back |
| `transport_thread_fails` | the same, threads may fail to start | **violated**: slots are lost |
| `proxied_write` | 2 attempts, no transport, statuses 200 302 404 503, retry on "safe to retry" | **violated**: carried out twice |
| `flask_app` | 2 people, one an administrator; 2 tokens; 2 attempts at a write, no transport, statuses 200 302 404 502 503, retry on HQ's own 4xx only; per click one thing goes stale or one good token is denied | redirects bounded, tokens leave the address, outages told, clicks answered, a write at most once, what the route is told of it true (refinement of `DependencyCall`) |
| `flask_session` | 2 requests, 2 people, TTL 2, exchange at most 1, clock to 4 | stale identity bound, undisturbed logout sticks |
| `flask_logout` | the same | **violated**: a logout with a request under way does not stick |
| `fastapi_session` | 2 requests, 2 people, 2 logins, TTL 2, exchange at most 1, clock to 3 | forms keep their user, stale identity bound |
| `process` | limiter: 4 checks, 2 keys, 2 threads, 2 calls in 2 seconds, clock to 4; configuration: 2 apps, 2 requests, 2 bases, 2 keys | bound for keys whose checks do not overlap, no refusal without cause; one destination and key per app |
| `rate_limiter_threads` | the limiter's part | **violated**: overlapping checks admit too many |
| `suite` | 3 attempts, threshold 1, skew 1, clock to 5; 3 writes, one invalid, on a local connection and one to a server; about 49,000 payloads | freshness real and advancing, runs end; a write with its record, refinement of `AtomicWrite`; accepted snapshots agree with themselves |
| `contract_key` | 1 app, 1 request | **violated**: the contract route refuses the app's key |

Why the bounds are enough. Three calls on two slots are the least that has a
refusal beside two working calls, a timed-out worker beside a new call, and a
write of each fate; the proofs take over for the rest. Two requests are the least
that overlap, and the session holds one identity, so a third request meets what
two already made. A clock of twice the TTL lets an identity be cached, go stale
and be cached again; in `fastapi_session` the clock passes the TTL and an exchange, and
two logins are what it takes to have a form of one person and the cookie of another.
Two checks are the least that race; four exceed the limit
inside a window and once more after it. Three attempts give a success, a failure
after it, and a run that inherits through the failure; clock and skew let worker and
sweep each overwrite the other's record. One upset per click is the
least that breaks into a login; the bound on redirects is stated in upsets. A client
with a transport under `HQProxy` is covered by the theorems, which hold for both, and
by the runs of the transport itself. Two connections, local and remote, and three
writes have one write beside another and one after it. Two apps
show whether one is served from the other's configuration, and two requests race
for it; the payloads differ in what at least two rules look at.

Deadlock is not checked: every system here is a finite number of calls and comes
to rest; that nobody waits for ever is what the liveness properties say.

### Disagreements found

1. `transport.py:167`: if the thread cannot be started the slot is never returned.
2. `aj_proxy.py:151`: a 502 of a proxied write is always called safe to retry; over the
   client Flask applications have, every timeout of a write is such a 502.
3. `aj_proxy.py:254`: a response under way during the logout restores the session.
4. `aj_auth.py:237`: the limiter is not safe for two threads of the one process.
5. `contract.py:45`: the contract route reads the key from the environment, though
   the app was given it by `app.config`.

## 4. Fairness

`CallerSpec` assumes of a calling thread only that it runs and that time passes:
weak fairness of `CallerStep` and `Expire`, and nothing of the worker, because
the code's promise is that a worker may hang. `EveryCallReturns` holds on that.
`CapacityComesBack` is stated under `WorkerFairness`, which `requests`' connect
and read timeouts give for ordinary adapters; without it a hung worker keeps its
slot, as the documentation says. `JobRuns` assumes that time passes and that the
application sweeps, that is, reads each record that says "running" and stores what
`interrupt_stale_job` makes of it (`Look`, `Sweep`); nothing of the workers. `FlaskApp` assumes weak fairness of its
`Step`: the calls of HQ come back, because `requests` has timeouts, and the browser
follows redirects. Nothing is assumed of the person.

## 5. Proofs

The proofs are for every value of the constants under the named assumptions of the
modules: any set of calls, requests, people, writes and connections, any TTL, window
or threshold, any bound on the clock. The properties are those of the runs.

**Transport** (`BoundedTransport_proofs`: `TypeCorrect`, `SlotsAccounted`,
`NoWorkerStuck`, `OutcomesTruthful`, `RefusalsMeanBusy`, `TransportKeepsPromise`), for
every capacity in 1..32 and every set of statuses in 200..599, whether or not threads
start, and from `MayAnswer`. The inductive invariant is `IInv`: types, slot
accounting, and for each call `CallOK`. Truth of a result is not inductive by itself:
a result is taken from the queue, what is in the queue was put there for a status, and
the status constrains what the dependency may still do. `CallOK` therefore says of the
queue and of the result alike that they are final (`FinalFor`): an unmarked failure of
a write means that the write is not applied and, since either no request was sent or
the reply was 3xx or 4xx, never will be. It also ties `pc` and `worker` together, so
that the queue is empty while the worker can still answer. Slot accounting is a
cardinality: `AccountingStep` says that a step moves at most the call it is a step of
into or out of `Holders`, and the other calls' part of the invariant is carried by
`OthersStep` and `Frame`. The refinement rests on the same `IInv`: `Acquire` is a
`Begin` because the slots are accounted for, `Get` and `TimeOut` are a `Tell` because
what they return is final, `Apply` is a `Commit` because it is shut out once the
caller was told "failed", and the steps of the worker before `Exit` are stutters
(`UnseenStep`). `RefusalsMeanBusy` supposes that threads start (`~StartMayFail`),
without which the run `transport_thread_fails` is the counterexample. Then no call has
raised, so `Holders` is `Busy`, and no worker puts an answer that says "capacity"
(`NoneLost`): what says so comes from `Refuse`, which finds no permit left, and the
permits are accounted for.

**Proxied write** (`HQProxy_proofs`: `ClientIsTruthful`, `CautiousWriteAppliesOnce`), for
any number of attempts and any statuses in 200..599, for a client with a transport and
for one without (`Bounded` is either). `ClientInv` holds whatever the person does: only
an attempt that was made is applied, none that HQ refused, and a failure that leaves
nothing open is a refusal (`FailedIsRefused`). From it the refinement of
`DependencyCall` follows step by step: an answer is a `Tell` because its words fit what
HQ did and can still do (`TrueAnswer`). The second theorem adds a person who tries again
upon "failed" only, HQ's own 4xx; with "safe to retry" among the pages the run
`proxied_write` is the counterexample. Shown "failed" then means refused by HQ
(`PageIsRefused`), and all attempts before the current one were shown so
(`EarlierFailed`); hence at most the last can be applied.

**Flask session** (`FlaskSession_proofs`: `TypeCorrect`, `IdentityBounded`,
`LogoutAloneIsFinal`, `AgesKnown`). `AgeInv` dates each copy of a session, in the
browser and in every request, by its user's last moment at HQ; copying and late
responses cannot change that, and the TTL does the rest. `LogoutInv`: while a request
is alone its copy is the cookie (`CookieIsCurrent`), and after a logout alone no
request holds a user or a token (`Quiet`). Without `Quiet` the invariant would not
exclude a copy that is still to come back, which is what happens in `flask_logout`.

**FastAPI session** (`FastAPISession_proofs`: `TypeCorrect`, `IdentityBounded`,
`FormsKeepTheirUser`). The same `AgeInv`, and `NonceInv`: of all that bears a nonce -
cookie, copies, forms on pages and forms on their way - what bears the same nonce
bears the same user, and none bears one that no login has made. Types need a budget
of tokens (`Waiting`), since a login takes the next nonce.

**Limiter** (`RateLimiter_proofs`: `Invariance`, `TypeCorrect`,
`RefusalsAreJustified`, `SerialCallsAreLimited`, `OneThreadIsLimited`). `Shared` holds
whatever threads do: hits and copies are of calls that were admitted, so a full copy
is a reason to refuse. `SerialFacts` holds of a key without overlapping checks: what
its list has lost has left the window, for the clock and for the call in progress
(`MissingExpired`), so the copy is complete and a non-full copy a reason to admit.
With one thread no checks overlap (`NeverClashed`), so `WindowBound`, which the run
`rate_limiter_threads` refutes for two, then holds of every key.

**Flask app** (`FlaskApp_proofs`: `TypeCorrect`, `RedirectsEnd`, `TokensLeave`,
`FetchesStay`, `OutagesAreTold`, `WritesAreProxys`, `GatedWriteAppliesOnce`,
`GatedClientIsTruthful`), for any people, tokens and upsets per click. `RequestInv` is
a conjunction of named parts that need one another. That redirects end is not
inductive as a bound on `hops`, since the bound says nothing of how many are still to
come: `Ahead` ranks where a request is, what it knows of its user, and whether session
and token are still good, and `RedirectsAhead` bounds `hops + Ahead`. A redirect costs
one of those ahead (`Redirected`); an upset, something
gone stale or a good token denied, may add three, and `upsets` pays for them. The bound
is not absolute: a wrong application key makes HQ deny every token, and then there is
an upset on every way round.
`FailureIsKept` follows a failure of HQ from the call to the answer, `LoginByGet` says
in what state a browser goes to HQ's login, `PassedWithoutToken` that a token does not
come past hook and guard, `ScriptsExpectJson` which routes a script asks for (the
restriction of `Fetch`, without which a script on a page route would be redirected).
Every step of `FlaskApp` is a step of `HQProxy` or leaves it alone
(`WritesAreProxys`), so its theorems hold of gated writes too: `HQProxy_proofs` is
instantiated and cited, not repeated, under its own assumptions: about statuses and,
for `GatedWriteAppliesOnce`, about retries. The client there is the one without a
transport.

**Configuration** (`CoreConfiguration_proofs`: `CoreTypeCorrect`, `RequestsFollow`,
`AskedIsUsed`, `AppsStay`, `ContractOpensToEnvironment`), for any apps, requests,
bases and keys. What an app has may be replaced at any time by what a racing request
has made, so the invariant speaks of bases and keys, not of objects: every
configuration of an app is one that settings and environment gave it (`CoresMade`), a
client fits the configuration it is kept in (`ClientsFit`), and what a request holds
on to agrees with its app even when the app has something else by now (`Holds`). An
answer agrees with the app for good (`AnswerFits`) because no step changes base or key
(`SnapshotsKept`, which is `AppsStay`). The last theorem bounds the finding of
`contract_key`: an app without a key of its own in `app.config` has that of the
environment, set once (`KeysOfEnv`), and its contract route never refuses it.

The three parts of `suite.py` share no state; their proofs are in `Suite_proofs`.

**Jobs** (`JobTypesCorrect`, `FreshnessIsTruthful`, `SuccessOnlyAdvances`). What worker
and sweep store is made from copies, however old, so the invariant asks of every copy
what it asks of the stored record (`Copy`): it tells of the same start, and it is
`Truthful`. A record that has not succeeded hands on a success of an earlier attempt,
from before its own start, and one that has tells of its own. A record can be
overwritten, a success once stored cannot be undone, which is why the invariant
refers to `succeeded` and not to the other records. A success then lies after the start,
and what it replaces before it.

**Audited write** (`AuditTypesCorrect`, `WritesAreAudited`,
`NothingElseCommitted`, `AuditedWriteIsAtomic`), for local connections, servers and
both together. The properties are about the store; what goes in is what is pending, so
the invariant says whose that is (`OwnersOfPending`, `Exclusive`, `OwnStays`), for a
commit the server has yet to decide on too: its connection serves nobody else until
then (`Held`). The refinement of `AtomicWrite` is proved step by step: only a commit,
heard of or not, puts a write in the store, with its record, and what a caller is told
follows from where its call stands (`StoreFollows`). Where `Remote` is empty the
theorem leaves no doubt: every exception is of a write that is not stored.

**Contracts** (`TimestampIsInstant`, `ReadingsAlwaysAgree`), for every payload, from
`KindsAssumption` (what stands for a missing or a wrong value is none of the right
ones). `suite.timestamp` validates a time by building a status that is stale since then;
the first theorem says that this accepts the same times.

The inductive invariants of `FlaskApp`, `CoreConfiguration` and the others were checked
with TLC on the instances of the runs before they were proved. Every invariant and
every action property of a passing run is now a theorem. Only model-checked are the
properties that hold under fairness (`EveryCallReturns`, `CapacityComesBack`,
`EveryClickIsAnswered`, `RunsEnd`), since liveness is out of the prover's reach; and the
violated ones, which are false.

## 6. Not modelled

- `runtime_identity.py`, and the rules about the characters of one field (regular
  expressions, URL splitting): no state, one test each.
- `adoption.py`, `compatibility_ci.py`, the package surface: one validation of a
  fixture, a loop over test runs, re-exports.
- CORS, SQL SET clauses, headers, error pages, `emit_diagnostic`: string building.
- GET routes of the proxies: one call, one answer, passed on. `open_app` and
  `exclude_routes` take routes or gates away.
- Clocks that are set back (`time.time()` in the session and the limiter).
- The event loop that FastAPI's proxy routes block while they call HQ: a matter of
  how long, not of which state.

## 7. How the modules build on one another

`DependencyCall` is the promise that `BoundedTransport` keeps; `HQProxy` uses it of a
client with a transport and keeps it, up to `_request_json`, for its route with either
client, and `FlaskApp` builds on `HQProxy`. `AtomicWrite` is the promise that `AuditedWrite` keeps. `FlaskSession` and
`FlaskApp` are two views of the same gates: overlapping requests and one kind of page,
or one request at a time and every kind of route. `FastAPISession`, `RateLimiter`,
`JobRuns`, `CoreConfiguration` and `Contracts` stand alone.

What would add most to this: a logout property of `FastAPISession`, as `FlaskSession`
has it; the parts of the liveness properties that are safety (what keeps a step
possible until it is taken), as theorems; and `FlaskApp` with overlapping requests (its
state is then that of `FlaskSession` times that of each request).
