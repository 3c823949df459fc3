------------------------- MODULE CoreConfiguration -------------------------
(***************************************************************************)
(* aj_shared.flask_config: where each Flask app of a process finds HQ, and *)
(* with which key, and aj_shared.contract, the route that HQ opens with    *)
(* that key.                                                               *)
(*                                                                         *)
(* Start-up code registers the apps in an order of its own, and loads the  *)
(* environment (a .env file, say) somewhere in between.  The requests that *)
(* follow run in threads, with no lock around the configuration that they  *)
(* make, if start-up did not, or around the client that they add to it.    *)
(***************************************************************************)
CONSTANTS
    Apps,      \* Flask apps of the process
    Requests,  \* requests, each in a thread of its own
    Hosts,     \* base URLs, as they read without trailing slashes
    Absolute,  \* those of them that HQClient takes for absolute
    Default,   \* the base URL that is built in
    Secrets,   \* values of PLATFORM_SECRET
    Blank,     \* an empty PLATFORM_SECRET
    None       \* not there: None, or a variable that is not set

VARIABLES
    phase,     \* of the process
    env,       \* os.environ
    settings,  \* app.config of each app
    asked,     \* the hq_base that register_proxy was called with, None if not
    routed,    \* apps with a contract route
    core,      \* app.extensions['aj_core']: which object it is
    objects,   \* CoreConfiguration objects, by the app or request that made them
    request,   \* where each request stands
    app,       \* the app it is for
    url,       \* the base of the URL it made
    answer,    \* what came of it
    used       \* the client that asked HQ for it, or the key it presented

coreVars ==
    <<phase, env, settings, asked, routed, core, objects, request, app, url, answer, used>>
startVars == <<env, settings, asked, routed>>

Places == [base : Hosts \cup {None}, secret : Secrets \cup {Blank, None}]
Nowhere == [base |-> None, secret |-> None]

Clients == [base : Hosts \cup {None}, key : Secrets \cup {Blank}]
Cores == [base : Hosts, secret : Secrets \cup {Blank}, client : Clients \cup {None}]

ASSUME PlaceAssumption ==
    /\ Absolute \subseteq Hosts /\ Default \in Hosts
    /\ Blank \notin Secrets
    /\ None \notin Hosts \cup Secrets \cup {Blank}

\* Objects are named by their makers; None is no name of one, and no object.
ASSUME ObjectAssumption ==
    /\ Apps \cap Requests = {}
    /\ {"idle", "unconfigured", "based", "done"} \cap (Apps \cup Requests) = {}
    /\ None \notin Apps \cup Requests \cup Clients \cup Cores

\* rstrip('/') of a base URL as it was written, with slashes or without.
Written == [host : Hosts, slashes : BOOLEAN]
Stripped(w) == w.host

\* HQClient(base_url, platform_secret) raises ValueError for any other.
Usable(c) == c.base \in Absolute /\ c.secret # Blank

First(a, b) == IF a # None THEN a ELSE b

\* Mutant: no empty key in place of one that is nowhere set.
NewCoreNoDefault(a, b) ==
    [base |-> First(b, First(settings[a].base, First(env.base, Default))),
     secret |-> First(settings[a].secret, env.secret),
     client |-> None]

\* The snapshot that configure_core takes for the app a, asked for the base b.
NewCore(a, b) ==
    [base |-> First(b, First(settings[a].base, First(env.base, Default))),
     secret |-> First(settings[a].secret, First(env.secret, Blank)),
     client |-> None]

-----------------------------------------------------------------------------
CoreInit ==
    /\ phase = "starting"
    /\ env = Nowhere
    /\ settings = [a \in Apps |-> Nowhere]
    /\ asked = [a \in Apps |-> None]
    /\ routed = {}
    /\ core = [a \in Apps |-> None]
    /\ objects = [m \in Apps \cup Requests |-> None]
    /\ request = [t \in Requests |-> "idle"]
    /\ app \in [Requests -> Apps]
    /\ url = [t \in Requests |-> None]
    /\ answer = [t \in Requests |-> "none"]
    /\ used = [t \in Requests |-> None]

(* Start-up.                                                               *)

requestVars == <<request, app, url, answer, used>>

LoadEnvironment ==
    /\ phase = "starting"
    /\ env = Nowhere
    /\ env' \in Places
    /\ UNCHANGED <<phase, settings, asked, routed, core, objects, requestVars>>

\* app.config.update(...), at any time: once per app, to bound the model.
Configure(a) ==
    /\ phase = "starting"
    /\ settings[a] = Nowhere
    /\ \E p \in Places : settings' = [settings EXCEPT ![a] = p]
    /\ UNCHANGED <<phase, env, asked, routed, core, objects, requestVars>>

\* Mutant: an app that is configured stays as it is, whatever base it is given.
ConfigureCoreSilently(a, b) ==
    IF core[a] # None
    THEN UNCHANGED <<phase, core, objects>>
    ELSE /\ core' = [core EXCEPT ![a] = a]
         /\ objects' = [objects EXCEPT ![a] = NewCore(a, b)]
         /\ UNCHANGED phase

\* Mutant: the base that an app is given last wins.
ConfigureCoreAnew(a, b) ==
    IF core[a] # None /\ b \in {None, objects[core[a]].base}
    THEN UNCHANGED <<phase, core, objects>>
    ELSE /\ core' = [core EXCEPT ![a] = a]
         /\ objects' = [objects EXCEPT ![a] = NewCore(a, b)]
         /\ UNCHANGED phase

\* configure_core(app, base_url) by start-up code; its ValueError ends the process.
ConfigureCore(a, b) ==
    IF core[a] # None
    THEN /\ phase' = IF b \notin {None, objects[core[a]].base} THEN "failed" ELSE phase
         /\ UNCHANGED <<core, objects>>
    ELSE /\ core' = [core EXCEPT ![a] = a]
         /\ objects' = [objects EXCEPT ![a] = NewCore(a, b)]
         /\ UNCHANGED phase

\* register_proxy(app, hq_base=...): Flask lets the blueprint be registered once.
RegisterProxy(a) ==
    /\ phase = "starting"
    /\ a \notin routed
    /\ \/ ConfigureCore(a, None) /\ UNCHANGED asked
       \/ \E w \in Written :
             ConfigureCore(a, Stripped(w)) /\ asked' = [asked EXCEPT ![a] = Stripped(w)]
    /\ routed' = routed \cup {a}
    /\ UNCHANGED <<env, settings, requestVars>>

RequireAuthByDefault(a) ==
    /\ phase = "starting"
    /\ ConfigureCore(a, None)
    /\ UNCHANGED <<startVars, requestVars>>

Serve ==
    /\ phase = "starting"
    /\ phase' = "serving"
    /\ UNCHANGED <<startVars, core, objects, requestVars>>

-----------------------------------------------------------------------------
(* Requests that put a question to HQ: _hq_get and _request_json.          *)

Go(t, p) == request' = [request EXCEPT ![t] = p] /\ UNCHANGED <<phase, startVars, app>>

End(t, result, c) ==
    /\ answer' = [answer EXCEPT ![t] = result]
    /\ used' = [used EXCEPT ![t] = c]
    /\ Go(t, "done")
    /\ UNCHANGED <<core, url>>

\* core_config().base_url; a request that finds no configuration makes one.
FindBase(t) ==
    /\ phase = "serving"
    /\ request[t] = "idle"
    /\ IF core[app[t]] = None
       THEN Go(t, "unconfigured") /\ UNCHANGED url
       ELSE Go(t, "based") /\ url' = [url EXCEPT ![t] = objects[core[app[t]]].base]
    /\ UNCHANGED <<core, objects, answer, used>>

\* The configuration goes in the app, over that of a request that was faster.
StoreCore(t) ==
    /\ request[t] = "unconfigured"
    /\ core' = [core EXCEPT ![app[t]] = t]
    /\ objects' = [objects EXCEPT ![t] = NewCore(app[t], None)]
    /\ url' = [url EXCEPT ![t] = objects'[t].base]
    /\ Go(t, "based")
    /\ UNCHANGED <<answer, used>>

\* The URL must begin with the base of now; then core_client() looks for a client.
SeekClient(t) ==
    /\ request[t] = "based"
    /\ LET c == objects[core[app[t]]] IN
       IF c.base # url[t] THEN End(t, "unexpected destination", None)
       ELSE IF c.client # None THEN End(t, "asked", c.client)
       ELSE IF ~Usable(c) THEN End(t, "missing configuration", None)
       ELSE Go(t, core[app[t]]) /\ UNCHANGED <<core, url, answer, used>>
    /\ UNCHANGED objects

\* Mutant: the client has the key of the environment.
KeepClientOfEnv(t) ==
    /\ request[t] \in Apps \cup Requests
    /\ LET c == objects[request[t]]
           client == [base |-> c.base, key |-> First(env.secret, c.secret)]
       IN  /\ objects' = [objects EXCEPT ![request[t]].client = client]
           /\ End(t, "asked", client)

\* A client is made for the configuration that had none, over one made meanwhile;
\* it asks HQ at its base, with its key.
KeepClient(t) ==
    /\ request[t] \in Apps \cup Requests
    /\ LET c == objects[request[t]]
           client == [base |-> c.base, key |-> c.secret]
       IN  /\ objects' = [objects EXCEPT ![request[t]].client = client]
           /\ End(t, "asked", client)

\* GET /api/contract, with a key or none in X-AJ-Key.
Contract(t) ==
    /\ phase = "serving"
    /\ request[t] = "idle"
    /\ app[t] \in routed
    /\ \E k \in Secrets \cup {Blank} :
          End(t, IF env.secret \in Secrets /\ k = env.secret THEN "opened" ELSE "refused",
              [base |-> None, key |-> k])
    /\ UNCHANGED objects

-----------------------------------------------------------------------------
CoreNext ==
    \/ LoadEnvironment
    \/ \E a \in Apps : Configure(a) \/ RegisterProxy(a) \/ RequireAuthByDefault(a)
    \/ Serve
    \/ \E t \in Requests :
          FindBase(t) \/ StoreCore(t) \/ SeekClient(t) \/ KeepClient(t) \/ Contract(t)

CoreSpec == CoreInit /\ [][CoreNext]_coreVars

-----------------------------------------------------------------------------
CoreTypeOK ==
    /\ phase \in {"starting", "serving", "failed"}
    /\ env \in Places
    /\ settings \in [Apps -> Places]
    /\ asked \in [Apps -> Hosts \cup {None}]
    /\ routed \subseteq Apps
    /\ core \in [Apps -> Apps \cup Requests \cup {None}]
    /\ objects \in [Apps \cup Requests -> Cores \cup {None}]
    /\ request \in [Requests -> {"idle", "unconfigured", "based", "done"} \cup Apps \cup Requests]
    /\ app \in [Requests -> Apps]
    /\ url \in [Requests -> Hosts \cup {None}]
    /\ answer \in [Requests -> {"none", "unexpected destination", "missing configuration",
                               "asked", "opened", "refused"}]
    /\ used \in [Requests -> Clients \cup {None}]

Snapshot(a) ==
    IF core[a] = None THEN Nowhere
    ELSE [base |-> objects[core[a]].base, secret |-> objects[core[a]].secret]

\* An app that has a destination and a key keeps them, though it is registered and
\* guarded in any order, its settings and the environment change, and requests that
\* found it without a configuration store one over another's.
SnapshotStays == [][\A a \in Apps : core[a] # None => Snapshot(a)' = Snapshot(a)]_coreVars

\* Every request is put to the destination of its app with the key of its app, or
\* told that the app has none, whichever request's configuration and client it gets.
RequestsFollowSnapshot ==
    \A t \in Requests :
        LET s == Snapshot(app[t]) IN
        answer[t] \in {"asked", "missing configuration", "unexpected destination"} =>
           IF s.base \in Absolute /\ s.secret \in Secrets
           THEN answer[t] = "asked" /\ used[t] = [base |-> s.base, key |-> s.secret]
           ELSE answer[t] = "missing configuration"

\* A process that starts sends no app elsewhere than the registration asked for: a
\* guard, or a registration, that came first and chose another base ends it.
AskedBaseIsUsed ==
    phase # "failed" => \A a \in Apps : asked[a] # None => Snapshot(a).base = asked[a]

\* HQ's key, which the app itself sends with its requests, opens its contract route.
ContractOpensToHQ ==
    \A t \in Requests :
        answer[t] = "refused" /\ used[t].key \in Secrets => used[t].key # Snapshot(app[t]).secret
=============================================================================
