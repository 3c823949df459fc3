---------------------- MODULE CoreConfiguration_proofs ----------------------
(***************************************************************************)
(* Proofs about CoreConfiguration, for any apps and requests, bases and    *)
(* keys: types, that an app keeps its destination and key, that what is    *)
(* asked is asked there, and when the contract route opens to the key.     *)
(***************************************************************************)
EXTENDS CoreConfiguration, TLAPS

-----------------------------------------------------------------------------
(* The inductive invariant.  A request holds on to what it read: the base   *)
(* that its URL begins with, or the object that it makes a client for.      *)
(* Either may be replaced in the app meanwhile, so the invariant says that  *)
(* what replaces it has the same base and key.                              *)

Makers == Apps \cup Requests
SnapshotOf(c) == [base |-> c.base, secret |-> c.secret]

\* Start-up is over when requests come.
StartsFirst == phase = "starting" => \A t \in Requests : request[t] = "idle"

\* An app has a configuration of its own or of one of its requests, made from settings
\* and environment as start-up left them.
CoresMade ==
    \A a \in Apps : core[a] # None =>
        /\ objects[core[a]] # None
        /\ core[a] \in Apps => core[a] = a
        /\ core[a] \in Requests =>
              /\ app[core[a]] = a
              /\ request[core[a]] \notin {"idle", "unconfigured"}
              /\ SnapshotOf(objects[core[a]]) = SnapshotOf(NewCore(a, None))

\* A client is that of the configuration it is kept in.
ClientsFit ==
    \A m \in Makers : objects[m] # None /\ objects[m].client # None =>
        /\ Usable(objects[m])
        /\ objects[m].client = [base |-> objects[m].base, key |-> objects[m].secret]

\* What a request of a configured app holds agrees with the app.
Holds(t) ==
    /\ request[t] = "unconfigured" => core[app[t]] \notin Apps
    /\ request[t] = "based" =>
          core[app[t]] # None /\ url[t] = Snapshot(app[t]).base
    /\ request[t] \in Makers =>
          /\ core[app[t]] # None
          /\ objects[request[t]] # None
          /\ Usable(objects[request[t]])
          /\ SnapshotOf(objects[request[t]]) = Snapshot(app[t])
          /\ request[t] \in Requests => request[request[t]] \notin {"idle", "unconfigured"}

\* An answer comes last, and is RequestsFollowSnapshot's.
AnswerFits(t) ==
    /\ request[t] # "done" => answer[t] = "none"
    /\ answer[t] \in {"asked", "missing configuration", "unexpected destination"} =>
          /\ core[app[t]] # None
          /\ LET s == Snapshot(app[t]) IN
             IF s.base \in Absolute /\ s.secret \in Secrets
             THEN answer[t] = "asked" /\ used[t] = [base |-> s.base, key |-> s.secret]
             ELSE answer[t] = "missing configuration"

\* An app that was registered with a base has its configuration from start-up.
AskedIsKept ==
    \A a \in Apps : asked[a] # None =>
        core[a] = a /\ (phase # "failed" => Snapshot(a).base = asked[a])

\* What SnapshotStays says of a step.
SnapshotsKept == \A a \in Apps : core[a] # None => Snapshot(a)' = Snapshot(a)

IInv ==
    /\ CoreTypeOK
    /\ StartsFirst
    /\ CoresMade
    /\ ClientsFit
    /\ \A t \in Requests : Holds(t) /\ AnswerFits(t)
    /\ AskedIsKept

-----------------------------------------------------------------------------
(* What configure_core makes.                                              *)

LEMMA NewCoreShape ==
    ASSUME CoreTypeOK, NEW a \in Apps, NEW b \in Hosts \cup {None}
    PROVE  /\ NewCore(a, b) \in Cores
           /\ NewCore(a, b) # None
           /\ NewCore(a, b).client = None
           /\ b # None => NewCore(a, b).base = b
  <1>1. env \in Places /\ settings[a] \in Places
    BY DEF CoreTypeOK
  <1>2. /\ First(b, First(settings[a].base, First(env.base, Default))) \in Hosts
        /\ First(settings[a].secret, First(env.secret, Blank)) \in Secrets \cup {Blank}
    BY <1>1, PlaceAssumption DEF Places, First
  <1>3. NewCore(a, b) \in Cores
    BY <1>2 DEF NewCore, Cores
  <1> QED  BY <1>3, ObjectAssumption DEF NewCore, First

\* The object it makes depends on settings and environment alone.
LEMMA NewCoreStays ==
    ASSUME NEW a \in Apps, UNCHANGED <<settings, env>>
    PROVE  NewCore(a, None)' = NewCore(a, None)
  BY DEF NewCore

\* An object that an app has is one of Cores.
LEMMA CoreIsObject ==
    ASSUME CoreTypeOK, CoresMade, NEW a \in Apps, core[a] # None
    PROVE  /\ core[a] \in Makers
           /\ objects[core[a]] \in Cores
           /\ Snapshot(a) = SnapshotOf(objects[core[a]])
  <1>1. core[a] \in Makers /\ objects[core[a]] # None
    BY DEF CoreTypeOK, CoresMade, Makers
  <1>2. objects \in [Makers -> Cores \cup {None}]
    BY DEF CoreTypeOK, Makers
  <1> QED  BY <1>1, <1>2 DEF Snapshot, SnapshotOf

-----------------------------------------------------------------------------
(* Start-up.                                                               *)

LEMMA StartingIsIdle ==
    ASSUME IInv, phase = "starting"
    PROVE  /\ \A t \in Requests : request[t] = "idle" /\ answer[t] = "none"
           /\ \A a \in Apps : core[a] # None => core[a] = a /\ objects[a] \in Cores
  <1>1. \A t \in Requests : request[t] = "idle" /\ answer[t] = "none"
    BY DEF IInv, StartsFirst, AnswerFits
  <1>2. ASSUME NEW a \in Apps, core[a] # None
        PROVE  core[a] = a /\ objects[a] \in Cores
    <2>1. core[a] \in Makers /\ objects[core[a]] \in Cores
      BY <1>2, CoreIsObject DEF IInv
    <2>2. core[a] \in Requests => request[core[a]] # "idle"
      BY <1>2 DEF IInv, CoresMade
    <2>3. core[a] \in Apps
      BY <1>1, <2>1, <2>2 DEF Makers
    <2>4. core[a] = a
      BY <1>2, <2>3 DEF IInv, CoresMade
    <2> QED  BY <2>1, <2>4
  <1> QED  BY <1>1, <1>2

\* While no request has come, what is said of requests is said of nothing.
LEMMA IdleRequests ==
    ASSUME IInv, phase = "starting", UNCHANGED requestVars
    PROVE  /\ StartsFirst'
           /\ \A t \in Requests : (Holds(t) /\ AnswerFits(t))'
  <1>1. \A t \in Requests : request'[t] = "idle" /\ answer'[t] = "none"
    BY StartingIsIdle DEF requestVars
  <1>2. "idle" \notin Makers
    BY ObjectAssumption DEF Makers
  <1>3. StartsFirst'
    BY <1>1 DEF StartsFirst
  <1>4. ASSUME NEW t \in Requests
        PROVE  Holds(t)' /\ AnswerFits(t)'
    BY <1>1, <1>2 DEF Holds, AnswerFits
  <1> QED  BY <1>3, <1>4

\* The environment or an app's settings change; no configuration does.
LEMMA SettingsStep ==
    ASSUME IInv, phase = "starting",
           UNCHANGED <<phase, asked, routed, core, objects, requestVars>>,
           env' \in Places, settings' \in [Apps -> Places]
    PROVE  IInv'
  <1>1. CoreTypeOK'
    BY DEF IInv, CoreTypeOK, requestVars
  <1>2. CoresMade'
    <2>1. \A a \in Apps : core'[a] # None => core'[a] = a /\ a \notin Requests /\ objects'[a] # None
      BY StartingIsIdle, ObjectAssumption
    <2> QED  BY <2>1 DEF CoresMade
  <1>3. ClientsFit'
    BY DEF IInv, ClientsFit, Usable
  <1>4. AskedIsKept'
    BY DEF IInv, AskedIsKept, Snapshot
  <1> QED  BY <1>1, <1>2, <1>3, <1>4, IdleRequests DEF IInv

\* configure_core by start-up code.
LEMMA ConfigureStep ==
    ASSUME IInv, phase = "starting", NEW a \in Apps, NEW b \in Hosts \cup {None},
           ConfigureCore(a, b), UNCHANGED <<env, settings, requestVars>>
    PROVE  /\ phase' \in {"starting", "failed"}
           /\ core' \in [Apps -> Makers \cup {None}]
           /\ objects' \in [Makers -> Cores \cup {None}]
           /\ CoresMade'
           /\ ClientsFit'
           /\ \A x \in Apps : core[x] # None =>
                 core'[x] = core[x] /\ Snapshot(x)' = Snapshot(x)
           /\ core'[a] = a
           /\ b # None /\ phase' # "failed" => Snapshot(a)'.base = b
  <1>1. /\ core \in [Apps -> Makers \cup {None}]
        /\ objects \in [Makers -> Cores \cup {None}]
        /\ a \in Makers /\ a # None
    BY ObjectAssumption DEF IInv, CoreTypeOK, Makers
  <1>2. CASE core[a] # None
    <2>1. /\ phase' = IF b \notin {None, objects[core[a]].base} THEN "failed" ELSE phase
          /\ UNCHANGED <<core, objects>>
      BY <1>2 DEF ConfigureCore
    <2>2. core[a] = a /\ Snapshot(a).base = objects[core[a]].base
      BY <1>2, StartingIsIdle DEF Snapshot
    <2>3. CoresMade' /\ ClientsFit'
      <3>1. ClientsFit'
        BY <2>1 DEF IInv, ClientsFit, Usable
      <3>2. \A x \in Apps : core'[x] # None => core'[x] = x /\ x \notin Requests /\ objects'[x] # None
        BY <2>1, StartingIsIdle, ObjectAssumption
      <3> QED  BY <3>1, <3>2 DEF CoresMade
    <2>4. \A x \in Apps : Snapshot(x)' = Snapshot(x)
      BY <2>1 DEF Snapshot
    <2> QED  BY <1>1, <2>1, <2>2, <2>3, <2>4
  <1>3. CASE core[a] = None
    <2>1. /\ core' = [core EXCEPT ![a] = a]
          /\ objects' = [objects EXCEPT ![a] = NewCore(a, b)]
          /\ phase' = phase
      BY <1>3 DEF ConfigureCore
    <2>2. /\ NewCore(a, b) \in Cores /\ NewCore(a, b) # None
          /\ NewCore(a, b).client = None
          /\ b # None => NewCore(a, b).base = b
      BY NewCoreShape DEF IInv
    <2>3. /\ core'[a] = a /\ objects'[a] = NewCore(a, b)
          /\ \A x \in Apps \ {a} : core'[x] = core[x]
          /\ \A m \in Makers \ {a} : objects'[m] = objects[m]
      BY <1>1, <2>1
    <2>4. /\ core' \in [Apps -> Makers \cup {None}]
          /\ objects' \in [Makers -> Cores \cup {None}]
      BY <1>1, <2>1, <2>2
    <2>5. \A x \in Apps : core'[x] # None => core'[x] = x /\ x \notin Requests /\ objects'[x] # None
      BY <2>2, <2>3, StartingIsIdle, ObjectAssumption DEF Makers
    <2>6. CoresMade'
      BY <2>5 DEF CoresMade
    <2>7. ClientsFit'
      BY <2>2, <2>3 DEF IInv, ClientsFit, Usable
    <2>8. \A x \in Apps : core[x] # None => core'[x] = core[x] /\ Snapshot(x)' = Snapshot(x)
      <3>1. ASSUME NEW x \in Apps, core[x] # None
            PROVE  x # a /\ core[x] = x /\ objects'[x] = objects[x] /\ core'[x] = x
        BY <1>3, <2>3, <3>1, StartingIsIdle DEF Makers
      <3> QED  BY <3>1 DEF Snapshot
    <2>9. b # None => Snapshot(a)'.base = b
      BY <1>1, <2>2, <2>3 DEF Snapshot
    <2> QED  BY <2>1, <2>3, <2>4, <2>6, <2>7, <2>8, <2>9
  <1> QED  BY <1>2, <1>3

LEMMA RegisterStep ==
    ASSUME IInv, NEW a \in Apps, RegisterProxy(a)
    PROVE  IInv' /\ SnapshotsKept
  <1>1. /\ phase = "starting" /\ UNCHANGED <<env, settings, requestVars>>
        /\ routed' = routed \cup {a}
    BY DEF RegisterProxy
  <1>2. PICK b \in Hosts \cup {None} :
           /\ ConfigureCore(a, b)
           /\ \/ b = None /\ asked' = asked
              \/ b # None /\ asked' = [asked EXCEPT ![a] = b]
    <2>1. CASE ConfigureCore(a, None) /\ UNCHANGED asked
      BY <2>1
    <2>2. CASE \E w \in Written :
                  ConfigureCore(a, Stripped(w)) /\ asked' = [asked EXCEPT ![a] = Stripped(w)]
      <3>1. PICK w \in Written :
                  ConfigureCore(a, Stripped(w)) /\ asked' = [asked EXCEPT ![a] = Stripped(w)]
        BY <2>2
      <3>2. Stripped(w) \in Hosts /\ Stripped(w) # None
        BY <3>1, PlaceAssumption DEF Written, Stripped
      <3> QED  BY <3>1, <3>2
    <2> QED  BY <2>1, <2>2 DEF RegisterProxy
  <1>3. /\ phase' \in {"starting", "failed"}
        /\ core' \in [Apps -> Makers \cup {None}]
        /\ objects' \in [Makers -> Cores \cup {None}]
        /\ CoresMade' /\ ClientsFit'
        /\ \A x \in Apps : core[x] # None => core'[x] = core[x] /\ Snapshot(x)' = Snapshot(x)
        /\ core'[a] = a
        /\ b # None /\ phase' # "failed" => Snapshot(a)'.base = b
    BY <1>1, <1>2, ConfigureStep
  <1>4. CoreTypeOK'
    <2>1. asked' \in [Apps -> Hosts \cup {None}] /\ routed' \subseteq Apps
      <3>1. asked \in [Apps -> Hosts \cup {None}] /\ routed \subseteq Apps
        BY DEF IInv, CoreTypeOK
      <3>2. \/ asked' = asked
            \/ asked' = [asked EXCEPT ![a] = b]
        BY <1>2
      <3> QED  BY <1>1, <1>2, <3>1, <3>2
    <2>2. /\ UNCHANGED <<env, settings>> /\ UNCHANGED requestVars
          /\ phase' \in {"starting", "serving", "failed"}
      BY <1>1, <1>3
    <2> QED  BY <1>3, <2>1, <2>2 DEF IInv, CoreTypeOK, Makers, requestVars
  <1>5. AskedIsKept'
    <2>1. ASSUME NEW x \in Apps, asked[x] # None
          PROVE  core'[x] = x /\ Snapshot(x)'.base = asked[x]
      BY <1>1, <1>3, <2>1, ObjectAssumption DEF IInv, AskedIsKept
    <2>2. asked \in [Apps -> Hosts \cup {None}]
      BY DEF IInv, CoreTypeOK
    <2>3. \A x \in Apps : asked'[x] # None =>
             \/ asked[x] # None /\ asked'[x] = asked[x]
             \/ x = a /\ asked'[x] = b /\ b # None
      BY <1>2, <2>2
    <2> QED  BY <1>3, <2>1, <2>3 DEF AskedIsKept
  <1> QED  BY <1>1, <1>3, <1>4, <1>5, IdleRequests DEF IInv, SnapshotsKept

LEMMA GuardStep ==
    ASSUME IInv, NEW a \in Apps, RequireAuthByDefault(a)
    PROVE  IInv' /\ SnapshotsKept
  <1>1. phase = "starting" /\ UNCHANGED <<startVars, requestVars>> /\ ConfigureCore(a, None)
    BY DEF RequireAuthByDefault
  <1>2. /\ phase' \in {"starting", "failed"}
        /\ core' \in [Apps -> Makers \cup {None}]
        /\ objects' \in [Makers -> Cores \cup {None}]
        /\ CoresMade' /\ ClientsFit'
        /\ \A x \in Apps : core[x] # None => core'[x] = core[x] /\ Snapshot(x)' = Snapshot(x)
    BY <1>1, ConfigureStep DEF startVars
  <1>3. CoreTypeOK'
    BY <1>1, <1>2 DEF IInv, CoreTypeOK, Makers, requestVars, startVars
  <1>4. AskedIsKept'
    BY <1>1, <1>2, ObjectAssumption DEF IInv, AskedIsKept, startVars
  <1> QED  BY <1>1, <1>2, <1>3, <1>4, IdleRequests DEF IInv, SnapshotsKept

-----------------------------------------------------------------------------
(* Requests.  A request may store a configuration or a client, but what the *)
(* apps have, and what other requests hold, keeps its base and key.         *)

\* Configurations may be exchanged, not their bases and keys.
CoresKept ==
    /\ \A a \in Apps : core[a] # None => core'[a] # None /\ Snapshot(a)' = Snapshot(a)
    /\ \A a \in Apps : core'[a] \in Apps => core'[a] = core[a]
    /\ \A a \in Apps : core[a] \in Apps => core'[a] = core[a]

\* Objects stay what they are, but for one that a request had not made yet.
ObjectsKept ==
    \A m \in Makers : objects[m] # None =>
        \/ objects'[m] # None /\ SnapshotOf(objects'[m]) = SnapshotOf(objects[m])
        \/ m \in Requests /\ request[m] \in {"idle", "unconfigured"}

\* Requests but t stay where they are, and none goes back.
OthersWait(t) ==
    /\ \A u \in Requests \ {t} :
          /\ request'[u] = request[u] /\ url'[u] = url[u]
          /\ answer'[u] = answer[u] /\ used'[u] = used[u]
    /\ request'[t] \in {"idle", "unconfigured"} => request[t] \in {"idle", "unconfigured"}

\* A request that does nothing finds that what it holds still agrees with its app.
LEMMA BystanderStep ==
    ASSUME IInv, NEW t \in Requests, NEW u \in Requests \ {t}, app' = app,
           CoresKept, ObjectsKept, OthersWait(t)
    PROVE  Holds(u)' /\ AnswerFits(u)'
  <1>1. /\ request'[u] = request[u] /\ url'[u] = url[u]
        /\ answer'[u] = answer[u] /\ used'[u] = used[u]
        /\ app'[u] = app[u] /\ app[u] \in Apps
        /\ Holds(u) /\ AnswerFits(u)
    BY DEF OthersWait, IInv, CoreTypeOK
  <1>2. core[app[u]] # None =>
           core'[app[u]] # None /\ Snapshot(app[u])' = Snapshot(app[u])
    BY <1>1 DEF CoresKept
  <1>3. core'[app[u]] \in Apps => core'[app[u]] = core[app[u]]
    BY <1>1 DEF CoresKept
  <1>4. AnswerFits(u)'
    BY <1>1, <1>2 DEF AnswerFits
  <1>5. request[u] \in Makers =>
           /\ objects'[request[u]] # None
           /\ Usable(objects'[request[u]])
           /\ SnapshotOf(objects'[request[u]]) = Snapshot(app[u])'
           /\ request[u] \in Requests => request'[request[u]] \notin {"idle", "unconfigured"}
    <2> SUFFICES ASSUME request[u] \in Makers
                 PROVE  /\ objects'[request[u]] # None
                        /\ Usable(objects'[request[u]])
                        /\ SnapshotOf(objects'[request[u]]) = Snapshot(app[u])'
                        /\ request[u] \in Requests =>
                              request'[request[u]] \notin {"idle", "unconfigured"}
      OBVIOUS
    <2>1. /\ core[app[u]] # None /\ objects[request[u]] # None
          /\ Usable(objects[request[u]])
          /\ SnapshotOf(objects[request[u]]) = Snapshot(app[u])
          /\ request[u] \in Requests => request[request[u]] \notin {"idle", "unconfigured"}
      BY <1>1 DEF Holds
    <2>2. /\ objects'[request[u]] # None
          /\ SnapshotOf(objects'[request[u]]) = SnapshotOf(objects[request[u]])
      BY <2>1 DEF ObjectsKept
    <2>3. Usable(objects'[request[u]])
      BY <2>1, <2>2 DEF Usable, SnapshotOf
    <2>4. request[u] \in Requests => request'[request[u]] \notin {"idle", "unconfigured"}
      BY <2>1 DEF OthersWait
    <2> QED  BY <1>2, <2>1, <2>2, <2>3, <2>4
  <1>6. Holds(u)'
    BY <1>1, <1>2, <1>3, <1>5 DEF Holds
  <1> QED  BY <1>4, <1>6

\* What a step of a request leaves to be shown.
LEMMA RequestKeepsIInv ==
    ASSUME IInv, NEW t \in Requests, phase # "starting",
           UNCHANGED <<phase, startVars, app>>,
           CoresKept, ObjectsKept, OthersWait(t),
           CoreTypeOK', CoresMade', ClientsFit', Holds(t)', AnswerFits(t)'
    PROVE  IInv'
  <1>1. \A u \in Requests : Holds(u)' /\ AnswerFits(u)'
    BY BystanderStep
  <1>2. StartsFirst'
    BY DEF StartsFirst
  <1>3. AskedIsKept'
    <2>1. ASSUME NEW a \in Apps, asked[a] # None
          PROVE  core'[a] = a /\ (phase' # "failed" => Snapshot(a)'.base = asked[a])
      BY <2>1, ObjectAssumption DEF IInv, AskedIsKept, CoresKept
    <2> QED  BY <2>1 DEF AskedIsKept, startVars
  <1> QED  BY <1>1, <1>2, <1>3 DEF IInv

\* A step that leaves every configuration alone.
LEMMA ReadingStep ==
    ASSUME IInv, NEW t \in Requests, request[t] # "idle" \/ phase # "starting",
           UNCHANGED <<phase, startVars, app, core, objects>>,
           OthersWait(t), CoreTypeOK', Holds(t)', AnswerFits(t)'
    PROVE  IInv'
  <1>1. phase # "starting"
    BY DEF IInv, StartsFirst
  <1>2. CoresKept /\ ObjectsKept
    BY DEF CoresKept, ObjectsKept, Snapshot
  <1>3. ClientsFit'
    BY DEF IInv, ClientsFit, Usable
  <1>4. CoresMade'
    <2>1. ASSUME NEW a \in Apps, core[a] # None
          PROVE  /\ objects[core[a]] # None
                 /\ core[a] \in Apps => core[a] = a
                 /\ core[a] \in Requests =>
                       /\ app[core[a]] = a
                       /\ request'[core[a]] \notin {"idle", "unconfigured"}
                       /\ SnapshotOf(objects[core[a]]) = SnapshotOf(NewCore(a, None))'
      <3>1. /\ objects[core[a]] # None
            /\ core[a] \in Apps => core[a] = a
            /\ core[a] \in Requests =>
                  /\ app[core[a]] = a
                  /\ request[core[a]] \notin {"idle", "unconfigured"}
                  /\ SnapshotOf(objects[core[a]]) = SnapshotOf(NewCore(a, None))
        BY <2>1 DEF IInv, CoresMade
      <3>2. NewCore(a, None)' = NewCore(a, None)
        BY NewCoreStays DEF startVars
      <3> QED  BY <3>1, <3>2 DEF OthersWait, SnapshotOf
    <2> QED  BY <2>1 DEF CoresMade
  <1> QED  BY <1>1, <1>2, <1>3, <1>4, RequestKeepsIInv

LEMMA FindBaseStep ==
    ASSUME IInv, NEW t \in Requests, FindBase(t)
    PROVE  IInv'
  <1>1. /\ phase = "serving" /\ request[t] = "idle"
        /\ UNCHANGED <<phase, startVars, app, core, objects, answer, used>>
    BY DEF FindBase, Go
  <1>2. /\ request \in [Requests -> {"idle", "unconfigured", "based", "done"} \cup Makers]
        /\ url \in [Requests -> Hosts \cup {None}]
        /\ app[t] \in Apps /\ answer[t] = "none"
    BY <1>1 DEF IInv, CoreTypeOK, AnswerFits, Makers
  <1>3. CASE core[app[t]] = None
    <2>1. request' = [request EXCEPT ![t] = "unconfigured"] /\ url' = url
      BY <1>3 DEF FindBase, Go
    <2>2. OthersWait(t) /\ request'[t] = "unconfigured"
      BY <1>1, <1>2, <2>1 DEF OthersWait
    <2>3. CoreTypeOK'
      BY <1>1, <1>2, <2>1 DEF IInv, CoreTypeOK, startVars
    <2>4. Holds(t)' /\ AnswerFits(t)'
      BY <1>1, <1>2, <1>3, <2>2, ObjectAssumption DEF Holds, AnswerFits, Makers
    <2> QED  BY <1>1, <2>2, <2>3, <2>4, ReadingStep
  <1>4. CASE core[app[t]] # None
    <2>1. /\ request' = [request EXCEPT ![t] = "based"]
          /\ url' = [url EXCEPT ![t] = objects[core[app[t]]].base]
      BY <1>4 DEF FindBase, Go
    <2>2. /\ objects[core[app[t]]] \in Cores
          /\ Snapshot(app[t]) = SnapshotOf(objects[core[app[t]]])
      BY <1>2, <1>4, CoreIsObject DEF IInv
    <2>3. /\ OthersWait(t) /\ request'[t] = "based"
          /\ url'[t] = objects[core[app[t]]].base
      BY <1>1, <1>2, <2>1 DEF OthersWait
    <2>4. CoreTypeOK'
      <3>1. objects[core[app[t]]].base \in Hosts
        BY <2>2 DEF Cores
      <3>2. /\ request' \in [Requests -> {"idle", "unconfigured", "based", "done"} \cup Makers]
            /\ url' \in [Requests -> Hosts \cup {None}]
        BY <1>2, <2>1, <3>1
      <3> QED  BY <1>1, <3>2 DEF IInv, CoreTypeOK, startVars, Makers
    <2>5. Holds(t)' /\ AnswerFits(t)'
      <3>1. Snapshot(app[t])' = Snapshot(app[t])
        BY <1>1 DEF Snapshot
      <3> QED
        BY <1>1, <1>2, <1>4, <2>2, <2>3, <3>1, ObjectAssumption
        DEF Holds, AnswerFits, Makers, SnapshotOf
    <2> QED  BY <1>1, <2>3, <2>4, <2>5, ReadingStep
  <1> QED  BY <1>3, <1>4

\* A request that has its answer is typed, and holds nothing.
LEMMA EndShape ==
    ASSUME IInv, NEW t \in Requests, NEW result, NEW c, End(t, result, c),
           result \in {"unexpected destination", "missing configuration", "asked",
                       "opened", "refused"},
           c \in Clients \cup {None}
    PROVE  /\ UNCHANGED <<phase, startVars, app, core, url>>
           /\ request' \in [Requests -> {"idle", "unconfigured", "based", "done"} \cup Makers]
           /\ answer' \in [Requests -> {"none", "unexpected destination",
                                        "missing configuration", "asked", "opened", "refused"}]
           /\ used' \in [Requests -> Clients \cup {None}]
           /\ request'[t] = "done" /\ answer'[t] = result /\ used'[t] = c
           /\ OthersWait(t)
           /\ Holds(t)'
           /\ objects' \in [Makers -> Cores \cup {None}] => CoreTypeOK'
  <1>1. /\ answer' = [answer EXCEPT ![t] = result]
        /\ used' = [used EXCEPT ![t] = c]
        /\ request' = [request EXCEPT ![t] = "done"]
        /\ UNCHANGED <<phase, startVars, app, core, url>>
    BY DEF End, Go
  <1>2. /\ request \in [Requests -> {"idle", "unconfigured", "based", "done"} \cup Makers]
        /\ answer \in [Requests -> {"none", "unexpected destination",
                                    "missing configuration", "asked", "opened", "refused"}]
        /\ used \in [Requests -> Clients \cup {None}]
    BY DEF IInv, CoreTypeOK, Makers
  <1>3. request'[t] = "done" /\ answer'[t] = result /\ used'[t] = c
    BY <1>1, <1>2
  <1>4. OthersWait(t)
    BY <1>1, <1>2, <1>3 DEF OthersWait
  <1>5. Holds(t)'
    BY <1>3, ObjectAssumption DEF Holds, Makers
  <1>6. /\ request' \in [Requests -> {"idle", "unconfigured", "based", "done"} \cup Makers]
        /\ answer' \in [Requests -> {"none", "unexpected destination",
                                     "missing configuration", "asked", "opened", "refused"}]
    BY <1>1, <1>2
  <1>7. used' \in [Requests -> Clients \cup {None}]
    BY <1>1, <1>2
  <1>8. objects' \in [Makers -> Cores \cup {None}] => CoreTypeOK'
    BY <1>1, <1>6, <1>7 DEF IInv, CoreTypeOK, startVars, Makers
  <1> QED  BY <1>1, <1>3, <1>4, <1>5, <1>6, <1>7, <1>8

\* The answer that a configuration has for a request, and the client that got it.
Answers(s, result, client) ==
    IF Usable(s)
    THEN result = "asked" /\ client = [base |-> s.base, key |-> s.secret]
    ELSE result = "missing configuration" /\ client = None

\* A request that asked, or could not, is AnswerFits with the configuration it used.
LEMMA AnswerStep ==
    ASSUME IInv, NEW t \in Requests, core[app[t]] # None,
           NEW result, NEW client, End(t, result, client),
           Snapshot(app[t])' = Snapshot(app[t]),
           Answers(Snapshot(app[t]), result, client)
    PROVE  AnswerFits(t)'
  <1> DEFINE s == Snapshot(app[t])
  <1>1. /\ app[t] \in Apps
        /\ s = SnapshotOf(objects[core[app[t]]])
        /\ objects[core[app[t]]] \in Cores
    BY CoreIsObject DEF IInv, CoreTypeOK
  <1>2. /\ objects[core[app[t]]].base \in Hosts
        /\ objects[core[app[t]]].secret \in Secrets \cup {Blank}
    BY <1>1 DEF Cores
  <1>3. s.base \in Hosts /\ s.secret \in Secrets \cup {Blank}
    BY <1>1, <1>2 DEF SnapshotOf
  <1> HIDE DEF s
  <1>4. [base |-> s.base, key |-> s.secret] \in Clients
    BY <1>3 DEF Clients
  <1>5. Answers(s, result, client)
    BY DEF s
  <1>6. client \in Clients \cup {None}
    BY <1>4, <1>5 DEF Answers
  <1>7. result \in {"unexpected destination", "missing configuration", "asked",
                    "opened", "refused"}
    BY <1>5 DEF Answers
  <1>8. /\ request'[t] = "done" /\ answer'[t] = result /\ used'[t] = client
        /\ core' = core /\ app' = app
    BY <1>6, <1>7, EndShape
  <1>9. Usable(s) <=> s.base \in Absolute /\ s.secret \in Secrets
    BY <1>3, PlaceAssumption DEF Usable
  <1>10. Snapshot(app[t])' = s
    BY DEF s
  <1> QED  BY <1>5, <1>8, <1>9, <1>10 DEF AnswerFits, Answers

LEMMA SeekClientStep ==
    ASSUME IInv, NEW t \in Requests, SeekClient(t)
    PROVE  IInv'
  <1> DEFINE c == objects[core[app[t]]]
  <1>1. request[t] = "based" /\ objects' = objects /\ app[t] \in Apps
    BY DEF SeekClient, IInv, CoreTypeOK
  <1>2. core[app[t]] # None /\ url[t] = Snapshot(app[t]).base /\ answer[t] = "none"
    BY <1>1 DEF IInv, Holds, AnswerFits
  <1>3. c \in Cores /\ core[app[t]] \in Makers /\ Snapshot(app[t]) = SnapshotOf(c)
    BY <1>1, <1>2, CoreIsObject DEF IInv
  <1>4. c.base = url[t] /\ (Usable(Snapshot(app[t])) <=> Usable(c))
    BY <1>2, <1>3 DEF SnapshotOf, Usable
  <1>5. \/ c.client # None /\ End(t, "asked", c.client)
        \/ c.client = None /\ ~Usable(c) /\ End(t, "missing configuration", None)
        \/ c.client = None /\ Usable(c) /\ Go(t, core[app[t]]) /\ UNCHANGED <<core, url, answer, used>>
    BY <1>4 DEF SeekClient
  <1>6. objects' \in [Makers -> Cores \cup {None}]
    BY <1>1 DEF IInv, CoreTypeOK, Makers
  <1>7. CASE c.client # None /\ End(t, "asked", c.client)
    <2>1. c # None /\ c.client \in Clients
      BY <1>3, <1>7, ObjectAssumption DEF Cores
    <2>2. /\ Usable(c)
          /\ c.client = [base |-> c.base, key |-> c.secret]
      BY <1>3, <1>7, <2>1 DEF IInv, ClientsFit
    <2>3. /\ UNCHANGED <<phase, startVars, app, core, url>>
          /\ OthersWait(t) /\ Holds(t)'
          /\ CoreTypeOK'
      BY <1>1, <1>7, <1>6, <2>1, EndShape
    <2>4. Snapshot(app[t])' = Snapshot(app[t])
      BY <1>1, <2>3 DEF Snapshot
    <2>5. c.client = [base |-> Snapshot(app[t]).base, key |-> Snapshot(app[t]).secret]
      BY <1>3, <2>2 DEF SnapshotOf
    <2>6. AnswerFits(t)'
      <3>1. Answers(Snapshot(app[t]), "asked", c.client)
        BY <1>4, <2>2, <2>5 DEF Answers
      <3> QED  BY <1>2, <1>7, <2>4, <3>1, AnswerStep
    <2> QED  BY <1>1, <2>3, <2>6, ReadingStep
  <1>8. CASE c.client = None /\ ~Usable(c) /\ End(t, "missing configuration", None)
    <2>1. End(t, "missing configuration", None)
      BY <1>8
    <2>2. /\ UNCHANGED <<phase, startVars, app, core, url>>
          /\ OthersWait(t) /\ Holds(t)'
          /\ CoreTypeOK'
      BY <1>6, <2>1, EndShape
    <2>3. Snapshot(app[t])' = Snapshot(app[t])
      BY <1>1, <2>2 DEF Snapshot
    <2>4. AnswerFits(t)'
      <3>1. Answers(Snapshot(app[t]), "missing configuration", None)
        BY <1>4, <1>8 DEF Answers
      <3> QED  BY <1>2, <1>8, <2>3, <3>1, AnswerStep
    <2> QED  BY <1>1, <2>2, <2>4, ReadingStep
  <1>9. CASE /\ c.client = None /\ Usable(c) /\ Go(t, core[app[t]])
             /\ UNCHANGED <<core, url, answer, used>>
    <2>1. /\ request' = [request EXCEPT ![t] = core[app[t]]]
          /\ UNCHANGED <<phase, startVars, app, core, url, answer, used>>
      BY <1>9 DEF Go
    <2>2. request \in [Requests -> {"idle", "unconfigured", "based", "done"} \cup Makers]
      BY DEF IInv, CoreTypeOK, Makers
    <2>3. request'[t] = core[app[t]]
      BY <2>1, <2>2
    <2>4. OthersWait(t)
      BY <1>1, <1>3, <2>1, <2>2, <2>3, ObjectAssumption DEF OthersWait, Makers
    <2>5. CoreTypeOK'
      <3>1. request' \in [Requests -> {"idle", "unconfigured", "based", "done"} \cup Makers]
        BY <1>3, <2>1, <2>2
      <3> QED  BY <1>1, <2>1, <3>1 DEF IInv, CoreTypeOK, startVars, Makers
    <2>6. Snapshot(app[t])' = Snapshot(app[t])
      BY <1>1, <2>1 DEF Snapshot
    <2>7. core[app[t]] \in Requests => request'[core[app[t]]] \notin {"idle", "unconfigured"}
      <3>1. core[app[t]] \in Requests => request[core[app[t]]] \notin {"idle", "unconfigured"}
        BY <1>1, <1>2 DEF IInv, CoresMade
      <3> QED  BY <2>4, <3>1 DEF OthersWait
    <2>8. Holds(t)'
      BY <1>1, <1>2, <1>3, <1>9, <2>1, <2>3, <2>6, <2>7, ObjectAssumption DEF Holds, Makers
    <2>9. AnswerFits(t)'
      BY <1>2, <2>1, <2>3 DEF AnswerFits
    <2> QED  BY <1>1, <2>1, <2>4, <2>5, <2>8, <2>9, ReadingStep
  <1> QED  BY <1>5, <1>7, <1>8, <1>9

\* A configuration is stored where there was none, or over that of another request.
LEMMA StoreCoreStep ==
    ASSUME IInv, NEW t \in Requests, StoreCore(t)
    PROVE  IInv' /\ SnapshotsKept
  <1> DEFINE a == app[t]
             n == NewCore(a, None)
  <1>1. /\ request[t] = "unconfigured"
        /\ request' = [request EXCEPT ![t] = "based"]
        /\ core' = [core EXCEPT ![a] = t]
        /\ objects' = [objects EXCEPT ![t] = n]
        /\ url' = [url EXCEPT ![t] = objects'[t].base]
        /\ UNCHANGED <<phase, startVars, app, answer, used>>
    BY DEF StoreCore, Go
  <1>2. /\ a \in Apps
        /\ core \in [Apps -> Makers \cup {None}]
        /\ objects \in [Makers -> Cores \cup {None}]
        /\ request \in [Requests -> {"idle", "unconfigured", "based", "done"} \cup Makers]
        /\ url \in [Requests -> Hosts \cup {None}]
    BY DEF IInv, CoreTypeOK, Makers
  <1>3. n \in Cores /\ n # None /\ n.client = None
    BY <1>2, NewCoreShape DEF IInv
  <1>4. \A x \in Apps : NewCore(x, None)' = NewCore(x, None)
    BY <1>1, NewCoreStays DEF startVars
  <1>5. t \in Makers /\ t \notin Apps /\ t # None /\ phase # "starting"
    BY <1>1, ObjectAssumption DEF Makers, IInv, StartsFirst
  <1> HIDE DEF n
  <1>6. /\ core'[a] = t
        /\ \A x \in Apps \ {a} : core'[x] = core[x]
        /\ objects'[t] = n
        /\ \A m \in Makers \ {t} : objects'[m] = objects[m]
        /\ request'[t] = "based" /\ url'[t] = n.base
    BY <1>1, <1>2, <1>5
  <1>7. core[a] \notin Apps /\ answer[t] = "none"
    BY <1>1, ObjectAssumption DEF IInv, Holds, AnswerFits
  <1>8. ASSUME NEW x \in Apps \ {a}, core[x] # None
        PROVE  core[x] \in Makers \ {t}
    BY <1>2, <1>5, <1>8 DEF IInv, CoresMade
  <1>9. Snapshot(a)' = SnapshotOf(n)
    BY <1>1, <1>5, <1>6 DEF Snapshot, SnapshotOf
  <1>10. OthersWait(t)
    BY <1>1, <1>2 DEF OthersWait
  <1>11. CoresKept
    <2>1. core[a] # None => Snapshot(a)' = Snapshot(a)
      <3> SUFFICES ASSUME core[a] # None
                   PROVE  Snapshot(a)' = Snapshot(a)
        OBVIOUS
      <3>1. core[a] \in Requests
        BY <1>2, <1>7 DEF Makers
      <3>2. SnapshotOf(objects[core[a]]) = SnapshotOf(n)
        BY <1>2, <3>1 DEF IInv, CoresMade, n
      <3>3. Snapshot(a) = SnapshotOf(objects[core[a]])
        BY <1>2, CoreIsObject DEF IInv
      <3> QED  BY <1>9, <3>2, <3>3
    <2>2. ASSUME NEW x \in Apps \ {a}, core[x] # None
          PROVE  core'[x] # None /\ Snapshot(x)' = Snapshot(x)
      BY <1>6, <1>8, <2>2 DEF Snapshot
    <2>3. \A x \in Apps : core[x] # None => core'[x] # None /\ Snapshot(x)' = Snapshot(x)
      BY <1>1, <1>5, <1>6, <2>1, <2>2
    <2>4. \A x \in Apps : core'[x] \in Apps \/ core[x] \in Apps => core'[x] = core[x]
      BY <1>2, <1>5, <1>6, <1>7
    <2> QED  BY <2>3, <2>4 DEF CoresKept
  <1>12. ObjectsKept
    BY <1>1, <1>6 DEF ObjectsKept
  <1>13. CoreTypeOK'
    <2>1. /\ core' \in [Apps -> Makers \cup {None}]
          /\ objects' \in [Makers -> Cores \cup {None}]
          /\ request' \in [Requests -> {"idle", "unconfigured", "based", "done"} \cup Makers]
      BY <1>1, <1>2, <1>3, <1>5
    <2>2. n.base \in Hosts
      BY <1>3 DEF Cores
    <2>3. url' \in [Requests -> Hosts \cup {None}]
      BY <1>1, <1>2, <1>6, <2>2
    <2> QED  BY <1>1, <2>1, <2>3 DEF IInv, CoreTypeOK, startVars, Makers
  <1>14. CoresMade'
    <2>1. ASSUME NEW x \in Apps, core'[x] # None
          PROVE  /\ objects'[core'[x]] # None
                 /\ core'[x] \in Apps => core'[x] = x
                 /\ core'[x] \in Requests =>
                       /\ app[core'[x]] = x
                       /\ request'[core'[x]] \notin {"idle", "unconfigured"}
                       /\ SnapshotOf(objects'[core'[x]]) = SnapshotOf(NewCore(x, None))
      <3>1. CASE x = a
        <4>1. n = NewCore(x, None)
          BY <3>1 DEF n
        <4>2. core'[x] = t /\ objects'[core'[x]] = n
          BY <1>6, <3>1
        <4>3. core'[x] \notin Apps /\ app[core'[x]] = x /\ request'[core'[x]] = "based"
          BY <1>5, <1>6, <3>1
        <4> QED  BY <1>3, <4>1, <4>2, <4>3
      <3>2. CASE x # a
        <4>1. core'[x] = core[x] /\ core[x] \in Makers \ {t}
          BY <1>6, <1>8, <2>1, <3>2
        <4>2. /\ objects'[core[x]] = objects[core[x]]
              /\ core[x] \in Requests => request'[core[x]] = request[core[x]]
          BY <1>6, <1>10, <4>1 DEF OthersWait
        <4> QED  BY <2>1, <4>1, <4>2 DEF IInv, CoresMade
      <3> QED  BY <3>1, <3>2
    <2>2. app' = app /\ \A x \in Apps : SnapshotOf(NewCore(x, None))' = SnapshotOf(NewCore(x, None))
      BY <1>1, <1>4 DEF SnapshotOf
    <2> QED  BY <2>1, <2>2 DEF CoresMade, SnapshotOf
  <1>15. ClientsFit'
    BY <1>3, <1>6 DEF IInv, ClientsFit, Usable
  <1>16. Holds(t)' /\ AnswerFits(t)'
    BY <1>1, <1>5, <1>6, <1>7, <1>9, ObjectAssumption
    DEF Holds, AnswerFits, Makers, SnapshotOf
  <1>17. SnapshotsKept
    BY <1>11 DEF CoresKept, SnapshotsKept
  <1> QED
    BY <1>1, <1>5, <1>10, <1>11, <1>12, <1>13, <1>14, <1>15, <1>16, <1>17, RequestKeepsIInv

\* A client is made for a configuration that still has the base and key of the app.
LEMMA KeepClientStep ==
    ASSUME IInv, NEW t \in Requests, KeepClient(t)
    PROVE  IInv' /\ SnapshotsKept
  <1> DEFINE r == request[t]
             o == objects[r]
             k == [base |-> o.base, key |-> o.secret]
  <1>1. /\ r \in Makers
        /\ objects' = [objects EXCEPT ![r].client = k]
        /\ End(t, "asked", k)
    BY DEF KeepClient, Makers
  <1>2. /\ core[app[t]] # None
        /\ o # None /\ Usable(o)
        /\ SnapshotOf(o) = Snapshot(app[t])
    BY <1>1 DEF IInv, Holds
  <1>3. /\ objects \in [Makers -> Cores \cup {None}]
        /\ o \in Cores
    BY <1>1, <1>2 DEF IInv, CoreTypeOK, Makers
  <1>4. k \in Clients /\ k # None
    BY <1>3, ObjectAssumption DEF Clients, Cores
  <1> HIDE DEF k
  <1>5. /\ objects'[r] = [o EXCEPT !.client = k]
        /\ \A m \in Makers \ {r} : objects'[m] = objects[m]
    BY <1>1, <1>3
  <1>6. /\ objects'[r] \in Cores /\ objects'[r] # None
        /\ objects'[r].base = o.base /\ objects'[r].secret = o.secret
        /\ objects'[r].client = k
    BY <1>3, <1>4, <1>5, ObjectAssumption DEF Cores
  <1>7. objects' \in [Makers -> Cores \cup {None}]
    BY <1>1, <1>3, <1>5, <1>6
  <1>8. /\ UNCHANGED <<phase, startVars, app, core, url>>
        /\ OthersWait(t) /\ Holds(t)'
        /\ CoreTypeOK'
    BY <1>1, <1>4, <1>7, EndShape
  <1>9. phase # "starting"
    BY <1>1, ObjectAssumption DEF Makers, IInv, StartsFirst
  <1>10. ObjectsKept
    BY <1>5, <1>6 DEF ObjectsKept, SnapshotOf
  <1>11. \A m \in Makers : objects[m] # None =>
            objects'[m] # None /\ SnapshotOf(objects'[m]) = SnapshotOf(objects[m])
    BY <1>5, <1>6 DEF SnapshotOf
  <1>12. \A x \in Apps : core[x] # None => Snapshot(x)' = Snapshot(x)
    <2>1. ASSUME NEW x \in Apps, core[x] # None
          PROVE  SnapshotOf(objects'[core[x]]) = SnapshotOf(objects[core[x]])
      <3>1. core[x] \in Makers /\ objects[core[x]] # None
        BY <2>1, CoreIsObject DEF IInv, CoresMade
      <3> QED  BY <1>11, <3>1
    <2> QED  BY <1>8, <2>1 DEF Snapshot, SnapshotOf
  <1>13. CoresKept
    BY <1>8, <1>12 DEF CoresKept
  <1>14. CoresMade'
    <2>1. ASSUME NEW x \in Apps, core[x] # None
          PROVE  /\ objects'[core[x]] # None
                 /\ core[x] \in Apps => core[x] = x
                 /\ core[x] \in Requests =>
                       /\ app[core[x]] = x
                       /\ request'[core[x]] \notin {"idle", "unconfigured"}
                       /\ SnapshotOf(objects'[core[x]]) = SnapshotOf(NewCore(x, None))
      <3>1. core[x] \in Makers /\ objects[core[x]] # None
        BY <2>1, CoreIsObject DEF IInv, CoresMade
      <3>2. core[x] \in Requests =>
               request'[core[x]] \notin {"idle", "unconfigured"}
        BY <1>8, <2>1 DEF IInv, CoresMade, OthersWait
      <3> QED  BY <1>11, <2>1, <3>1, <3>2 DEF IInv, CoresMade
    <2>2. \A x \in Apps : NewCore(x, None)' = NewCore(x, None)
      BY <1>8, NewCoreStays DEF startVars
    <2> QED  BY <1>8, <2>1, <2>2 DEF CoresMade, SnapshotOf
  <1>15. ClientsFit'
    <2>1. Usable(objects'[r]) /\ objects'[r].client = [base |-> objects'[r].base,
                                                      key |-> objects'[r].secret]
      BY <1>2, <1>6 DEF Usable, k
    <2> QED  BY <1>5, <2>1 DEF IInv, ClientsFit, Usable
  <1>16. AnswerFits(t)'
    <2>1. Answers(Snapshot(app[t]), "asked", k)
      <3>1. Snapshot(app[t]).base = o.base /\ Snapshot(app[t]).secret = o.secret
        BY <1>2 DEF SnapshotOf
      <3>2. Usable(Snapshot(app[t]))
        BY <1>2, <3>1 DEF Usable
      <3>3. k = [base |-> Snapshot(app[t]).base, key |-> Snapshot(app[t]).secret]
        BY <3>1 DEF k
      <3> QED  BY <3>2, <3>3 DEF Answers
    <2>2. Snapshot(app[t])' = Snapshot(app[t])
      <3>1. app[t] \in Apps
        BY DEF IInv, CoreTypeOK
      <3> QED  BY <1>2, <1>8, <1>12, <3>1
    <2> QED  BY <1>1, <1>2, <2>1, <2>2, AnswerStep
  <1>17. SnapshotsKept
    BY <1>12 DEF SnapshotsKept
  <1> QED
    BY <1>8, <1>9, <1>10, <1>13, <1>14, <1>15, <1>16, <1>17, RequestKeepsIInv

LEMMA ContractStep ==
    ASSUME IInv, NEW t \in Requests, Contract(t)
    PROVE  IInv'
  <1>1. PICK k \in Secrets \cup {Blank} :
           End(t, IF env.secret \in Secrets /\ k = env.secret THEN "opened" ELSE "refused",
               [base |-> None, key |-> k])
    BY DEF Contract
  <1> DEFINE result == IF env.secret \in Secrets /\ k = env.secret THEN "opened" ELSE "refused"
             c == [base |-> None, key |-> k]
  <1>2. result \in {"opened", "refused"} /\ c \in Clients
    BY DEF Clients
  <1>3. phase = "serving" /\ objects' = objects
    BY DEF Contract
  <1>4. End(t, result, c)
    BY <1>1
  <1> HIDE DEF result, c
  <1>5. objects' \in [Makers -> Cores \cup {None}]
    BY <1>3 DEF IInv, CoreTypeOK, Makers
  <1>6. /\ UNCHANGED <<phase, startVars, app, core, url>>
        /\ request'[t] = "done" /\ answer'[t] \in {"opened", "refused"}
        /\ OthersWait(t) /\ Holds(t)' /\ CoreTypeOK'
    BY <1>2, <1>4, <1>5, EndShape
  <1>7. AnswerFits(t)'
    BY <1>6 DEF AnswerFits
  <1> QED  BY <1>3, <1>6, <1>7, ReadingStep

LEMMA ServeStep ==
    ASSUME IInv, Serve
    PROVE  IInv'
  <1>1. /\ phase = "starting" /\ phase' = "serving"
        /\ UNCHANGED <<startVars, core, objects, requestVars>>
    BY DEF Serve
  <1>2. \A t \in Requests : (Holds(t) /\ AnswerFits(t))'
    BY <1>1, IdleRequests
  <1>3. CoreTypeOK' /\ StartsFirst'
    BY <1>1 DEF IInv, CoreTypeOK, StartsFirst, startVars, requestVars
  <1>4. CoresMade'
    <2>1. \A a \in Apps : core'[a] # None => core'[a] = a /\ a \notin Requests /\ objects'[a] # None
      BY <1>1, StartingIsIdle, ObjectAssumption
    <2> QED  BY <2>1 DEF CoresMade
  <1>5. ClientsFit' /\ AskedIsKept'
    BY <1>1 DEF IInv, ClientsFit, Usable, AskedIsKept, Snapshot, startVars
  <1> QED  BY <1>2, <1>3, <1>4, <1>5 DEF IInv

-----------------------------------------------------------------------------
(* The theorems.                                                           *)

LEMMA InitIInv == CoreInit => IInv
  <1> SUFFICES ASSUME CoreInit
               PROVE  IInv
    OBVIOUS
  <1>1. CoreTypeOK
    BY DEF CoreInit, CoreTypeOK, Places, Nowhere
  <1>2. StartsFirst /\ CoresMade /\ ClientsFit /\ AskedIsKept
    BY DEF CoreInit, StartsFirst, CoresMade, ClientsFit, AskedIsKept, Makers
  <1>3. ASSUME NEW t \in Requests
        PROVE  Holds(t) /\ AnswerFits(t)
    <2>1. request[t] = "idle" /\ answer[t] = "none" /\ "idle" \notin Makers
      BY ObjectAssumption DEF CoreInit, Makers
    <2> QED  BY <2>1 DEF Holds, AnswerFits
  <1> QED  BY <1>1, <1>2, <1>3 DEF IInv

LEMMA NextKeepsIInv ==
    ASSUME IInv, [CoreNext]_coreVars
    PROVE  IInv' /\ SnapshotsKept
  <1>1. CASE LoadEnvironment
    <2>1. /\ phase = "starting" /\ env' \in Places
          /\ UNCHANGED <<phase, settings, asked, routed, core, objects, requestVars>>
      BY <1>1 DEF LoadEnvironment
    <2>2. settings' \in [Apps -> Places]
      BY <2>1 DEF IInv, CoreTypeOK
    <2> QED  BY <2>1, <2>2, SettingsStep DEF SnapshotsKept, Snapshot
  <1>2. CASE \E a \in Apps : Configure(a)
    <2>1. PICK a \in Apps : Configure(a)
      BY <1>2
    <2>2. /\ phase = "starting"
          /\ UNCHANGED <<phase, env, asked, routed, core, objects, requestVars>>
      BY <2>1 DEF Configure
    <2>3. env' \in Places /\ settings' \in [Apps -> Places]
      <3>1. env \in Places /\ settings \in [Apps -> Places]
        BY DEF IInv, CoreTypeOK
      <3>2. PICK p \in Places : settings' = [settings EXCEPT ![a] = p]
        BY <2>1 DEF Configure
      <3> QED  BY <2>2, <3>1, <3>2
    <2> QED  BY <2>2, <2>3, SettingsStep DEF SnapshotsKept, Snapshot
  <1>3. CASE \E a \in Apps : RegisterProxy(a)
    BY <1>3, RegisterStep
  <1>4. CASE \E a \in Apps : RequireAuthByDefault(a)
    BY <1>4, GuardStep
  <1>5. CASE Serve
    <2>1. SnapshotsKept
      BY <1>5 DEF Serve, SnapshotsKept, Snapshot
    <2> QED  BY <1>5, <2>1, ServeStep
  <1>6. CASE \E t \in Requests : FindBase(t)
    <2>1. PICK t \in Requests : FindBase(t)
      BY <1>6
    <2>2. SnapshotsKept
      BY <2>1 DEF FindBase, SnapshotsKept, Snapshot
    <2> QED  BY <2>1, <2>2, FindBaseStep
  <1>7. CASE \E t \in Requests : StoreCore(t)
    BY <1>7, StoreCoreStep
  <1>8. CASE \E t \in Requests : SeekClient(t)
    <2>1. PICK t \in Requests : SeekClient(t)
      BY <1>8
    <2>2. UNCHANGED <<core, objects>>
      BY <2>1 DEF SeekClient, End
    <2>3. SnapshotsKept
      BY <2>2 DEF SnapshotsKept, Snapshot
    <2> QED  BY <2>1, <2>3, SeekClientStep
  <1>9. CASE \E t \in Requests : KeepClient(t)
    BY <1>9, KeepClientStep
  <1>10. CASE \E t \in Requests : Contract(t)
    <2>1. PICK t \in Requests : Contract(t)
      BY <1>10
    <2>2. UNCHANGED <<core, objects>>
      BY <2>1 DEF Contract, End
    <2>3. SnapshotsKept
      BY <2>2 DEF SnapshotsKept, Snapshot
    <2> QED  BY <2>1, <2>3, ContractStep
  <1>11. CASE UNCHANGED coreVars
    <2>1. UNCHANGED <<phase, env, settings, asked, routed, core, objects, requestVars>>
      BY <1>11 DEF coreVars, requestVars
    <2>2. CoreTypeOK' /\ StartsFirst'
      BY <2>1 DEF IInv, CoreTypeOK, StartsFirst, requestVars
    <2>3. CoresMade' /\ ClientsFit'
      BY <2>1 DEF IInv, CoresMade, ClientsFit, SnapshotOf, NewCore, Usable, requestVars
    <2>4. \A t \in Requests : Holds(t)' /\ AnswerFits(t)'
      BY <2>1 DEF IInv, Holds, AnswerFits, Snapshot, SnapshotOf, Usable, requestVars
    <2>5. AskedIsKept' /\ SnapshotsKept
      BY <2>1 DEF IInv, AskedIsKept, Snapshot, SnapshotsKept
    <2> QED  BY <2>2, <2>3, <2>4, <2>5 DEF IInv
  <1> QED
    BY <1>1, <1>2, <1>3, <1>4, <1>5, <1>6, <1>7, <1>8, <1>9, <1>10, <1>11 DEF CoreNext

LEMMA InvariantHolds == CoreSpec => []IInv
  <1>1. IInv /\ [CoreNext]_coreVars => IInv'
    BY NextKeepsIInv
  <1> QED  BY InitIInv, <1>1, PTL DEF CoreSpec

\* The configurations, clients and answers of a process are typed.
THEOREM CoreTypeCorrect == CoreSpec => []CoreTypeOK
  <1>1. IInv => CoreTypeOK
    BY DEF IInv
  <1> QED  BY InvariantHolds, <1>1, PTL

\* Any number of requests that find an app without a configuration, and make one each
\* and a client for one of them, ask HQ where the app has it, with the app's key, or
\* all say that it has none (core_config, core_client, _hq_get, _request_json).
THEOREM RequestsFollow == CoreSpec => []RequestsFollowSnapshot
  <1>1. IInv => RequestsFollowSnapshot
    BY DEF IInv, RequestsFollowSnapshot, AnswerFits
  <1> QED  BY InvariantHolds, <1>1, PTL

\* The base that register_proxy was called with is where the app asks, or the process
\* did not start (configure_core's ValueError).
THEOREM AskedIsUsed == CoreSpec => []AskedBaseIsUsed
  <1>1. IInv => AskedBaseIsUsed
    BY DEF IInv, AskedBaseIsUsed, AskedIsKept
  <1> QED  BY InvariantHolds, <1>1, PTL

\* No step gives an app that has a configuration another base or key.
THEOREM AppsStay == CoreSpec => SnapshotStays
  <1>1. IInv /\ [CoreNext]_coreVars
        => [\A a \in Apps : core[a] # None => Snapshot(a)' = Snapshot(a)]_coreVars
    BY NextKeepsIInv DEF SnapshotsKept
  <1> QED  BY InvariantHolds, <1>1, PTL DEF CoreSpec, SnapshotStays

-----------------------------------------------------------------------------
(* The contract route.  It compares a key with that of the environment, and *)
(* so opens to the app's own as long as the app has it from there.          *)

\* An app without a setting of its own has the key of the environment, or none.
KeysOfEnv ==
    \A a \in Apps : core[a] # None /\ settings[a].secret = None /\ Snapshot(a).secret \in Secrets
        => env.secret = Snapshot(a).secret

RefusedKeys ==
    \A t \in Requests : answer[t] = "refused" =>
        phase # "starting" /\ (used[t].key \in Secrets => used[t].key # env.secret)

\* ContractOpensToHQ, of the apps that do not set PLATFORM_SECRET themselves.
EnvironmentKeyOpens ==
    \A t \in Requests :
        settings[app[t]].secret = None /\ answer[t] = "refused" /\ used[t].key \in Secrets
            => used[t].key # Snapshot(app[t]).secret

\* A key is set once in the environment and once in an app.
LEMMA KeysAreSetOnce ==
    ASSUME IInv, [CoreNext]_coreVars
    PROVE  /\ env.secret # None => env' = env
           /\ phase # "starting" => env' = env /\ phase' = phase
           /\ \A a \in Apps : settings'[a].secret = None => settings[a].secret = None
  <1>1. CASE LoadEnvironment
    BY <1>1 DEF LoadEnvironment, Nowhere
  <1>2. ASSUME NEW a \in Apps, Configure(a)
        PROVE  /\ phase = "starting" /\ env' = env
               /\ \A x \in Apps : settings'[x].secret = None => settings[x].secret = None
    <2>1. settings[a].secret = None
      BY <1>2 DEF Configure, Nowhere
    <2>2. PICK p \in Places : settings' = [settings EXCEPT ![a] = p]
      BY <1>2 DEF Configure
    <2>3. settings \in [Apps -> Places]
      BY DEF IInv, CoreTypeOK
    <2>4. \A x \in Apps \ {a} : settings'[x] = settings[x]
      BY <2>2, <2>3
    <2> QED  BY <1>2, <2>1, <2>4 DEF Configure
  <1>3. ASSUME NEW a \in Apps, RegisterProxy(a) \/ RequireAuthByDefault(a)
        PROVE  phase = "starting" /\ UNCHANGED <<env, settings>>
    BY <1>3 DEF RegisterProxy, RequireAuthByDefault, startVars
  <1>4. CASE Serve
    BY <1>4 DEF Serve, startVars
  <1>5. ASSUME NEW t \in Requests,
               FindBase(t) \/ StoreCore(t) \/ SeekClient(t) \/ KeepClient(t) \/ Contract(t)
        PROVE  UNCHANGED <<phase, env, settings>>
    BY <1>5 DEF FindBase, StoreCore, SeekClient, KeepClient, Contract, End, Go, startVars
  <1>6. CASE UNCHANGED coreVars
    BY <1>6 DEF coreVars
  <1> QED  BY <1>1, <1>2, <1>3, <1>4, <1>5, <1>6 DEF CoreNext

\* A configuration that an app gets has the key of its settings and the environment.
LEMMA NewCoreIsStored ==
    ASSUME IInv, [CoreNext]_coreVars, NEW a \in Apps, core[a] = None, core'[a] # None
    PROVE  /\ UNCHANGED <<env, settings>>
           /\ Snapshot(a)'.secret = First(settings[a].secret, First(env.secret, Blank))
  <1>1. /\ core \in [Apps -> Makers \cup {None}]
        /\ objects \in [Makers -> Cores \cup {None}]
        /\ Apps \subseteq Makers /\ Requests \subseteq Makers
        /\ app \in [Requests -> Apps]
    BY DEF IInv, CoreTypeOK, Makers
  <1>2. ASSUME NEW x \in Apps, NEW b, ConfigureCore(x, b), UNCHANGED <<env, settings>>
        PROVE  /\ UNCHANGED <<env, settings>>
               /\ core'[a] = a /\ objects'[a] = NewCore(a, b)
    <2>1. core[x] = None /\ x = a
      BY <1>1, <1>2 DEF ConfigureCore
    <2> QED  BY <1>1, <1>2, <2>1 DEF ConfigureCore
  <1>3. ASSUME NEW x \in Apps, RegisterProxy(x) \/ RequireAuthByDefault(x)
        PROVE  /\ UNCHANGED <<env, settings>>
               /\ \E b : core'[a] = a /\ objects'[a] = NewCore(a, b)
    <2>1. UNCHANGED <<env, settings>> /\ \E b : ConfigureCore(x, b)
      BY <1>3 DEF RegisterProxy, RequireAuthByDefault, startVars
    <2> QED  BY <1>2, <2>1
  <1>4. ASSUME NEW t \in Requests, StoreCore(t)
        PROVE  /\ UNCHANGED <<env, settings>>
               /\ core'[a] = t /\ objects'[t] = NewCore(a, None)
    <2>1. /\ core' = [core EXCEPT ![app[t]] = t]
          /\ objects' = [objects EXCEPT ![t] = NewCore(app[t], None)]
          /\ UNCHANGED startVars
      BY <1>4 DEF StoreCore, Go
    <2>2. app[t] = a
      BY <1>1, <2>1
    <2> QED  BY <1>1, <2>1, <2>2 DEF startVars
  <1>5. /\ UNCHANGED <<env, settings>>
        /\ \E b : objects'[core'[a]] = NewCore(a, b)
    <2>1. CASE \E x \in Apps : RegisterProxy(x) \/ RequireAuthByDefault(x)
      BY <1>3, <2>1
    <2>2. CASE \E t \in Requests : StoreCore(t)
      BY <1>4, <2>2
    <2>3. CASE \/ LoadEnvironment \/ Serve \/ UNCHANGED coreVars
               \/ \E x \in Apps : Configure(x)
               \/ \E t \in Requests :
                     FindBase(t) \/ SeekClient(t) \/ KeepClient(t) \/ Contract(t)
      <3>1. core' = core
        BY <2>3 DEF LoadEnvironment, Serve, coreVars, Configure, FindBase, SeekClient,
                    KeepClient, Contract, End
      <3> QED  BY <3>1
    <2> QED  BY <2>1, <2>2, <2>3 DEF CoreNext
  <1> QED  BY <1>5 DEF Snapshot, NewCore

LEMMA KeysOfEnvStay ==
    ASSUME IInv, KeysOfEnv, [CoreNext]_coreVars
    PROVE  KeysOfEnv'
  <1> SUFFICES ASSUME NEW a \in Apps, core'[a] # None, settings'[a].secret = None,
                      Snapshot(a)'.secret \in Secrets
               PROVE  env'.secret = Snapshot(a)'.secret
    BY DEF KeysOfEnv
  <1>1. settings[a].secret = None
    BY KeysAreSetOnce
  <1>2. CASE core[a] # None
    <2>1. Snapshot(a)' = Snapshot(a)
      BY <1>2, NextKeepsIInv DEF SnapshotsKept
    <2>2. env.secret = Snapshot(a).secret /\ env.secret # None
      BY <1>1, <1>2, <2>1, PlaceAssumption DEF KeysOfEnv
    <2> QED  BY <2>1, <2>2, KeysAreSetOnce
  <1>3. CASE core[a] = None
    <2>1. /\ UNCHANGED <<env, settings>>
          /\ Snapshot(a)'.secret = First(settings[a].secret, First(env.secret, Blank))
      BY <1>3, NewCoreIsStored
    <2>2. Snapshot(a)'.secret = First(env.secret, Blank)
      BY <1>1, <2>1 DEF First
    <2> QED  BY <2>1, <2>2, PlaceAssumption DEF First
  <1> QED  BY <1>2, <1>3

LEMMA RefusedKeysStay ==
    ASSUME IInv, RefusedKeys, [CoreNext]_coreVars
    PROVE  RefusedKeys'
  <1> SUFFICES ASSUME NEW t \in Requests, answer'[t] = "refused"
               PROVE  /\ phase' # "starting"
                      /\ used'[t].key \in Secrets => used'[t].key # env'.secret
    BY DEF RefusedKeys
  <1>1. /\ answer \in [Requests -> {"none", "unexpected destination",
                                    "missing configuration", "asked", "opened", "refused"}]
        /\ used \in [Requests -> Clients \cup {None}]
    BY DEF IInv, CoreTypeOK
  <1>2. CASE answer[t] = "refused" /\ used'[t] = used[t]
    BY <1>2, KeysAreSetOnce DEF RefusedKeys
  <1>3. CASE Contract(t)
    <2>1. PICK k \in Secrets \cup {Blank} :
             End(t, IF env.secret \in Secrets /\ k = env.secret THEN "opened" ELSE "refused",
                 [base |-> None, key |-> k])
      BY <1>3 DEF Contract
    <2>2. used'[t] = [base |-> None, key |-> k] /\ UNCHANGED <<phase, env>>
      BY <1>1, <2>1 DEF End, Go, startVars
    <2>3. ~(env.secret \in Secrets /\ k = env.secret)
      BY <1>1, <2>1 DEF End
    <2>4. phase = "serving" /\ used'[t].key = k
      BY <1>3, <2>2 DEF Contract
    <2> QED  BY <2>2, <2>3, <2>4
  <1>4. \/ answer[t] = "refused" /\ used'[t] = used[t]
        \/ Contract(t)
    <2>1. ASSUME NEW u \in Requests, Contract(u)
          PROVE  u = t \/ (answer[t] = "refused" /\ used'[t] = used[t])
      BY <1>1, <2>1 DEF Contract, End
    <2>2. ASSUME NEW u \in Requests, SeekClient(u) \/ KeepClient(u)
          PROVE  answer[t] = "refused" /\ used'[t] = used[t]
      <3>1. \/ UNCHANGED <<answer, used>>
            \/ \E result \in {"unexpected destination", "missing configuration", "asked"} :
                  \E c : End(u, result, c)
        BY <2>2 DEF SeekClient, KeepClient
      <3> QED  BY <1>1, <3>1 DEF End
    <2>3. CASE \/ LoadEnvironment \/ Serve \/ UNCHANGED coreVars
               \/ \E x \in Apps : Configure(x) \/ RegisterProxy(x) \/ RequireAuthByDefault(x)
               \/ \E u \in Requests : FindBase(u) \/ StoreCore(u)
      <3>1. UNCHANGED <<answer, used>>
        BY <2>3 DEF LoadEnvironment, Serve, coreVars, Configure, RegisterProxy,
                    RequireAuthByDefault, requestVars, FindBase, StoreCore
      <3> QED  BY <3>1
    <2> QED  BY <2>1, <2>2, <2>3 DEF CoreNext
  <1> QED  BY <1>2, <1>3, <1>4

\* The contract route of an app that does not set PLATFORM_SECRET in app.config opens to
\* the app's key: what contract_key refutes is refuted by such a setting only.
THEOREM ContractOpensToEnvironment == CoreSpec => []EnvironmentKeyOpens
  <1>1. CoreInit => KeysOfEnv /\ RefusedKeys
    BY DEF CoreInit, KeysOfEnv, RefusedKeys
  <1>2. IInv /\ KeysOfEnv /\ RefusedKeys /\ [CoreNext]_coreVars
        => KeysOfEnv' /\ RefusedKeys'
    BY KeysOfEnvStay, RefusedKeysStay
  <1>3. IInv /\ KeysOfEnv /\ RefusedKeys => EnvironmentKeyOpens
    <2> SUFFICES ASSUME IInv, KeysOfEnv, RefusedKeys, NEW t \in Requests,
                        settings[app[t]].secret = None, answer[t] = "refused",
                        used[t].key \in Secrets, used[t].key = Snapshot(app[t]).secret
                 PROVE  FALSE
      BY DEF EnvironmentKeyOpens
    <2>1. app[t] \in Apps
      BY DEF IInv, CoreTypeOK
    <2>2. core[app[t]] # None
      BY PlaceAssumption DEF Snapshot, Nowhere
    <2> QED  BY <2>1, <2>2 DEF KeysOfEnv, RefusedKeys
  <1> QED  BY InvariantHolds, <1>1, <1>2, <1>3, PTL DEF CoreSpec
=============================================================================
