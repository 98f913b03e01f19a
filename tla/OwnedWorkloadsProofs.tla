------------------------ MODULE OwnedWorkloadsProofs ------------------------
(***************************************************************************)
(* What OwnedWorkloads guarantees for every set of objects, every naming   *)
(* of workloads, every start and every sequence of writes, faults and      *)
(* restarts: no workload changes hands, and once nothing is left to do     *)
(* every MCPServer and every Trigger has the workloads and the status its  *)
(* spec asks for.                                                          *)
(*                                                                         *)
(* As for the Agents, the invariant says what holds on the way: what an    *)
(* owner has not taken into account is announced in a cache that is        *)
(* behind, in the controllers a workload's undelivered versions name, in   *)
(* an event or in the queue, or its Reconcile has met nothing stale.       *)
(***************************************************************************)
EXTENDS OwnedWorkloads, TLAPS

All == Objects \union Workloads

\* The workload, in world w, is controlled by this very object o.
Mine(w, o, l) == Exists(w, l) /\ w[l].spec.owner = o /\ w[l].spec.uid = w[o].uid

OwnSpec(w, o, replicas, address, secret) ==
  [owner |-> o, uid |-> w[o].uid, replicas |-> replicas, address |-> address,
   secret |-> secret]

AddressOf(w, o) == <<o, servicePort(w[o].spec)>>

\* The MCPServer's workloads are what its spec asks for.
DeploymentFits(w, o) ==
  w[DeploymentOf(o)].spec = OwnSpec(w, o, w[o].spec.replicas, AddressOf(w, o), None)
ServiceFits(w, o) ==
  w[ServiceOf(o)].spec = OwnSpec(w, o, 0, AddressOf(w, o), None)

\* What a Trigger's Agent and Credential say.
AgentServes(w, o) ==
  LET a == w[o].spec.agent IN Exists(w, a) /\ w[a].spec.port # None
CallOf(w, o) == <<w[o].spec.agent, w[w[o].spec.agent].spec.port>>
SecretOf(w, o) ==
  LET c == w[o].spec.credential IN IF c = None THEN None ELSE w[c].spec.secret
Resolved(w, o) ==
  /\ w[o].spec.valid
  /\ AgentServes(w, o)
  /\ w[o].spec.credential = None \/ Exists(w, w[o].spec.credential)
AdapterFits(w, o) ==
  w[DeploymentOf(o)].spec
    = OwnSpec(w, o, w[o].spec.replicas, CallOf(w, o), SecretOf(w, o))

\* The status and the workloads of o agree with world w.
PodsFit(w, o) ==
  w[o].status.reason = "Reconciled"
    <=> Enough(o, w[o].spec, w[DeploymentOf(o)].status.available)
McpSettled(w, o) ==
  IF w[o].spec.external # None
  THEN /\ ~Mine(w, o, DeploymentOf(o)) /\ ~Mine(w, o, ServiceOf(o))
       /\ w[o].status.endpoint = w[o].spec.external
  ELSE /\ DeploymentFits(w, o) /\ ServiceFits(w, o)
       /\ w[o].status.endpoint = AddressOf(w, o)
       /\ PodsFit(w, o)
TriggerSettled(w, o) ==
  IF Resolved(w, o)
  THEN /\ AdapterFits(w, o)
       /\ w[o].status.endpoint = CallOf(w, o)
       /\ w[o].status.reason \in {"Reconciled", "Progressing"}
       /\ PodsFit(w, o)
  ELSE w[o].status.reason \notin {"Reconciled", "Progressing"}
Settled(w, o) ==
  /\ w[o].status.observed = w[o].gen
  /\ o \in MCPServers => McpSettled(w, o)
  /\ o \in Triggers => TriggerSettled(w, o)

\* What the Reconcile j of o has met so far agrees with world w.
McpFresh(j, w, o) ==
  /\ j.pc = "deleteService" => ~Mine(w, o, DeploymentOf(o))
  /\ j.pc = "service" => DeploymentFits(w, o)
  /\ j.pc = "publish" /\ j.reason = "none" =>
       IF w[o].spec.external # None
       THEN ~Mine(w, o, DeploymentOf(o)) /\ ~Mine(w, o, ServiceOf(o))
       ELSE DeploymentFits(w, o) /\ ServiceFits(w, o)
TriggerFresh(j, w, o) ==
  /\ j.pc = "credential" => AgentServes(w, o) /\ j.endpoint = CallOf(w, o)
  /\ j.pc = "deployment" => /\ Resolved(w, o) /\ j.endpoint = CallOf(w, o)
                            /\ j.secret = SecretOf(w, o)
  /\ j.pc = "publish" /\ j.reason = "none" =>
       Resolved(w, o) /\ j.endpoint = CallOf(w, o) /\ AdapterFits(w, o)
  /\ j.pc = "publish" /\ j.reason # "none" => ~Resolved(w, o)
NothingStale(j, w, o) ==
  /\ o \in MCPServers => McpFresh(j, w, o)
  /\ o \in Triggers => TriggerFresh(j, w, o)

\* The steps of a Reconcile by kind of owner, and what each has established of
\* the spec it works on.
JobShape(j, o) ==
  /\ j.pc = "idle" => j = Idle
  /\ j.pc # "idle" => j.obj \in Version(SpecOf(o))
  /\ j.pc \in {"agent", "credential"} => o \in Triggers /\ j.obj.spec.valid
  /\ j.pc = "credential" => j.obj.spec.credential # None
  /\ j.pc \in {"agent", "credential"} => j.secret = None
  /\ j.pc = "deployment" /\ o \in Triggers => j.obj.spec.valid
  /\ j.pc \in {"deleteDeployment", "deleteService", "service"} => o \in MCPServers
  /\ j.pc \in {"deleteDeployment", "deleteService"} => j.obj.spec.external # None
  /\ j.pc \in {"deployment", "service"} /\ o \in MCPServers => j.obj.spec.external = None
  /\ j.pc # "publish" => j.reason = "none"
  /\ j.reason \in {"none", "InvalidSpec", "ReferenceNotFound", "CreateFailed"}
  /\ j.reason \in {"InvalidSpec", "ReferenceNotFound"} => o \in Triggers
  /\ j.reason = "CreateFailed" => o \in MCPServers
  /\ j.pc \in {"credential", "deployment"} /\ o \in Triggers => j.endpoint \in Addresses

CacheFollows == \A n \in All : cache[n].rv = store[n].rv => cache[n] = store[n]

\* A Reconcile holds a version of its owner that the cache has had.
JobFollows ==
  \A o \in Owners :
    /\ JobShape(job[o], o)
    /\ job[o].pc # "idle" =>
         /\ job[o].obj.rv <= cache[o].rv
         /\ job[o].obj.rv = cache[o].rv => job[o].obj = cache[o]

\* A workload that differs from its cached version will wake the controllers of
\* both, and no workload is of another owner than its name says.
WakeFollows ==
  \A l \in Workloads :
    /\ cache[l] = store[l] => wake[l] = {}
    /\ cache[l] # store[l] => ControllerOf(cache, l) \union ControllerOf(store, l) \subseteq wake[l]
    /\ \A o \in ControllerOf(cache, l) \union ControllerOf(store, l) :
         l \in {DeploymentOf(o), ServiceOf(o)}

Announced(o) ==
  \/ cache[o] # store[o]
  \/ o \in queue
  \/ o \in wake[DeploymentOf(o)] \/ o \in wake[ServiceOf(o)]
  \/ o \in Triggers /\ notify \intersect {cache[o].spec.agent, cache[o].spec.credential} # {}

Attended(o) ==
  Exists(store, o) =>
    \/ Announced(o)
    \/ job[o].pc # "idle" /\ (job[o].obj.rv # store[o].rv \/ job[o].reason = "CreateFailed"
                                \/ NothingStale(job[o], cache, o))
    \/ Settled(cache, o)

IndInv ==
  /\ TypeOK
  /\ CacheFollows
  /\ JobFollows
  /\ WakeFollows
  /\ \A o \in Owners : Attended(o)

-----------------------------------------------------------------------------
(* Kinds, types and worlds.                                                *)

WorldOK(w) == DOMAIN w = All /\ \A n \in All : w[n] \in VersionOf(n)

LEMMA KindSpecs ==
  /\ \A n \in MCPServers : SpecOf(n) = MCPServerSpec
  /\ \A n \in Triggers : SpecOf(n) = TriggerSpec
  /\ \A n \in Agents : SpecOf(n) = [port : Ports \union {None}]
  /\ \A n \in Credentials : SpecOf(n) = [secret : Secrets]
<1>1. \A n \in MCPServers : SpecOf(n) = MCPServerSpec
  BY KindsAssumption, Zenon DEF SpecOf, Named
<1>2. \A n \in Triggers : SpecOf(n) = TriggerSpec
  BY KindsAssumption, Zenon DEF SpecOf, Named
<1>3. \A n \in Agents : SpecOf(n) = [port : Ports \union {None}]
  BY KindsAssumption, Zenon DEF SpecOf, Named
<1>4. \A n \in Credentials : SpecOf(n) = [secret : Secrets]
  BY KindsAssumption, Zenon DEF SpecOf, Named
<1> QED BY <1>1, <1>2, <1>3, <1>4, Zenon

\* The workloads of an owner, and their kinds.
LEMMA WorkloadNames ==
  /\ \A o \in Owners : DeploymentOf(o) \in Deployments /\ ServiceOf(o) \in Services
  /\ \A o \in Owners : DeploymentOf(o) \in Workloads /\ ServiceOf(o) \in Workloads
  /\ \A o, p \in Owners : DeploymentOf(o) # ServiceOf(p)
  /\ Deployments \intersect Services = {}
  /\ \A l \in Workloads : l \in All /\ l \notin Objects
  /\ \A n \in Objects : n \in All /\ n \notin Workloads
<1>0. \A o \in Owners : NameOf[o] \in Names
  BY DEF Names
<1>1. \A o \in Owners : DeploymentOf(o) \in Deployments /\ ServiceOf(o) \in Services
  BY <1>0 DEF DeploymentOf, ServiceOf, Deployments, Services
<1>3. Deployments \intersect Services = {}
  BY DEF Deployments, Services
<1>2. \A o, p \in Owners : DeploymentOf(o) # ServiceOf(p)
  BY <1>1, <1>3
<1> QED BY <1>1, <1>2, <1>3, KindsAssumption DEF Workloads, All

LEMMA VersionParts ==
  /\ \A n \in Objects : VersionOf(n) = Version(SpecOf(n) \union {None})
  /\ \A l \in Workloads : VersionOf(l) = Version(WorkloadSpec \union {None})
BY KindsAssumption DEF VersionOf

LEMMA WorldParts ==
  ASSUME NEW w, WorldOK(w)
  PROVE  /\ \A n \in All : /\ w[n].rv \in Nat /\ w[n].uid \in Nat /\ w[n].gen \in Nat
                           /\ w[n].status \in Status
         /\ \A n \in Objects : Exists(w, n) => w[n].spec \in SpecOf(n)
         /\ \A n \in MCPServers : Exists(w, n) => w[n].spec \in MCPServerSpec
         /\ \A n \in Triggers : Exists(w, n) => w[n].spec \in TriggerSpec
         /\ \A n \in Agents : Exists(w, n) => w[n].spec.port \in Ports \union {None}
         /\ \A n \in Credentials : Exists(w, n) => w[n].spec.secret \in Secrets
         /\ \A n \in Workloads : Exists(w, n) => w[n].spec \in WorkloadSpec
<1>1. \A n \in All : /\ w[n].rv \in Nat /\ w[n].uid \in Nat /\ w[n].gen \in Nat
                     /\ w[n].status \in Status
  BY DEF WorldOK, VersionOf, Version
<1>2. \A n \in Objects : Exists(w, n) => w[n].spec \in SpecOf(n)
  <2>1. \A n \in Objects : w[n] \in Version(SpecOf(n) \union {None})
    BY VersionParts DEF WorldOK, All
  <2> QED BY <2>1 DEF Version, Exists
<1>3. \A n \in Workloads : Exists(w, n) => w[n].spec \in WorkloadSpec
  <2>1. \A n \in Workloads : w[n] \in Version(WorkloadSpec \union {None})
    BY VersionParts DEF WorldOK, All
  <2> QED BY <2>1 DEF Version, Exists
<1>4. \A n \in MCPServers : Exists(w, n) => w[n].spec \in MCPServerSpec
  BY <1>2, KindSpecs DEF Objects, Owners
<1>5. \A n \in Triggers : Exists(w, n) => w[n].spec \in TriggerSpec
  BY <1>2, KindSpecs DEF Objects, Owners
<1>6. \A n \in Agents : Exists(w, n) => w[n].spec.port \in Ports \union {None}
  <2>1. \A n \in Agents : Exists(w, n) => w[n].spec \in [port : Ports \union {None}]
    BY <1>2, KindSpecs DEF Objects, Named
  <2> QED BY <2>1
<1>7. \A n \in Credentials : Exists(w, n) => w[n].spec.secret \in Secrets
  <2>1. \A n \in Credentials : Exists(w, n) => w[n].spec \in [secret : Secrets]
    BY <1>2, KindSpecs DEF Objects, Named
  <2> QED BY <2>1
<1> QED BY <1>1, <1>2, <1>3, <1>4, <1>5, <1>6, <1>7

LEMMA Worlds ==
  ASSUME TypeOK
  PROVE  /\ WorldOK(store) /\ WorldOK(cache)
         /\ \A n \in All : cache[n].rv <= store[n].rv
         /\ \A n \in All : cache[n].rv \in Nat /\ store[n].rv \in Nat
<1>1. WorldOK(store) /\ WorldOK(cache)
  BY DEF TypeOK, WorldOK, All
<1>2. \A n \in All : cache[n].rv <= store[n].rv
  BY DEF TypeOK, All
<1> QED BY <1>1, <1>2, WorldParts

LEMMA Kinds ==
  /\ Owners = MCPServers \union Triggers
  /\ MCPServers \intersect Triggers = {}
  /\ Owners \subseteq Objects /\ Named \subseteq Objects /\ Owners \intersect Named = {}
  /\ Agents \subseteq Named /\ Credentials \subseteq Named
  /\ \A o \in MCPServers : Controller(o) = MCPServers
  /\ \A o \in Triggers : Controller(o) = Triggers
BY KindsAssumption DEF Owners, Objects, Named, Controller

LEMMA IdleIsJob ==
  \A o \in Owners : Idle \in JobOf(o) /\ JobShape(Idle, o)
<1>1. \A o \in Owners : Idle \in JobOf(o)
  BY DEF Idle, JobOf, PCs, Addresses, Reasons
<1>2. \A o \in Owners : JobShape(Idle, o)
  BY DEF JobShape, Idle
<1> QED BY <1>1, <1>2

LEMMA NoStatusIsStatus == NoStatus \in Status
BY DEF NoStatus, Status, Reasons, Addresses

LEMMA InitHolds == Init => IndInv
<1> SUFFICES ASSUME Init PROVE IndInv
  OBVIOUS
<1>1. PICK w \in InitSpecs :
        store = [n \in Objects \union Workloads |->
                   IF n \in Objects /\ w[n] # None THEN Fresh(1, w[n]) ELSE Absent(0)]
  BY DEF Init
<1>2. ASSUME NEW n \in Objects
      PROVE  store[n] \in VersionOf(n)
  <2>1. w[n] \in SpecOf(n) \union {None}
    BY InitSpecsAssumption
  <2>2. store[n] = IF w[n] # None THEN Fresh(1, w[n]) ELSE Absent(0)
    BY <1>1
  <2>3. store[n] \in Version(SpecOf(n) \union {None})
    BY <2>1, <2>2, NoStatusIsStatus DEF Fresh, Absent, Version
  <2> QED BY <2>3, VersionParts
<1>3. ASSUME NEW n \in Workloads
      PROVE  store[n] \in VersionOf(n) /\ ~Exists(store, n)
  <2>1. store[n] = Absent(0)
    BY <1>1, WorkloadNames
  <2>2. store[n] \in Version(WorkloadSpec \union {None})
    BY <2>1, NoStatusIsStatus DEF Absent, Version
  <2> QED BY <2>1, <2>2, VersionParts DEF Exists, Absent
<1>4. /\ cache = store /\ edits = 0 /\ faults = 0 /\ notify = {}
      /\ wake = [l \in Workloads |-> {}]
      /\ queue = {o \in Owners : Exists(store, o)}
      /\ job = [o \in Owners |-> Idle]
  BY DEF Init
<1>5. \A n \in Objects \union Workloads :
        /\ store[n] \in VersionOf(n) /\ cache[n] \in VersionOf(n)
        /\ cache[n].rv <= store[n].rv
  BY <1>2, <1>3, <1>4 DEF VersionOf, Version
<1>6. \A o \in Owners : job[o] = Idle /\ job[o].pc = "idle"
  BY <1>4 DEF Idle
<1>7. TypeOK
  <2>1. DOMAIN store = Objects \union Workloads /\ DOMAIN cache = Objects \union Workloads
    BY <1>1, <1>4
  <2>2. edits \in 0..MaxEdits /\ faults \in 0..MaxFaults
    BY <1>4, BoundAssumption
  <2>3. wake \in [Workloads -> SUBSET Owners]
    BY <1>4
  <2>4. DOMAIN job = Owners /\ \A o \in Owners : job[o] \in JobOf(o)
    BY <1>4, IdleIsJob
  <2> QED BY <2>1, <2>2, <2>3, <2>4, <1>4, <1>5, <1>6 DEF TypeOK
<1>8. CacheFollows
  BY <1>4 DEF CacheFollows
<1>9. JobFollows
  BY <1>6, IdleIsJob DEF JobFollows
<1>10. WakeFollows
  BY <1>3, <1>4 DEF WakeFollows, ControllerOf
<1>11. \A o \in Owners : Attended(o)
  BY <1>4 DEF Attended, Announced
<1> QED BY <1>7, <1>8, <1>9, <1>10, <1>11 DEF IndInv

-----------------------------------------------------------------------------
(* What an owner's Reconcile finds depends on what wakes it.               *)

\* The objects that wake o in world w.
Watched(w, o) ==
  {o, DeploymentOf(o), ServiceOf(o)}
    \union (IF o \in Triggers THEN {w[o].spec.agent, w[o].spec.credential} ELSE {})

LEMMA WatchFrame ==
  ASSUME NEW w, WorldOK(w), NEW v, NEW o \in Owners, Exists(w, o),
         \A n \in Watched(w, o) \intersect All : v[n] = w[n]
  PROVE  /\ v[o] = w[o] /\ v[DeploymentOf(o)] = w[DeploymentOf(o)]
         /\ v[ServiceOf(o)] = w[ServiceOf(o)]
         /\ o \in Triggers => /\ AgentServes(v, o) = AgentServes(w, o)
                              /\ CallOf(v, o) = CallOf(w, o)
                              /\ SecretOf(v, o) = SecretOf(w, o)
                              /\ Resolved(v, o) = Resolved(w, o)
<1>1. /\ v[o] = w[o] /\ v[DeploymentOf(o)] = w[DeploymentOf(o)]
      /\ v[ServiceOf(o)] = w[ServiceOf(o)]
  BY WorkloadNames, Kinds DEF Watched
<1>2. ASSUME o \in Triggers
      PROVE  /\ AgentServes(v, o) = AgentServes(w, o)
             /\ CallOf(v, o) = CallOf(w, o)
             /\ SecretOf(v, o) = SecretOf(w, o)
             /\ Resolved(v, o) = Resolved(w, o)
  <2>1. w[o].spec.agent \in Agents /\ w[o].spec.credential \in Credentials \union {None}
    BY <1>2, WorldParts DEF TriggerSpec
  <2>2. v[w[o].spec.agent] = w[w[o].spec.agent]
    BY <1>2, <2>1, Kinds, WorkloadNames DEF Watched
  <2>3. w[o].spec.credential # None => v[w[o].spec.credential] = w[w[o].spec.credential]
    BY <1>2, <2>1, Kinds, WorkloadNames DEF Watched
  <2>4. AgentServes(v, o) = AgentServes(w, o) /\ CallOf(v, o) = CallOf(w, o)
    BY <1>1, <2>2 DEF AgentServes, CallOf, Exists
  <2>5. SecretOf(v, o) = SecretOf(w, o)
    BY <1>1, <2>3 DEF SecretOf
  <2>6. Resolved(v, o) = Resolved(w, o)
    BY <1>1, <2>3, <2>4 DEF Resolved, Exists
  <2> QED BY <2>4, <2>5, <2>6
<1> QED BY <1>1, <1>2

\* The facts about o that its status and its Reconcile are compared with.
LEMMA FitFrame ==
  ASSUME NEW w, WorldOK(w), NEW v, NEW o \in Owners, Exists(w, o),
         \A n \in Watched(w, o) \intersect All : v[n] = w[n]
  PROVE  /\ \A l \in {DeploymentOf(o), ServiceOf(o)} : Mine(v, o, l) = Mine(w, o, l)
         /\ DeploymentFits(v, o) = DeploymentFits(w, o)
         /\ ServiceFits(v, o) = ServiceFits(w, o)
         /\ AddressOf(v, o) = AddressOf(w, o)
         /\ PodsFit(v, o) = PodsFit(w, o)
         /\ o \in Triggers => AdapterFits(v, o) = AdapterFits(w, o)
<1>1. /\ v[o] = w[o] /\ v[DeploymentOf(o)] = w[DeploymentOf(o)]
      /\ v[ServiceOf(o)] = w[ServiceOf(o)]
  BY WatchFrame
<1>2. o \in Triggers => CallOf(v, o) = CallOf(w, o) /\ SecretOf(v, o) = SecretOf(w, o)
  BY WatchFrame
<1>3. \A l \in {DeploymentOf(o), ServiceOf(o)} : Mine(v, o, l) = Mine(w, o, l)
  BY <1>1 DEF Mine, Exists
<1>4. AddressOf(v, o) = AddressOf(w, o)
  BY <1>1 DEF AddressOf
<1>5. DeploymentFits(v, o) = DeploymentFits(w, o) /\ ServiceFits(v, o) = ServiceFits(w, o)
  BY <1>1, <1>4 DEF DeploymentFits, ServiceFits, OwnSpec
<1>6. PodsFit(v, o) = PodsFit(w, o)
  BY <1>1 DEF PodsFit
<1>7. o \in Triggers => AdapterFits(v, o) = AdapterFits(w, o)
  BY <1>1, <1>2 DEF AdapterFits, OwnSpec
<1> QED BY <1>3, <1>4, <1>5, <1>6, <1>7

LEMMA SettledFrame ==
  ASSUME NEW w, WorldOK(w), NEW v, NEW o \in Owners, Exists(w, o),
         \A n \in Watched(w, o) \intersect All : v[n] = w[n]
  PROVE  /\ Settled(w, o) => Settled(v, o)
         /\ \A j : NothingStale(j, w, o) => NothingStale(j, v, o)
<1>1. v[o] = w[o]
  BY WatchFrame
<1>2. McpSettled(v, o) = McpSettled(w, o)
  BY <1>1, FitFrame DEF McpSettled
<1>3. ASSUME o \in Triggers, TriggerSettled(w, o)
      PROVE  TriggerSettled(v, o)
  <2>1. CallOf(v, o) = CallOf(w, o) /\ Resolved(v, o) = Resolved(w, o)
    BY <1>3, WatchFrame
  <2>2. AdapterFits(v, o) = AdapterFits(w, o) /\ PodsFit(v, o) = PodsFit(w, o)
    BY <1>3, FitFrame
  <2> QED BY <2>1, <2>2, <1>1, <1>3 DEF TriggerSettled
<1>4. \A j : McpFresh(j, w, o) => McpFresh(j, v, o)
  BY <1>1, FitFrame DEF McpFresh
<1>5. ASSUME o \in Triggers, NEW j, TriggerFresh(j, w, o)
      PROVE  TriggerFresh(j, v, o)
  <2>1. /\ AgentServes(v, o) = AgentServes(w, o) /\ CallOf(v, o) = CallOf(w, o)
        /\ SecretOf(v, o) = SecretOf(w, o) /\ Resolved(v, o) = Resolved(w, o)
    BY <1>5, WatchFrame
  <2>2. AdapterFits(v, o) = AdapterFits(w, o)
    BY <1>5, FitFrame
  <2> QED BY <2>1, <2>2, <1>5 DEF TriggerFresh
<1> QED BY <1>1, <1>2, <1>3, <1>4, <1>5 DEF Settled, NothingStale

-----------------------------------------------------------------------------
(* Steps that write at most one workload and move at most one Reconcile.   *)

\* A version of workload l that may follow the present one.
PutOK(l, obj) ==
  /\ obj \in VersionOf(l)
  /\ obj.rv = store[l].rv + 1
  /\ obj.spec # None => l \in {DeploymentOf(obj.spec.owner), ServiceOf(obj.spec.owner)}

LEMMA PutParts ==
  ASSUME IndInv, cache' = cache,
         \/ UNCHANGED <<store, wake>>
         \/ \E l \in Workloads : \E obj : PutOK(l, obj) /\ Put(l, obj)
  PROVE  /\ DOMAIN store' = All /\ wake' \in [Workloads -> SUBSET Owners]
         /\ \A n \in All : store'[n] \in VersionOf(n) /\ cache[n].rv <= store'[n].rv
         /\ \A n \in Objects : store'[n] = store[n]
         /\ \A l \in Workloads : wake[l] \subseteq wake'[l]
         /\ CacheFollows' /\ WakeFollows'
<1>1. TypeOK /\ CacheFollows /\ WakeFollows
  BY DEF IndInv
<1>2. CASE UNCHANGED <<store, wake>>
  BY <1>1, <1>2 DEF TypeOK, CacheFollows, WakeFollows, ControllerOf, Exists, All
<1>3. ASSUME NEW l \in Workloads, NEW obj, PutOK(l, obj), Put(l, obj)
      PROVE  /\ DOMAIN store' = All /\ wake' \in [Workloads -> SUBSET Owners]
             /\ \A n \in All : store'[n] \in VersionOf(n) /\ cache[n].rv <= store'[n].rv
             /\ \A n \in Objects : store'[n] = store[n]
             /\ \A k \in Workloads : wake[k] \subseteq wake'[k]
             /\ CacheFollows' /\ WakeFollows'
  <2>1. DOMAIN store = All /\ l \in All /\ wake \in [Workloads -> SUBSET Owners]
    BY <1>1, WorkloadNames DEF TypeOK, All
  <2>2. store' = [store EXCEPT ![l] = obj]
    BY <1>3 DEF Put
  <2>3. /\ DOMAIN store' = All /\ store'[l] = obj
        /\ \A n \in All : n # l => store'[n] = store[n]
    BY <2>1, <2>2
  <2>4. cache[l].rv <= store[l].rv /\ cache[l].rv \in Nat /\ store[l].rv \in Nat
    BY <1>1, <2>1, Worlds
  <2>5. cache[l].rv < store'[l].rv /\ cache[l] # store'[l] /\ store[l] # store'[l]
    BY <2>3, <2>4, <1>3 DEF PutOK
  <2>6. \A n \in All : store'[n] \in VersionOf(n) /\ cache[n].rv <= store'[n].rv
    BY <2>3, <2>4, <2>5, <1>1, <1>3 DEF PutOK, TypeOK, All
  <2>7. \A n \in Objects : store'[n] = store[n]
    BY <2>3, WorkloadNames
  <2>8. ControllerOf(store, l) \subseteq Owners /\ ControllerOf(store', l) \subseteq Owners
    <3>1. Exists(store, l) => store[l].spec \in WorkloadSpec
      BY <1>1, Worlds, WorldParts
    <3>2. obj \in Version(WorkloadSpec \union {None})
      BY <1>3, VersionParts DEF PutOK
    <3>3. Exists(store', l) => store'[l].spec \in WorkloadSpec
      BY <2>3, <3>2 DEF Exists, Version
    <3> QED BY <3>1, <3>3 DEF ControllerOf, WorkloadSpec
  <2>9. wake' = [wake EXCEPT ![l] = wake[l] \union ControllerOf(store, l)
                                            \union ControllerOf(store', l)]
    BY <1>3 DEF Put
  <2>10. /\ wake' \in [Workloads -> SUBSET Owners]
         /\ wake'[l] = wake[l] \union ControllerOf(store, l) \union ControllerOf(store', l)
         /\ \A k \in Workloads : k # l => wake'[k] = wake[k]
    BY <2>1, <2>8, <2>9
  <2>11. CacheFollows'
    BY <1>1, <2>3, <2>4, <2>5 DEF CacheFollows
  <2>12. ASSUME NEW k \in Workloads
         PROVE  /\ cache[k] = store'[k] => wake'[k] = {}
                /\ cache[k] # store'[k] =>
                     ControllerOf(cache, k) \union ControllerOf(store', k) \subseteq wake'[k]
                /\ \A o \in ControllerOf(cache, k) \union ControllerOf(store', k) :
                     k \in {DeploymentOf(o), ServiceOf(o)}
    <3>1. CASE k # l
      <4>1. store'[k] = store[k] /\ wake'[k] = wake[k]
        BY <3>1, <2>3, <2>10, WorkloadNames
      <4>2. ControllerOf(store', k) = ControllerOf(store, k)
        BY <4>1 DEF ControllerOf, Exists
      <4> QED BY <4>1, <4>2, <1>1 DEF WakeFollows
    <3>2. CASE k = l
      <4>1. ControllerOf(cache, l) \subseteq wake'[l]
        <5>1. CASE cache[l] = store[l]
          <6>1. ControllerOf(cache, l) = ControllerOf(store, l)
            BY <5>1 DEF ControllerOf, Exists
          <6> QED BY <6>1, <2>10
        <5>2. CASE cache[l] # store[l]
          BY <5>2, <2>10, <1>1 DEF WakeFollows
        <5> QED BY <5>1, <5>2
      <4>2. \A o \in ControllerOf(store', l) : l \in {DeploymentOf(o), ServiceOf(o)}
        BY <2>3, <1>3 DEF ControllerOf, Exists, PutOK
      <4>3. \A o \in ControllerOf(cache, l) : l \in {DeploymentOf(o), ServiceOf(o)}
        BY <1>1 DEF WakeFollows
      <4> QED BY <3>2, <4>1, <4>2, <4>3, <2>5, <2>10
    <3> QED BY <3>1, <3>2
  <2>13. WakeFollows'
    <3>1. \A k \in Workloads : ControllerOf(cache', k) = ControllerOf(cache, k)
      BY DEF ControllerOf, Exists
    <3> QED BY <3>1, <2>12 DEF WakeFollows
  <2> QED BY <2>3, <2>6, <2>7, <2>10, <2>11, <2>13
<1> QED BY <1>2, <1>3

LEMMA MoveStep ==
  ASSUME IndInv, UNCHANGED <<cache, notify>>,
         edits' \in 0..MaxEdits, faults' \in 0..MaxFaults,
         queue \subseteq queue', queue' \subseteq Owners,
         \/ UNCHANGED <<store, wake>>
         \/ \E l \in Workloads : \E obj : PutOK(l, obj) /\ Put(l, obj),
         DOMAIN job' = Owners, NEW o \in Owners,
         \A p \in Owners : p # o => job'[p] = job[p],
         \/ job'[o] = job[o]
         \/ job'[o] = Idle /\ o \in queue'
         \/ /\ job[o].pc # "idle" /\ job[o].reason # "CreateFailed"
            /\ job'[o].pc # "idle" /\ job'[o].obj = job[o].obj
            /\ job'[o] \in JobOf(o) /\ JobShape(job'[o], o)
            /\ \/ job'[o].reason = "CreateFailed"
               \/ ( /\ job[o].obj = cache[o] /\ Exists(cache, o)
                    /\ NothingStale(job[o], cache, o) )
                  => NothingStale(job'[o], cache, o) \/ Announced(o)'
  PROVE  IndInv'
<1>1. TypeOK /\ CacheFollows /\ JobFollows /\ WakeFollows
  BY DEF IndInv
<1>2. /\ DOMAIN store' = All /\ wake' \in [Workloads -> SUBSET Owners]
      /\ \A n \in All : store'[n] \in VersionOf(n) /\ cache[n].rv <= store'[n].rv
      /\ \A n \in Objects : store'[n] = store[n]
      /\ \A l \in Workloads : wake[l] \subseteq wake'[l]
      /\ CacheFollows' /\ WakeFollows'
  BY PutParts
<1>3. job'[o] \in JobOf(o) /\ (job'[o] # Idle => job[o] # Idle)
  BY <1>1, IdleIsJob DEF TypeOK, Idle
<1>4. TypeOK'
  <2>1. \A p \in Owners : job'[p] \in JobOf(p)
    BY <1>1, <1>3 DEF TypeOK
  <2>2. \A p \in Owners : job'[p] # Idle => job[p] # Idle
    BY <1>3
  <2>3. \A p, q \in Owners : job'[p] # Idle /\ job'[q] # Idle /\ Controller(p) = Controller(q)
                               => p = q
    BY <2>2, <1>1 DEF TypeOK
  <2> QED BY <2>1, <2>3, <1>1, <1>2 DEF TypeOK, All
<1>5. JobFollows'
  <2>1. JobShape(job'[o], o)
    BY <1>1, IdleIsJob DEF JobFollows
  <2>2. job'[o].pc # "idle" => /\ job'[o].obj.rv <= cache[o].rv
                               /\ job'[o].obj.rv = cache[o].rv => job'[o].obj = cache[o]
    BY <1>1 DEF JobFollows, Idle
  <2> QED BY <2>1, <2>2, <1>1 DEF JobFollows
<1>6. ASSUME NEW p \in Owners
      PROVE  Attended(p)'
  <2>1. Attended(p) /\ p \in Objects
    BY Kinds DEF IndInv
  <2>2. store'[p] = store[p] /\ cache'[p] = cache[p]
    BY <1>2, <2>1
  <2> SUFFICES ASSUME Exists(store, p), ~Announced(p)' PROVE Attended(p)'
    BY <2>2 DEF Attended, Exists
  <2>3. ~Announced(p)
    <3>1. wake[DeploymentOf(p)] \subseteq wake'[DeploymentOf(p)]
            /\ wake[ServiceOf(p)] \subseteq wake'[ServiceOf(p)]
      BY <1>2, WorkloadNames
    <3> QED BY <3>1, <2>2 DEF Announced
  <2>4. CASE Settled(cache, p)
    BY <2>4 DEF Attended
  <2>5. CASE /\ job[p].pc # "idle"
             /\ job[p].obj.rv # store[p].rv \/ job[p].reason = "CreateFailed"
                  \/ NothingStale(job[p], cache, p)
    <3>1. CASE job'[p] = job[p]
      BY <2>2, <2>5, <3>1 DEF Attended
    <3>2. CASE job'[p] # job[p]
      <4>1. p = o /\ o \notin queue'
        BY <3>2 DEF Announced
      <4>2. CASE job[o].obj.rv # store[o].rv \/ job'[o].reason = "CreateFailed"
        BY <4>1, <4>2, <3>2, <2>2 DEF Attended
      <4>3. CASE job[o].obj.rv = store[o].rv /\ job'[o].reason # "CreateFailed"
        <5>1. cache[o] = store[o]
          BY <2>3, <4>1 DEF Announced
        <5>2. job[o].obj = cache[o]
          BY <1>1, <2>5, <4>1, <4>3, <5>1 DEF JobFollows
        <5>3. NothingStale(job'[o], cache, o)
          BY <2>5, <3>2, <4>1, <4>3, <5>1, <5>2 DEF Exists
        <5> QED BY <5>3, <3>2, <4>1 DEF Attended
      <4> QED BY <4>2, <4>3
    <3> QED BY <3>1, <3>2
  <2> QED BY <2>1, <2>3, <2>4, <2>5 DEF Attended
<1> QED BY <1>2, <1>4, <1>5, <1>6 DEF IndInv

LEMMA PutVersions ==
  ASSUME IndInv, NEW l \in Workloads
  PROVE  /\ PutOK(l, Absent(store[l].rv + 1))
         /\ \A sp \in WorkloadSpec :
              l \in {DeploymentOf(sp.owner), ServiceOf(sp.owner)}
                => PutOK(l, Rewritten(store[l], sp))
         /\ \A st \in Status : Exists(store, l) => PutOK(l, WithStatus(store[l], st))
<1>1. WorldOK(store) /\ l \in All /\ VersionOf(l) = Version(WorkloadSpec \union {None})
  BY Worlds, WorkloadNames, VersionParts DEF IndInv
<1>2. store[l].rv \in Nat /\ store[l].uid \in Nat /\ store[l].gen \in Nat
        /\ store[l].status \in Status
  BY <1>1, WorldParts
<1>3. PutOK(l, Absent(store[l].rv + 1))
  <2>1. Absent(store[l].rv + 1) \in Version(WorkloadSpec \union {None})
    BY <1>2, NoStatusIsStatus DEF Absent, Version
  <2>2. Absent(store[l].rv + 1).rv = store[l].rv + 1 /\ Absent(store[l].rv + 1).spec = None
    BY DEF Absent
  <2> QED BY <2>1, <2>2, <1>1 DEF PutOK
<1>4. ASSUME NEW sp \in WorkloadSpec, l \in {DeploymentOf(sp.owner), ServiceOf(sp.owner)}
      PROVE  PutOK(l, Rewritten(store[l], sp))
  <2> DEFINE new == Rewritten(store[l], sp)
  <2>1. new \in Version(WorkloadSpec \union {None})
    BY <1>2, NoStatusIsStatus DEF Rewritten, Fresh, Version
  <2>2. new.rv = store[l].rv + 1 /\ new.spec = sp
    BY DEF Rewritten, Fresh
  <2> QED BY <2>1, <2>2, <1>1, <1>4 DEF PutOK
<1>5. ASSUME NEW st \in Status, Exists(store, l)
      PROVE  PutOK(l, WithStatus(store[l], st))
  <2> DEFINE new == WithStatus(store[l], st)
  <2>1. store[l].spec \in WorkloadSpec
    BY <1>1, <1>5, WorldParts
  <2>2. new \in Version(WorkloadSpec \union {None})
    BY <1>2, <2>1 DEF WithStatus, Version
  <2>3. new.rv = store[l].rv + 1 /\ new.spec = store[l].spec
    BY DEF WithStatus
  <2>4. l \in {DeploymentOf(store[l].spec.owner), ServiceOf(store[l].spec.owner)}
    BY <1>5 DEF IndInv, WakeFollows, ControllerOf
  <2> QED BY <2>2, <2>3, <2>4, <1>1 DEF PutOK
<1> QED BY <1>3, <1>4, <1>5

\* What users and the cluster do to a workload.
LEMMA WorkloadStep ==
  ASSUME IndInv, NEW l \in Workloads,
         \/ Tamper(l) \/ GarbageCollect(l)
         \/ l \in Deployments /\ (Rollout(l) \/ LosePods(l))
  PROVE  IndInv'
<1>1. TypeOK /\ WorldOK(store)
  BY Worlds DEF IndInv
<1>2. Exists(store, l)
  BY DEF Tamper, Rollout, LosePods, GarbageCollect, Orphan
<1>3. store[l].spec \in WorkloadSpec /\ store[l].status \in Status
  BY <1>1, <1>2, WorldParts, WorkloadNames
<1>4. store[l].spec.owner \in Owners /\ store[l].spec.replicas \in 0..MaxReplicas
  BY <1>3 DEF WorkloadSpec
<1>5. l \in {DeploymentOf(store[l].spec.owner), ServiceOf(store[l].spec.owner)}
  BY <1>2 DEF IndInv, WakeFollows, ControllerOf
<1>6. \E obj : PutOK(l, obj) /\ Put(l, obj)
  <2>1. CASE Put(l, Absent(store[l].rv + 1))
    BY <2>1, PutVersions
  <2>2. CASE Put(l, Rewritten(store[l], [store[l].spec EXCEPT !.replicas = 0]))
    <3> DEFINE sp == [store[l].spec EXCEPT !.replicas = 0]
    <3>1. sp \in WorkloadSpec
      BY <1>3, BoundAssumption DEF WorkloadSpec
    <3>2. sp.owner = store[l].spec.owner
      BY <1>3 DEF WorkloadSpec
    <3> HIDE DEF sp
    <3>3. PutOK(l, Rewritten(store[l], sp))
      BY <3>1, <3>2, <1>5, PutVersions
    <3> QED BY <2>2, <3>3 DEF sp
  <2>3. ASSUME NEW k \in Nat,
               Put(l, WithStatus(store[l], [store[l].status EXCEPT !.available = k]))
        PROVE  \E obj : PutOK(l, obj) /\ Put(l, obj)
    <3>1. [store[l].status EXCEPT !.available = k] \in Status
      BY <1>3 DEF Status
    <3>2. PutOK(l, WithStatus(store[l], [store[l].status EXCEPT !.available = k]))
      BY <3>1, <1>2, PutVersions
    <3> QED BY <2>3, <3>2
  <2>4. store[l].spec.replicas \in Nat /\ 0 \in Nat
    BY <1>4, BoundAssumption
  <2>5. CASE Tamper(l) \/ GarbageCollect(l)
    BY <2>1, <2>2, <2>5 DEF Tamper, GarbageCollect
  <2>6. CASE Rollout(l)
    BY <2>3, <2>4, <2>6 DEF Rollout
  <2>7. CASE LosePods(l)
    BY <2>3, <2>4, <2>7 DEF LosePods
  <2> QED BY <2>5, <2>6, <2>7
<1>7. /\ UNCHANGED <<cache, notify, queue, job>>
      /\ edits' \in 0..MaxEdits /\ faults' \in 0..MaxFaults
  <2>1. edits \in 0..MaxEdits /\ faults \in 0..MaxFaults
    BY <1>1 DEF TypeOK
  <2> QED BY <2>1, BoundAssumption DEF Tamper, Rollout, LosePods, GarbageCollect
<1>8. queue \subseteq Owners /\ DOMAIN job = Owners
  BY <1>1 DEF TypeOK
<1> QED BY <1>4, <1>6, <1>7, <1>8, MoveStep

\* What a Reconcile in progress works on.
LEMMA JobParts ==
  ASSUME IndInv, NEW o \in Owners, job[o].pc # "idle"
  PROVE  /\ job[o] \in JobOf(o) /\ JobShape(job[o], o)
         /\ job[o].obj.uid \in Nat /\ job[o].obj.gen \in Nat /\ job[o].obj.rv \in Nat
         /\ job[o].obj.status \in Status
         /\ job[o].obj.spec \in SpecOf(o)
         /\ o \in MCPServers => job[o].obj.spec \in MCPServerSpec
         /\ o \in Triggers => job[o].obj.spec \in TriggerSpec
<1>1. job[o] \in JobOf(o) /\ JobShape(job[o], o)
  BY DEF IndInv, TypeOK, JobFollows
<1>3. job[o].obj \in Version(SpecOf(o))
  BY <1>1 DEF JobShape
<1>4. /\ job[o].obj.uid \in Nat /\ job[o].obj.gen \in Nat /\ job[o].obj.rv \in Nat
      /\ job[o].obj.status \in Status
      /\ job[o].obj.spec \in SpecOf(o)
  BY <1>3 DEF Version
<1> QED BY <1>1, <1>4, KindSpecs

LEMMA JobUpdate ==
  ASSUME TypeOK, NEW o \in Owners, NEW j, job' = [job EXCEPT ![o] = j]
  PROVE  DOMAIN job' = Owners /\ job'[o] = j /\ \A p \in Owners : p # o => job'[p] = job[p]
BY DEF TypeOK

LEMMA RetryStep ==
  ASSUME IndInv, NEW o \in Owners, Retry(o), UNCHANGED <<store, wake, cache, notify>>,
         edits' \in 0..MaxEdits, faults' \in 0..MaxFaults
  PROVE  IndInv'
<1>1. TypeOK /\ queue \subseteq Owners
  BY DEF IndInv, TypeOK
<1>2. queue' = queue \union {o} /\ job' = [job EXCEPT ![o] = Idle]
  BY DEF Retry
<1>3. DOMAIN job' = Owners /\ job'[o] = Idle /\ \A p \in Owners : p # o => job'[p] = job[p]
  BY <1>1, <1>2, JobUpdate
<1> QED BY <1>1, <1>2, <1>3, MoveStep

LEMMA WriteFailsStep ==
  ASSUME IndInv, NEW o \in Owners, job[o].pc \in {"deployment", "service"}, WriteFails(o),
         UNCHANGED <<store, wake, cache, notify>>,
         edits' \in 0..MaxEdits, faults' \in 0..MaxFaults
  PROVE  IndInv'
<1>1. CASE o \in MCPServers
  <2> DEFINE j == [job[o] EXCEPT !.pc = "publish", !.reason = "CreateFailed"]
  <2>1. TypeOK /\ queue \subseteq Owners /\ job[o] \in JobOf(o) /\ JobShape(job[o], o)
    BY JobParts DEF IndInv, TypeOK
  <2>2. job' = [job EXCEPT ![o] = j] /\ queue' = queue
    BY <1>1 DEF WriteFails
  <2>3. DOMAIN job' = Owners /\ job'[o] = j /\ \A p \in Owners : p # o => job'[p] = job[p]
    BY <2>1, <2>2, JobUpdate
  <2>4. /\ j.pc = "publish" /\ j.reason = "CreateFailed" /\ j.obj = job[o].obj
        /\ j.endpoint = job[o].endpoint /\ j.secret = job[o].secret
    BY <2>1 DEF JobOf
  <2>5. j \in JobOf(o)
    BY <2>1 DEF JobOf, PCs, Reasons
  <2> HIDE DEF j
  <2>6. JobShape(j, o)
    BY <2>1, <2>4, <1>1, Kinds DEF JobShape
  <2>7. job[o].reason # "CreateFailed"
    BY <2>1 DEF JobShape
  <2> QED BY <2>1, <2>2, <2>3, <2>4, <2>5, <2>6, <2>7, MoveStep
<1>2. CASE o \notin MCPServers
  BY <1>2, RetryStep DEF WriteFails
<1> QED BY <1>1, <1>2

LEMMA FailureStep ==
  ASSUME IndInv, NEW o \in Owners, ApplyFails(o) \/ WriteFault(o)
  PROVE  IndInv'
<1>1. edits \in 0..MaxEdits /\ faults \in 0..MaxFaults
  BY DEF IndInv, TypeOK
<1>2. CASE ApplyFails(o)
  <2>1. /\ job[o].pc \in {"deployment", "service"} /\ WriteFails(o)
        /\ UNCHANGED <<store, wake, cache, notify, edits, faults>>
    BY <1>2 DEF ApplyFails, At, world
  <2> QED BY <2>1, <1>1, WriteFailsStep
<1>3. CASE WriteFault(o)
  <2>1. UNCHANGED <<store, wake, cache, notify, edits>> /\ faults' \in 0..MaxFaults
    BY <1>1, <1>3, BoundAssumption DEF WriteFault
  <2>2. CASE job[o].pc \in {"deployment", "service"} /\ WriteFails(o)
    BY <2>1, <2>2, <1>1, WriteFailsStep
  <2>3. CASE Retry(o)
    BY <2>1, <2>3, <1>1, RetryStep
  <2> QED BY <2>2, <2>3, <1>3 DEF WriteFault
<1> QED BY <1>2, <1>3

LEMMA ReadAgentStep ==
  ASSUME IndInv, NEW o \in Owners, ReadAgent(o)
  PROVE  IndInv'
<1> DEFINE a == job[o].obj.spec.agent
           c == job[o].obj.spec.credential
<1>1. TypeOK /\ WorldOK(cache) /\ job[o].pc = "agent"
  BY Worlds DEF IndInv, ReadAgent, At
<1>2. job[o] \in JobOf(o) /\ JobShape(job[o], o) /\ o \in Triggers
  BY <1>1, JobParts DEF JobShape
<1>3. a \in Agents /\ c \in Credentials \union {None} /\ job[o].obj.spec.valid
  BY <1>1, <1>2, JobParts DEF TriggerSpec, JobShape
<1>4. /\ UNCHANGED <<store, wake, cache, notify, edits, faults, queue>>
      /\ job' = [job EXCEPT ![o] =
          IF HasEndpoint(a)
          THEN [job[o] EXCEPT !.endpoint = <<a, cache[a].spec.port>>,
                         !.pc = IF c # None THEN "credential" ELSE "deployment"]
          ELSE [job[o] EXCEPT !.pc = "publish", !.reason = "ReferenceNotFound"]]
  BY DEF ReadAgent, world
<1>5. CASE HasEndpoint(a)
  <2> DEFINE j == [job[o] EXCEPT !.endpoint = <<a, cache[a].spec.port>>,
                         !.pc = IF c # None THEN "credential" ELSE "deployment"]
  <2>1. DOMAIN job' = Owners /\ job'[o] = j /\ \A p \in Owners : p # o => job'[p] = job[p]
    BY <1>1, <1>4, <1>5, JobUpdate
  <2>2. <<a, cache[a].spec.port>> \in Addresses
    BY <1>1, <1>3, <1>5, WorldParts DEF HasEndpoint, Addresses
  <2>3. /\ j.pc = (IF c # None THEN "credential" ELSE "deployment") /\ j.obj = job[o].obj
        /\ j.endpoint = <<a, cache[a].spec.port>> /\ j.secret = job[o].secret
        /\ j.reason = job[o].reason
    BY <1>2 DEF JobOf
  <2>4. j \in JobOf(o)
    BY <1>2, <2>2 DEF JobOf, PCs
  <2> HIDE DEF j
  <2>5. JobShape(j, o)
    BY <1>1, <1>2, <1>3, <2>2, <2>3, Kinds DEF JobShape
  <2>6. ASSUME job[o].obj = cache[o]
        PROVE  NothingStale(j, cache, o)
    <3>1. AgentServes(cache, o) /\ j.endpoint = CallOf(cache, o)
      BY <2>3, <2>6, <1>5 DEF AgentServes, CallOf, HasEndpoint
    <3>2. j.pc = "deployment" => Resolved(cache, o) /\ j.secret = SecretOf(cache, o)
      <4>1. j.pc = "deployment" => c = None
        BY <2>3
      <4>2. j.secret = None
        BY <1>1, <1>2, <2>3 DEF JobShape
      <4> QED BY <4>1, <4>2, <3>1, <2>6, <1>3 DEF Resolved, SecretOf
    <3>3. TriggerFresh(j, cache, o)
      BY <3>1, <3>2, <2>3 DEF TriggerFresh
    <3> QED BY <3>3, <1>2, Kinds DEF NothingStale
  <2>7. job[o].reason # "CreateFailed"
    BY <1>1, <1>2 DEF JobShape
  <2>8. UNCHANGED <<store, wake, cache, notify, edits, faults, queue>>
    BY <1>4
  <2>9. j.pc # "idle" /\ j.obj = job[o].obj
    BY <2>3
  <2> QED BY <1>1, <2>1, <2>4, <2>5, <2>6, <2>7, <2>8, <2>9, MoveStep DEF TypeOK
<1>6. CASE ~HasEndpoint(a)
  <2> DEFINE j == [job[o] EXCEPT !.pc = "publish", !.reason = "ReferenceNotFound"]
  <2>1. DOMAIN job' = Owners /\ job'[o] = j /\ \A p \in Owners : p # o => job'[p] = job[p]
    BY <1>1, <1>4, <1>6, JobUpdate
  <2>2. /\ j.pc = "publish" /\ j.obj = job[o].obj /\ j.reason = "ReferenceNotFound"
    BY <1>2 DEF JobOf
  <2>3. j \in JobOf(o)
    BY <1>2 DEF JobOf, PCs, Reasons
  <2> HIDE DEF j
  <2>4. JobShape(j, o)
    BY <1>1, <1>2, <2>2, Kinds DEF JobShape
  <2>5. ASSUME job[o].obj = cache[o]
        PROVE  NothingStale(j, cache, o)
    <3>1. ~Resolved(cache, o)
      BY <2>5, <1>6 DEF Resolved, AgentServes, HasEndpoint
    <3>2. TriggerFresh(j, cache, o)
      BY <3>1, <2>2 DEF TriggerFresh
    <3> QED BY <3>2, <1>2, Kinds DEF NothingStale
  <2>6. job[o].reason # "CreateFailed"
    BY <1>1, <1>2 DEF JobShape
  <2> QED BY <1>1, <1>4, <2>1, <2>2, <2>3, <2>4, <2>5, <2>6, MoveStep DEF TypeOK
<1> QED BY <1>5, <1>6

LEMMA ReadCredentialStep ==
  ASSUME IndInv, NEW o \in Owners, ReadCredential(o)
  PROVE  IndInv'
<1> DEFINE c == job[o].obj.spec.credential
<1>1. TypeOK /\ WorldOK(cache) /\ job[o].pc = "credential"
  BY Worlds DEF IndInv, ReadCredential, At
<1>2. job[o] \in JobOf(o) /\ JobShape(job[o], o) /\ o \in Triggers /\ c # None
        /\ job[o].obj.spec.valid
  BY <1>1, JobParts DEF JobShape
<1>3. c \in Credentials
  BY <1>1, <1>2, JobParts DEF TriggerSpec
<1>4. /\ UNCHANGED <<store, wake, cache, notify, edits, faults, queue>>
      /\ job' = [job EXCEPT ![o] =
          IF Exists(cache, c)
          THEN [job[o] EXCEPT !.pc = "deployment", !.secret = cache[c].spec.secret]
          ELSE [job[o] EXCEPT !.pc = "publish", !.reason = "ReferenceNotFound"]]
  BY DEF ReadCredential, world
<1>5. job[o].reason # "CreateFailed"
  BY <1>1, <1>2 DEF JobShape
<1>6. CASE Exists(cache, c)
  <2> DEFINE j == [job[o] EXCEPT !.pc = "deployment", !.secret = cache[c].spec.secret]
  <2>1. DOMAIN job' = Owners /\ job'[o] = j /\ \A p \in Owners : p # o => job'[p] = job[p]
    BY <1>1, <1>4, <1>6, JobUpdate
  <2>2. cache[c].spec.secret \in Secrets
    BY <1>1, <1>3, <1>6, WorldParts
  <2>3. /\ j.pc = "deployment" /\ j.obj = job[o].obj /\ j.endpoint = job[o].endpoint
        /\ j.secret = cache[c].spec.secret /\ j.reason = job[o].reason
    BY <1>2 DEF JobOf
  <2>4. j \in JobOf(o)
    BY <1>2, <2>2 DEF JobOf, PCs
  <2> HIDE DEF j
  <2>5. JobShape(j, o)
    BY <1>1, <1>2, <2>3, Kinds DEF JobShape
  <2>6. ASSUME job[o].obj = cache[o], NothingStale(job[o], cache, o)
        PROVE  NothingStale(j, cache, o)
    <3>1. AgentServes(cache, o) /\ j.endpoint = CallOf(cache, o)
      BY <2>3, <2>6, <1>1, <1>2 DEF NothingStale, TriggerFresh
    <3>2. Resolved(cache, o) /\ j.secret = SecretOf(cache, o)
      BY <3>1, <2>3, <2>6, <1>2, <1>6 DEF Resolved, SecretOf
    <3>3. TriggerFresh(j, cache, o)
      BY <3>1, <3>2, <2>3 DEF TriggerFresh
    <3> QED BY <3>3, <1>2, Kinds DEF NothingStale
  <2> QED BY <1>1, <1>4, <1>5, <2>1, <2>3, <2>4, <2>5, <2>6, MoveStep DEF TypeOK
<1>7. CASE ~Exists(cache, c)
  <2> DEFINE j == [job[o] EXCEPT !.pc = "publish", !.reason = "ReferenceNotFound"]
  <2>1. DOMAIN job' = Owners /\ job'[o] = j /\ \A p \in Owners : p # o => job'[p] = job[p]
    BY <1>1, <1>4, <1>7, JobUpdate
  <2>2. j.pc = "publish" /\ j.obj = job[o].obj /\ j.reason = "ReferenceNotFound"
    BY <1>2 DEF JobOf
  <2>3. j \in JobOf(o)
    BY <1>2 DEF JobOf, PCs, Reasons
  <2> HIDE DEF j
  <2>4. JobShape(j, o)
    BY <1>1, <1>2, <2>2, Kinds DEF JobShape
  <2>5. ASSUME job[o].obj = cache[o]
        PROVE  NothingStale(j, cache, o)
    <3>1. ~Resolved(cache, o)
      BY <2>5, <1>2, <1>7 DEF Resolved
    <3>2. TriggerFresh(j, cache, o)
      BY <3>1, <2>2 DEF TriggerFresh
    <3> QED BY <3>2, <1>2, Kinds DEF NothingStale
  <2> QED BY <1>1, <1>4, <1>5, <2>1, <2>2, <2>3, <2>4, <2>5, MoveStep DEF TypeOK
<1> QED BY <1>6, <1>7

\* An owner asks for a workload of the right type, of its own name.
LEMMA WantedParts ==
  ASSUME IndInv, NEW o \in Owners, job[o].pc # "idle"
  PROVE  /\ job[o].pc = "deployment" =>
              WantedDeployment(o) \in WorkloadSpec /\ WantedDeployment(o).owner = o
         /\ o \in MCPServers => WantedService(o) \in WorkloadSpec /\ WantedService(o).owner = o
<1>1. job[o] \in JobOf(o) /\ JobShape(job[o], o) /\ job[o].obj.uid \in Nat
  BY JobParts
<1>2. job[o].endpoint \in Addresses \union URLs /\ job[o].secret \in Secrets \union {None}
  BY <1>1 DEF JobOf
<1>3. ASSUME o \in MCPServers
      PROVE  /\ <<o, servicePort(job[o].obj.spec)>> \in Addresses
             /\ job[o].obj.spec.replicas \in 0..MaxReplicas
  <2>1. job[o].obj.spec.port \in Ports \union {0} /\ job[o].obj.spec.replicas \in 0..MaxReplicas
    BY <1>3, JobParts DEF MCPServerSpec
  <2>2. servicePort(job[o].obj.spec) \in Ports
    BY <2>1, PortAssumption DEF servicePort
  <2> QED BY <2>1, <2>2, <1>3 DEF Addresses
<1>4. ASSUME o \in Triggers, job[o].pc = "deployment"
      PROVE  job[o].obj.spec.replicas \in 0..MaxReplicas /\ job[o].endpoint \in Addresses
  <2>1. job[o].obj.spec.replicas \in 0..1
    BY <1>4, JobParts DEF TriggerSpec
  <2> QED BY <2>1, <1>1, <1>4, BoundAssumption DEF JobShape
<1>5. 0 \in 0..MaxReplicas /\ None \in Secrets \union {None}
  BY BoundAssumption
<1>6. \A r \in 0..MaxReplicas, d \in Addresses, s \in Secrets \union {None} :
        Owned(o, r, d, s) \in WorkloadSpec /\ Owned(o, r, d, s).owner = o
  BY <1>1 DEF Owned, WorkloadSpec
<1>7. o \in MCPServers => WantedService(o) \in WorkloadSpec /\ WantedService(o).owner = o
  BY <1>3, <1>5, <1>6 DEF WantedService
<1>8. CASE o \in MCPServers
  BY <1>3, <1>5, <1>6, <1>7, <1>8 DEF WantedDeployment
<1>9. CASE o \in Triggers
  BY <1>2, <1>4, <1>6, <1>9, Kinds DEF WantedDeployment
<1> QED BY <1>8, <1>9, Kinds

\* CreateOrUpdate finds what it wants in the cache, or its write wakes o.
LEMMA CreateOrUpdateParts ==
  ASSUME IndInv, cache' = cache, NEW o \in Owners,
         NEW l \in {DeploymentOf(o), ServiceOf(o)},
         NEW wanted \in WorkloadSpec, wanted.owner = o, CreateOrUpdate(l, wanted)
  PROVE  /\ \/ UNCHANGED <<store, wake>>
            \/ \E k \in Workloads : \E obj : PutOK(k, obj) /\ Put(k, obj)
         /\ cache[l].spec = wanted \/ Announced(o)'
<1>1. l \in Workloads
  BY WorkloadNames
<1>2. CASE InSync(l, wanted)
  BY <1>2 DEF CreateOrUpdate, InSync
<1>3. CASE ~InSync(l, wanted)
  <2> DEFINE new == Rewritten(store[l], wanted)
  <2>1. Put(l, new)
    BY <1>3 DEF CreateOrUpdate
  <2>2. PutOK(l, new)
    BY PutVersions, <1>1
  <2>3. new.spec = wanted
    BY DEF Rewritten, Fresh
  <2> HIDE DEF new
  <2>4. l \in DOMAIN store /\ wake \in [Workloads -> SUBSET Owners]
    BY <1>1 DEF IndInv, TypeOK
  <2>5. store'[l] = new
    BY <2>1, <2>4 DEF Put
  <2>6. wanted # None
    BY NoneAssumption
  <2>7. ControllerOf(store', l) = {o}
    BY <2>3, <2>5, <2>6 DEF ControllerOf, Exists
  <2>8. o \in wake'[l]
    BY <2>1, <2>4, <2>7, <1>1 DEF Put
  <2>9. Announced(o)'
    BY <2>8 DEF Announced
  <2> QED BY <1>1, <2>1, <2>2, <2>9
<1> QED BY <1>2, <1>3

\* A Reconcile that goes on with another step.
LEMMA GotoParts ==
  ASSUME IndInv, NEW o \in Owners, job[o].pc # "idle", NEW pc \in PCs, Goto(o, pc)
  PROVE  /\ DOMAIN job' = Owners /\ \A p \in Owners : p # o => job'[p] = job[p]
         /\ job'[o] \in JobOf(o)
         /\ job'[o].pc = pc /\ job'[o].obj = job[o].obj
         /\ job'[o].endpoint = job[o].endpoint /\ job'[o].secret = job[o].secret
         /\ job'[o].reason = job[o].reason
<1>1. TypeOK /\ job[o] \in JobOf(o)
  BY JobParts DEF IndInv
<1>2. job' = [job EXCEPT ![o] = [job[o] EXCEPT !.pc = pc]]
  BY DEF Goto
<1>3. /\ DOMAIN job' = Owners /\ job'[o] = [job[o] EXCEPT !.pc = pc]
      /\ \A p \in Owners : p # o => job'[p] = job[p]
  BY <1>1, <1>2, JobUpdate
<1> QED BY <1>1, <1>3 DEF JobOf

LEMMA ApplyDeploymentStep ==
  ASSUME IndInv, NEW o \in Owners, ApplyDeployment(o)
  PROVE  IndInv'
<1> DEFINE next == IF o \in MCPServers THEN "service" ELSE "publish"
           wanted == WantedDeployment(o)
<1>1. /\ job[o].pc = "deployment" /\ Goto(o, next) /\ CreateOrUpdate(DeploymentOf(o), wanted)
      /\ UNCHANGED <<edits, faults, cache, notify, queue>>
  BY DEF ApplyDeployment, At
<1>2. next \in PCs
  BY DEF PCs
<1>3. /\ DOMAIN job' = Owners /\ \A p \in Owners : p # o => job'[p] = job[p]
      /\ job'[o] \in JobOf(o)
      /\ job'[o].pc = next /\ job'[o].obj = job[o].obj
      /\ job'[o].endpoint = job[o].endpoint /\ job'[o].secret = job[o].secret
      /\ job'[o].reason = job[o].reason
  BY <1>1, <1>2, GotoParts
<1>4. JobShape(job[o], o) /\ job[o].reason = "none"
  BY <1>1, JobParts DEF JobShape
<1>5. JobShape(job'[o], o)
  BY <1>1, <1>3, <1>4, Kinds DEF JobShape
<1>6. wanted \in WorkloadSpec /\ wanted.owner = o
  BY <1>1, WantedParts
<1> HIDE DEF wanted
<1>7. /\ \/ UNCHANGED <<store, wake>>
         \/ \E k \in Workloads : \E obj : PutOK(k, obj) /\ Put(k, obj)
      /\ cache[DeploymentOf(o)].spec = wanted \/ Announced(o)'
  BY <1>1, <1>6, CreateOrUpdateParts
<1>8. ASSUME job[o].obj = cache[o], NothingStale(job[o], cache, o),
             cache[DeploymentOf(o)].spec = wanted
      PROVE  NothingStale(job'[o], cache, o)
  <2>1. CASE o \in MCPServers
    <3>1. wanted = OwnSpec(cache, o, cache[o].spec.replicas, AddressOf(cache, o), None)
      BY <2>1, <1>8 DEF wanted, WantedDeployment, Owned, OwnSpec, AddressOf
    <3>2. DeploymentFits(cache, o)
      BY <3>1, <1>8 DEF DeploymentFits
    <3> QED BY <3>2, <2>1, <1>3, Kinds DEF NothingStale, McpFresh
  <2>2. CASE o \in Triggers
    <3>1. /\ Resolved(cache, o) /\ job[o].endpoint = CallOf(cache, o)
          /\ job[o].secret = SecretOf(cache, o)
      BY <2>2, <1>1, <1>8 DEF NothingStale, TriggerFresh
    <3>2. o \notin MCPServers
      BY <2>2, Kinds
    <3>3. wanted = OwnSpec(cache, o, cache[o].spec.replicas, CallOf(cache, o),
                           SecretOf(cache, o))
      BY <3>1, <3>2, <1>8 DEF wanted, WantedDeployment, Owned, OwnSpec
    <3>4. AdapterFits(cache, o)
      BY <3>3, <1>8 DEF AdapterFits
    <3> QED BY <3>1, <3>2, <3>4, <1>3, <1>4 DEF NothingStale, TriggerFresh
  <2> QED BY <2>1, <2>2, Kinds
<1>9. edits' \in 0..MaxEdits /\ faults' \in 0..MaxFaults /\ queue' \subseteq Owners
  BY <1>1 DEF IndInv, TypeOK
<1>10. next # "idle"
  OBVIOUS
<1> HIDE DEF next
<1> QED BY <1>1, <1>3, <1>4, <1>5, <1>7, <1>8, <1>9, <1>10, MoveStep

LEMMA ApplyServiceStep ==
  ASSUME IndInv, NEW o \in Owners, ApplyService(o)
  PROVE  IndInv'
<1> DEFINE wanted == WantedService(o)
<1>1. /\ job[o].pc = "service" /\ Goto(o, "publish") /\ CreateOrUpdate(ServiceOf(o), wanted)
      /\ UNCHANGED <<edits, faults, cache, notify, queue>>
  BY DEF ApplyService, At
<1>2. /\ DOMAIN job' = Owners /\ \A p \in Owners : p # o => job'[p] = job[p]
      /\ job'[o] \in JobOf(o)
      /\ job'[o].pc = "publish" /\ job'[o].obj = job[o].obj
      /\ job'[o].endpoint = job[o].endpoint /\ job'[o].secret = job[o].secret
      /\ job'[o].reason = job[o].reason
  BY <1>1, GotoParts DEF PCs
<1>3. /\ JobShape(job[o], o) /\ job[o].reason = "none" /\ o \in MCPServers
      /\ job[o].obj.spec.external = None
  BY <1>1, JobParts DEF JobShape
<1>4. JobShape(job'[o], o)
  BY <1>1, <1>2, <1>3, Kinds DEF JobShape
<1>5. wanted \in WorkloadSpec /\ wanted.owner = o
  BY <1>1, <1>3, WantedParts
<1> HIDE DEF wanted
<1>6. /\ \/ UNCHANGED <<store, wake>>
         \/ \E k \in Workloads : \E obj : PutOK(k, obj) /\ Put(k, obj)
      /\ cache[ServiceOf(o)].spec = wanted \/ Announced(o)'
  BY <1>1, <1>5, CreateOrUpdateParts
<1>7. ASSUME job[o].obj = cache[o], NothingStale(job[o], cache, o),
             cache[ServiceOf(o)].spec = wanted
      PROVE  NothingStale(job'[o], cache, o)
  <2>1. wanted = OwnSpec(cache, o, 0, AddressOf(cache, o), None)
    BY <1>7 DEF wanted, WantedService, Owned, OwnSpec, AddressOf
  <2>2. ServiceFits(cache, o)
    BY <2>1, <1>7 DEF ServiceFits
  <2>3. DeploymentFits(cache, o)
    BY <1>1, <1>3, <1>7 DEF NothingStale, McpFresh
  <2> QED BY <2>2, <2>3, <1>2, <1>3, <1>7, Kinds DEF NothingStale, McpFresh
<1>8. edits' \in 0..MaxEdits /\ faults' \in 0..MaxFaults /\ queue' \subseteq Owners
  BY <1>1 DEF IndInv, TypeOK
<1> QED BY <1>1, <1>2, <1>3, <1>4, <1>6, <1>7, <1>8, MoveStep

\* What the cache says o controls is deleted, or o is woken by what became of it.
LEMMA DeleteParts ==
  ASSUME IndInv, NEW o \in Owners, NEW l \in {DeploymentOf(o), ServiceOf(o)},
         cache' = cache, Managed(o, l),
         IF Managed(o, l) /\ Exists(store, l) THEN Put(l, Absent(store[l].rv + 1))
         ELSE UNCHANGED <<store, wake>>
  PROVE  Announced(o)'
<1>1. l \in Workloads /\ ControllerOf(cache, l) = {o} /\ Exists(cache, l)
  BY WorkloadNames DEF Managed, ControllerOf
<1>2. CASE Exists(store, l)
  <2>1. Put(l, Absent(store[l].rv + 1)) /\ PutOK(l, Absent(store[l].rv + 1))
    BY <1>1, <1>2, PutVersions
  <2>2. WakeFollows'
    BY <1>1, <2>1, PutParts
  <2>3. store'[l] = Absent(store[l].rv + 1)
    BY <1>1, <2>1 DEF Put, IndInv, TypeOK
  <2>4. cache'[l] # store'[l]
    BY <2>3, <1>1 DEF Exists, Absent
  <2>5. ControllerOf(cache', l) = {o}
    BY <1>1
  <2>6. o \in wake'[l]
    BY <2>2, <2>4, <2>5, <1>1 DEF WakeFollows
  <2> QED BY <2>6 DEF Announced
<1>3. CASE ~Exists(store, l)
  <2>1. cache[l] # store[l] /\ wake' = wake
    BY <1>1, <1>3 DEF Exists
  <2>2. o \in wake[l]
    BY <2>1, <1>1 DEF IndInv, WakeFollows
  <2> QED BY <2>1, <2>2 DEF Announced
<1> QED BY <1>2, <1>3

LEMMA DeleteManagedStep ==
  ASSUME IndInv, NEW o \in Owners, DeleteDeployment(o) \/ DeleteService(o)
  PROVE  IndInv'
<1>1. ASSUME NEW pc, NEW next, NEW l, DeleteManaged(o, pc, l, next),
             \/ pc = "deleteDeployment" /\ l = DeploymentOf(o) /\ next = "deleteService"
             \/ pc = "deleteService" /\ l = ServiceOf(o) /\ next = "publish"
      PROVE  IndInv'
  <2>1. /\ job[o].pc = pc /\ Goto(o, next)
        /\ IF Managed(o, l) /\ Exists(store, l) THEN Put(l, Absent(store[l].rv + 1))
           ELSE UNCHANGED <<store, wake>>
        /\ UNCHANGED <<edits, faults, cache, notify, queue>>
    BY <1>1 DEF DeleteManaged, At
  <2>2. l \in Workloads /\ l \in {DeploymentOf(o), ServiceOf(o)}
          /\ pc \in {"deleteDeployment", "deleteService"}
          /\ next \in {"deleteService", "publish"} /\ next \in PCs
    BY <1>1, WorkloadNames DEF PCs
  <2>3. job[o].pc # "idle"
    BY <2>1, <2>2
  <2>4. /\ DOMAIN job' = Owners /\ \A p \in Owners : p # o => job'[p] = job[p]
        /\ job'[o] \in JobOf(o)
        /\ job'[o].pc = next /\ job'[o].obj = job[o].obj
        /\ job'[o].endpoint = job[o].endpoint /\ job'[o].secret = job[o].secret
        /\ job'[o].reason = job[o].reason
    BY <2>1, <2>2, <2>3, GotoParts
  <2>5. /\ JobShape(job[o], o) /\ job[o].reason = "none" /\ o \in MCPServers
        /\ job[o].obj.spec.external # None
    BY <2>1, <2>2, <2>3, JobParts DEF JobShape
  <2>6. JobShape(job'[o], o)
    BY <2>2, <2>3, <2>4, <2>5, Kinds DEF JobShape
  <2>7. \/ UNCHANGED <<store, wake>>
        \/ \E k \in Workloads : \E obj : PutOK(k, obj) /\ Put(k, obj)
    BY <2>1, <2>2, PutVersions
  <2>8. ASSUME job[o].obj = cache[o], NothingStale(job[o], cache, o), ~Managed(o, l)
        PROVE  NothingStale(job'[o], cache, o)
    <3>1. ~Mine(cache, o, l)
      BY <2>8 DEF Mine, Managed
    <3>2. pc = "deleteService" => ~Mine(cache, o, DeploymentOf(o))
      BY <2>1, <2>5, <2>8 DEF NothingStale, McpFresh
    <3>3. McpFresh(job'[o], cache, o)
      BY <3>1, <3>2, <1>1, <2>4, <2>5, <2>8 DEF McpFresh
    <3> QED BY <3>3, <2>5, Kinds DEF NothingStale
  <2>9. Managed(o, l) => Announced(o)'
    BY <2>1, <2>2, DeleteParts
  <2>10. edits' \in 0..MaxEdits /\ faults' \in 0..MaxFaults /\ queue' \subseteq Owners
    BY <2>1 DEF IndInv, TypeOK
  <2>11. job'[o].pc # "idle" /\ job[o].reason # "CreateFailed"
    BY <2>2, <2>4, <2>5
  <2> QED BY <2>1, <2>3, <2>4, <2>6, <2>7, <2>8, <2>9, <2>10, <2>11, MoveStep
<1> QED BY <1>1 DEF DeleteDeployment, DeleteService

-----------------------------------------------------------------------------
(* Writes of objects: users' edits and published statuses.                 *)

LEMMA ObjectStep ==
  ASSUME IndInv, UNCHANGED <<cache, wake, notify>>,
         edits' \in 0..MaxEdits, faults' \in 0..MaxFaults,
         queue \subseteq queue', queue' \subseteq Owners,
         NEW n \in Objects, NEW obj \in VersionOf(n), obj.rv = store[n].rv + 1,
         store' = [store EXCEPT ![n] = obj],
         job' = job \/ (n \in Owners /\ job' = [job EXCEPT ![n] = Idle])
  PROVE  IndInv'
<1>1. TypeOK /\ CacheFollows /\ JobFollows /\ WakeFollows
  BY DEF IndInv
<1>2. DOMAIN store = All /\ n \in All
  BY <1>1, WorkloadNames DEF TypeOK, All
<1>3. /\ DOMAIN store' = All /\ store'[n] = obj
      /\ \A k \in All : k # n => store'[k] = store[k]
  BY <1>2
<1>4. cache[n].rv <= store[n].rv /\ cache[n].rv \in Nat /\ store[n].rv \in Nat
  BY <1>1, <1>2, Worlds
<1>5. cache[n].rv < store'[n].rv /\ cache[n] # store'[n]
  BY <1>3, <1>4
<1>6. DOMAIN job' = Owners /\ \A o \in Owners : job'[o] = job[o] \/ (o = n /\ job'[o] = Idle)
  BY <1>1, JobUpdate DEF TypeOK
<1>7. TypeOK'
  <2>1. \A k \in All : store'[k] \in VersionOf(k) /\ cache[k].rv <= store'[k].rv
    BY <1>1, <1>3, <1>4, <1>5 DEF TypeOK, All
  <2>2. \A o \in Owners : job'[o] \in JobOf(o) /\ (job'[o] # Idle => job[o] # Idle)
    BY <1>1, <1>6, IdleIsJob DEF TypeOK
  <2> QED BY <1>1, <1>3, <1>6, <2>1, <2>2 DEF TypeOK, All
<1>8. CacheFollows'
  BY <1>1, <1>3, <1>4, <1>5 DEF CacheFollows
<1>9. JobFollows'
  BY <1>1, <1>6, IdleIsJob DEF JobFollows, Idle
<1>10. WakeFollows'
  <2>1. \A l \in Workloads : store'[l] = store[l]
    BY <1>3, WorkloadNames
  <2> QED BY <1>1, <2>1 DEF WakeFollows, ControllerOf, Exists
<1>11. ASSUME NEW o \in Owners
       PROVE  Attended(o)'
  <2>1. CASE o = n
    BY <1>5, <2>1 DEF Attended, Announced
  <2>2. CASE o # n
    <3>1. store'[o] = store[o] /\ job'[o] = job[o]
      BY <1>3, <1>6, <2>2, Kinds, WorkloadNames
    <3>2. Attended(o)
      BY DEF IndInv
    <3>3. Exists(store', o) = Exists(store, o)
      BY <3>1 DEF Exists
    <3>4. Announced(o) => Announced(o)'
      BY <3>1 DEF Announced
    <3> QED BY <3>1, <3>2, <3>3, <3>4 DEF Attended
  <2> QED BY <2>1, <2>2
<1> QED BY <1>7, <1>8, <1>9, <1>10, <1>11 DEF IndInv

LEMMA EditStep ==
  ASSUME IndInv, NEW e \in Edits, Edit(e)
  PROVE  IndInv'
<1> DEFINE n == e.obj
           new == IF e.spec = None THEN Absent(store[n].rv + 1)
                  ELSE Rewritten(store[n], e.spec)
<1>1. TypeOK /\ WorldOK(store) /\ n \in Objects /\ n \in All
  BY EditsAssumption, Worlds, WorkloadNames DEF IndInv
<1>2. store[n].rv \in Nat /\ store[n].uid \in Nat /\ store[n].status \in Status
  BY <1>1, WorldParts
<1>3. e.spec \in SpecOf(n) \union {None}
  BY EditsAssumption
<1>4. new \in Version(SpecOf(n) \union {None}) /\ new.rv = store[n].rv + 1
  BY <1>2, <1>3, NoStatusIsStatus DEF Absent, Rewritten, Fresh, Version
<1>5. new \in VersionOf(n)
  BY <1>1, <1>4, VersionParts
<1>6. /\ UNCHANGED <<faults, cache, wake, notify, queue, job>>
      /\ edits' = edits + 1 /\ edits < MaxEdits
      /\ store' = [store EXCEPT ![n] = new]
  BY DEF Edit
<1>7. /\ edits' \in 0..MaxEdits /\ faults' \in 0..MaxFaults /\ queue \subseteq Owners
  BY <1>1, <1>6, BoundAssumption DEF TypeOK
<1> HIDE DEF n, new
<1> QED BY <1>1, <1>4, <1>5, <1>6, <1>7, ObjectStep

LEMMA NewStatusIsStatus ==
  ASSUME IndInv, NEW o \in Owners, job[o].pc = "publish"
  PROVE  NewStatus(o) \in Status
<1> DEFINE obj == job[o].obj
<1>1. /\ job[o] \in JobOf(o) /\ JobShape(job[o], o) /\ obj.gen \in Nat /\ obj.status \in Status
      /\ o \in MCPServers => obj.spec \in MCPServerSpec
  BY JobParts
<1>2. job[o].endpoint \in Addresses \union URLs
  BY <1>1 DEF JobOf
<1>3. Available(o) \in Nat
  <2>1. WorldOK(cache) /\ DeploymentOf(o) \in All
    BY Worlds, WorkloadNames DEF IndInv
  <2>2. cache[DeploymentOf(o)].status \in Status
    BY <2>1, WorldParts
  <2> QED BY <1>1, <2>2 DEF Available, Status
<1>4. ASSUME o \in MCPServers
      PROVE  /\ <<o, servicePort(obj.spec)>> \in Addresses
             /\ obj.spec.external # None => obj.spec.external \in URLs
  <2>1. servicePort(obj.spec) \in Ports
    BY <1>1, <1>4, PortAssumption DEF servicePort, MCPServerSpec
  <2> QED BY <2>1, <1>1, <1>4 DEF Addresses, MCPServerSpec
<1>5. CASE job[o].reason = "CreateFailed"
  <2>1. NewStatus(o) = [obj.status EXCEPT !.reason = "CreateFailed"]
    BY <1>5 DEF NewStatus
  <2> QED BY <2>1, <1>1 DEF Status, Reasons
<1>6. CASE job[o].reason \in {"InvalidSpec", "ReferenceNotFound"}
  <2>1. NewStatus(o) = [obj.status EXCEPT !.observed = obj.gen, !.reason = job[o].reason,
                                          !.endpoint = job[o].endpoint]
    BY <1>6 DEF NewStatus
  <2> QED BY <2>1, <1>1, <1>2, <1>6 DEF Status, Reasons
<1>7. CASE job[o].reason = "none" /\ o \in MCPServers /\ obj.spec.external # None
  <2>1. NewStatus(o) = [observed |-> obj.gen, reason |-> "Reconciled", available |-> 0,
                        endpoint |-> obj.spec.external]
    BY <1>7 DEF NewStatus
  <2> QED BY <2>1, <1>1, <1>4, <1>7 DEF Status, Reasons
<1>8. CASE job[o].reason = "none" /\ ~(o \in MCPServers /\ obj.spec.external # None)
  <2> DEFINE end == IF o \in MCPServers THEN <<o, servicePort(obj.spec)>> ELSE job[o].endpoint
             why == IF Enough(o, obj.spec, Available(o)) THEN "Reconciled" ELSE "Progressing"
  <2>1. NewStatus(o) = [observed |-> obj.gen, available |-> Available(o), reason |-> why,
                        endpoint |-> end]
    BY <1>8 DEF NewStatus
  <2>2. end \in Addresses \union URLs /\ why \in Reasons
    BY <1>2, <1>4 DEF Reasons
  <2> HIDE DEF end, why
  <2> QED BY <2>1, <2>2, <1>1, <1>3 DEF Status
<1> QED BY <1>1, <1>5, <1>6, <1>7, <1>8 DEF JobShape

\* A workload that fits its owner's spec is controlled by it.
LEMMA FitsIsControlled ==
  ASSUME NEW w, WorldOK(w), NEW o \in Owners, Exists(w, o)
  PROVE  /\ o \in MCPServers /\ DeploymentFits(w, o) =>
              Exists(w, DeploymentOf(o)) /\ ControllerOf(w, DeploymentOf(o)) = {o}
         /\ o \in MCPServers /\ ServiceFits(w, o) => ControllerOf(w, ServiceOf(o)) = {o}
         /\ o \in Triggers /\ Resolved(w, o) /\ AdapterFits(w, o) =>
              Exists(w, DeploymentOf(o)) /\ ControllerOf(w, DeploymentOf(o)) = {o}
<1>1. w[o].uid \in Nat /\ 0 \in 0..MaxReplicas
  BY WorldParts, Kinds, WorkloadNames, BoundAssumption
<1>2. \A r \in 0..MaxReplicas, d \in Addresses, s \in Secrets \union {None} :
        OwnSpec(w, o, r, d, s) # None /\ OwnSpec(w, o, r, d, s).owner = o
  <2>1. \A r \in 0..MaxReplicas, d \in Addresses, s \in Secrets \union {None} :
          OwnSpec(w, o, r, d, s) \in WorkloadSpec /\ OwnSpec(w, o, r, d, s).owner = o
    BY <1>1 DEF OwnSpec, WorkloadSpec
  <2> QED BY <2>1, NoneAssumption
<1>3. ASSUME o \in MCPServers
      PROVE  /\ DeploymentFits(w, o) =>
                  Exists(w, DeploymentOf(o)) /\ ControllerOf(w, DeploymentOf(o)) = {o}
             /\ ServiceFits(w, o) => ControllerOf(w, ServiceOf(o)) = {o}
  <2>1. w[o].spec.port \in Ports \union {0} /\ w[o].spec.replicas \in 0..MaxReplicas
    BY <1>3, WorldParts DEF MCPServerSpec
  <2>2. AddressOf(w, o) \in Addresses
    BY <2>1, <1>3, PortAssumption DEF AddressOf, servicePort, Addresses
  <2> QED BY <1>1, <1>2, <2>1, <2>2 DEF DeploymentFits, ServiceFits, ControllerOf, Exists
<1>4. ASSUME o \in Triggers, Resolved(w, o), AdapterFits(w, o)
      PROVE  Exists(w, DeploymentOf(o)) /\ ControllerOf(w, DeploymentOf(o)) = {o}
  <2>1. /\ w[o].spec.agent \in Agents /\ w[o].spec.credential \in Credentials \union {None}
        /\ w[o].spec.replicas \in 0..1
    BY <1>4, WorldParts DEF TriggerSpec
  <2>2. w[o].spec.replicas \in 0..MaxReplicas
    BY <2>1, BoundAssumption
  <2>3. CallOf(w, o) \in Addresses
    BY <2>1, <1>4, WorldParts DEF Resolved, AgentServes, CallOf, Addresses
  <2>4. SecretOf(w, o) \in Secrets \union {None}
    BY <2>1, <1>4, WorldParts DEF Resolved, SecretOf
  <2> QED BY <1>2, <1>4, <2>2, <2>3, <2>4 DEF AdapterFits, ControllerOf, Exists
<1> QED BY <1>3, <1>4

\* A Reconcile that met nothing stale publishes the status that settles o.
LEMMA PublishFits ==
  ASSUME IndInv, NEW o \in Owners, job[o].pc = "publish", job[o].reason # "CreateFailed",
         job[o].obj = cache[o], NothingStale(job[o], cache, o),
         NewStatus(o) = cache[o].status
  PROVE  Settled(cache, o)
<1> DEFINE st == cache[o].status
<1>1. /\ job[o] \in JobOf(o) /\ JobShape(job[o], o) /\ cache[o].status \in Status
      /\ Exists(cache, o) /\ WorldOK(cache)
  BY JobParts, Worlds, NoneAssumption, Kinds DEF IndInv, Exists
<1>2. CASE job[o].reason # "none"
  <2>1. o \in Triggers /\ job[o].reason \notin {"Reconciled", "Progressing"}
    BY <1>1, <1>2 DEF JobShape
  <2>2. st = [st EXCEPT !.observed = cache[o].gen, !.reason = job[o].reason,
                        !.endpoint = job[o].endpoint]
    BY <1>2 DEF NewStatus
  <2>3. st.observed = cache[o].gen /\ st.reason = job[o].reason
    BY <2>2, <1>1 DEF Status
  <2>4. ~Resolved(cache, o)
    BY <2>1, <1>2 DEF NothingStale, TriggerFresh
  <2>5. TriggerSettled(cache, o)
    BY <2>1, <2>3, <2>4 DEF TriggerSettled
  <2> QED BY <2>1, <2>3, <2>5, Kinds DEF Settled
<1>3. CASE job[o].reason = "none" /\ o \in MCPServers /\ cache[o].spec.external # None
  <2>1. st = [observed |-> cache[o].gen, reason |-> "Reconciled", available |-> 0,
              endpoint |-> cache[o].spec.external]
    BY <1>3 DEF NewStatus
  <2>2. st.observed = cache[o].gen /\ st.endpoint = cache[o].spec.external
    BY <2>1
  <2>3. ~Mine(cache, o, DeploymentOf(o)) /\ ~Mine(cache, o, ServiceOf(o))
    BY <1>3 DEF NothingStale, McpFresh
  <2> QED BY <1>3, <2>2, <2>3, Kinds DEF Settled, McpSettled
<1>4. CASE job[o].reason = "none" /\ ~(o \in MCPServers /\ cache[o].spec.external # None)
  <2> DEFINE end == IF o \in MCPServers THEN <<o, servicePort(cache[o].spec)>>
                    ELSE job[o].endpoint
             why == IF Enough(o, cache[o].spec, Available(o)) THEN "Reconciled"
                    ELSE "Progressing"
  <2>1. st = [observed |-> cache[o].gen, available |-> Available(o), reason |-> why,
              endpoint |-> end]
    BY <1>4 DEF NewStatus
  <2>2. st.observed = cache[o].gen /\ st.endpoint = end /\ st.reason = why
    BY <2>1
  <2>3. /\ o \in MCPServers => DeploymentFits(cache, o) /\ ServiceFits(cache, o)
        /\ o \in Triggers => /\ Resolved(cache, o) /\ AdapterFits(cache, o)
                             /\ job[o].endpoint = CallOf(cache, o)
    BY <1>4 DEF NothingStale, McpFresh, TriggerFresh
  <2>4. Exists(cache, DeploymentOf(o))
    BY <1>1, <2>3, FitsIsControlled, Kinds
  <2>5. Available(o) = cache[DeploymentOf(o)].status.available
    BY <2>4 DEF Available
  <2>6. PodsFit(cache, o) /\ st.reason \in {"Reconciled", "Progressing"}
    BY <2>2, <2>5 DEF PodsFit
  <2>7. CASE o \in MCPServers
    BY <2>2, <2>3, <2>6, <2>7, <1>4, Kinds DEF Settled, McpSettled, AddressOf
  <2>8. CASE o \in Triggers
    <3>1. TriggerSettled(cache, o)
      BY <2>2, <2>3, <2>6, <2>8, Kinds DEF TriggerSettled
    <3> QED BY <3>1, <2>2, <2>8, Kinds DEF Settled
  <2> QED BY <2>7, <2>8, Kinds
<1> QED BY <1>2, <1>3, <1>4

LEMMA PublishStep ==
  ASSUME IndInv, NEW o \in Owners, Publish(o)
  PROVE  IndInv'
<1>1. TypeOK /\ CacheFollows /\ JobFollows /\ WakeFollows /\ o \in Objects /\ o \in All
  BY Kinds, WorkloadNames DEF IndInv
<1>2. /\ job[o].pc = "publish" /\ UNCHANGED <<edits, faults, cache, wake, notify>>
      /\ edits' \in 0..MaxEdits /\ faults' \in 0..MaxFaults /\ queue \subseteq Owners
  BY <1>1 DEF Publish, At, TypeOK
<1>3. CASE store[o].rv # job[o].obj.rv
  BY <1>2, <1>3, RetryStep DEF Publish
<1>4. CASE store[o].rv = job[o].obj.rv
  <2>1. /\ store' = IF NewStatus(o) = store[o].status THEN store
                    ELSE [store EXCEPT ![o] = WithStatus(store[o], NewStatus(o))]
        /\ job' = [job EXCEPT ![o] = Idle]
        /\ queue' = IF job[o].reason = "CreateFailed" THEN queue \union {o} ELSE queue
    BY <1>4 DEF Publish
  <2>2. job[o].obj = cache[o] /\ cache[o] = store[o]
    <3>1. job[o].obj.rv <= cache[o].rv /\ cache[o].rv <= store[o].rv
            /\ cache[o].rv \in Nat /\ store[o].rv \in Nat
      BY <1>1, <1>2, Worlds DEF JobFollows
    <3>2. job[o].obj.rv = cache[o].rv /\ cache[o].rv = store[o].rv
      BY <3>1, <1>4
    <3> QED BY <3>2, <1>1, <1>2 DEF JobFollows, CacheFollows
  <2>3. CASE NewStatus(o) # store[o].status
    <3> DEFINE new == WithStatus(store[o], NewStatus(o))
    <3>1. NewStatus(o) \in Status
      BY <1>2, NewStatusIsStatus
    <3>2. store[o] \in Version(SpecOf(o) \union {None})
      BY <1>1, VersionParts DEF TypeOK
    <3>3. new \in Version(SpecOf(o) \union {None}) /\ new.rv = store[o].rv + 1
      BY <3>1, <3>2 DEF Version, WithStatus
    <3>4. new \in VersionOf(o)
      BY <3>3, <1>1, VersionParts
    <3>5. store' = [store EXCEPT ![o] = new] /\ queue \subseteq queue' /\ queue' \subseteq Owners
      BY <2>1, <2>3, <1>2
    <3> HIDE DEF new
    <3> QED BY <3>3, <3>4, <3>5, <1>1, <1>2, <2>1, ObjectStep
  <2>4. CASE NewStatus(o) = store[o].status /\ job[o].reason = "CreateFailed"
    BY <1>2, <2>1, <2>4, RetryStep DEF Retry
  <2>5. CASE NewStatus(o) = store[o].status /\ job[o].reason # "CreateFailed"
    <3>1. UNCHANGED <<store, queue>>
      BY <2>1, <2>5
    <3>2. DOMAIN job' = Owners /\ job'[o] = Idle /\ \A p \in Owners : p # o => job'[p] = job[p]
      BY <1>1, <2>1, JobUpdate
    <3>3. \A p \in Owners : job'[p] = job[p] \/ job'[p] = Idle
      BY <3>2
    <3>4. TypeOK'
      <4>1. \A p \in Owners : job'[p] \in JobOf(p) /\ (job'[p] # Idle => job[p] # Idle)
        BY <1>1, <3>3, IdleIsJob DEF TypeOK
      <4> QED BY <1>1, <1>2, <3>1, <3>2, <4>1 DEF TypeOK
    <3>5. CacheFollows' /\ WakeFollows'
      BY <1>1, <1>2, <3>1 DEF CacheFollows, WakeFollows, ControllerOf, Exists
    <3>6. JobFollows'
      BY <1>1, <1>2, <3>3, IdleIsJob DEF JobFollows, Idle
    <3>7. \A p \in Owners : Announced(p)' = Announced(p)
      BY <1>2, <3>1 DEF Announced
    <3>8. ASSUME NEW p \in Owners
          PROVE  Attended(p)'
      <4>1. CASE p # o
        BY <4>1, <1>2, <3>1, <3>2, <3>7 DEF IndInv, Attended
      <4>2. CASE p = o
        <5>1. NothingStale(job[o], cache, o) => Settled(cache, o)
          BY <1>2, <2>2, <2>5, PublishFits
        <5>2. Exists(store', o) = Exists(store, o)
          BY <3>1
        <5>3. Exists(store, o) => Announced(o) \/ Settled(cache, o)
          BY <5>1, <1>4, <2>5 DEF IndInv, Attended
        <5> QED BY <4>2, <5>2, <5>3, <3>7, <1>2 DEF Attended
      <4> QED BY <4>1, <4>2
    <3> QED BY <3>4, <3>5, <3>6, <3>8 DEF IndInv
  <2> QED BY <2>3, <2>4, <2>5
<1> QED BY <1>3, <1>4

-----------------------------------------------------------------------------
(* Requests, caches and events.                                            *)

LEMMA StartReconcileStep ==
  ASSUME IndInv, NEW o \in Owners, StartReconcile(o)
  PROVE  IndInv'
<1> DEFINE first == FirstStep(o, cache[o].spec)
           new == [pc |-> first, obj |-> cache[o],
                   endpoint |-> cache[o].status.endpoint, secret |-> None,
                   reason |-> IF first = "publish" THEN "InvalidSpec" ELSE "none"]
           j == IF ~Exists(cache, o) THEN Idle ELSE new
<1>1. /\ TypeOK /\ CacheFollows /\ JobFollows /\ WakeFollows /\ o \in Objects /\ o \in All
      /\ WorldOK(cache)
  BY Kinds, WorkloadNames, Worlds DEF IndInv
<1>2. /\ UNCHANGED <<store, edits, faults, cache, wake, notify>> /\ queue' = queue \ {o}
      /\ \A p \in Controller(o) : job[p] = Idle
      /\ job' = [job EXCEPT ![o] = j]
  BY DEF StartReconcile, world
<1>3. DOMAIN job' = Owners /\ job'[o] = j /\ \A p \in Owners : p # o => job'[p] = job[p]
  BY <1>1, <1>2, JobUpdate
<1>4. ASSUME Exists(cache, o)
      PROVE  /\ first \in PCs /\ first # "idle" /\ first # "credential" /\ first # "service"
             /\ first # "deleteService"
             /\ o \in MCPServers =>
                  \/ (first = "deployment" /\ cache[o].spec.external = None)
                  \/ (first = "deleteDeployment" /\ cache[o].spec.external # None)
             /\ o \in Triggers =>
                  \/ (first = "agent" /\ cache[o].spec.valid)
                  \/ (first = "publish" /\ ~cache[o].spec.valid)
  BY Kinds DEF FirstStep, PCs
<1>5. ASSUME Exists(cache, o)
      PROVE  new \in JobOf(o) /\ JobShape(new, o) /\ NothingStale(new, cache, o)
  <2>1. cache[o] \in Version(SpecOf(o) \union {None})
    BY <1>1, VersionParts DEF WorldOK
  <2>2. cache[o] \in Version(SpecOf(o)) /\ cache[o].status \in Status
    BY <2>1, <1>5 DEF Version, Exists
  <2>3. cache[o].status.endpoint \in Addresses \union URLs
    BY <2>2 DEF Status
  <2>5. new \in JobOf(o)
    BY <2>2, <2>3, <1>4, <1>5 DEF JobOf, Reasons
  <2>6. /\ new.pc = first /\ new.obj = cache[o] /\ new.secret = None
        /\ new.reason = (IF first = "publish" THEN "InvalidSpec" ELSE "none")
    OBVIOUS
  <2> HIDE DEF new, first
  <2>7. JobShape(new, o)
    BY <2>2, <2>6, <1>4, <1>5, Kinds DEF JobShape
  <2>8. NothingStale(new, cache, o)
    BY <2>6, <1>4, <1>5, Kinds DEF NothingStale, McpFresh, TriggerFresh, Resolved
  <2> QED BY <2>5, <2>7, <2>8
<1>6. j \in JobOf(o) /\ JobShape(j, o)
  BY <1>5, IdleIsJob
<1>7. TypeOK'
  <2>1. \A p \in Owners : job'[p] \in JobOf(p)
    BY <1>1, <1>3, <1>6 DEF TypeOK
  <2>2. ASSUME NEW p \in Owners, NEW q \in Owners, job'[p] # Idle, job'[q] # Idle,
               Controller(p) = Controller(q)
        PROVE  p = q
    <3>1. \A r \in Owners : r \in Controller(r)
      BY Kinds
    <3>2. p \in Controller(o) => p = o
      BY <1>2, <1>3, <2>2
    <3>3. q \in Controller(o) => q = o
      BY <1>2, <1>3, <2>2
    <3>4. CASE p = o \/ q = o
      BY <3>1, <3>2, <3>3, <3>4, <2>2
    <3>5. CASE p # o /\ q # o
      BY <3>5, <2>2, <1>1, <1>3 DEF TypeOK
    <3> QED BY <3>4, <3>5
  <2> QED BY <2>1, <2>2, <1>1, <1>2, <1>3 DEF TypeOK
<1>8. CacheFollows' /\ WakeFollows'
  BY <1>1, <1>2 DEF CacheFollows, WakeFollows, ControllerOf, Exists
<1>9. JobFollows'
  <2>1. j.pc # "idle" => j.obj.rv <= cache[o].rv /\ (j.obj.rv = cache[o].rv => j.obj = cache[o])
    BY <1>1, WorldParts DEF Idle
  <2> HIDE DEF j
  <2> QED BY <2>1, <1>1, <1>2, <1>3, <1>6 DEF JobFollows
<1>10. ASSUME NEW p \in Owners
       PROVE  Attended(p)'
  <2>1. CASE p # o
    <3>1. Announced(p)' = Announced(p) /\ job'[p] = job[p]
      BY <2>1, <1>2, <1>3 DEF Announced
    <3> QED BY <3>1, <1>2 DEF IndInv, Attended
  <2>2. CASE p = o
    <3>1. CASE cache[o] # store[o]
      BY <2>2, <3>1, <1>2 DEF Attended, Announced
    <3>2. CASE cache[o] = store[o] /\ ~Exists(store, o)
      BY <2>2, <3>2, <1>2 DEF Attended
    <3>3. CASE cache[o] = store[o] /\ Exists(store, o)
      <4>1. Exists(cache, o)
        BY <3>3 DEF Exists
      <4>2. job'[o].pc # "idle" /\ NothingStale(job'[o], cache, o)
        BY <4>1, <1>3, <1>4, <1>5
      <4> QED BY <2>2, <4>2, <1>2 DEF Attended
    <3> QED BY <3>1, <3>2, <3>3
  <2> QED BY <2>1, <2>2
<1> QED BY <1>7, <1>8, <1>9, <1>10 DEF IndInv

LEMMA MapEventStep ==
  ASSUME IndInv, NEW n \in Named, MapEvent(n)
  PROVE  IndInv'
<1>1. TypeOK /\ CacheFollows /\ JobFollows /\ WakeFollows
  BY DEF IndInv
<1>2. /\ UNCHANGED <<store, edits, faults, cache, wake, job>>
      /\ notify' = notify \ {n} /\ queue' = queue \union TriggersNaming(n)
  BY DEF MapEvent, world
<1>3. TypeOK'
  BY <1>1, <1>2 DEF TypeOK, TriggersNaming, Owners
<1>4. CacheFollows' /\ JobFollows' /\ WakeFollows'
  BY <1>1, <1>2 DEF CacheFollows, JobFollows, WakeFollows, ControllerOf, Exists
<1>5. ASSUME NEW o \in Owners, Exists(store, o), Announced(o)
      PROVE  Announced(o)'
  <2>1. CASE cache[o] # store[o] \/ o \in queue \/ o \in wake[DeploymentOf(o)]
               \/ o \in wake[ServiceOf(o)]
    BY <2>1, <1>2 DEF Announced
  <2>2. CASE /\ cache[o] = store[o] /\ o \in Triggers
             /\ notify \intersect {cache[o].spec.agent, cache[o].spec.credential} # {}
    <3>1. CASE n \in {cache[o].spec.agent, cache[o].spec.credential}
      <4>1. o \in TriggersNaming(n)
        BY <3>1, <2>2, <1>5 DEF TriggersNaming, Exists
      <4> QED BY <4>1, <1>2 DEF Announced
    <3>2. CASE n \notin {cache[o].spec.agent, cache[o].spec.credential}
      BY <3>2, <2>2, <1>2 DEF Announced
    <3> QED BY <3>1, <3>2
  <2> QED BY <2>1, <2>2, <1>5 DEF Announced
<1>6. \A o \in Owners : Attended(o)'
  BY <1>2, <1>5 DEF IndInv, Attended, Exists
<1> QED BY <1>3, <1>4, <1>6 DEF IndInv

LEMMA OperatorRestartStep ==
  ASSUME IndInv, OperatorRestart
  PROVE  IndInv'
<1>1. TypeOK /\ WakeFollows
  BY DEF IndInv
<1>2. /\ UNCHANGED <<store, edits>> /\ faults' = faults + 1 /\ faults < MaxFaults
      /\ cache' = store /\ wake' = [l \in Workloads |-> {}] /\ notify' = {}
      /\ queue' = {o \in Owners : Exists(store, o)}
      /\ job' = [o \in Owners |-> Idle]
  BY DEF OperatorRestart
<1>3. DOMAIN job' = Owners /\ \A o \in Owners : job'[o] = Idle /\ job'[o].pc = "idle"
  BY <1>2 DEF Idle
<1>4. TypeOK'
  <2>1. \A n \in All : store[n].rv <= store[n].rv
    BY <1>1, Worlds
  <2>2. edits' \in 0..MaxEdits /\ faults' \in 0..MaxFaults
    BY <1>1, <1>2, BoundAssumption DEF TypeOK
  <2>3. \A o \in Owners : job'[o] \in JobOf(o)
    BY <1>3, IdleIsJob
  <2>4. wake' \in [Workloads -> SUBSET Owners] /\ notify' \subseteq Named /\ queue' \subseteq Owners
    BY <1>2
  <2> QED BY <1>1, <1>2, <1>3, <2>1, <2>2, <2>3, <2>4 DEF TypeOK, All
<1>5. CacheFollows'
  BY <1>2 DEF CacheFollows
<1>6. JobFollows'
  BY <1>3, IdleIsJob DEF JobFollows
<1>7. WakeFollows'
  <2>1. \A l \in Workloads : ControllerOf(cache', l) = ControllerOf(store, l)
                               /\ ControllerOf(store', l) = ControllerOf(store, l)
    BY <1>2
  <2> QED BY <1>1, <1>2, <2>1 DEF WakeFollows
<1>8. \A o \in Owners : Attended(o)'
  BY <1>2 DEF Attended, Announced, Exists
<1> QED BY <1>4, <1>5, <1>6, <1>7, <1>8 DEF IndInv

\* A workload of o's name that o controls neither before nor after tells o nothing.
LEMMA ForeignFrame ==
  ASSUME NEW w, WorldOK(w), NEW v, NEW o \in Owners, Exists(w, o),
         NEW l \in {DeploymentOf(o), ServiceOf(o)},
         \A n \in All : n # l => v[n] = w[n],
         o \notin ControllerOf(w, l), o \notin ControllerOf(v, l)
  PROVE  /\ Settled(w, o) => Settled(v, o)
         /\ \A j : NothingStale(j, w, o) => NothingStale(j, v, o)
<1>1. /\ o \in Objects /\ o \in All /\ o # l /\ l \in Workloads
      /\ DeploymentOf(o) \in All /\ ServiceOf(o) \in All /\ DeploymentOf(o) # ServiceOf(o)
  BY Kinds, WorkloadNames
<1>2. v[o] = w[o]
  BY <1>1
<1>3. \A k \in {DeploymentOf(o), ServiceOf(o)} : k # l => v[k] = w[k]
  BY <1>1
<1>4. \A k \in {DeploymentOf(o), ServiceOf(o)} : ~Mine(w, o, k) => ~Mine(v, o, k)
  <2>1. ~Mine(v, o, l)
    BY DEF Mine, ControllerOf
  <2> QED BY <2>1, <1>2, <1>3 DEF Mine, Exists
<1>5. ASSUME o \in MCPServers
      PROVE  /\ DeploymentFits(w, o) => DeploymentFits(v, o)
             /\ ServiceFits(w, o) => ServiceFits(v, o)
             /\ DeploymentFits(w, o) => v[DeploymentOf(o)] = w[DeploymentOf(o)]
  <2>1. DeploymentFits(w, o) => DeploymentOf(o) # l
    BY <1>5, FitsIsControlled
  <2>2. ServiceFits(w, o) => ServiceOf(o) # l
    BY <1>5, FitsIsControlled
  <2> QED BY <2>1, <2>2, <1>2, <1>3 DEF DeploymentFits, ServiceFits, OwnSpec, AddressOf
<1>6. ASSUME o \in Triggers
      PROVE  /\ AgentServes(v, o) = AgentServes(w, o) /\ CallOf(v, o) = CallOf(w, o)
             /\ SecretOf(v, o) = SecretOf(w, o) /\ Resolved(v, o) = Resolved(w, o)
             /\ Resolved(w, o) /\ AdapterFits(w, o) =>
                  AdapterFits(v, o) /\ v[DeploymentOf(o)] = w[DeploymentOf(o)]
  <2>1. w[o].spec.agent \in Agents /\ w[o].spec.credential \in Credentials \union {None}
    BY <1>6, WorldParts DEF TriggerSpec
  <2>2. v[w[o].spec.agent] = w[w[o].spec.agent]
    BY <2>1, <1>1, Kinds, WorkloadNames
  <2>3. w[o].spec.credential # None => v[w[o].spec.credential] = w[w[o].spec.credential]
    BY <2>1, <1>1, Kinds, WorkloadNames
  <2>4. AgentServes(v, o) = AgentServes(w, o) /\ CallOf(v, o) = CallOf(w, o)
    BY <1>2, <2>2 DEF AgentServes, CallOf, Exists
  <2>5. SecretOf(v, o) = SecretOf(w, o)
    BY <1>2, <2>3 DEF SecretOf
  <2>6. Resolved(v, o) = Resolved(w, o)
    BY <1>2, <2>3, <2>4 DEF Resolved, Exists
  <2>7. Resolved(w, o) /\ AdapterFits(w, o) => DeploymentOf(o) # l
    BY <1>6, FitsIsControlled
  <2>8. Resolved(w, o) /\ AdapterFits(w, o) =>
          AdapterFits(v, o) /\ v[DeploymentOf(o)] = w[DeploymentOf(o)]
    BY <2>4, <2>5, <2>7, <1>2, <1>3 DEF AdapterFits, OwnSpec
  <2> QED BY <2>4, <2>5, <2>6, <2>8
<1>7. AddressOf(v, o) = AddressOf(w, o)
  BY <1>2 DEF AddressOf
<1>8. v[DeploymentOf(o)] = w[DeploymentOf(o)] /\ PodsFit(w, o) => PodsFit(v, o)
  BY <1>2 DEF PodsFit
<1>9. o \in MCPServers /\ McpSettled(w, o) => McpSettled(v, o)
  BY <1>2, <1>4, <1>5, <1>7, <1>8 DEF McpSettled
<1>10. o \in Triggers /\ TriggerSettled(w, o) => TriggerSettled(v, o)
  BY <1>2, <1>6, <1>8 DEF TriggerSettled
<1>11. \A j : o \in MCPServers /\ McpFresh(j, w, o) => McpFresh(j, v, o)
  BY <1>2, <1>4, <1>5 DEF McpFresh
<1>12. \A j : o \in Triggers /\ TriggerFresh(j, w, o) => TriggerFresh(j, v, o)
  BY <1>6 DEF TriggerFresh
<1> QED BY <1>2, <1>9, <1>10, <1>11, <1>12 DEF Settled, NothingStale

LEMMA CacheSyncStep ==
  ASSUME IndInv, NEW n \in All, CacheSync(n)
  PROVE  IndInv'
<1>1. /\ TypeOK /\ CacheFollows /\ JobFollows /\ WakeFollows
      /\ WorldOK(cache) /\ WorldOK(store)
  BY Worlds DEF IndInv
<1>2. /\ UNCHANGED <<store, edits, faults, job>>
      /\ cache[n] # store[n] /\ cache' = [cache EXCEPT ![n] = store[n]]
      /\ queue' = queue \union (IF n \in Workloads THEN wake[n] ELSE {n} \intersect Owners)
      /\ wake' = [l \in Workloads |-> IF l = n THEN {} ELSE wake[l]]
      /\ notify' = notify \union ({n} \intersect Named)
  BY DEF CacheSync, Owns, world
<1>3. /\ DOMAIN cache' = All /\ cache'[n] = store[n]
      /\ \A k \in All : k # n => cache'[k] = cache[k]
  BY <1>1, <1>2 DEF WorldOK
<1>4. \A k \in All : cache[k].rv <= store[k].rv /\ cache[k].rv \in Nat /\ store[k].rv \in Nat
  BY <1>1, Worlds
<1>5. cache[n].rv < store[n].rv
  BY <1>1, <1>2, <1>4 DEF CacheFollows
<1>6. wake \in [Workloads -> SUBSET Owners]
  BY <1>1 DEF TypeOK
<1>7. TypeOK'
  <2>1. \A k \in All : cache'[k] \in VersionOf(k) /\ cache'[k].rv <= store[k].rv
    BY <1>1, <1>3, <1>4 DEF WorldOK
  <2>2. queue' \subseteq Owners /\ notify' \subseteq Named /\ wake' \in [Workloads -> SUBSET Owners]
    BY <1>1, <1>2, <1>6 DEF TypeOK
  <2> QED BY <1>1, <1>2, <1>3, <2>1, <2>2 DEF TypeOK, All
<1>8. CacheFollows'
  BY <1>1, <1>2, <1>3 DEF CacheFollows
<1>9. JobFollows'
  <2>1. ASSUME NEW o \in Owners, job[o].pc # "idle"
        PROVE  /\ job[o].obj.rv <= cache'[o].rv
               /\ job[o].obj.rv = cache'[o].rv => job[o].obj = cache'[o]
    <3>1. /\ job[o].obj.rv <= cache[o].rv /\ o \in All /\ job[o].obj.rv \in Nat
          /\ job[o].obj.rv = cache[o].rv => job[o].obj = cache[o]
      BY <1>1, <2>1, JobParts, Kinds, WorkloadNames DEF JobFollows
    <3>2. CASE o = n
      BY <3>1, <3>2, <1>3, <1>4, <1>5
    <3>3. CASE o # n
      BY <3>1, <3>3, <1>3
    <3> QED BY <3>2, <3>3
  <2> QED BY <2>1, <1>1, <1>2 DEF JobFollows
<1>10. WakeFollows'
  <2>1. ASSUME NEW l \in Workloads
        PROVE  /\ cache'[l] = store[l] => wake'[l] = {}
               /\ cache'[l] # store[l] =>
                    ControllerOf(cache', l) \union ControllerOf(store, l) \subseteq wake'[l]
               /\ \A o \in ControllerOf(cache', l) \union ControllerOf(store, l) :
                    l \in {DeploymentOf(o), ServiceOf(o)}
    <3>1. l \in All
      BY WorkloadNames
    <3>2. CASE l = n
      <4>1. ControllerOf(cache', l) = ControllerOf(store, l) /\ wake'[l] = {}
        BY <3>2, <1>2, <1>3 DEF ControllerOf, Exists
      <4> QED BY <3>2, <4>1, <1>1, <1>3 DEF WakeFollows
    <3>3. CASE l # n
      <4>1. cache'[l] = cache[l] /\ wake'[l] = wake[l]
        BY <3>1, <3>3, <1>2, <1>3
      <4>2. ControllerOf(cache', l) = ControllerOf(cache, l)
        BY <4>1 DEF ControllerOf, Exists
      <4> QED BY <4>1, <4>2, <1>1 DEF WakeFollows
    <3> QED BY <3>2, <3>3
  <2>2. \A l \in Workloads : ControllerOf(store', l) = ControllerOf(store, l)
    BY <1>2
  <2> QED BY <2>1, <2>2, <1>2 DEF WakeFollows
<1>11. ASSUME NEW o \in Owners
       PROVE  Attended(o)'
  <2> SUFFICES ASSUME Exists(store, o), ~Announced(o)' PROVE Attended(o)'
    BY <1>2 DEF Attended
  <2>1. o \in All /\ DeploymentOf(o) \in Workloads /\ ServiceOf(o) \in Workloads
          /\ o \notin Workloads /\ o \in Objects
    BY Kinds, WorkloadNames
  <2>2. o # n
    BY <2>1, <1>2 DEF Announced
  <2>3. cache'[o] = cache[o]
    BY <1>3, <2>1, <2>2
  <2>4. n \in Workloads => o \notin wake[n]
    BY <1>2 DEF Announced
  <2>5. ~Announced(o)
    <3>1. \A l \in Workloads : o \in wake[l] => o \in wake'[l] \/ o \in queue'
      BY <1>2
    <3> QED BY <3>1, <2>1, <2>3, <1>2 DEF Announced
  <2>6. cache[o] = store[o] /\ Exists(cache, o)
    BY <2>5 DEF Announced, Exists
  <2>7. /\ Settled(cache, o) => Settled(cache', o)
        /\ NothingStale(job[o], cache, o) => NothingStale(job[o], cache', o)
    <3>1. CASE n \in {DeploymentOf(o), ServiceOf(o)}
      <4>1. o \notin ControllerOf(cache, n) /\ o \notin ControllerOf(store, n)
        BY <3>1, <2>1, <2>4, <1>1, <1>2 DEF WakeFollows
      <4>2. o \notin ControllerOf(cache', n)
        BY <4>1, <1>3 DEF ControllerOf, Exists
      <4> QED BY <3>1, <4>1, <4>2, <1>1, <1>3, <2>6, ForeignFrame
    <3>2. CASE n \notin {DeploymentOf(o), ServiceOf(o)}
      <4>1. n \notin Watched(cache, o)
        <5>1. ASSUME o \in Triggers, n \in {cache[o].spec.agent, cache[o].spec.credential}
              PROVE  FALSE
          <6>1. /\ cache[o].spec.agent \in Agents
                /\ cache[o].spec.credential \in Credentials \union {None}
            BY <5>1, <2>6, <1>1, WorldParts DEF TriggerSpec
          <6>2. n \notin notify'
            BY <5>1, <2>3 DEF Announced
          <6>3. n \notin Named
            BY <6>2, <1>2
          <6>4. n = None /\ n = cache[o].spec.credential
            BY <6>1, <6>3, <5>1, Kinds
          <6> QED BY <6>4, NoneAssumption DEF All
        <5> QED BY <5>1, <3>2, <2>2 DEF Watched
      <4>2. \A k \in Watched(cache, o) \intersect All : cache'[k] = cache[k]
        BY <4>1, <1>3
      <4> QED BY <4>2, <1>1, <2>6, SettledFrame
    <3> QED BY <3>1, <3>2
  <2>8. Attended(o)
    BY DEF IndInv
  <2> QED BY <2>5, <2>7, <2>8, <1>2 DEF Attended
<1> QED BY <1>7, <1>8, <1>9, <1>10, <1>11 DEF IndInv

LEMMA StutterStep ==
  ASSUME IndInv, UNCHANGED vars
  PROVE  IndInv'
<1>1. UNCHANGED <<store, edits, faults, cache, wake, notify, queue, job>>
  BY DEF vars
<1> QED BY <1>1 DEF IndInv, TypeOK, CacheFollows, JobFollows, WakeFollows, ControllerOf,
             Exists, Attended, Announced, All

LEMMA NextStep == IndInv /\ [Next]_vars => IndInv'
<1> SUFFICES ASSUME IndInv, [Next]_vars PROVE IndInv'
  OBVIOUS
<1>1. ASSUME NEW e \in Edits, Edit(e) PROVE IndInv'
  BY <1>1, EditStep
<1>2. ASSUME NEW l \in Workloads, Tamper(l) \/ GarbageCollect(l) PROVE IndInv'
  BY <1>2, WorkloadStep
<1>3. ASSUME NEW l \in Deployments, Rollout(l) \/ LosePods(l) PROVE IndInv'
  BY <1>3, WorkloadStep DEF Workloads
<1>4. ASSUME NEW n \in Objects \union Workloads, CacheSync(n) PROVE IndInv'
  BY <1>4, CacheSyncStep DEF All
<1>5. ASSUME NEW n \in Named, MapEvent(n) PROVE IndInv'
  BY <1>5, MapEventStep
<1>6. ASSUME NEW o \in Owners, Reconcile(o) \/ WriteFault(o) PROVE IndInv'
  <2>1. CASE StartReconcile(o)
    BY <2>1, StartReconcileStep
  <2>2. CASE ReadAgent(o)
    BY <2>2, ReadAgentStep
  <2>3. CASE ReadCredential(o)
    BY <2>3, ReadCredentialStep
  <2>4. CASE ApplyDeployment(o)
    BY <2>4, ApplyDeploymentStep
  <2>5. CASE ApplyService(o)
    BY <2>5, ApplyServiceStep
  <2>6. CASE ApplyFails(o) \/ WriteFault(o)
    BY <2>6, FailureStep
  <2>7. CASE DeleteDeployment(o) \/ DeleteService(o)
    BY <2>7, DeleteManagedStep
  <2>8. CASE Publish(o)
    BY <2>8, PublishStep
  <2> QED BY <1>6, <2>1, <2>2, <2>3, <2>4, <2>5, <2>6, <2>7, <2>8 DEF Reconcile
<1>7. CASE OperatorRestart
  BY <1>7, OperatorRestartStep
<1>8. CASE UNCHANGED vars
  BY <1>8, StutterStep
<1> QED BY <1>1, <1>2, <1>3, <1>4, <1>5, <1>6, <1>7, <1>8 DEF Next

-----------------------------------------------------------------------------
(* The theorems.                                                           *)

\* The inductive invariant: whatever an owner's status or workloads do not yet
\* reflect is still announced to its controller, or its Reconcile has met
\* nothing stale.
THEOREM IndInvHolds == Spec => []IndInv
BY InitHolds, NextStep, PTL DEF Spec

\* Every variable stays in its type: an adapter is only told addresses with a
\* port, no cache is ahead of the API server, and a controller's one worker
\* reconciles one object at a time.
THEOREM TypeCorrect == Spec => []TypeOK
<1>1. IndInv => TypeOK
  BY DEF IndInv
<1> QED BY <1>1, IndInvHolds, PTL

\* Once nothing is left to do, whatever came before, an MCPServer in image mode
\* has its own Deployment and Service at the endpoint it publishes and is ready
\* exactly when its pods are; an external one controls no workload any more.
THEOREM McpConverges == Spec => []McpServesItsEndpoint
<1>1. IndInv => McpServesItsEndpoint
  <2> SUFFICES ASSUME IndInv, Quiescent, NEW o \in MCPServers, Exists(store, o)
               PROVE  LET obj == store[o]
                          address == <<o, servicePort(obj.spec)>>
                          own == [owner |-> o, uid |-> obj.uid, address |-> address,
                                  secret |-> None, replicas |-> obj.spec.replicas]
                          dep == store[DeploymentOf(o)]
                      IN /\ obj.status.observed = obj.gen
                         /\ IF obj.spec.external # None
                            THEN /\ \A l \in Workloads : o \notin ControllerOf(store, l)
                                 /\ obj.status.endpoint = obj.spec.external
                            ELSE /\ dep.spec = own
                                 /\ store[ServiceOf(o)].spec = [own EXCEPT !.replicas = 0]
                                 /\ obj.status.endpoint = address
                                 /\ obj.status.reason = "Reconciled"
                                      <=> Enough(o, obj.spec, dep.status.available)
    BY DEF McpServesItsEndpoint
  <2>1. /\ queue = {} /\ notify = {} /\ cache = store /\ job[o] = Idle /\ o \in Owners
        /\ \A l \in Workloads : ~Orphan(l) /\ wake[l] = {}
    BY Kinds DEF Quiescent, IndInv, WakeFollows
  <2>2. ~Announced(o) /\ job[o].pc = "idle"
    BY <2>1, WorkloadNames DEF Announced, Idle
  <2>3. Settled(store, o)
    BY <2>1, <2>2 DEF IndInv, Attended
  <2>4. store[o].status.observed = store[o].gen /\ McpSettled(store, o)
    BY <2>3 DEF Settled
  <2>5. CASE store[o].spec.external # None
    <3>1. /\ ~Mine(store, o, DeploymentOf(o)) /\ ~Mine(store, o, ServiceOf(o))
          /\ store[o].status.endpoint = store[o].spec.external
      BY <2>4, <2>5 DEF McpSettled
    <3>2. ASSUME NEW l \in Workloads, o \in ControllerOf(store, l)
          PROVE  FALSE
      <4>1. l \in {DeploymentOf(o), ServiceOf(o)}
        BY <3>2 DEF IndInv, WakeFollows
      <4>2. Exists(store, l) /\ store[l].spec.owner = o
        BY <3>2 DEF ControllerOf
      <4>3. store[l].spec.uid = store[o].uid
        BY <4>2, <2>1 DEF Orphan
      <4> QED BY <4>1, <4>2, <4>3, <3>1 DEF Mine
    <3> QED BY <2>4, <2>5, <3>1, <3>2
  <2>6. CASE store[o].spec.external = None
    <3>1. /\ DeploymentFits(store, o) /\ ServiceFits(store, o)
          /\ store[o].status.endpoint = AddressOf(store, o) /\ PodsFit(store, o)
      BY <2>4, <2>6 DEF McpSettled
    <3>2. /\ store[DeploymentOf(o)].spec =
               [owner |-> o, uid |-> store[o].uid, address |-> <<o, servicePort(store[o].spec)>>,
                secret |-> None, replicas |-> store[o].spec.replicas]
          /\ store[ServiceOf(o)].spec =
               [owner |-> o, uid |-> store[o].uid, address |-> <<o, servicePort(store[o].spec)>>,
                secret |-> None, replicas |-> 0]
          /\ store[o].status.endpoint = <<o, servicePort(store[o].spec)>>
      BY <3>1 DEF DeploymentFits, ServiceFits, AddressOf, OwnSpec
    <3>3. store[o].status.reason = "Reconciled"
            <=> Enough(o, store[o].spec, store[DeploymentOf(o)].status.available)
      BY <3>1 DEF PodsFit
    <3> QED BY <2>4, <2>6, <3>2, <3>3
  <2> QED BY <2>5, <2>6
<1> QED BY <1>1, IndInvHolds, PTL

\* Likewise a Trigger is Degraded exactly when a reference of it does not resolve;
\* otherwise its adapter is told its Agent's present address and mounts its
\* Credential's present Secret, and its status says whether a pod is up.
THEOREM AdapterConverges == Spec => []AdapterIsCurrent
<1>1. IndInv => AdapterIsCurrent
  <2> SUFFICES ASSUME IndInv, Quiescent, NEW o \in Triggers, Exists(store, o)
               PROVE  LET obj == store[o]
                          a   == obj.spec.agent
                          c   == obj.spec.credential
                          dep == store[DeploymentOf(o)]
                          resolved == /\ obj.spec.valid
                                      /\ Exists(store, a) /\ store[a].spec.port # None
                                      /\ c = None \/ Exists(store, c)
                      IN /\ obj.status.observed = obj.gen
                         /\ obj.status.reason \in {"Reconciled", "Progressing"} <=> resolved
                         /\ resolved =>
                              /\ dep.spec = [owner |-> o, uid |-> obj.uid,
                                             replicas |-> obj.spec.replicas,
                                             address |-> <<a, store[a].spec.port>>,
                                             secret |-> IF c = None THEN None
                                                        ELSE store[c].spec.secret]
                              /\ obj.status.endpoint = dep.spec.address
                              /\ obj.status.reason = "Reconciled" <=> dep.status.available > 0
    BY DEF AdapterIsCurrent
  <2>1. /\ queue = {} /\ notify = {} /\ cache = store /\ job[o] = Idle /\ o \in Owners
        /\ \A l \in Workloads : wake[l] = {}
    BY Kinds DEF Quiescent, IndInv, WakeFollows
  <2>2. ~Announced(o) /\ job[o].pc = "idle"
    BY <2>1, WorkloadNames DEF Announced, Idle
  <2>3. Settled(store, o)
    BY <2>1, <2>2 DEF IndInv, Attended
  <2>4. store[o].status.observed = store[o].gen /\ TriggerSettled(store, o)
    BY <2>3 DEF Settled
  <2>5. Resolved(store, o) <=>
          /\ store[o].spec.valid
          /\ Exists(store, store[o].spec.agent) /\ store[store[o].spec.agent].spec.port # None
          /\ store[o].spec.credential = None \/ Exists(store, store[o].spec.credential)
    BY DEF Resolved, AgentServes
  <2>6. store[o].status.reason \in {"Reconciled", "Progressing"} <=> Resolved(store, o)
    BY <2>4 DEF TriggerSettled
  <2>7. ASSUME Resolved(store, o)
        PROVE  /\ store[DeploymentOf(o)].spec =
                    [owner |-> o, uid |-> store[o].uid, replicas |-> store[o].spec.replicas,
                     address |-> CallOf(store, o), secret |-> SecretOf(store, o)]
               /\ store[o].status.endpoint = store[DeploymentOf(o)].spec.address
               /\ store[o].status.reason = "Reconciled"
                    <=> store[DeploymentOf(o)].status.available > 0
    <3>1. AdapterFits(store, o) /\ store[o].status.endpoint = CallOf(store, o) /\ PodsFit(store, o)
      BY <2>4, <2>7 DEF TriggerSettled
    <3>2. o \notin MCPServers
      BY Kinds
    <3> QED BY <3>1, <3>2 DEF AdapterFits, OwnSpec, PodsFit, Enough
  <2> QED BY <2>4, <2>5, <2>6, <2>7 DEF CallOf, SecretOf
<1> QED BY <1>1, IndInvHolds, PTL

\* A workload that stays the same object stays its controller's: a Reconcile that
\* decides on a stale copy writes nothing, because the version has moved on.
THEOREM OwnersKeep == Spec => NoTakeover
<1>1. IndInv /\ [Next]_vars =>
        [\A l \in Workloads :
           Exists(store, l) /\ Exists(store', l) /\ store[l].uid = store'[l].uid
             => store[l].spec.owner = store'[l].spec.owner]_vars
  <2> SUFFICES ASSUME IndInv, Next, NEW l \in Workloads, Exists(store, l), Exists(store', l)
               PROVE  store[l].spec.owner = store'[l].spec.owner
    OBVIOUS
  <2>1. TypeOK /\ CacheFollows /\ DOMAIN store = All /\ l \in All /\ l \notin Objects
    BY WorkloadNames DEF IndInv, TypeOK, All
  <2>2. CASE store' = store
    BY <2>2
  <2>3. ASSUME NEW k \in Workloads, NEW obj, Put(k, obj), 
               \/ obj.spec = None
               \/ Exists(store, k) => obj.spec.owner = store[k].spec.owner
        PROVE  store[l].spec.owner = store'[l].spec.owner
    <3>1. store' = [store EXCEPT ![k] = obj]
      BY <2>3 DEF Put
    <3>2. l # k => store'[l] = store[l]
      BY <3>1, <2>1
    <3>3. l = k => store'[l] = obj
      BY <3>1, <2>1
    <3> QED BY <2>3, <3>2, <3>3 DEF Exists
  <2>4. ASSUME NEW n \in Objects, NEW obj, store' = [store EXCEPT ![n] = obj]
        PROVE  store[l].spec.owner = store'[l].spec.owner
    BY <2>1, <2>4
  <2>5. ASSUME NEW o \in Owners, NEW k \in {DeploymentOf(o), ServiceOf(o)},
               NEW wanted, wanted.owner = o, ~Fails(k, o, wanted), CreateOrUpdate(k, wanted)
        PROVE  store[l].spec.owner = store'[l].spec.owner
    <3>1. CASE InSync(k, wanted)
      BY <3>1, <2>2, <2>5 DEF CreateOrUpdate
    <3>2. CASE ~InSync(k, wanted)
      <4>1. k \in Workloads /\ k \in All /\ Put(k, Rewritten(store[k], wanted))
        BY <3>2, <2>5, WorkloadNames DEF CreateOrUpdate
      <4>2. ~AlreadyOwned(k, o) /\ ~Rejected(k)
        BY <3>2, <2>5 DEF Fails, IsWritten
      <4>3. Exists(store, k) => store[k].spec.owner = o
        BY <4>1, <4>2, <2>1 DEF AlreadyOwned, Rejected, CacheFollows, Exists
      <4>4. Rewritten(store[k], wanted).spec = wanted
        BY DEF Rewritten, Fresh
      <4> QED BY <4>1, <4>3, <4>4, <2>3, <2>5
    <3> QED BY <3>1, <3>2
  <2>6. ASSUME NEW e \in Edits, Edit(e)
        PROVE  store[l].spec.owner = store'[l].spec.owner
    BY <2>4, <2>6, EditsAssumption DEF Edit
  <2>7. ASSUME NEW k \in Workloads, Tamper(k) \/ GarbageCollect(k)
        PROVE  store[l].spec.owner = store'[l].spec.owner
    <3>1. CASE Put(k, Absent(store[k].rv + 1))
      BY <3>1, <2>3 DEF Absent
    <3>2. CASE Exists(store, k)
                 /\ Put(k, Rewritten(store[k], [store[k].spec EXCEPT !.replicas = 0]))
      <4> DEFINE sp == [store[k].spec EXCEPT !.replicas = 0]
      <4>1. store[k].spec \in WorkloadSpec
        BY <3>2, <2>1, Worlds, WorldParts
      <4>2. sp.owner = store[k].spec.owner
        BY <4>1 DEF WorkloadSpec
      <4>3. Rewritten(store[k], sp).spec = sp
        BY DEF Rewritten, Fresh
      <4> HIDE DEF sp
      <4>4. Put(k, Rewritten(store[k], sp))
        BY <3>2 DEF sp
      <4> QED BY <4>2, <4>3, <4>4, <2>3
    <3> QED BY <2>7, <3>1, <3>2 DEF Tamper, GarbageCollect
  <2>8. ASSUME NEW k \in Deployments, Rollout(k) \/ LosePods(k)
        PROVE  store[l].spec.owner = store'[l].spec.owner
    <3>1. k \in Workloads
      BY DEF Workloads
    <3>2. \A st : WithStatus(store[k], st).spec = store[k].spec
      BY DEF WithStatus
    <3>3. PICK st : Put(k, WithStatus(store[k], st))
      BY <2>8 DEF Rollout, LosePods
    <3> QED BY <3>1, <3>2, <3>3, <2>3
  <2>9. ASSUME NEW o \in Owners, Reconcile(o) \/ WriteFault(o)
        PROVE  store[l].spec.owner = store'[l].spec.owner
    <3>1. CASE ApplyDeployment(o)
      <4>1. job[o].pc = "deployment"
        BY <3>1 DEF ApplyDeployment, At
      <4>2. WantedDeployment(o).owner = o
        BY <4>1, WantedParts
      <4> QED BY <3>1, <4>2, <2>5 DEF ApplyDeployment
    <3>2. CASE ApplyService(o)
      <4>1. WantedService(o).owner = o
        BY DEF WantedService, Owned
      <4> QED BY <3>2, <4>1, <2>5 DEF ApplyService
    <3>3. CASE DeleteDeployment(o) \/ DeleteService(o)
      <4>1. PICK k \in {DeploymentOf(o), ServiceOf(o)} :
              store' = store \/ Put(k, Absent(store[k].rv + 1))
        BY <3>3 DEF DeleteDeployment, DeleteService, DeleteManaged
      <4> QED BY <4>1, <2>2, <2>3, WorkloadNames DEF Absent
    <3>4. CASE Publish(o)
      <4>1. store' = store \/ store' = [store EXCEPT ![o] = WithStatus(store[o], NewStatus(o))]
        BY <3>4 DEF Publish
      <4> QED BY <4>1, <2>2, <2>4, Kinds
    <3>5. CASE StartReconcile(o) \/ ReadAgent(o) \/ ReadCredential(o) \/ ApplyFails(o)
                 \/ WriteFault(o)
      BY <3>5, <2>2 DEF StartReconcile, ReadAgent, ReadCredential, ApplyFails, WriteFault, world
    <3> QED BY <2>9, <3>1, <3>2, <3>3, <3>4, <3>5 DEF Reconcile
  <2>10. ASSUME \/ \E n \in Objects \union Workloads : CacheSync(n)
                \/ \E n \in Named : MapEvent(n)
                \/ OperatorRestart
         PROVE  store[l].spec.owner = store'[l].spec.owner
    BY <2>2, <2>10 DEF CacheSync, MapEvent, OperatorRestart, world
  <2> QED BY <2>6, <2>7, <2>8, <2>9, <2>10 DEF Next
<1>2. Spec => []IndInv
  BY IndInvHolds
<1> QED BY <1>1, <1>2, PTL DEF Spec, NoTakeover
=============================================================================
