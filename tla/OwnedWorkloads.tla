--------------------------- MODULE OwnedWorkloads ---------------------------
(***************************************************************************)
(* The two controllers that own workloads outright: MCPServer              *)
(* (internal/controller/mcpserver_controller), a Deployment and a Service, *)
(* and Trigger (trigger_controller), an adapter Deployment told which      *)
(* Agent to call and which Secret to mount. Both read informer caches,     *)
(* write with CreateOrUpdate and are woken by what they own and name.      *)
(* Their Deployments share one namespace of names: an MCPServer's is named *)
(* as it is, a Trigger's with the suffix -adapter, so the two can collide. *)
(*                                                                         *)
(* A status condition is its reason: a Trigger's phase is a function of it *)
(* (Reconciled: Running, Progressing: Pending, any other: Degraded).       *)
(* Images, environment, labels and resources are constant data left out.   *)
(***************************************************************************)
EXTENDS Naturals, FiniteSets

CONSTANTS
  MCPServers, Triggers, Agents, Credentials,  \* object names
  Ports,       \* ports an Agent or an MCPServer may declare
  URLs,        \* external endpoints
  Secrets,     \* Secret names a Credential may hold
  None,        \* a nil reference; the spec of an object that does not exist
  NameOf,      \* NameOf[o]: the name of owner o's workloads
  InitSpecs,   \* the worlds the Operator may start in: object to spec or None
  Edits,       \* the writes users may make: records of an object and a spec
  MaxReplicas, \* bound on spec.replicas
  MaxEdits,    \* bound on the number of writes by users
  MaxFaults    \* bound on failed writes, lost pods and Operator restarts

Owners  == MCPServers \union Triggers
Named   == Agents \union Credentials
Objects == Owners \union Named
Names   == {NameOf[o] : o \in Owners}
Deployments == {"deployment"} \X Names
Services    == {"service"} \X Names
Workloads   == Deployments \union Services

MCPServerSpec == [external : URLs \union {None}, port : Ports \union {0},
                  replicas : 0..MaxReplicas]
TriggerSpec   == [valid : BOOLEAN, agent : Agents,
                  credential : Credentials \union {None}, replicas : 0..1]
SpecOf(n) ==
  CASE n \in MCPServers  -> MCPServerSpec
    [] n \in Triggers    -> TriggerSpec
    [] n \in Agents      -> [port : Ports \union {None}]  \* None: no runtime or no port
    [] n \in Credentials -> [secret : Secrets]
Addresses == ((Agents \union MCPServers) \X Ports) \union {None}
WorkloadSpec == [owner : Owners, uid : Nat, replicas : 0..MaxReplicas,
                 address : Addresses, secret : Secrets \union {None}]

ASSUME BoundAssumption ==
  MaxEdits \in Nat /\ MaxFaults \in Nat /\ MaxReplicas \in Nat \ {0}
ASSUME EditsAssumption ==
  \A e \in Edits : e.obj \in Objects /\ e.spec \in SpecOf(e.obj) \union {None}
ASSUME InitSpecsAssumption ==
  \A w \in InitSpecs : \A n \in Objects : w[n] \in SpecOf(n) \union {None}

ASSUME PortAssumption == 8080 \in Ports  \* the port of an MCPServer that names none
ASSUME NoneAssumption ==
  /\ \A n \in Objects : None \notin SpecOf(n)
  /\ None \notin WorkloadSpec
  /\ None \notin Objects \union Workloads

\* An object is known by its kind and its name, a workload likewise.
ASSUME KindsAssumption ==
  /\ Objects \intersect Workloads = {}
  /\ MCPServers \intersect (Triggers \union Named) = {}
  /\ Triggers \intersect Named = {}
  /\ Agents \intersect Credentials = {}

VARIABLES
  store,   \* store[n]: the API server's object or workload n
  edits,   \* writes users have made
  faults,  \* faults so far
  cache,   \* the informer caches every read goes to
  wake,    \* wake[l]: the controllers of l in versions not yet delivered
  notify,  \* Agents and Credentials whose change is still to be mapped
  queue,   \* the controllers' work queues
  job      \* job[o]: the Reconcile of owner o in progress

world == <<store, edits, faults>>
vars  == <<store, edits, faults, cache, wake, notify, queue, job>>

Idle     == [pc |-> "idle", obj |-> None, endpoint |-> None, secret |-> None,
             reason |-> "none"]
NoStatus == [observed |-> 0, reason |-> "none", available |-> 0, endpoint |-> None]

\* An object that does not exist still counts its name's writes in rv.
Absent(rv)    == [rv |-> rv, uid |-> 0, gen |-> 0, spec |-> None, status |-> NoStatus]
Exists(w, n)  == w[n].spec # None
Fresh(rv, sp) == [rv |-> rv, uid |-> rv, gen |-> rv, spec |-> sp, status |-> NoStatus]
Rewritten(old, sp) ==
  IF old.spec = None THEN Fresh(old.rv + 1, sp)
  ELSE [rv |-> old.rv + 1, uid |-> old.uid, gen |-> old.rv + 1, spec |-> sp,
        status |-> old.status]
WithStatus(old, st) ==
  [rv |-> old.rv + 1, uid |-> old.uid, gen |-> old.gen, spec |-> old.spec, status |-> st]

Init ==
  /\ \E w \in InitSpecs :
       store = [n \in Objects \union Workloads |->
                  IF n \in Objects /\ w[n] # None THEN Fresh(1, w[n]) ELSE Absent(0)]
  /\ edits = 0
  /\ faults = 0
  /\ cache = store
  /\ wake = [l \in Workloads |-> {}]
  /\ notify = {}
  /\ queue = {o \in Owners : Exists(store, o)}
  /\ job = [o \in Owners |-> Idle]

DeploymentOf(o) == <<"deployment", NameOf[o]>>
ServiceOf(o)    == <<"service", NameOf[o]>>

-----------------------------------------------------------------------------
(* Users and the cluster.                                                  *)

ControllerOf(w, l) == IF Exists(w, l) THEN {w[l].spec.owner} ELSE {}

\* A write of workload l; the watch stream delivers every version's controller.
Put(l, obj) ==
  /\ store' = [store EXCEPT ![l] = obj]
  /\ wake' = [wake EXCEPT ![l] = @ \union ControllerOf(store, l) \union ControllerOf(store', l)]

\* A user creates, updates or deletes an object.
Edit(e) ==
  /\ edits < MaxEdits
  /\ store[e.obj].spec # e.spec
  /\ edits' = edits + 1
  /\ store' = [store EXCEPT ![e.obj] = IF e.spec = None THEN Absent(@.rv + 1)
                                       ELSE Rewritten(@, e.spec)]
  /\ UNCHANGED <<faults, cache, wake, notify, queue, job>>

\* A user deletes a workload, or scales a Deployment down by hand.
Tamper(l) ==
  /\ edits < MaxEdits
  /\ Exists(store, l)
  /\ edits' = edits + 1
  /\ \/ Put(l, Absent(store[l].rv + 1))
     \/ /\ l \in Deployments /\ store[l].spec.replicas > 0
        /\ Put(l, Rewritten(store[l], [store[l].spec EXCEPT !.replicas = 0]))
  /\ UNCHANGED <<faults, cache, notify, queue, job>>

\* Pods come up, go with a scale-down, or are lost.
Rollout(l) ==
  /\ Exists(store, l)
  /\ store[l].status.available # store[l].spec.replicas
  /\ Put(l, WithStatus(store[l], [store[l].status EXCEPT !.available = store[l].spec.replicas]))
  /\ UNCHANGED <<edits, faults, cache, notify, queue, job>>
LosePods(l) ==
  /\ faults < MaxFaults
  /\ Exists(store, l)
  /\ store[l].status.available > 0
  /\ faults' = faults + 1
  /\ Put(l, WithStatus(store[l], [store[l].status EXCEPT !.available = 0]))
  /\ UNCHANGED <<edits, cache, notify, queue, job>>

\* The garbage collector removes a workload whose owner, by UID, is gone. Bound:
\* it does so once the informers have delivered the owner's deletion; before
\* that a Reconcile of the cached owner could only create it again, and again.
Orphan(l) == Exists(store, l) /\ store[store[l].spec.owner].uid # store[l].spec.uid
GarbageCollect(l) ==
  /\ Orphan(l)
  /\ cache[store[l].spec.owner].uid # store[l].spec.uid
  /\ Put(l, Absent(store[l].rv + 1))
  /\ UNCHANGED <<edits, faults, cache, notify, queue, job>>

-----------------------------------------------------------------------------
(* Caches and watches.                                                     *)

\* Mutant: the MCPServer controller does not own its Services.
OwnsDeployments(l) ==
  IF l \in Services THEN {} ELSE wake[l]

\* Owns: the controllers a workload's versions, old and new, name.
Owns(l) == wake[l]

\* An informer receives n's current version. For and Owns map it to requests at
\* once; the handlers of an Agent or a Credential have an index to consult.
CacheSync(n) ==
  /\ cache[n] # store[n]
  /\ cache' = [cache EXCEPT ![n] = store[n]]
  /\ queue' = queue \union (IF n \in Workloads THEN Owns(n) ELSE {n} \intersect Owners)
  /\ wake' = [l \in Workloads |-> IF l = n THEN {} ELSE wake[l]]
  /\ notify' = notify \union ({n} \intersect Named)
  /\ UNCHANGED <<world, job>>

\* Mutant: a Trigger is not woken by its Credential.
NoCredentialWatch(n) ==
  {t \in Triggers : Exists(cache, t) /\ n = cache[t].spec.agent}

\* enqueueByIndex over idxTriggerAgent and idxTriggerCredential.
TriggersNaming(n) ==
  {t \in Triggers : Exists(cache, t) /\ n \in {cache[t].spec.agent, cache[t].spec.credential}}

MapEvent(n) ==
  /\ n \in notify
  /\ notify' = notify \ {n}
  /\ queue' = queue \union TriggersNaming(n)
  /\ UNCHANGED <<world, cache, wake, job>>

-----------------------------------------------------------------------------
(* What a Reconcile asks for.                                              *)

\* The controller whose one worker reconciles o.
Controller(o) == IF o \in MCPServers THEN MCPServers ELSE Triggers

servicePort(spec) == IF spec.port # 0 THEN spec.port ELSE 8080

Owned(o, replicas, address, secret) ==
  [owner |-> o, uid |-> job[o].obj.uid, replicas |-> replicas,
   address |-> address, secret |-> secret]

\* What the closures of CreateOrUpdate set, the controller reference included:
\* an MCP server listens at its address, an adapter calls the Agent's.
WantedService(o) == Owned(o, 0, <<o, servicePort(job[o].obj.spec)>>, None)
WantedDeployment(o) ==
  IF o \in MCPServers
  THEN Owned(o, job[o].obj.spec.replicas, <<o, servicePort(job[o].obj.spec)>>, None)
  ELSE Owned(o, job[o].obj.spec.replicas, job[o].endpoint, job[o].secret)

\* Mutant: the controller reference is overwritten whoever holds it.
TakeOver(l, o) == FALSE

\* SetControllerReference refuses a workload another owner, by name, controls.
AlreadyOwned(l, o) == Exists(cache, l) /\ cache[l].spec.owner # o

\* A workload the cache has as it is wanted needs no new version. A Deployment is
\* written all the same: its containers are built without the API server's defaults.
InSync(l, wanted) == cache[l].spec = wanted
IsWritten(l, wanted) == l \in Deployments \/ ~InSync(l, wanted)

\* The write fails: Create finds the name taken, Update an outdated version.
Rejected(l) == IF Exists(cache, l) THEN cache[l].rv # store[l].rv ELSE Exists(store, l)

Fails(l, o, wanted) == AlreadyOwned(l, o) \/ (IsWritten(l, wanted) /\ Rejected(l))

CreateOrUpdate(l, wanted) ==
  IF InSync(l, wanted) THEN UNCHANGED <<store, wake>> ELSE Put(l, Rewritten(store[l], wanted))

-----------------------------------------------------------------------------
(* Reconcile.                                                              *)

At(o, pc) == job[o].pc = pc
Goto(o, pc) == job' = [job EXCEPT ![o] = [@ EXCEPT !.pc = pc]]
Retry(o) == queue' = queue \union {o} /\ job' = [job EXCEPT ![o] = Idle]

\* The first step of a Reconcile: an external MCPServer gives up its workloads,
\* an invalid Trigger is degraded at once.
FirstStep(o, spec) ==
  IF o \in MCPServers
  THEN IF spec.external # None THEN "deleteDeployment" ELSE "deployment"
  ELSE IF spec.valid THEN "agent" ELSE "publish"

StartReconcile(o) ==
  /\ o \in queue
  /\ \A p \in Controller(o) : job[p] = Idle
  /\ queue' = queue \ {o}
  /\ job' = [job EXCEPT ![o] =
       IF ~Exists(cache, o) THEN Idle
       ELSE [pc |-> FirstStep(o, cache[o].spec), obj |-> cache[o],
             endpoint |-> cache[o].status.endpoint, secret |-> None,
             reason |-> IF FirstStep(o, cache[o].spec) = "publish"
                        THEN "InvalidSpec" ELSE "none"]]
  /\ UNCHANGED <<world, cache, wake, notify>>

\* Mutant: a runtime without a port has an address all the same.
AnyAddress(a) == Exists(cache, a)

\* agentEndpoint: the Agent exists and its runtime has a port.
HasEndpoint(a) == Exists(cache, a) /\ cache[a].spec.port # None

\* The endpoint is recorded before the Credential is looked up.
ReadAgent(o) ==
  /\ At(o, "agent")
  /\ LET a == job[o].obj.spec.agent
     IN job' = [job EXCEPT ![o] =
          IF HasEndpoint(a)
          THEN [@ EXCEPT !.endpoint = <<a, cache[a].spec.port>>,
                         !.pc = IF job[o].obj.spec.credential # None
                                THEN "credential" ELSE "deployment"]
          ELSE [@ EXCEPT !.pc = "publish", !.reason = "ReferenceNotFound"]]
  /\ UNCHANGED <<world, cache, wake, notify, queue>>

ReadCredential(o) ==
  /\ At(o, "credential")
  /\ LET c == job[o].obj.spec.credential
     IN job' = [job EXCEPT ![o] =
          IF Exists(cache, c)
          THEN [@ EXCEPT !.pc = "deployment", !.secret = cache[c].spec.secret]
          ELSE [@ EXCEPT !.pc = "publish", !.reason = "ReferenceNotFound"]]
  /\ UNCHANGED <<world, cache, wake, notify, queue>>

\* reconcileDeployment and reconcileAdapter.
ApplyDeployment(o) ==
  /\ At(o, "deployment")
  /\ ~Fails(DeploymentOf(o), o, WantedDeployment(o))
  /\ CreateOrUpdate(DeploymentOf(o), WantedDeployment(o))
  /\ Goto(o, IF o \in MCPServers THEN "service" ELSE "publish")
  /\ UNCHANGED <<edits, faults, cache, notify, queue>>

\* reconcileService.
ApplyService(o) ==
  /\ At(o, "service")
  /\ ~Fails(ServiceOf(o), o, WantedService(o))
  /\ CreateOrUpdate(ServiceOf(o), WantedService(o))
  /\ Goto(o, "publish")
  /\ UNCHANGED <<edits, faults, cache, notify, queue>>

\* deleteManaged, one workload: what the cache says this very object controls
\* is deleted by name, whatever holds the name by then. (A uid is only unique among
\* the objects of one name here, so it is compared together with the name.)
Managed(o, l) == Exists(cache, l) /\ cache[l].spec.uid = job[o].obj.uid
                                  /\ cache[l].spec.owner = o
DeleteManaged(o, pc, l, next) ==
  /\ At(o, pc)
  /\ IF Managed(o, l) /\ Exists(store, l) THEN Put(l, Absent(store[l].rv + 1))
     ELSE UNCHANGED <<store, wake>>
  /\ Goto(o, next)
  /\ UNCHANGED <<edits, faults, cache, notify, queue>>

\* An MCPServer publishes why a write failed and returns the error; a Trigger
\* only returns it.
WriteFails(o) ==
  IF o \in MCPServers
  THEN job' = [job EXCEPT ![o] = [@ EXCEPT !.pc = "publish", !.reason = "CreateFailed"]]
       /\ UNCHANGED queue
  ELSE Retry(o)
ApplyFails(o) ==
  /\ \/ At(o, "deployment") /\ Fails(DeploymentOf(o), o, WantedDeployment(o))
     \/ At(o, "service") /\ Fails(ServiceOf(o), o, WantedService(o))
  /\ WriteFails(o)
  /\ UNCHANGED <<world, cache, wake, notify>>

\* The availability the cache reports; a Deployment it does not know yet leaves
\* the last one standing.
Available(o) ==
  IF Exists(cache, DeploymentOf(o)) THEN cache[DeploymentOf(o)].status.available
  ELSE job[o].obj.status.available

\* Enough pods: all an MCPServer asks for, any at all of a Trigger.
Enough(o, spec, available) ==
  IF o \in MCPServers THEN spec.replicas > 0 /\ available >= spec.replicas
  ELSE available > 0

\* The status a Reconcile ends with. CreateFailed leaves the observed
\* generation alone, degrade the availability.
NewStatus(o) ==
  LET obj == job[o].obj
  IN IF job[o].reason = "CreateFailed"
     THEN [obj.status EXCEPT !.reason = "CreateFailed"]
     ELSE IF job[o].reason # "none"
     THEN [obj.status EXCEPT !.observed = obj.gen, !.reason = job[o].reason,
                             !.endpoint = job[o].endpoint]
     ELSE IF o \in MCPServers /\ obj.spec.external # None
     THEN [observed |-> obj.gen, reason |-> "Reconciled", available |-> 0,
           endpoint |-> obj.spec.external]
     ELSE [observed |-> obj.gen, available |-> Available(o),
           reason |-> IF Enough(o, obj.spec, Available(o)) THEN "Reconciled"
                      ELSE "Progressing",
           endpoint |-> IF o \in MCPServers THEN <<o, servicePort(obj.spec)>>
                        ELSE job[o].endpoint]

\* Mutant: Reconcile always asks to be called again.
PublishAndRequeue(o) ==
  /\ At(o, "publish")
  /\ Retry(o)
  /\ store' = IF store[o].rv # job[o].obj.rv \/ NewStatus(o) = store[o].status THEN store
              ELSE [store EXCEPT ![o] = WithStatus(@, NewStatus(o))]
  /\ UNCHANGED <<edits, faults, cache, wake, notify>>

\* Status().Update: an outdated version is a conflict and retried, a CreateFailed
\* is retried in any case; an unchanged status is not a new version.
Publish(o) ==
  /\ At(o, "publish")
  /\ IF store[o].rv # job[o].obj.rv
     THEN Retry(o) /\ UNCHANGED store
     ELSE /\ store' = IF NewStatus(o) = store[o].status THEN store
                      ELSE [store EXCEPT ![o] = WithStatus(@, NewStatus(o))]
          /\ job' = [job EXCEPT ![o] = Idle]
          /\ queue' = IF job[o].reason = "CreateFailed" THEN queue \union {o} ELSE queue
  /\ UNCHANGED <<edits, faults, cache, wake, notify>>

\* The API server fails a write.
WriteFault(o) ==
  /\ faults < MaxFaults
  /\ faults' = faults + 1
  /\ \/ job[o].pc \in {"deployment", "service"} /\ WriteFails(o)
     \/ job[o].pc \in {"deleteDeployment", "deleteService", "publish"} /\ Retry(o)
  /\ UNCHANGED <<store, edits, cache, wake, notify>>

\* The Operator restarts: caches are listed anew and every owner is queued.
OperatorRestart ==
  /\ faults < MaxFaults
  /\ faults' = faults + 1
  /\ cache' = store
  /\ wake' = [l \in Workloads |-> {}]
  /\ notify' = {}
  /\ queue' = {o \in Owners : Exists(store, o)}
  /\ job' = [o \in Owners |-> Idle]
  /\ UNCHANGED <<store, edits>>

DeleteDeployment(o) == DeleteManaged(o, "deleteDeployment", DeploymentOf(o), "deleteService")
DeleteService(o)    == DeleteManaged(o, "deleteService", ServiceOf(o), "publish")

Reconcile(o) ==
  \/ StartReconcile(o) \/ ReadAgent(o) \/ ReadCredential(o)
  \/ ApplyDeployment(o) \/ ApplyService(o) \/ ApplyFails(o)
  \/ DeleteDeployment(o) \/ DeleteService(o) \/ Publish(o)

Next ==
  \/ \E e \in Edits : Edit(e)
  \/ \E l \in Workloads : Tamper(l) \/ GarbageCollect(l)
  \/ \E l \in Deployments : Rollout(l) \/ LosePods(l)
  \/ \E n \in Objects \union Workloads : CacheSync(n)
  \/ \E n \in Named : MapEvent(n)
  \/ \E o \in Owners : Reconcile(o) \/ WriteFault(o)
  \/ OperatorRestart

\* Informers, handlers, workers, the garbage collector and the Deployment
\* controller keep running; a queued request is taken in the end.
Fairness ==
  /\ \A n \in Objects \union Workloads : WF_vars(CacheSync(n))
  /\ \A n \in Named : WF_vars(MapEvent(n))
  /\ \A o \in Owners : WF_vars(Reconcile(o))
  /\ \A l \in Workloads : WF_vars(GarbageCollect(l))
  /\ \A l \in Deployments : WF_vars(Rollout(l))

Spec == Init /\ [][Next]_vars /\ Fairness

-----------------------------------------------------------------------------
(* Properties.                                                             *)

Reasons == {"none", "InvalidSpec", "ReferenceNotFound", "CreateFailed",
            "Reconciled", "Progressing"}
Status == [observed : Nat, reason : Reasons, available : Nat,
           endpoint : Addresses \union URLs]
Version(specs) == [rv : Nat, uid : Nat, gen : Nat, spec : specs, status : Status]
VersionOf(n) == Version((IF n \in Objects THEN SpecOf(n) ELSE WorkloadSpec) \union {None})
PCs == {"idle", "agent", "credential", "deployment", "service", "deleteDeployment",
        "deleteService", "publish"}
JobOf(o) == [pc : PCs, obj : Version(SpecOf(o)) \union {None},
             endpoint : Addresses \union URLs, secret : Secrets \union {None},
             reason : Reasons]

\* Every variable stays in its type: in particular an adapter is only ever told
\* an address with a port (agentEndpoint's two runtime checks), no cache is
\* ahead of the API server, and a worker of one controller reconciles one
\* object at a time.
TypeOK ==
  /\ DOMAIN store = Objects \union Workloads /\ DOMAIN cache = Objects \union Workloads
  /\ \A n \in Objects \union Workloads :
       /\ store[n] \in VersionOf(n) /\ cache[n] \in VersionOf(n)
       /\ cache[n].rv <= store[n].rv
  /\ edits \in 0..MaxEdits /\ faults \in 0..MaxFaults
  /\ wake \in [Workloads -> SUBSET Owners]
  /\ notify \subseteq Named /\ queue \subseteq Owners
  /\ DOMAIN job = Owners /\ \A o \in Owners : job[o] \in JobOf(o)
  /\ \A o, p \in Owners : job[o] # Idle /\ job[p] # Idle /\ Controller(o) = Controller(p)
                            => o = p

\* Nothing is left to do: no request, no event, no orphan.
Quiescent ==
  /\ queue = {} /\ notify = {} /\ cache = store
  /\ \A o \in Owners : job[o] = Idle
  /\ \A l \in Workloads : ~Orphan(l)

\* Whatever edits, tampering, failed writes and restarts came before: once there
\* is nothing left to do, an MCPServer in image mode has its own Deployment and
\* Service at the endpoint it publishes and is ready exactly when enough pods
\* are; an external one has neither, even if it had both before.
McpServesItsEndpoint ==
  Quiescent => \A o \in MCPServers :
    LET obj == store[o]
        address == <<o, servicePort(obj.spec)>>
        own == [owner |-> o, uid |-> obj.uid, address |-> address, secret |-> None,
                replicas |-> obj.spec.replicas]
        dep == store[DeploymentOf(o)]
    IN Exists(store, o) =>
         /\ obj.status.observed = obj.gen
         /\ IF obj.spec.external # None
            THEN /\ \A l \in Workloads : o \notin ControllerOf(store, l)
                 /\ obj.status.endpoint = obj.spec.external
            ELSE /\ dep.spec = own
                 /\ store[ServiceOf(o)].spec = [own EXCEPT !.replicas = 0]
                 /\ obj.status.endpoint = address
                 /\ obj.status.reason = "Reconciled"
                      <=> Enough(o, obj.spec, dep.status.available)

\* Likewise a Trigger: it is Degraded exactly when its Agent has no endpoint or
\* its Credential is gone, and otherwise its adapter is told the Agent's present
\* address and mounts the Credential's present Secret, and the status repeats
\* that address and says Running exactly when an adapter pod is up.
AdapterIsCurrent ==
  Quiescent => \A o \in Triggers :
    LET obj == store[o]
        a   == obj.spec.agent
        c   == obj.spec.credential
        dep == store[DeploymentOf(o)]
        resolved == /\ obj.spec.valid
                    /\ Exists(store, a) /\ store[a].spec.port # None
                    /\ c = None \/ Exists(store, c)
    IN Exists(store, o) =>
         /\ obj.status.observed = obj.gen
         /\ obj.status.reason \in {"Reconciled", "Progressing"} <=> resolved
         /\ resolved =>
              /\ dep.spec = [owner |-> o, uid |-> obj.uid,
                             replicas |-> obj.spec.replicas,
                             address |-> <<a, store[a].spec.port>>,
                             secret |-> IF c = None THEN None ELSE store[c].spec.secret]
              /\ obj.status.endpoint = dep.spec.address
              /\ obj.status.reason = "Reconciled" <=> dep.status.available > 0

\* A workload never changes hands while it exists: SetControllerReference, on a
\* possibly stale copy, and the version check of Update see to it together.
NoTakeover ==
  [][\A l \in Workloads :
       Exists(store, l) /\ Exists(store', l) /\ store[l].uid = store'[l].uid
         => store[l].spec.owner = store'[l].spec.owner]_vars

\* Two owners want workloads of the same name.
Collision ==
  \E o, p \in Owners : o # p /\ NameOf[o] = NameOf[p] /\ Exists(store, o) /\ Exists(store, p)

\* The controllers come to rest: status writes and the wake-ups of their own
\* writes die out, and only a name two owners claim keeps them retrying.
Settles == <>[](Quiescent \/ Collision)
=============================================================================
