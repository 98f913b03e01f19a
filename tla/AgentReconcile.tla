--------------------------- MODULE AgentReconcile ---------------------------
(***************************************************************************)
(* The Operator's Agent controller (internal/controller/agent_controller,  *)
(* fieldindex): the API objects, the shared informer caches it reads, the  *)
(* reference-precise watches that map a changed dependency back to Agents, *)
(* the work queue, and Reconcile, one step per read so that the world may  *)
(* change between any two of them. Reads come from started caches and fail *)
(* only with NotFound; writes go to the API server and may fail.           *)
(*                                                                         *)
(* Five kinds stand for the ten an Agent can reference: a Model for the    *)
(* single inheritable references (Model, PromptTemplate), a Policy for the *)
(* inheritable lists that are resolved and checked (Policy, ToolPolicy,    *)
(* Skill), a Tool, a ToolSet and the AgentClass. The hash, sha256 over the *)
(* ordered (kind, name, resourceVersion) list, is the set it is taken of.  *)
(***************************************************************************)
EXTENDS PolicyRules, FiniteSets

CONSTANTS
  Agents, Classes, Models, Tools, ToolSets, Policies,  \* object names
  None,       \* a nil reference; the spec of an object that does not exist
  InitSpec,   \* what exists when the Agent controller starts: a spec or None each
  Edits,      \* the writes users may make: records of an object and a spec
  MaxEdits,   \* bound on the number of writes by users
  MaxFaults   \* bound on failed API calls and Operator restarts

Deps    == Classes \union Models \union Tools \union ToolSets \union Policies
Objects == Agents \union Deps

AgentSpec == [valid : BOOLEAN, class : Classes \union {None},
              model : Models \union {None}, tools : SUBSET Tools,
              toolSets : SUBSET ToolSets, policies : SUBSET Policies,
              runtime : BOOLEAN, expose : BOOLEAN]
ClassSpec == [model : Models \union {None}, tools : SUBSET Tools,
              policies : SUBSET Policies]
PolicySpec == [models : MaybeRule, tools : MaybeRule]
SpecOf(n) ==
  CASE n \in Agents   -> AgentSpec
    [] n \in Classes  -> ClassSpec
    [] n \in Tools    -> [agentRef : Agents \union {None}]
    [] n \in ToolSets -> [tools : SUBSET Tools]
    [] n \in Policies -> PolicySpec
    [] n \in Models   -> {"model"}

ASSUME BoundAssumption == MaxEdits \in Nat /\ MaxFaults \in Nat
ASSUME EditsAssumption ==
  \A e \in Edits : e.obj \in Objects /\ e.spec \in SpecOf(e.obj) \union {None}
ASSUME InitSpecAssumption ==
  \A n \in Objects : InitSpec[n] \in SpecOf(n) \union {None}

\* An object is known by its kind and its name.
ASSUME KindsAssumption ==
  /\ Agents \intersect Deps = {}
  /\ Classes \intersect (Models \union Tools \union ToolSets \union Policies) = {}
  /\ Models \intersect (Tools \union ToolSets \union Policies) = {}
  /\ Tools \intersect (ToolSets \union Policies) = {}
  /\ ToolSets \intersect Policies = {}
ASSUME NoneAssumption ==
  /\ None \notin Objects
  /\ \A n \in Objects : None \notin SpecOf(n)

VARIABLES
  store,     \* store[n]: object n: resourceVersion, uid, generation and spec
  status,    \* status[a]: the status subresource of Agent a
  depStatus, \* depStatus[n]: that of another object
  workloads, \* the runtime Deployments and peer Services Agents own
  edits,     \* writes users have made
  faults,    \* faults so far
  cache,     \* the informer caches every read goes to
  notify,    \* objects whose change the watch handlers have still to map
  queue,     \* the controllers' work queues
  job        \* the Agent's Reconcile in progress

world == <<store, status, depStatus, workloads, edits, faults>>
vars  == <<store, status, depStatus, workloads, edits, faults, cache,
           notify, queue, job>>

\* A resourceVersion is only ever compared with another of the same object, so
\* it counts the object's own writes; uid and generation are the versions of
\* the writes that created the object and last changed its spec.
Exists(w, n) == w[n].spec # None
NewVersion(o) == [rv |-> o.rv + 1, uid |-> o.uid, gen |-> o.gen, spec |-> o.spec]
Absent(rv) == [rv |-> rv, uid |-> 0, gen |-> 0, spec |-> None]

NoStatus    == [observed |-> 0, phase |-> "Pending", reason |-> "none",
                detail |-> {}, hash |-> {}, endpoint |-> FALSE]
NoDepStatus == [observed |-> 0, missing |-> {}]

Idle == [pc |-> "idle", agent |-> None, rv |-> 0, uid |-> 0, gen |-> 0, spec |-> None,
         eff |-> None, todo |-> {}, refs |-> {}, missing |-> {}, policies |-> {},
         tools |-> {}, peers |-> {}, badPeers |-> {}]

\* What the controllers of a Tool, a ToolSet and an AgentClass resolve; of a
\* class's defaults, the model and the policies only.
ToolTargets(spec)    == {spec.agentRef} \ {None}
ToolSetTargets(spec) == spec.tools
ClassTargets(spec)   == ({spec.model} \ {None}) \union spec.policies

RefsOf(n, spec) ==
  CASE n \in Tools    -> ToolTargets(spec)
    [] n \in ToolSets -> ToolSetTargets(spec)
    [] n \in Classes  -> ClassTargets(spec)
    [] n \in Models \union Policies -> {}

\* resolveTargets: the references that do not exist.
MissingIn(w, n) == {m \in RefsOf(n, w[n].spec) : ~Exists(w, m)}

\* Agents are created beside objects whose own status is settled.
Init ==
  /\ store = [n \in Objects |-> IF InitSpec[n] = None THEN Absent(0)
                ELSE [rv |-> 1, uid |-> 1, gen |-> 1, spec |-> InitSpec[n]]]
  /\ status = [a \in Agents |-> NoStatus]
  /\ depStatus = [n \in Deps |-> IF Exists(store, n)
                    THEN [observed |-> 1, missing |-> MissingIn(store, n)]
                    ELSE NoDepStatus]
  /\ workloads = {}
  /\ edits = 0
  /\ faults = 0
  /\ cache = store
  /\ notify = {}
  /\ queue = {a \in Agents : Exists(store, a)}
  /\ job = Idle

-----------------------------------------------------------------------------
(* ApplyClassDefaults: class defaults fill what the Agent leaves unset.    *)
ApplyClassDefaults(spec, class) ==
  IF class = None THEN spec
  ELSE [spec EXCEPT
          !.model    = IF @ = None THEN class.model ELSE @,
          !.policies = IF @ = {} THEN class.policies ELSE @,
          !.tools    = IF @ = {} THEN class.tools ELSE @]

\* The class spec a Get in w returns; an error leaves class nil.
ClassIn(w, spec) ==
  IF spec.class # None /\ Exists(w, spec.class) THEN w[spec.class].spec ELSE None

\* The references resolveRefs looks up and hashes.
Targets(eff) ==
  ({eff.class, eff.model} \ {None}) \union eff.tools \union eff.toolSets
    \union eff.policies

\* The order in which resolveRefs appends the targets' kinds.
Rank(n) == CASE n \in Classes  -> 1
             [] n \in Models   -> 2
             [] n \in Tools    -> 3
             [] n \in ToolSets -> 4
             [] n \in Policies -> 5

\* Violations of the merged policy: by PolicyMerge's MergeMeansAll the merge
\* denies a name exactly when one of the Policies does. The names of MCPServers
\* and their rule, one more list like the tools, and ToolPolicies, whose rules are
\* PolicyRules' ToolRulesDeny, are left out.
Violations(policies, model, tools) ==
  {n \in {model} : \E p \in policies : ~Permits(p.models, n)}
    \union {n \in tools : \E p \in policies : ~Permits(p.tools, n)}

-----------------------------------------------------------------------------
(* Users and the API server.                                               *)

\* A user creates, updates or deletes an object. What belongs to it goes with
\* it: its status and, garbage collected, its workloads.
Edit(e) ==
  LET n == e.obj
      old == store[n]
  IN /\ edits < MaxEdits
     /\ old.spec # e.spec
     /\ edits' = edits + 1
     /\ store' = [store EXCEPT ![n] =
                    IF e.spec = None THEN Absent(old.rv + 1)
                    ELSE [rv |-> old.rv + 1, gen |-> old.rv + 1, spec |-> e.spec,
                          uid |-> IF Exists(store, n) THEN old.uid ELSE old.rv + 1]]
     /\ status' = IF e.spec = None /\ n \in Agents
                  THEN [status EXCEPT ![n] = NoStatus] ELSE status
     /\ depStatus' = IF e.spec = None /\ n \in Deps
                     THEN [depStatus EXCEPT ![n] = NoDepStatus] ELSE depStatus
     /\ workloads' = IF e.spec = None THEN {w \in workloads : w[1] # n} ELSE workloads
     /\ UNCHANGED <<faults, cache, notify, queue, job>>

-----------------------------------------------------------------------------
(* Caches and watches.                                                     *)

\* An informer receives an object's current version, then tells its handlers.
CacheSync(n) ==
  /\ cache[n] # store[n]
  /\ cache' = [cache EXCEPT ![n] = store[n]]
  /\ notify' = notify \union {n}
  /\ UNCHANGED <<world, queue, job>>

\* requestsMatchingIndex: the Agents whose indexed field names n.
AgentsNaming(n) ==
  {a \in Agents : /\ Exists(cache, a)
                  /\ \/ n \in {cache[a].spec.class, cache[a].spec.model}
                     \/ n \in cache[a].spec.tools \union cache[a].spec.toolSets
                                \union cache[a].spec.policies}

\* Mutants: agentsReferencingIndexed without the AgentClasses, or the ToolSets.
NoClassRoute(n) ==
  AgentsNaming(n)
    \union UNION {AgentsNaming(s) : s \in
             {s \in ToolSets : Exists(cache, s) /\ n \in cache[s].spec.tools}}
NoToolSetRoute(n) ==
  AgentsNaming(n)
    \union UNION {AgentsNaming(c) : c \in
             {c \in Classes : /\ Exists(cache, c)
                              /\ \/ cache[c].spec.model = n
                                 \/ n \in cache[c].spec.tools
                                 \/ n \in cache[c].spec.policies}}

\* agentsReferencingIndexed: the Agents that name n, the Agents of a class that
\* hands n down, and, for a Tool, the Agents of a ToolSet that contains it.
AgentsReferencing(n) ==
  AgentsNaming(n)
    \union (UNION {AgentsNaming(c) : c \in
             {c \in Classes : /\ Exists(cache, c)
                              /\ \/ cache[c].spec.model = n
                                 \/ n \in cache[c].spec.tools
                                 \/ n \in cache[c].spec.policies}})
    \union (UNION {AgentsNaming(s) : s \in
             {s \in ToolSets : Exists(cache, s) /\ n \in cache[s].spec.tools}})

\* Mutant: the controllers of the other kinds only watch their own kind.
NoDepWatch(n) == {}

\* enqueueByIndex: the other objects that name n in an indexed field.
DepsReferencing(n) ==
  {d \in Deps : Exists(cache, d) /\ n \in RefsOf(d, cache[d].spec)}

\* The watch handlers map a changed object to requests; For maps it to itself.
MapEvent(n) ==
  /\ n \in notify
  /\ notify' = notify \ {n}
  /\ queue' = queue \union {n} \union AgentsReferencing(n) \union DepsReferencing(n)
  /\ UNCHANGED <<world, cache, job>>

-----------------------------------------------------------------------------
(* The Reconcile of the objects an Agent references, in one step.          *)

\* Resolve the references and publish what is missing. The status is part of
\* the object, so a change of it is one more version; a stale version is a
\* conflict, returned as an error and requeued.
DepStatus(w, n) == [observed |-> w[n].gen, missing |-> MissingIn(w, n)]
DepReconcile(n) ==
  /\ n \in queue
  /\ \/ /\ Exists(cache, n)
        /\ store[n].rv # cache[n].rv
        /\ UNCHANGED <<store, depStatus, queue>>
     \/ /\ Exists(cache, n)
        /\ store[n].rv = cache[n].rv
        /\ depStatus' = [depStatus EXCEPT ![n] = DepStatus(cache, n)]
        /\ store' = IF depStatus' = depStatus THEN store
                    ELSE [store EXCEPT ![n] = NewVersion(@)]
        /\ queue' = queue \ {n}
     \/ /\ ~Exists(cache, n)
        /\ queue' = queue \ {n}
        /\ UNCHANGED <<store, depStatus>>
  /\ UNCHANGED <<status, workloads, edits, faults, cache, notify, job>>

-----------------------------------------------------------------------------
(* The Agent's Reconcile. Every read goes to the cache of the moment.      *)

JobIs(pc) == job.pc = pc

\* The worker takes a request and gets the Agent: gone, invalid, or to resolve.
StartReconcile(a) ==
  /\ JobIs("idle")
  /\ a \in queue
  /\ queue' = queue \ {a}
  /\ job' = IF ~Exists(cache, a) THEN Idle
            ELSE [Idle EXCEPT !.pc = IF cache[a].spec.valid THEN "class" ELSE "status",
                              !.agent = a, !.rv = cache[a].rv, !.uid = cache[a].uid,
                              !.gen = cache[a].gen, !.spec = cache[a].spec,
                              !.eff = cache[a].spec]
  /\ UNCHANGED <<world, cache, notify>>

\* resolveRefs reads the class for its defaults, then lists its targets; no
\* effective model is reported like a missing one.
ReadClass ==
  /\ JobIs("class")
  /\ LET eff == ApplyClassDefaults(job.spec, ClassIn(cache, job.spec))
     IN job' = [job EXCEPT !.pc = "targets", !.eff = eff, !.todo = Targets(eff),
                           !.missing = IF eff.model = None THEN {None} ELSE {}]
  /\ UNCHANGED <<world, cache, notify, queue>>

\* One target: resolved into the hash (and its policy collected), or missing.
ReadTarget ==
  /\ JobIs("targets")
  /\ \E n \in job.todo :
       /\ \A m \in job.todo : Rank(n) <= Rank(m)
       /\ job' = [job EXCEPT
            !.todo = @ \ {n},
            !.refs = IF Exists(cache, n) THEN @ \union {<<n, cache[n].rv>>} ELSE @,
            !.missing = IF Exists(cache, n) THEN @ ELSE @ \union {n},
            !.policies = IF Exists(cache, n) /\ n \in Policies
                         THEN @ \union {cache[n].spec} ELSE @]
  /\ UNCHANGED <<world, cache, notify, queue>>

\* All targets are read: expand the tool surface, direct tools first.
TargetsDone ==
  /\ JobIs("targets")
  /\ job.todo = {}
  /\ job' = [job EXCEPT !.pc = "sets", !.todo = job.eff.toolSets,
                        !.tools = job.eff.tools]
  /\ UNCHANGED <<world, cache, notify, queue>>

\* A ToolSet is read a second time for its members; a missing one is skipped.
ReadToolSet ==
  /\ JobIs("sets")
  /\ \E s \in job.todo :
       job' = [job EXCEPT !.todo = @ \ {s},
                 !.tools = IF Exists(cache, s) THEN @ \union cache[s].spec.tools ELSE @]
  /\ UNCHANGED <<world, cache, notify, queue>>

ToolSetsDone ==
  /\ JobIs("sets")
  /\ job.todo = {}
  /\ job' = [job EXCEPT !.pc = "tools", !.todo = job.tools]
  /\ UNCHANGED <<world, cache, notify, queue>>

\* Each Tool of the surface is read for the peer it names; the MCPServer it names
\* is one of the names left out.
ReadTool ==
  /\ JobIs("tools")
  /\ \E t \in job.todo :
       job' = [job EXCEPT !.todo = @ \ {t},
                 !.peers = IF Exists(cache, t)
                           THEN @ \union ({cache[t].spec.agentRef} \ {None}) ELSE @]
  /\ UNCHANGED <<world, cache, notify, queue>>

\* The workloads the spec asks for; those it no longer asks for stay.
Wanted == (IF job.spec.runtime THEN {"runtime"} ELSE {})
            \union (IF job.spec.expose THEN {"peer"} ELSE {})

\* CreateOrUpdate of the workloads in kinds: the ones it creates wake their
\* owner, and the garbage collector takes those of an Agent that is gone.
Created(kinds) ==
  IF store[job.agent].uid = job.uid THEN ({job.agent} \X kinds) \ workloads ELSE {}

\* Mutant: a CreateOrUpdate that finds a difference every time.
MaterializeAnew ==
  /\ JobIs("tools")
  /\ job.todo = {}
  /\ workloads' = workloads \union Created(Wanted)
  /\ queue' = IF Wanted = {} THEN queue ELSE queue \union {job.agent}
  /\ job' = [job EXCEPT !.pc = IF job.missing = {} THEN "peers" ELSE "status",
                        !.todo = job.peers]
  /\ UNCHANGED <<store, status, depStatus, edits, faults, cache, notify>>

\* reconcileRuntime and reconcilePeer; then the missing check decides whether
\* the policy checks run at all. One step when all goes well: the single writes are
\* PodAssembly's. When one fails, what was made before it stays (ReconcileError).
Materialize ==
  /\ JobIs("tools")
  /\ job.todo = {}
  /\ workloads' = workloads \union Created(Wanted)
  /\ queue' = IF Created(Wanted) = {} THEN queue ELSE queue \union {job.agent}
  /\ job' = [job EXCEPT !.pc = IF job.missing = {} THEN "peers" ELSE "status",
                        !.todo = job.peers]
  /\ UNCHANGED <<store, status, depStatus, edits, faults, cache, notify>>

\* peerViolations: a peer that is this Agent, does not exist or is not exposed.
ReadPeer ==
  /\ JobIs("peers")
  /\ \E p \in job.todo :
       LET bad == p = job.agent \/ ~Exists(cache, p) \/ ~cache[p].spec.expose
       IN job' = [job EXCEPT !.todo = @ \ {p},
                             !.badPeers = IF bad THEN @ \union {p} ELSE @]
  /\ UNCHANGED <<world, cache, notify, queue>>

PeersDone ==
  /\ JobIs("peers")
  /\ job.todo = {}
  /\ job' = [job EXCEPT !.pc = "status"]
  /\ UNCHANGED <<world, cache, notify, queue>>

Degraded(reason, detail, endpoint) ==
  [observed |-> job.gen, phase |-> "Degraded", reason |-> reason,
   detail |-> detail, hash |-> {}, endpoint |-> endpoint]

\* Mutant: nothing clears the endpoint when spec.expose is removed.
KeepEndpoint(old) ==
  LET violations == Violations(job.policies, job.eff.model, job.tools)
                      \union job.badPeers
      endpoint == job.spec.expose \/ old.endpoint
  IN IF ~job.spec.valid THEN Degraded("InvalidSpec", {}, old.endpoint)
     ELSE IF job.missing # {}
          THEN Degraded("ReferenceNotFound", job.missing, endpoint)
     ELSE IF violations # {}
          THEN Degraded("PolicyViolation", violations, endpoint)
     ELSE [observed |-> job.gen, phase |-> "Ready", reason |-> "Reconciled",
           detail |-> {}, hash |-> job.refs, endpoint |-> endpoint]

\* The status Reconcile decides on; the invalid path leaves the endpoint alone.
Decision(old) ==
  LET violations == Violations(job.policies, job.eff.model, job.tools)
                      \union job.badPeers
  IN IF ~job.spec.valid THEN Degraded("InvalidSpec", {}, old.endpoint)
     ELSE IF job.missing # {}
          THEN Degraded("ReferenceNotFound", job.missing, job.spec.expose)
     ELSE IF violations # {}
          THEN Degraded("PolicyViolation", violations, job.spec.expose)
     ELSE [observed |-> job.gen, phase |-> "Ready", reason |-> "Reconciled",
           detail |-> {}, hash |-> job.refs, endpoint |-> job.spec.expose]

\* Mutants: the status is written whatever version it was computed from; it is
\* only written when the phase changes.
UpdateUnchecked ==
  /\ JobIs("status")
  /\ LET self == job.agent
         new  == Decision(status[self])
     IN IF new = status[self]
        THEN UNCHANGED <<store, status>>
        ELSE /\ store' = [store EXCEPT ![self] = NewVersion(@)]
             /\ status' = [status EXCEPT ![self] = new]
  /\ job' = Idle
  /\ UNCHANGED <<depStatus, workloads, edits, faults, cache, notify, queue>>
UpdateOnPhaseChange ==
  /\ JobIs("status")
  /\ LET self == job.agent
         new  == Decision(status[self])
     IN \/ /\ store[self].rv # job.rv
           /\ queue' = queue \union {self}
           /\ UNCHANGED <<store, status>>
        \/ /\ store[self].rv = job.rv
           /\ IF new.phase = status[self].phase
              THEN UNCHANGED <<store, status>>
              ELSE /\ store' = [store EXCEPT ![self] = NewVersion(@)]
                   /\ status' = [status EXCEPT ![self] = new]
           /\ UNCHANGED queue
  /\ job' = Idle
  /\ UNCHANGED <<depStatus, workloads, edits, faults, cache, notify>>

\* Status().Update: a stale resourceVersion is a conflict, returned as an error
\* and requeued; an unchanged status is not a new version.
UpdateStatus ==
  /\ JobIs("status")
  /\ LET self == job.agent
         new  == Decision(status[self])
     IN \/ /\ store[self].rv # job.rv
           /\ queue' = queue \union {self}
           /\ UNCHANGED <<store, status>>
        \/ /\ store[self].rv = job.rv
           /\ IF new = status[self]
              THEN UNCHANGED <<store, status>>
              ELSE /\ store' = [store EXCEPT ![self] = NewVersion(@)]
                   /\ status' = [status EXCEPT ![self] = new]
           /\ UNCHANGED queue
  /\ job' = Idle
  /\ UNCHANGED <<depStatus, workloads, edits, faults, cache, notify>>

\* Mutant: the error is logged and dropped.
DropError ==
  /\ faults < MaxFaults
  /\ JobIs("status")
  /\ faults' = faults + 1
  /\ job' = Idle
  /\ UNCHANGED <<store, status, depStatus, workloads, edits, cache, notify, queue>>

\* A write fails: the peer Service's or the runtime's after it made only some
\* of the workloads, or the status. Reconcile returns the error and the request
\* is queued again.
ReconcileError ==
  /\ faults < MaxFaults
  /\ \/ /\ JobIs("tools")
        /\ job.todo = {}
        /\ Wanted # {}
        /\ \E done \in {{}, Wanted \ {"peer"}} :
             /\ done # Wanted
             /\ workloads' = workloads \union Created(done)
     \/ JobIs("status") /\ UNCHANGED workloads
  /\ faults' = faults + 1
  /\ queue' = queue \union {job.agent}
  /\ job' = Idle
  /\ UNCHANGED <<store, status, depStatus, edits, cache, notify>>

\* The Operator restarts: caches are listed anew and every object is queued.
OperatorRestart ==
  /\ faults < MaxFaults
  /\ faults' = faults + 1
  /\ cache' = store
  /\ notify' = {}
  /\ queue' = {n \in Objects : Exists(store, n)}
  /\ job' = Idle
  /\ UNCHANGED <<store, status, depStatus, workloads, edits>>

Reconcile == \/ ReadClass \/ ReadTarget \/ TargetsDone \/ ReadToolSet
             \/ ToolSetsDone \/ ReadTool \/ Materialize \/ ReadPeer
             \/ PeersDone \/ UpdateStatus

Next ==
  \/ \E e \in Edits : Edit(e)
  \/ \E n \in Deps : DepReconcile(n)
  \/ \E n \in Objects : CacheSync(n) \/ MapEvent(n)
  \/ \E a \in Agents : StartReconcile(a)
  \/ Reconcile
  \/ ReconcileError
  \/ OperatorRestart

\* Informers, handlers and workers keep running; a work queue is first in, first
\* out, so a request that is queued again and again is taken in the end.
Fairness ==
  /\ \A n \in Objects : WF_vars(CacheSync(n)) /\ WF_vars(MapEvent(n))
  /\ \A n \in Deps : SF_vars(DepReconcile(n))
  /\ \A a \in Agents : SF_vars(StartReconcile(a))
  /\ WF_vars(Reconcile)

Spec == Init /\ [][Next]_vars

FairSpec == Spec /\ Fairness

-----------------------------------------------------------------------------
(* What the status should say, read off the API objects at once.           *)

EffOf(w, a) == ApplyClassDefaults(w[a].spec, ClassIn(w, w[a].spec))

Present(w, names) == {n \in names : Exists(w, n)}

\* The Agent's tools, and those of its ToolSets.
ToolsOf(w, a) ==
  EffOf(w, a).tools \union UNION {w[s].spec.tools : s \in Present(w, EffOf(w, a).toolSets)}

PeersOf(w, a) == {w[t].spec.agentRef : t \in Present(w, ToolsOf(w, a))} \ {None}

MissingOf(w, a) ==
  {n \in Targets(EffOf(w, a)) : ~Exists(w, n)} \union ({EffOf(w, a).model} \intersect {None})

ViolationsOf(w, a) ==
  Violations({w[p].spec : p \in EffOf(w, a).policies}, EffOf(w, a).model, ToolsOf(w, a))

\* What is asked of the Agent but for its peers.
Coherent(a) ==
  /\ store[a].spec.valid
  /\ MissingOf(store, a) = {}
  /\ ViolationsOf(store, a) = {}

LiveAgents == {a \in Agents : Exists(store, a)}

\* Nothing is left to do: caches are current, every event is mapped and no
\* request is queued or in progress.
Quiescent ==
  /\ cache = store
  /\ notify = {}
  /\ queue = {}
  /\ JobIs("idle")

-----------------------------------------------------------------------------
(* Properties.                                                             *)

Version(n) == [rv : Nat, uid : Nat, gen : Nat, spec : SpecOf(n) \union {None}]
Status == [observed : Nat, detail : SUBSET (Objects \union {None}),
           phase : {"Pending", "Degraded", "Ready"},
           reason : {"none", "InvalidSpec", "ReferenceNotFound",
                     "PolicyViolation", "Reconciled"},
           hash : SUBSET (Deps \X Nat), endpoint : BOOLEAN]
Job == [pc : {"idle", "class", "targets", "sets", "tools", "peers", "status"},
        agent : Agents \union {None}, rv : Nat, uid : Nat, gen : Nat,
        spec : AgentSpec \union {None}, eff : AgentSpec \union {None},
        todo : SUBSET Objects, refs : SUBSET (Deps \X Nat),
        missing : SUBSET (Deps \union {None}), policies : SUBSET PolicySpec,
        tools : SUBSET Tools, peers : SUBSET Agents, badPeers : SUBSET Agents]

\* Every variable has its type, no cache is ahead of the API server, and no
\* Agent that does not exist has a status.
TypeOK ==
  /\ DOMAIN store = Objects /\ DOMAIN cache = Objects
  /\ \A n \in Objects : /\ store[n] \in Version(n) /\ cache[n] \in Version(n)
                         /\ cache[n].rv <= store[n].rv
  /\ status \in [Agents -> Status]
  /\ \A a \in Agents \ LiveAgents : status[a] = NoStatus
  /\ depStatus \in [Deps -> [observed : Nat, missing : SUBSET Objects]]
  /\ workloads \subseteq Agents \X {"runtime", "peer"}
  /\ edits \in Nat /\ faults \in Nat
  /\ queue \subseteq Objects /\ notify \subseteq Objects
  /\ job \in Job

\* No event is lost on any route by which an Agent reaches a dependency (its
\* own reference, its class's default, a ToolSet's member): when nothing is
\* left to do, an Agent that is Ready has references that exist and Policies
\* that permit them, and one without peers that has them is Ready, whatever
\* changed between the reads of a Reconcile, and across conflicts, failed calls
\* and restarts.
ReadyIffCoherent ==
  Quiescent => \A a \in LiveAgents :
    /\ status[a].phase = "Ready" => Coherent(a)
    /\ Coherent(a) /\ PeersOf(store, a) = {} => status[a].phase = "Ready"

\* configHash "changes only when a reference is added/removed or a referenced
\* object changes", and then it does change: at rest the hash of a Ready Agent
\* is over the current version of every reference.
HashIsCurrent ==
  Quiescent => \A a \in LiveAgents : status[a].phase = "Ready" =>
    status[a].hash = {<<n, store[n].rv>> : n \in Targets(EffOf(store, a))}

\* At rest the message of an Agent Degraded for missing references names
\* exactly those that are missing now, not those of the read that met them, and
\* so does the status of every Tool, ToolSet and AgentClass.
MissingIsExact ==
  Quiescent =>
    /\ \A a \in LiveAgents : status[a].reason = "ReferenceNotFound" =>
         status[a].detail = MissingOf(store, a)
    /\ \A n \in Deps : Exists(store, n) => depStatus[n] = DepStatus(store, n)

\* At rest the peer endpoint is published exactly while spec.expose is set, on
\* every path through Reconcile but the one that rejects the spec.
EndpointFollowsExpose ==
  Quiescent => \A a \in LiveAgents :
    store[a].spec.valid => status[a].endpoint = store[a].spec.expose

\* "an Agent cannot consult itself": at rest no Agent is Ready with a Tool that
\* points at itself, of its own or of a ToolSet, and the message of one that is
\* Degraded for violations names what its Policies deny now, besides peers, and
\* itself if it is one. Whether another peer is there and exposed is as of the
\* last Reconcile only: the Agent controller does not watch peers, and the Tool
\* controller, which does, may find that nothing has changed.
ViolationsAreExact ==
  Quiescent => \A a \in LiveAgents :
    /\ status[a].phase = "Ready" => a \notin PeersOf(store, a)
    /\ status[a].reason = "PolicyViolation" =>
         /\ ViolationsOf(store, a) \subseteq status[a].detail
         /\ status[a].detail \subseteq ViolationsOf(store, a) \union PeersOf(store, a)
         /\ a \in PeersOf(store, a) => a \in status[a].detail

\* The status writes, which wake the controllers again, and the workloads'
\* events do not feed themselves: once users stop, the Operator comes to rest.
ComesToRest == <>[]Quiescent
=============================================================================
