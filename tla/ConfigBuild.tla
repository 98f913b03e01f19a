---------------------------- MODULE ConfigBuild ----------------------------
(***************************************************************************)
(* How a change to something an Agent depends on becomes the config its    *)
(* runtime runs: the controllers that validate the dependencies, the hash  *)
(* the Agent's Reconcile folds them into, and the Registry's buildConfig,  *)
(* which reads every dependency on its own while they go on changing.      *)
(*                                                                         *)
(* There is one object of each kind. The Agent names all of them but the   *)
(* Credential, which is the Model's, and the Tool that is a member of the  *)
(* ToolSet; a Secret, a ConfigMap and an MCPServer are behind the          *)
(* Credential, the Skill and either Tool. Any read of the Registry may     *)
(* fail. Controllers read their object and what is behind it in one step   *)
(* and as it is: what informer caches that lag and several reads of one    *)
(* Reconcile do is in AgentReconcile, as are classes, policy verdicts,     *)
(* restarts and rewrites of the Agent. Lost frames are RegistryWatch's:    *)
(* here a stream has room and only order matters. The runtime is external  *)
(* and follows docs/runtime-protocol.md.                                   *)
(***************************************************************************)
EXTENDS Naturals, Sequences

CONSTANTS
  Kinds,       \* the kinds of which there is an object
  Webhooks,    \* whether the Tool's admission webhook is installed
  None,
  MaxChanges   \* MaxChanges[k]: users write to kind k, the runtime reconnects and
               \* the Registry's reader fails, while there were fewer changes

AllKinds == {"credential", "model", "prompt", "skill", "tool", "toolset", "member", "policy",
             "toolpolicy"}

\* Objects the Agent does not name: another one does.
Holder == [credential |-> "model", member |-> "toolset"]
Nested == {"credential", "member"}
Direct == Kinds \ Nested

ASSUME ConfigBounds == /\ Kinds \subseteq AllKinds
                       /\ \A k \in Kinds \intersect Nested : Holder[k] \in Kinds
                       /\ Webhooks \in BOOLEAN
                       /\ MaxChanges \in [Kinds \union {"runtime", "reader"} -> Nat]

VARIABLES
  obj,      \* obj[k]: the object of kind k; rv counts its versions, over
            \* deletions too, as only versions of one object are compared
  behind,   \* behind[k]: what the object of kind k takes its content from
  queue,    \* requests waiting for the controllers
  job,      \* job[k]: the status the Reconcile of kind k is about to write
  agent,    \* the Agent's version, phase and hash
  events,   \* versions of the Agent the Registry's informer has to deliver
  build,    \* build[b]: the config builder b is assembling
  stream,   \* the runtime's /watch request
  loaded,   \* the config the runtime runs
  changes   \* writes by users, reconnects and failed reads so far

store    == <<obj, behind>>
registry == <<events, build, stream, loaded>>
vars     == <<obj, behind, queue, job, agent, events, build, stream, loaded, changes>>

\* The specs of a kind, as far as its validation and its readers tell them
\* apart: a Skill's content, a Tool's backing, rules that contradict each other.
SkillSpec      == {"configmap", "inline", "both"}
ToolSpec       == {"mcp", "http", "incomplete"}
ToolPolicySpec == {"consistent", "conflicting"}
CredentialSpec == {"secret", "other"}

Shapes(k) ==
  CASE k = "skill" -> SkillSpec
    [] k \in {"tool", "member"} -> ToolSpec
    [] k = "toolpolicy" -> ToolPolicySpec
    [] k = "credential" -> CredentialSpec
    [] OTHER -> {"first", "second"}

\* The spec there is at the start.
FirstShape(k) ==
  CASE k = "skill" -> "configmap"
    [] k \in {"tool", "member"} -> "mcp"
    [] k = "toolpolicy" -> "consistent"
    [] k = "credential" -> "secret"
    [] OTHER -> "first"

\* The kinds with an object behind them, and the contents it may have; "nokey"
\* has none under the key it is asked for.
Backed == Kinds \intersect {"credential", "skill", "tool", "member"}
Contents(k) == IF k \in {"tool", "member"} THEN {"v1", "v2"} ELSE {"nokey", "v1", "v2"}

Absent(rv) == [spec |-> None, gen |-> 0, status |-> <<>>, rv |-> rv]
Exists(k)  == obj[k].spec # None

\* A spec names what is behind it, so that the index of the watch has it.
Names(k, spec) ==
  \/ k = "credential" /\ spec = "secret"
  \/ k = "skill" /\ spec \in {"configmap", "both"}
  \/ k \in {"tool", "member"} /\ spec = "mcp"

-----------------------------------------------------------------------------
(* The controllers' verdicts, one Ready condition each.                    *)

\* SkillReconciler: exactly one source of content, and the key is there.
SkillVerdict(spec, content) ==
  CASE spec = "both" -> "InvalidSpec"
    [] spec = "inline" -> "Inline"
    [] spec = "configmap" /\ content = None -> "NotFound"
    [] spec = "configmap" /\ content = "nokey" -> "NoKey"
    [] OTHER -> "FromConfigMap"

\* CredentialReconciler: the Secret and its key are there.
CredentialVerdict(spec, content) ==
  CASE ~Names("credential", spec) \/ content = None -> "NotFound"
    [] Names("credential", spec) /\ content = "nokey" -> "NoKey"
    [] OTHER -> "Ready"

\* ToolReconciler: an mcp tool names a server, and the server exists.
ToolVerdict(spec, server) ==
  CASE spec = "incomplete" -> "InvalidSpec"
    [] spec = "mcp" /\ server = None -> "NotFound"
    [] OTHER -> "Ready"

ToolPolicyVerdict(spec) == IF spec = "conflicting" THEN "InvalidSpec" ELSE "Ready"

\* ModelReconciler, ToolSetReconciler: the Credential, the member exists, whether
\* or not it is ready.
HolderVerdict(k) ==
  IF \A n \in Kinds \intersect Nested : Holder[n] = k => Exists(n) THEN "Ready" ELSE "NotFound"

\* A Policy and a PromptTemplate are always ready.
Verdict(k) ==
  CASE k = "skill" -> SkillVerdict(obj[k].spec, behind[k])
    [] k = "credential" -> CredentialVerdict(obj[k].spec, behind[k])
    [] k \in {"tool", "member"} -> ToolVerdict(obj[k].spec, behind[k])
    [] k = "toolpolicy" -> ToolPolicyVerdict(obj[k].spec)
    [] k \in {"model", "toolset"} -> HolderVerdict(k)
    [] OTHER -> "Ready"

\* observedGeneration is part of the status.
Status(k) == <<Verdict(k), obj[k].gen>>

-----------------------------------------------------------------------------
(* Every dependency is there and settled, the Agent is Ready and a runtime *)
(* runs its config.                                                        *)

ReadOrder == <<"prompt", "model", "credential", "tool", "toolset", "member", "skill", "policy",
               "toolpolicy">>

FirstObject(k) ==
  [spec |-> FirstShape(k), gen |-> 1, rv |-> 1,
   status |-> << IF k = "skill" THEN "FromConfigMap" ELSE "Ready", 1 >>]
FirstHash == [k \in Direct |-> 1]

\* What one read contributes: the object's spec. The ConfigMap, MCPServer or
\* Secret behind it is in no hash, and left out of the config.
Read(k) == [spec |-> obj[k].spec, rv |-> obj[k].rv]

Builders == {"informer", "snapshot"}

\* missed: the kinds whose read failed. The Registry logs them; nothing reads it.
NoBuild == [todo |-> {}, rv |-> 0, phase |-> "Degraded", hash |-> None,
            parts |-> [k \in Kinds |-> None], missed |-> {}]

Init ==
  /\ obj = [k \in Kinds |-> FirstObject(k)]
  /\ behind = [k \in Backed |-> "v1"]
  /\ queue = {}
  /\ job = [k \in Kinds |-> None]
  /\ agent = [rv |-> 1, phase |-> "Ready", hash |-> FirstHash]
  /\ events = <<>>
  /\ build = [b \in Builders |-> NoBuild]
  /\ stream = [open |-> TRUE, lastRV |-> 1, frames |-> <<>>]
  /\ loaded = [rv |-> 1, phase |-> "Ready", hash |-> FirstHash,
               parts |-> [k \in Kinds |-> Read(k)], missed |-> {}]
  /\ changes = 0

-----------------------------------------------------------------------------
(* Users. Every write is an event for the object's own controller and for  *)
(* those that watch its kind.                                              *)

\* A Tool is routed to the Agents that reach it through a ToolSet, too.
Wakes(k) == {k} \union (IF k \in Nested THEN {Holder[k]} ELSE {})
                \union (IF k # "credential" THEN {"agent"} ELSE {})

Change(k) == changes < MaxChanges[k] /\ changes' = changes + 1

Put(k, spec) ==
  /\ Change(k)
  /\ spec # obj[k].spec
  /\ Webhooks /\ k \in {"tool", "member"} => spec # "incomplete"
  /\ obj' = [obj EXCEPT ![k] = [spec |-> spec, gen |-> @.gen + 1, status |-> @.status,
                               rv |-> @.rv + 1]]
  /\ queue' = queue \union Wakes(k)
  /\ UNCHANGED <<behind, job, agent, registry>>

Delete(k) ==
  /\ Change(k)
  /\ Exists(k)
  /\ obj' = [obj EXCEPT ![k] = Absent(@.rv + 1)]
  /\ queue' = queue \union Wakes(k)
  /\ UNCHANGED <<behind, job, agent, registry>>

\* Mutant: Secrets are not watched.
NoSecretWatch(k) == k # "credential" /\ Exists(k) /\ Names(k, obj[k].spec)

\* enqueueByIndex, enqueueSkillsForConfigMap: the objects that name it.
Woken(k) == Exists(k) /\ Names(k, obj[k].spec)

\* A Secret, a ConfigMap or an MCPServer is created, changed or deleted.
SetBehind(k, content) ==
  /\ Change(k)
  /\ content # behind[k]
  /\ behind' = [behind EXCEPT ![k] = content]
  /\ queue' = queue \union (IF Woken(k) THEN {k} ELSE {})
  /\ UNCHANGED <<obj, job, agent, registry>>

-----------------------------------------------------------------------------
(* The controllers.                                                        *)

\* Mutant: asks to be called again, whatever it found.
ReconcileAgain(k) ==
  /\ k \in queue
  /\ job[k] = None
  /\ job' = IF Exists(k) THEN [job EXCEPT ![k] = [rv |-> obj[k].rv, status |-> Status(k)]]
            ELSE job
  /\ UNCHANGED <<store, queue, agent, registry, changes>>

\* Reconcile of kind k reads the object and what is behind it.
Reconcile(k) ==
  /\ k \in queue
  /\ job[k] = None
  /\ queue' = queue \ {k}
  /\ job' = IF Exists(k) THEN [job EXCEPT ![k] = [rv |-> obj[k].rv, status |-> Status(k)]]
            ELSE job
  /\ UNCHANGED <<store, agent, registry, changes>>

\* Status().Update: a conflict is retried, and what has changed is an event.
UpdateStatus(k) ==
  /\ job[k] # None
  /\ job' = [job EXCEPT ![k] = None]
  /\ \/ /\ obj[k].rv # job[k].rv
        /\ queue' = IF Exists(k) THEN queue \union {k} ELSE queue
        /\ UNCHANGED obj
     \/ /\ obj[k].rv = job[k].rv
        /\ obj[k].status = job[k].status
        /\ UNCHANGED <<obj, queue>>
     \/ /\ obj[k].rv = job[k].rv
        /\ obj[k].status # job[k].status
        /\ obj' = [obj EXCEPT ![k] = [spec |-> @.spec, gen |-> @.gen, status |-> job[k].status,
                                       rv |-> @.rv + 1]]
        /\ queue' = queue \union Wakes(k)
  /\ UNCHANGED <<behind, agent, registry, changes>>

\* Mutant: a hash of the names that resolve.
HashNames == [k \in Direct |-> 1]

\* configHash: kind, name and resourceVersion of every reference.
ConfigHash == [k \in Direct |-> obj[k].rv]

\* Mutant: the hash of the last Ready status stays.
KeepHash ==
  [phase |-> IF \A k \in Direct : Exists(k) THEN "Ready" ELSE "Degraded", hash |-> ConfigHash]

\* The Agent's Reconcile, from resolveRefs to the status it publishes.
AgentStatus ==
  IF \A k \in Direct : Exists(k)
  THEN [phase |-> "Ready", hash |-> ConfigHash]
  ELSE [phase |-> "Degraded", hash |-> None]

AgentReconcile ==
  LET s == AgentStatus
      version == [rv |-> agent.rv + 1, phase |-> s.phase, hash |-> s.hash]
      same == agent.phase = s.phase /\ agent.hash = s.hash
  IN
  /\ "agent" \in queue
  /\ queue' = queue \ {"agent"}
  /\ agent' = IF same THEN agent ELSE version
  /\ events' = IF same THEN events ELSE Append(events, version)
  /\ UNCHANGED <<obj, behind, job, build, stream, loaded, changes>>

-----------------------------------------------------------------------------
(* The Registry. buildConfigFrom takes hash and phase from the Agent it is *)
(* handed and reads everything else live, one object after the other.      *)

StartBuild(b, version) ==
  build' = [build EXCEPT ![b] =
              [todo |-> Kinds, rv |-> version.rv, phase |-> version.phase,
               hash |-> version.hash, parts |-> [k \in Kinds |-> None], missed |-> {}]]

OnAgentChange ==
  /\ build["informer"] = NoBuild
  /\ events # <<>>
  /\ StartBuild("informer", Head(events))
  /\ events' = Tail(events)
  /\ UNCHANGED <<store, queue, job, agent, stream, loaded, changes>>

\* The request is dropped and made again: subscribe, then the snapshot.
Reconnect ==
  /\ Change("runtime")
  /\ stream' = [open |-> FALSE, lastRV |-> 0, frames |-> <<>>]
  /\ StartBuild("snapshot", agent)
  /\ UNCHANGED <<store, queue, job, agent, events, loaded>>

IsNext(k, todo) ==
  \E i \in 1..Len(ReadOrder) : /\ ReadOrder[i] = k
                               /\ \A j \in 1..(i - 1) : ReadOrder[j] \notin todo

\* The Credential is only asked for when there is a Model, the member when there
\* is a ToolSet.
IsAsked(b, k) == k \in Nested => build[b].parts[Holder[k]] # None

Record(b, k, part, missed) ==
  build' = [build EXCEPT ![b] =
    [todo |-> @.todo \ {k}, rv |-> @.rv, phase |-> @.phase, hash |-> @.hash,
     parts |-> [@.parts EXCEPT ![k] = part], missed |-> missed]]

\* An object that is not found leaves its part empty.
ReadPart(b) == \E k \in build[b].todo :
  /\ IsNext(k, build[b].todo)
  /\ Record(b, k, IF Exists(k) /\ IsAsked(b, k) THEN Read(k) ELSE None, build[b].missed)
  /\ UNCHANGED <<store, queue, job, agent, events, stream, loaded, changes>>

\* So does any other error, a timeout of the API server included: it is logged,
\* and the config keeps phase and hash.
ReadFails(b) == \E k \in build[b].todo :
  /\ Change("reader")
  /\ IsNext(k, build[b].todo)
  /\ IsAsked(b, k)
  /\ Record(b, k, None, build[b].missed \union {k})
  /\ UNCHANGED <<store, queue, job, agent, events, stream, loaded>>

Finished(b) == build[b] # NoBuild /\ build[b].todo = {}

\* Mutant: the hash the Agent has by now.
LateHash(b) ==
  [rv |-> build[b].rv, phase |-> agent.phase, hash |-> agent.hash,
   parts |-> build[b].parts, missed |-> build[b].missed]

Config(b) ==
  [rv |-> build[b].rv, phase |-> build[b].phase, hash |-> build[b].hash,
   parts |-> build[b].parts, missed |-> build[b].missed]

\* The runtime reloads when the hash differs, and keeps its last Ready config.
Load(cfg) ==
  loaded' = IF cfg.phase = "Ready" /\ cfg.hash # loaded.hash THEN cfg ELSE loaded

\* hub.broadcast.
Broadcast ==
  /\ Finished("informer")
  /\ stream' = [stream EXCEPT !.frames = Append(@, Config("informer"))]
  /\ build' = [build EXCEPT !["informer"] = NoBuild]
  /\ UNCHANGED <<store, queue, job, agent, events, loaded, changes>>

WriteSnapshot ==
  /\ Finished("snapshot")
  /\ Load(Config("snapshot"))
  /\ stream' = [stream EXCEPT !.open = TRUE, !.lastRV = build["snapshot"].rv]
  /\ build' = [build EXCEPT !["snapshot"] = NoBuild]
  /\ UNCHANGED <<store, queue, job, agent, events, changes>>

\* handleWatch's loop: a frame that is not newer is dropped.
Receive ==
  LET f == Head(stream.frames) IN
  /\ stream.open
  /\ stream.frames # <<>>
  /\ IF f.rv > stream.lastRV
     THEN /\ Load(f)
          /\ stream' = [stream EXCEPT !.frames = Tail(@), !.lastRV = f.rv]
     ELSE /\ stream' = [stream EXCEPT !.frames = Tail(@)]
          /\ UNCHANGED loaded
  /\ UNCHANGED <<store, queue, job, agent, events, build, changes>>

Operator == \/ AgentReconcile
            \/ \E k \in Kinds : Reconcile(k) \/ UpdateStatus(k)

Registry == \/ OnAgentChange \/ Broadcast \/ WriteSnapshot \/ Receive
            \/ \E b \in Builders : ReadPart(b)

Next ==
  \/ \E k \in Kinds : Delete(k) \/ (\E s \in Shapes(k) : Put(k, s))
  \/ \E k \in Backed : \E c \in Contents(k) \union {None} : SetBehind(k, c)
  \/ Operator
  \/ Registry
  \/ \E b \in Builders : ReadFails(b)
  \/ Reconnect

\* The controllers' workers and the Registry's goroutines keep running.
Fairness == WF_vars(Operator) /\ WF_vars(Registry)

Spec == Init /\ [][Next]_vars /\ Fairness

-----------------------------------------------------------------------------
(* Properties.                                                             *)

Verdicts == {"Ready", "NotFound", "NoKey", "InvalidSpec", "Inline", "FromConfigMap"}
Statuses == (Verdicts \X Nat) \union {<<>>}
Specs    == UNION {Shapes(k) : k \in AllKinds}
Hashes   == [Direct -> Nat] \union {None}
Phases   == {"Ready", "Degraded"}
Part     == [spec : Specs, rv : Nat] \union {None}
Version  == [rv : Nat, phase : Phases, hash : Hashes]
Configs  == [rv : Nat, phase : Phases, hash : Hashes, parts : [Kinds -> Part],
             missed : SUBSET Kinds]

\* No value stands for its own absence.
ASSUME NoneIsNoValue == /\ None \notin Specs \union {"nokey", "v1", "v2"}
                        /\ None \notin [Direct -> Nat]
                        /\ None \notin [spec : Specs, rv : Nat]
                        /\ None \notin [rv : Nat, status : Statuses]

\* An Agent has a hash while, and only while, it is Ready: every version and
\* every config made of one says either both or neither.
HashFitsPhase(v) == v.phase = "Ready" <=> v.hash # None

\* Every variable has its type, and no Agent that is not Ready keeps a hash.
TypeOK ==
  /\ obj \in [Kinds -> [spec : Specs \union {None}, gen : Nat, status : Statuses, rv : Nat]]
  /\ \A k \in Kinds : obj[k].spec \in Shapes(k) \union {None}
  /\ behind \in [Backed -> {"nokey", "v1", "v2", None}]
  /\ queue \subseteq Kinds \union {"agent"}
  /\ job \in [Kinds -> [rv : Nat, status : Statuses] \union {None}]
  /\ agent \in Version /\ HashFitsPhase(agent)
  /\ events \in Seq(Version)
  /\ \A i \in 1..Len(events) : HashFitsPhase(events[i])
  /\ build \in [Builders -> [todo : SUBSET Kinds, rv : Nat, phase : Phases, hash : Hashes,
                             parts : [Kinds -> Part], missed : SUBSET Kinds]]
  /\ \A b \in Builders : HashFitsPhase(build[b])
  /\ stream \in [open : BOOLEAN, lastRV : Nat, frames : Seq(Configs)]
  /\ \A i \in 1..Len(stream.frames) : HashFitsPhase(stream.frames[i])
  /\ loaded \in Configs /\ loaded.phase = "Ready" /\ HashFitsPhase(loaded)
  /\ changes \in Nat

AtRest == /\ queue = {}
          /\ \A k \in Kinds : job[k] = None

Delivered == /\ AtRest
             /\ events = <<>>
             /\ build = [b \in Builders |-> NoBuild]
             /\ stream.open /\ stream.frames = <<>>

\* "a Credential created before its Secret converges to Ready once the Secret
\* appears", "a Skill whose backing ConfigMap is created later converges": at
\* rest every Ready condition says what the spec and the object behind it say
\* now, whatever was deleted, emptied, re-pointed or made again between a
\* controller's reads and its write.
StatusIsCurrent ==
  AtRest => \A k \in Kinds : Exists(k) => obj[k].status = Status(k)

\* "the Operator folds dependency changes into the Agent's resolvedConfigHash,
\* so an Agent event covers any change that matters": when all is delivered and
\* the Agent is Ready, its runtime runs the specs there are now of everything
\* the Agent names, although each was read at a time of its own; a part it has
\* to do without is one whose read failed when this config was built, which no
\* later event makes up for. (What is behind the parts, the Credential of the
\* Model and the members of the ToolSet are in no hash.)
RuntimeRunsCurrentConfig ==
  Delivered /\ agent.phase = "Ready" =>
    \A k \in Direct :
      IF loaded.parts[k] = None THEN k \in loaded.missed
                                ELSE loaded.parts[k].spec = obj[k].spec

\* A runtime that skips a hash it has already skips nothing: no config holds an
\* object older than the version its hash names.
HashIsNotAhead ==
  \A k \in Direct : loaded.parts[k] # None => loaded.parts[k].rv >= loaded.hash[k]

\* Once users stop, the Operator and the Registry come to rest.
ComesToRest == <>[]Delivered

\* resolvePolicy: "A missing Policy already keeps the Agent out of Ready, so a
\* runtime will not act on this config": no runtime runs a config without the
\* Policy its Agent names.
PolicyIsNeverMissing == loaded.parts["policy"] # None
=============================================================================
