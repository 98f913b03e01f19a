# Agent Plane in TLA+

Agent Plane is a Kubernetes Operator and a Registry. Users declare Agents and
the objects they are composed of; the **Operator** resolves references, checks
policies, creates workloads and publishes status; the **Registry** serves each
Agent's resolved configuration to its runtime, once (`/config`) or as a stream
(`/watch`). This directory models the parts whose correctness depends on the
order of events, checks them with TLC on small instances, and proves the most
important properties with TLAPS for every instance.

## Inventory

| Component | State | Operations | Interacts with | What is hard | What makes it correct |
|---|---|---|---|---|---|
| Registry stream (`cmd/registry/main.go`) | hub of subscribers with bounded channels; per stream the last version written | informer events, broadcast, subscribe, snapshot, receive, unsubscribe, `/config` | API server (live reads and a watch), runtimes | a lagging informer beside live reads, reconnects, full channels, restarts | no change missed, no older config after a newer one, convergence |
| Policy merge (`policy_merge.go`) | the merged policy | one iteration per Policy and ToolPolicy; `Permits`, `MatchToolRule`, `Violations` | Operator (declared references), Registry (call time) | empty, wildcard and disjoint lists; order of rules | the merge means "every policy permits it"; attaching narrows |
| Agent controller (`agent_controller.go`, `fieldindex.go`) | status, config hash, owned workloads; informer caches; work queue | Reconcile, watch mappings | every other kind, Deployments and Services | reads at different times, conflicts, lost wake-ups on indirect routes, failures between two writes, self-wake-ups | at rest the status says what the objects say; it comes to rest |
| Registry config assembly (`buildConfigFrom`, `resolveTool`, `resolveSkill`, `resolvePolicy`) | the config of one Agent version | one live read per dependency | the Agent's hash, the stream, the runtime's reload | dependencies change between the reads, two builders at once | a Ready runtime ends with the specs there are now; a hash is never ahead of its content |
| Reference controllers (Tool, ToolSet, AgentClass, Model, Skill, Credential) | Ready condition of their object | Reconcile, watch mappings | Secrets, ConfigMaps, MCPServers; the Agent controller watches the objects they write | what is behind an object appears, changes and goes; their status writes are events for Agents | at rest the condition says what is there |
| Validation-only controllers (Policy, ToolPolicy, PromptTemplate) | Ready condition | Reconcile | same | conflict with an edit | at rest the condition is of the current generation |
| MCPServer, Trigger controllers | owned Deployment and Service, endpoint, availability | Reconcile, switch to external mode, degrade | Deployments, Agents, Credentials | one of several writes fails, stale address | the endpoint published is the one that is served |
| Runtime pod (`reconcileRuntime`, `workspacePodSpec`, `userVolumes`, `credentialVolumes`) | Deployment template, claim, Service | CreateOrUpdate over the Deployment there is | Credentials, Model, validation | leftovers of removed options, four parts adding volumes, Secrets that change meanwhile | volumes, mounts and environment agree; the pod follows the spec |
| Workspace (`cloneInitContainer`) | a volume with a working tree that outlives pods | the script, command by command | git, kubelet, runtime | a command killed half way, local work, another repository | a runtime that starts finds its directory prepared; work survives |
| Validation and webhooks (`validation.go`, `skill_scope.go`) | none | `Validate` per kind | API server, controllers | overlap rules of names and paths | what validates can be assembled |
| `cmd/main.go`, `cmd/example-mcp`, `cmd/script-mcp`, deep copies | - | wiring, samples, generated code | - | - | not modelled |

`PROJECT.json` lists the hazards one by one, each at its line, with the
properties that cover it.

## Plan

Done: every module below, with proofs about each. Left, in this order:

1. Skill tool scopes in `AgentReconcile`, and a run on what a Degraded Trigger
   publishes while its adapter runs on.
2. Lemmas that two proof modules state alike, stated once (the sequence lemmas
   of `PodAssemblyProofs` first).
3. Refinements as proofs: `AgentReconcile`'s one-step view of it in `ConfigBuild`,
   and `PodAssembly`'s claim with one writer as what `Workspace` starts from.

## Modules

**RegistryWatch** - `cmd/registry/main.go` from the informer to the runtime.
`PutAgent`, `DeleteAgent`, `Relist` and `Resync` are the API server and
client-go as the code uses them; `OnAgentChange` and `Broadcast` the handler;
`Subscribe`, `BuildConfig`, `WriteSnapshot`, `Receive` and `Unsubscribe` the
steps of `handleWatch` between which other goroutines run; `HandleConfig` the
one-shot read; `Restart` a new process. A config is the resourceVersion of the
Agent it was built from, 0 is the empty version. `lost` remembers which streams
had a failed snapshot read or a full channel. `buildConfigFrom` fails only when
an API object cannot be marshalled, which does not happen; its reads of other
objects are `ConfigBuild`'s. A keepalive changes nothing.

**VersionFeed** - what a runtime is promised, without hub, channels, informer or
handlers: versions are published and withdrawn, a client is shown one at a time,
never an older one after a newer one, and in the end the newest. **RegistryFeed**
is the refinement: `top`, `newest` and `known` are the API server's revision and
objects and what clients hold; a stream is `fresh` until it has written something
and `whole` while none of its frames was dropped and its snapshot was read.

**PolicyRules** - the operators of `policy_merge.go`: lists that only answer
membership are sets, rules that are matched in order are sequences.
**PolicyMerge** - the loop of `MergePolicies`, one iteration a step, and the
verdicts of `Violations`.

**AgentReconcile** (uses `PolicyRules`) - the Agent controller. `Edit` is a
user's write, `CacheSync` an informer receiving the current version, `MapEvent`
the watch handlers of `SetupWithManager` evaluated on the indexes of that
moment. `StartReconcile` to `UpdateStatus` are one Reconcile, a step per read
(`ReadClass`, `ReadTarget`, `ReadToolSet`, `ReadTool`, `ReadPeer`) because the
cache may move between two reads; `Materialize` creates the workloads,
`UpdateStatus` writes or conflicts, `ReconcileError` is a failed write and
`OperatorRestart` a new process. `DepReconcile` is the Reconcile of a Tool,
ToolSet, AgentClass, Model or Policy in one step: it reads its references
and writes a status, which is a new version of an object Agents hash. Five kinds
stand for ten: a Model for the single inheritable references, a Policy for the
inheritable lists. The policy check is made of the model and of the tools of the
whole surface; the MCPServers these tools name and the rules about MCPServers
(`agent_controller.go:396-412`, `policy_merge.go:193-197`), one more list of names of
the same form, and those of ToolPolicies (`policy_merge.go:203-213`, `PolicyMerge`'s)
are left out. `Materialize` is one step when all its writes succeed, a failure of
the second is an alternative of `ReconcileError`, and `PodAssembly` has the writes one
by one. A resourceVersion counts the writes of its own object, since
the Operator only compares versions of one object for equality. The hash is the
set it is computed over. Reads are served by started informer caches, whose only
error is NotFound, so the branches for other read errors are not taken.

**OwnedWorkloads** - the MCPServer and Trigger controllers and the Deployments and
Services they own. `StartReconcile` to `Publish` are one Reconcile of either:
`ReadAgent` and `ReadCredential` the Trigger's reads, `ApplyDeployment` and
`ApplyService` a `CreateOrUpdate` each (a read of the cache and a write the API
server may reject), `ApplyFails` its refusals and conflicts (a Deployment is
always written, its containers being built without the API server's defaults, and
gets no new version when it is what is wanted), `DeleteDeployment`
and `DeleteService` the two halves of `deleteManaged`, `Publish` every status
write including `degrade`. `Edit` and `Tamper` are users, `Rollout` and
`LosePods` the Deployment controller, `GarbageCollect` the removal of what a
deleted owner left, `WriteFault` and `OperatorRestart` the faults. `wake` keeps
the controllers named by the versions of a workload that its informer has not
delivered yet, because a watch stream delivers a creation and a deletion even if
both are over. `address` is what a container is told: an adapter which Agent to
call, an MCP server where to listen.

**AgentSpecs** - an Agent's spec as far as its pod depends on it, and
`AgentSpec.Validate`: reserved names, paths and variables, duplicates, the rules
on workspace, volumes and expose. A path is a sequence of segments and whether it
was written with a slash at the end. The workspace's size is left out
(`validation.go:253-257`): one that does not parse makes a spec invalid like any
other mistake in it.

**PodAssembly** (extends `AgentSpecs`) - the part of the Agent's Reconcile that
makes the pod. `Apply` is a user's write, through the webhook or not;
`ReadCredential`, `RefsDone`, `ReadModel`, `ReadModelCredential` the reads,
`ReconcileWorkspace`, `WriteDeployment`, `WriteService` and `UpdateStatus` the
writes, each of which may fail. `Mutate` is the function handed to
`CreateOrUpdate`, applied to the Deployment that is there: what it assigns and
what it leaves is what the run is about. Images, labels and resources are not in
the model; nothing else in the pod has to agree with them. A Credential without a
Secret's name, which `agent_controller.go:1217` skips, does not get past the schema
(`common_types.go:41`).

**Workspace** - the clone init container on a volume that outlives pods. `Begin`
to `Exclude` are the commands of the script in order, `Fails` is `set -eu`.
`Kill` ends a pod between two commands or inside one, where `Interrupted` says
what git leaves (locks, a repository without a remote, a tree not checked out).
`Write`, `Commit`, `Conflict`, `Push` and `Switch` are what a runtime does in the
meantime; `place` follows each piece of its work: an edit, an untracked file, one
in the way of what another branch, another repository or the remote tracks
(`inway`), a file under HOME, a commit. `Checkout` refuses edits and untracked files
in the way, a lock and an index with conflicts (`CheckoutFits`, `InTheWay`), and
may overwrite untracked files that git ignores (`Overwritten`); `Reset` drops what
is not in the remote's branch (`Discarded`) and may overwrite any untracked file in
the way. git, kubelet and git host are external. No repository is taken to track
paths under HOME, and a runtime makes no repository of its own (`git init`) in
a workspace that names none.

**ConfigBuild** - from a change of a dependency to the config a runtime runs.
`Reconcile` and `UpdateStatus` are the controller of a Model, Credential, Skill,
Tool, ToolSet, PromptTemplate, Policy or ToolPolicy: read, then write or conflict.
A Reconcile reads its object and what is behind it live and in one step, and
`AgentReconcile` is one step (lagging caches and changes between two reads of one
Reconcile are `AgentReconcile.tla`'s). What the Agent does not name itself is nested:
the Credential in the Model, the Tool `member` in the ToolSet (`Holder`).
`OnAgentChange` and `Reconnect` start the two builders of the Registry,
`ReadPart` is one live read of `buildConfigFrom`, `ReadFails` one that fails for any
reason and is logged (`missed`), `Broadcast`, `WriteSnapshot`
and `Receive` bring the config to the runtime, which loads a Ready config with a
hash it does not have.

A module `XProofs` holds the theorems about module `X`. The `MC*`
modules name the small worlds of the runs. Definitions introduced as *mutants* are
deliberate bugs; replacing the definition below by one of them makes the
property paired with it in `PROJECT.json` fail.

## Runs

| Run | Bounds | Checks |
|---|---|---|
| `RegistryStream` | 2 Agents, 1 runtime on one of them, channel of 2, 4 writes | `TypeOK`, `NoMissedChange`, `SubscribersAreConnections`, `NeverAhead`, `ForwardUnlessNoSnapshot`, `ImplementsFeed`, `HangupIsCleanedUp` |
| `PolicyMerge` | 2 names and `*`, 3 Policies, 2 ToolPolicies | `TypeOK`, `MergeMeansAll`, `PolicyOnlyNarrows`, `FirstNamedRuleDecides` |
| `AgentRoutes` | 1 Agent reaching everything indirectly, 2 writes | `ReadyIffCoherent`, `HashIsCurrent`, `MissingIsExact` |
| `AgentRewrites` | 1 Agent, 2 writes of it, 1 fault | `TypeOK`, `HashIsCurrent`, `EndpointFollowsExpose`, `ComesToRest` |
| `AgentPeers` | 2 Agents, one consulting the other, a Policy about the tool it does so with, 2 writes | `ViolationsAreExact` |
| `OwnedWorkloads` | 1 MCPServer and 1 Trigger with the same workload name, 3 worlds, 1 write, 1 fault | `TypeOK`, `McpServesItsEndpoint`, `AdapterIsCurrent`, `NoTakeover`, `Settles` |
| `PodAssembly` | 15 specs (7 invalid), 2 Credentials, 2 Secrets, 2 writes, 1 fault, no webhook | `TypeOK`, `PodIsCoherent`, `EnvNamesMounts`, `PodFollowsSpec`, `StatusIsExact`, `ComesToRest` |
| `Workspace` | 3 repositories, 2 pieces of work, 1 edit, 2 kills, 1 outage | `TypeOK`, `OnlyOwnBranchIsReset`, `HomeIsNeverCommitted`, `StartsPrepared`, `ComesUp` |
| `ConfigBuild` | Model, Credential, Skill, ToolSet, its member Tool and what is behind them; 1 change of anything, a second one of the Skill, a reconnect or a failed read | `TypeOK`, `StatusIsCurrent`, `RuntimeRunsCurrentConfig`, `HashIsNotAhead`, `ComesToRest` |
| `ConfigNoPolicy` | Model, Tool, Policy, ToolPolicy, webhook on, 2 changes of the Policy | *violation* of `PolicyIsNeverMissing` |
| `WorkspaceRestart` | 1 piece of work, 1 kill | *violation* of `RestartKeepsWork` |
| `WorkspacePrivate` | no edit, no kill | *violation* of `PrivateRepositoryIsCloned` |

Why the bounds are enough. A stream goes wrong through a snapshot between two
broadcasts, a reconnect, and an overflow: four versions and a channel of two
reach each of them and their combinations; the capacity of 8 in the code only
needs more writes. A merge is decided pairwise, and three Policies include every
merge of a merged rule with a third. For the Agent controller two writes place
one change before and one after any read, any event and any status write of a
Reconcile that is itself triggered by the first; the initial state adds a third
change, the creation of the Agent. In `OwnedWorkloads` the workloads are made from
nothing while the one write and the one fault happen, so each step of a Reconcile
meets a change and a failure; the garbage collector waits until the informers
have delivered the owner's deletion, since before that a Reconcile of the cached
owner and the collector could undo each other without end. The pod depends on
the spec before last only through what `Mutate` leaves, so two writes (three specs
with the first) show every leftover; the specs were chosen so that each takes up
a name, a path or an option another one gives up, and each invalid one breaks one
rule. The script of the workspace keeps no state but the volume: two kills put a
second interruption on what the first one left, and the edit between them changes
repository or branch; of two pieces of work one can be in the way while the other is
a commit, an edit or a conflict. In `ConfigBuild` one change meets every read of every
builder and controller, and the second, of the object read in the middle, meets a
rebuild that the first one started, and a read that fails is any read of the build
that follows a change; conditions double the writes on the Agent's side. Only `RegistryStream` checks for deadlock: users, runtimes or relists can
always move there. The other systems are meant to stop.

Fairness. In `RegistryWatch` the informer's goroutine and each connection's
handler keep running (weak fairness of `OnAgentChange`, `Broadcast` and the steps
of `handleWatch`, which takes a write to a client that has stopped reading to fail
at some time); users, runtimes, relists and restarts owe nothing. `OnAgentChange` is strongly
fair: one goroutine takes the events of all Agents in the order they came, so
another Agent's events delay one but never keep it waiting. In `AgentReconcile` informers, handlers and a Reconcile in progress keep running;
taking a request is strongly fair because work queues are first in, first out.
In `OwnedWorkloads` so do the garbage collector and the Deployment controller;
weak fairness of each owner's Reconcile suffices with one owner per controller.
In `PodAssembly` and `ConfigBuild` controllers and the Registry keep running;
users, faults, reconnects and failed reads owe nothing. In `Workspace` the kubelet starts pods
and runs their commands and the rollout of a new template ends; what a runtime
does and what kills it owes nothing.

### What the violations show

- **A config without its Policy** (`ConfigNoPolicy`). `buildConfigFrom` takes phase
  and hash from the version of the Agent it is given and reads the Policies
  afterwards; one that was deleted in between, or whose read fails, is skipped. The
comment there
  relies on the Agent not being Ready, which the version at hand still is. The
  runtime loads the config and, as the protocol asks, keeps it when the Agent
  turns Degraded.
- **A restart discards work** (`WorkspaceRestart`). With a branch in the spec, every
  pod start resets the tree to the remote's branch: edits of tracked files,
  commits not pushed and untracked files where that branch has files are gone, where the comment on `cloneInitContainer` says a
  restart does not discard work. `OnlyOwnBranchIsReset` bounds the damage.
- **A private repository is not cloned** (`WorkspacePrivate`). The helper that the
  clone step installs has the file's name in single quotes within the helper
  itself, so `cat` gets an unexpanded name and the password is empty.

Other differences between code and text need no run of their own. The passing
properties name them as exceptions or do not claim them:

- `main.go:548-549` says a slow consumer "always converges". `broadcast` drops
  the frame it is sending and keeps the older ones, so it converges only when
  another event of the Agent follows (`whole` in `VersionFeed`).
- `main.go:195-198` says a client "can only ever move forward". A stream whose
  snapshot read failed has no floor and may show an older version (`fresh`).
- `runtime-protocol.md:152-155` describes merging as tightening. A ToolPolicy rule
  that names a tool wins over `*` and over the default, so attaching one can widen.
- `agent_controller.go:226-229` and `docs/usage.md:636-639` have an Agent whose peer
  is not there or not exposed Degraded. Nothing wakes the consumer when the
  peer's `spec.expose` changes, and a peer created and deleted before its Tool is
  reconciled again leaves the consumer Ready; `ReadyIffCoherent` claims neither,
  `ViolationsAreExact` states what is kept.
- `policy_merge.go:28-29`: a forbidden Agent is Degraded, but the Deployment is
  created before the policies are merged and is not removed afterwards.
- `runtime-protocol.md:21` says the hash covers "all its transitive
  dependencies". A ConfigMap behind a Skill, an MCPServer behind a Tool, a
  Credential behind a Model and the specs of the Tools in a ToolSet are in none
  (`RuntimeRunsCurrentConfig` excepts them), although a change of such a Tool wakes
  the Agent.
- `main.go:25-26` says "watching Agents is sufficient to observe any change that
  affects an agent's runtime config", and `README.md:29` likewise. Any read of
  `buildConfigFrom` that fails is logged and its part left out (`main.go:300-309`,
  `333-337`, `346-348`, `355-358`, `376-389`), and the config is Ready with the
  present hash: a runtime that loads it does without the part until the hash
  changes. `RuntimeRunsCurrentConfig` excepts parts whose read failed (`missed`).
- `validateVolumes` reserves the workspace path as written and compares trimmed
  paths: a workspace path with a slash at the end can be mounted over.
  `validateWorkspace` does not compare its path with those the Operator mounts
  (`/tmp`, the credentials), which `docs/usage.md:326-328` lists as the Operator's
  own (`Unchecked`, the exception of `PodIsCoherent`).
- `agentclass_types.go:39` says default policies "are merged into every Agent of
  this class", `ApplyClassDefaults` uses them only for Agents that declare none;
  and the AgentClass controller resolves the default model, prompt and policies,
  not the default tools, skills and tool policies (`ClassTargets`).
- `trigger_types.go:121` calls `status.agentEndpoint` "the address injected into
  the adapter": the Trigger's Reconcile sets it before it looks for the
  Credential, so when that is missing a new address is published that the
  adapter, left running, was never told.

## Proofs

`RegistryWatchProofs` proves, for any Agents, clients, channel capacity and
number of writes, that `TypeOK`, `SubscribersAreConnections`, `NeverAhead` and
`NoMissedChange` are invariants and that `ForwardUnlessNoSnapshot` holds of every
step. Assumptions: `AgentOfAssumption` and `BoundsAssumption`. `NoMissedChange`
is not inductive: it speaks of streams in their loop, and what it needs is
settled earlier, when the snapshot is read. `IndInv` therefore adds `CoveredInv`,
the same statement from that read on, with the floor the stream is going to have
(`Floor`), and `FloorInv`, that a connected client holds no more than the floor,
from which a frame above the floor moves it forward. `NeverAhead` is what makes a
live read a safe floor: no version anywhere is newer than the object. The proof
has one lemma per part and, in each, one step per action.

`RegistryFeedProofs` proves `ImplementsSafeFeed`: under the mapping of `RegistryFeed`
every step is a step of `VersionFeed` or changes nothing in it. `PutAgent` and
`DeleteAgent` publish and withdraw; the three actions that write to a client show
a version, which is in range by `NeverAhead`, not older by `FloorInv`, and not the
empty one by `FramesHaveVersions`, an invariant of its own; all others stutter.

`PolicyMergeProofs` proves, for any names and any policies, `TypeOK` and
`MergeMeansAll` as invariants (from the lemma `MergePermitsBoth`: the merge of
two rules permits what both permit) and `PolicyOnlyNarrows` and
`FirstNamedRuleDecides` of every step.

Most properties of the four modules about controllers speak of rest: once
nothing is left to do, a status, a workload or a config says what the objects
say. None of these is inductive, since on the way there the status is behind. The
invariants state what must not happen on the way instead, a lost wake-up: whatever
a status does not reflect yet is *attended*, that is, announced in a cache that is
behind, an event, a queued request or a wake-up to come, or being reconciled by a
job that has read nothing stale so far (`Fresh`) or is bound to meet a conflict. At
rest there is no announcement and no job, and what is left of the invariant is
the property.

`AgentReconcileProofs` proves for any objects, any initial world and any number of
writes, faults and restarts: `TypeOK`, `ReadyIffCoherent`, `HashIsCurrent`,
`MissingIsExact`, `EndpointFollowsExpose` and `ViolationsAreExact`. `CacheFollows`
(a cached object is a version there was, and the present one if the
resourceVersion is) makes the version check of an update exact; `JobFollows` and
`TodoFits` tie a Reconcile to the Agent it started from; `AgentAttended` and
`DepAttended` are the wake-ups of Agents and of what they reference.
Assumptions: objects of two kinds differ and `None` is no object
(`KindsAssumption`, `NoneAssumption`), edits and initial specs are of their kind.

`OwnedWorkloadsProofs` proves `TypeOK`, `McpServesItsEndpoint`, `AdapterIsCurrent` and
the action property `NoTakeover`. Here an owner is also woken by versions of its
workloads that no informer has delivered: `WakeFollows` says that a workload that
differs from its cached version has the controllers of both in `wake`.
`NoTakeover` needs `CacheFollows` and the version check: `CreateOrUpdate` decides on
a cached copy, and a copy whose write is accepted is the object itself.
Assumptions as above, and `PortAssumption`, the default port.

`ConfigBuildProofs` proves `TypeOK`, `StatusIsCurrent`, `RuntimeRunsCurrentConfig` and
`HashIsNotAhead`. The last speaks of the config a runtime loads; what makes it true
happened when it was built, so `ConfigsFollow` says of every event, build, frame
and loaded config that each part read is at least the version its hash names and
that a part missing is one deleted since or one whose read failed. `StatusAttended`, `AgentAttended` and
`LatestIsSent` are the wake-ups: of a condition, of the Agent, of the runtime.
Assumptions: `ConfigBounds` (what is nested comes with its holder) and `NoneIsNoValue`.

`WorkspaceProofs` proves `TypeOK`, and of every step `OnlyOwnBranchIsReset`,
`HomeIsNeverCommitted` and `StartsPrepared`. The invariant says what each command
of the script leaves to the next, wherever an earlier run was killed:
`RepositoryInv` and `TreeInv` by the command the pod is at, `HomeInv` what keeps the
runtime's home out of commits, `VolumeInv` and `EditsInv` what holds of a volume
whoever is at work on it. The lemma `WorkMoves` gathers what the commands may take
away: edits and commits of the pod's branch, and untracked files in the way.
Assumptions: `WorkspaceBounds` and `NoneIsNoValue`.

`PodAssemblyProofs` proves `TypeOK`, `PodIsCoherent`, `EnvNamesMounts`, `StatusIsExact`
and `PodFollowsSpec` for any specs, valid or not, any Credentials and Secrets and any
history of the Deployment. The lemma `MutateIsPod` carries it: run on any
Deployment whatever, `Mutate` makes the same record `Pod` of the same inputs, so
nothing of an earlier spec survives. `PodCoherent` and `PodEnvAgrees` are about that
record alone: names and directories of the Operator's, the Agent's and the
Credentials' volumes keep apart because `Validate` says so and because the
Credentials are none twice; a variable has the value of its last entry, and the
Operator's come last. That inputs are such is what the invariant adds: a
Reconcile in progress has passed `Validate` (`Passed`), has read its Credentials in
the order of the spec, each once (`TodoFits`, `Collected`), and made the claim
before the Deployment; `Attended` gives the two properties of rest. Assumptions:
`PodBounds`; `VolumesAreKeyed`, since `spec.runtime.volumes` is a list with the key
`name`; `OperatorStrings`, the literals in the code are strings; `NoneIsNoValue`.

Only model-checked: liveness (`HangupIsCleanedUp`, `ComesToRest`, `Settles`,
`ComesUp`, the fairness half of `ImplementsFeed`), which the prover does not
cover. Every invariant and every action property of a passing run is a theorem.

## Not modelled

The rows of the inventory without a module: start-up wiring, the two sample MCP
servers (text processing and canned answers) and generated deep copies. Skill
tool scopes (`skill_scope.go`), a comparison of sets without state. In
`AgentReconcile` five kinds stand for ten, see above. In `RegistryWatch` the channel of a subscriber is closed together with its removal
from the set, under one mutex, and the close itself is left out. In `ConfigBuild`
AgentClasses, which the Registry reads like the rest, a Tool that an Agent names both
directly and through a ToolSet, and what a ConfigMap or an MCPServer contributes to a
config. In `PodAssembly` informer caches, the
availability a Deployment reports, and the policy checks that follow. Concurrent
writers of one volume are excluded by the Recreate strategy, which `PodIsCoherent`
checks and `Workspace` relies on. Message texts, logs and metrics are left out
throughout.
