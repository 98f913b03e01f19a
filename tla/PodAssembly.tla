---------------------------- MODULE PodAssembly ----------------------------
(***************************************************************************)
(* The runtime pod an Agent's spec becomes: admission, the part of the     *)
(* Agent's Reconcile that resolves Credentials, reconcileRuntime's         *)
(* CreateOrUpdate over the Deployment that is already there, the working   *)
(* directory's claim and the Service. Reads and writes are separate steps, *)
(* so specs, Credentials and the Model change in between.                  *)
(*                                                                         *)
(* Informer caches and the other references belong to AgentReconcile; here *)
(* a read returns the object as it is and a change wakes the controllers   *)
(* that watch it. The effective Model is the Credential it names; its own  *)
(* controller is here because its status is what wakes the Agent.          *)
(***************************************************************************)
EXTENDS AgentSpecs

CONSTANTS
  Secrets,       \* names of Secrets
  Specs,         \* the Agent specs users apply, the first among them
  FirstSpec,
  Webhooks,      \* whether the admission webhook is installed
  MaxEdits,      \* bound on writes by users
  MaxFaults      \* bound on failed API calls and Operator restarts

ASSUME PodBounds == /\ Specs \subseteq AgentSpec /\ FirstSpec \in Specs
                    /\ Secrets # {}
                    /\ Webhooks \in BOOLEAN
                    /\ MaxEdits \in Nat
                    /\ MaxFaults \in Nat

\* What the Operator itself writes into a pod.
ASSUME OperatorStrings ==
  /\ {"tmp", "agentplane", "git", "model", "credentials", "workspace", ".agent-home",
      ".config", "token", "git-credential", "model-credential"} \subseteq Strings
  /\ {"claim", "emptyDir", "config"} \subseteq Strings
  /\ {"AGENTPLANE_REGISTRY", "AGENTPLANE_AGENT_NAME", "AGENTPLANE_WORKSPACE",
      "AGENTPLANE_AGENT_HOME", "HOME", "XDG_CONFIG_HOME",
      "AGENTPLANE_GIT_CREDENTIAL_FILE", "GIT_CONFIG_VALUE_0",
      "AGENTPLANE_CREDENTIALS_PATH"} \subseteq Strings

\* spec.runtime.volumes is a list keyed by name: the API server accepts no name twice.
ASSUME VolumesAreKeyed ==
  \A s \in Specs : s.runtime # None =>
    ~HasDuplicate([i \in 1..Len(s.runtime.volumes) |-> s.runtime.volumes[i].name])

VARIABLES
  spec,        \* the Agent's spec
  gen,         \* its generation
  credential,  \* credential[c]: the Secret Credential c names, None: no such c
  model,       \* the Credential the effective Model names
  modelReady,  \* the Model's Ready condition
  deployment,  \* the runtime Deployment, None until it is created
  claim,       \* whether the working directory's claim exists
  service,     \* the port the runtime's Service publishes, 0: no Service
  status,      \* the Agent's status
  queue,       \* the controllers' work queues
  job,         \* the Agent's Reconcile in progress
  edits, faults

users == <<spec, gen, credential, model, edits>>
owned == <<deployment, claim, service>>
vars  == <<spec, gen, credential, model, modelReady, deployment, claim,
           service, status, queue, job, edits, faults>>

NoStatus == [reason |-> "none", missing |-> {}, claim |-> FALSE]
Idle     == [pc |-> "idle"]

\* A Deployment nobody has written to yet.
Blank == [replicas |-> 0, strategy |-> "RollingUpdate", volumes |-> <<>>,
          init |-> None, fsGroup |-> FALSE, env |-> <<>>, mounts |-> <<>>,
          sandbox |-> FALSE, port |-> 0, probe |-> None, runtimeClass |-> None]

Init ==
  /\ spec = FirstSpec
  /\ gen = 1
  /\ credential \in [Credentials -> {None, CHOOSE s \in Secrets : TRUE}]
  /\ model \in Credentials \union {None}
  /\ modelReady = FALSE
  /\ deployment = None
  /\ claim = FALSE
  /\ service = 0
  /\ status = NoStatus
  /\ queue = {"agent", "model"}
  /\ job = Idle
  /\ edits = 0
  /\ faults = 0

-----------------------------------------------------------------------------
(* What the Deployment is assembled from.                                  *)

Vol(name, source)   == [name |-> name, source |-> source]
Mount(name, p)      == [name |-> name, mountPath |-> p]
Var(name, p)        == [name |-> name, value |-> p]
Optional(test, seq) == IF test THEN seq ELSE <<>>

\* Variables whose value is not a path have value None.
InjectedEnv == << Var("AGENTPLANE_REGISTRY", None), Var("AGENTPLANE_AGENT_NAME", None) >>

Home(ws) == Under(WorkspaceMountPath(ws), ".agent-home")

\* workspacePodSpec, whose four results are derived from the same inputs.
WorkspaceVolumes(gitSecret, modelSecret) ==
  << Vol(Volume("workspace"), "claim"), Vol(Volume("tmp"), "emptyDir") >>
    \o Optional(gitSecret # None, << Vol(Volume("git-credential"), gitSecret) >>)
    \o Optional(modelSecret # None, << Vol(Volume("model-credential"), modelSecret) >>)

WorkspaceMounts(ws, gitSecret, modelSecret) ==
  << Mount(Volume("workspace"), WorkspaceMountPath(ws)), Mount(Volume("tmp"), TmpPath) >>
    \o Optional(gitSecret # None, << Mount(Volume("git-credential"), GitPath) >>)
    \o Optional(modelSecret # None, << Mount(Volume("model-credential"), ModelPath) >>)

WorkspaceEnv(ws, gitSecret) ==
  << Var("AGENTPLANE_WORKSPACE", WorkspaceMountPath(ws)),
     Var("AGENTPLANE_AGENT_HOME", Home(ws)), Var("HOME", Home(ws)),
     Var("XDG_CONFIG_HOME", Under(Home(ws), ".config")) >>
    \o Optional(gitSecret # None, << Var("AGENTPLANE_GIT_CREDENTIAL_FILE", Under(GitPath, "token")) >>)
    \o Optional(ws.repository # None, << Var("GIT_CONFIG_VALUE_0", WorkspaceMountPath(ws)) >>)

\* cloneInitContainer's wiring; what its script does is Workspace's subject.
CloneInitContainer(ws, hasCredential) ==
  [repository |-> ws.repository, branch |-> ws.branch,
   mounts |-> << Mount(Volume("workspace"), WorkspaceMountPath(ws)) >>
                \o Optional(hasCredential, << Mount(Volume("git-credential"), GitPath) >>),
   env |-> << Var("AGENTPLANE_WORKSPACE", WorkspaceMountPath(ws)) >>
             \o Optional(hasCredential, << Var("AGENTPLANE_GIT_CREDENTIAL_FILE", Under(GitPath, "token")) >>)]

\* Mutant: the Agent's own variables come last.
OwnEnvLast(d, s, gitSecret, modelSecret) ==
  LET rt == s.runtime
      ws == s.workspace
  IN [d EXCEPT
        !.replicas = rt.replicas,
        !.env = InjectedEnv \o Optional(ws # None, WorkspaceEnv(ws, gitSecret)) \o rt.env,
        !.mounts = Optional(ws # None, WorkspaceMounts(ws, gitSecret, modelSecret)),
        !.sandbox = ws # None,
        !.port = rt.port,
        !.runtimeClass = rt.runtimeClassName]

\* The container is built anew every time: the Operator's variables, then the
\* Agent's, then the workspace's; an explicit probe wins over the default one.
Container(d, s, gitSecret, modelSecret) ==
  LET rt == s.runtime
      ws == s.workspace
  IN [d EXCEPT
        !.replicas = rt.replicas,
        !.env = InjectedEnv \o rt.env
                  \o Optional(ws # None, WorkspaceEnv(ws, gitSecret)),
        !.mounts = Optional(ws # None, WorkspaceMounts(ws, gitSecret, modelSecret)),
        !.sandbox = ws # None,
        !.port = rt.port,
        !.probe = CASE rt.readinessProbe # None -> rt.readinessProbe
                    [] rt.readinessProbe = None /\ ws # None /\ rt.port # 0 -> "config"
                    [] OTHER -> None,
        !.runtimeClass = rt.runtimeClassName]

\* The pod's own fields are the Deployment's old ones: cleared without a
\* workspace, overwritten with one, which has exactly one writer.
WorkspacePod(d, s, gitSecret, modelSecret) ==
  IF s.workspace = None
  THEN [d EXCEPT !.strategy = "RollingUpdate", !.volumes = <<>>, !.init = None,
                 !.fsGroup = FALSE]
  ELSE [d EXCEPT
          !.replicas = 1,
          !.strategy = "Recreate",
          !.volumes  = WorkspaceVolumes(gitSecret, modelSecret),
          !.init     = CloneInitContainer(s.workspace, gitSecret # None),
          !.fsGroup  = TRUE]

\* userVolumes, appended after the Operator's.
UserVolumes(d, vols) ==
  IF vols = <<>> THEN d
  ELSE [d EXCEPT
          !.volumes = @ \o [i \in 1..Len(vols) |-> Vol(vols[i].name, vols[i].source)],
          !.mounts  = @ \o [i \in 1..Len(vols) |-> Mount(vols[i].name, vols[i].mountPath)],
          !.sandbox = TRUE]

\* credentialVolumes: one directory per resolved Credential, and the variable
\* that names their parent, last. (It skips an empty Secret name, which the schema
\* of a Credential does not let in.)
CredentialVolumes(d, creds) ==
  IF creds = <<>> THEN d
  ELSE [d EXCEPT
          !.volumes = @ \o [i \in 1..Len(creds) |->
                              Vol(CredentialVolume(creds[i].name), creds[i].secret)],
          !.mounts  = @ \o [i \in 1..Len(creds) |->
                              Mount(CredentialVolume(creds[i].name),
                                    Under(CredentialsPath, creds[i].name))],
          !.env     = Append(@, Var("AGENTPLANE_CREDENTIALS_PATH", CredentialsPath)),
          !.sandbox = TRUE]

\* The function CreateOrUpdate runs on the Deployment d that is there.
Mutate(d, s, gitSecret, modelSecret, creds) ==
  CredentialVolumes(
    UserVolumes(
      WorkspacePod(Container(d, s, gitSecret, modelSecret), s, gitSecret, modelSecret),
      s.runtime.volumes),
    creds)

-----------------------------------------------------------------------------
(* Users. A change wakes the controllers that watch the object.            *)

\* A spec is applied: the webhook, where it is installed, rejects a bad one.
Apply(s) ==
  /\ edits < MaxEdits
  /\ s # spec
  /\ Webhooks => Validate(s)
  /\ spec' = s
  /\ gen' = gen + 1
  /\ edits' = edits + 1
  /\ queue' = queue \union {"agent"}
  /\ UNCHANGED <<credential, model, modelReady, owned, status, job, faults>>

\* Mutant: an index of spec.credentialRefs only.
NamesOwn(c) == \E i \in 1..Len(spec.credentialRefs) : spec.credentialRefs[i] = c

\* idxAgentCredentials: the Agent names c, its workspace included.
NamesCredential(c) ==
  \/ \E i \in 1..Len(spec.credentialRefs) : spec.credentialRefs[i] = c
  \/ spec.workspace # None /\ spec.workspace.credentialRef = c

\* A Credential is created, pointed at another Secret or deleted.
SetCredential(c, secret) ==
  /\ edits < MaxEdits
  /\ secret # credential[c]
  /\ credential' = [credential EXCEPT ![c] = secret]
  /\ edits' = edits + 1
  /\ queue' = queue \union (IF NamesCredential(c) THEN {"agent"} ELSE {})
                    \union (IF model = c THEN {"model"} ELSE {})
  /\ UNCHANGED <<spec, gen, model, modelReady, owned, status, job, faults>>

\* The Model is pointed at another Credential.
SetModel(c) ==
  /\ edits < MaxEdits
  /\ c # model
  /\ model' = c
  /\ edits' = edits + 1
  /\ queue' = queue \union {"agent", "model"}
  /\ UNCHANGED <<spec, gen, credential, modelReady, owned, status, job, faults>>

-----------------------------------------------------------------------------
(* The controllers.                                                        *)

\* ModelReconciler.Reconcile: a status that changes is an event for the Agent.
ModelReconcile ==
  LET ready == model = None \/ credential[model] # None IN
  /\ "model" \in queue
  /\ modelReady' = ready
  /\ queue' = (queue \ {"model"}) \union (IF ready = modelReady THEN {} ELSE {"agent"})
  /\ UNCHANGED <<users, owned, status, job, faults>>

JobIs(pc) == job.pc = pc

\* The Credentials resolveRefs reads: the Agent's own, then the workspace's.
CredentialTargets(s) ==
  [i \in 1..Len(s.credentialRefs) |-> [name |-> s.credentialRefs[i], git |-> FALSE]]
    \o Optional(s.workspace # None /\ s.workspace.repository # None
                  /\ s.workspace.credentialRef # None,
                << [name |-> s.workspace.credentialRef, git |-> TRUE] >>)

\* An invalid spec is reported and nothing else happens.
StartReconcile ==
  /\ JobIs("idle")
  /\ "agent" \in queue
  /\ queue' = queue \ {"agent"}
  /\ job' = [pc |-> IF Validate(spec) THEN "refs" ELSE "status", spec |-> spec,
             gen |-> gen, todo |-> CredentialTargets(spec), creds |-> <<>>,
             missing |-> {}, gitSecret |-> None, modelCredential |-> None,
             modelSecret |-> None, materialized |-> FALSE]
  /\ UNCHANGED <<users, modelReady, owned, status, faults>>

\* What a Credential that exists contributes: the git one its Secret only.
Collect(t) ==
  IF t.git
  THEN [job EXCEPT !.todo = Tail(@), !.gitSecret = credential[t.name]]
  ELSE [job EXCEPT !.todo = Tail(@),
                   !.creds = Append(@, [name |-> t.name, secret |-> credential[t.name]])]

\* Mutant: the target is reported, not its name.
ReportTarget ==
  /\ JobIs("refs")
  /\ job.todo # <<>>
  /\ LET t == Head(job.todo) IN
       job' = IF credential[t.name] = None
              THEN [job EXCEPT !.todo = Tail(@), !.missing = @ \union {t}]
              ELSE Collect(t)
  /\ UNCHANGED <<users, modelReady, owned, status, queue, faults>>

ReadCredential ==
  /\ JobIs("refs")
  /\ job.todo # <<>>
  /\ LET t == Head(job.todo) IN
       job' = IF credential[t.name] = None
              THEN [job EXCEPT !.todo = Tail(@), !.missing = @ \union {t.name}]
              ELSE Collect(t)
  /\ UNCHANGED <<users, modelReady, owned, status, queue, faults>>

NeedsGit(s) == /\ s.workspace # None
               /\ s.workspace.repository # None
               /\ s.workspace.credentialRef # None

\* No runtime, or a git credential that has not appeared: nothing is made.
RefsDone ==
  /\ JobIs("refs")
  /\ job.todo = <<>>
  /\ job' = [job EXCEPT !.pc =
               CASE job.spec.runtime = None -> "status"
                 [] job.spec.runtime # None /\ NeedsGit(job.spec) /\ job.gitSecret = None -> "status"
                 [] OTHER -> IF job.spec.workspace = None THEN "deployment" ELSE "model"]
  /\ UNCHANGED <<users, modelReady, owned, status, queue, faults>>

\* resolveModelSecret: the Model, then the Credential it names.
ReadModel ==
  /\ JobIs("model")
  /\ job' = [job EXCEPT !.pc = IF model = None THEN "claim" ELSE "credential",
                        !.modelCredential = model]
  /\ UNCHANGED <<users, modelReady, owned, status, queue, faults>>

ReadModelCredential ==
  /\ JobIs("credential")
  /\ job' = [job EXCEPT !.pc = "claim", !.modelSecret = credential[job.modelCredential]]
  /\ UNCHANGED <<users, modelReady, owned, status, queue, faults>>

\* reconcileWorkspace: the claim is created once and left alone.
ReconcileWorkspace ==
  /\ JobIs("claim")
  /\ claim' = TRUE
  /\ job' = [job EXCEPT !.pc = "deployment"]
  /\ UNCHANGED <<users, modelReady, deployment, service, status, queue, faults>>

Assembled ==
  Mutate(IF deployment = None THEN Blank ELSE deployment, job.spec,
         job.gitSecret, job.modelSecret, job.creds)

\* Mutant: the Deployment is written although nothing changed.
AlwaysUpdate ==
  /\ JobIs("deployment")
  /\ deployment' = Assembled
  /\ queue' = queue \union {"agent"}
  /\ job' = [job EXCEPT !.pc = "service"]
  /\ UNCHANGED <<users, modelReady, claim, service, status, faults>>

\* CreateOrUpdate of the Deployment: written when it differs, and an owned
\* object's event wakes its owner.
WriteDeployment ==
  /\ JobIs("deployment")
  /\ deployment' = Assembled
  /\ queue' = IF deployment' = deployment THEN queue ELSE queue \union {"agent"}
  /\ job' = [job EXCEPT !.pc = "service"]
  /\ UNCHANGED <<users, modelReady, claim, service, status, faults>>

\* The Service, with a port only; nothing removes it when the port goes.
WriteService ==
  /\ JobIs("service")
  /\ service' = IF job.spec.runtime.port # 0 THEN job.spec.runtime.port ELSE service
  /\ queue' = IF service' = service THEN queue ELSE queue \union {"agent"}
  /\ job' = [job EXCEPT !.pc = "status", !.materialized = TRUE]
  /\ UNCHANGED <<users, modelReady, deployment, claim, status, faults>>

\* Mutant: the claim of a workspace that was removed stays in the status.
KeepClaim ==
  [reason |-> CASE ~Validate(job.spec) -> "InvalidSpec"
                [] Validate(job.spec) /\ job.missing # {} -> "ReferenceNotFound"
                [] OTHER -> "Resolved",
   missing |-> job.missing,
   claim |-> status.claim \/ (job.materialized /\ job.spec.workspace # None)]

\* What Reconcile publishes; WorkspaceClaim is only set where a pod was made.
Decision ==
  [reason |-> CASE ~Validate(job.spec) -> "InvalidSpec"
                [] Validate(job.spec) /\ job.missing # {} -> "ReferenceNotFound"
                [] OTHER -> "Resolved",
   missing |-> job.missing,
   claim |-> IF job.materialized THEN job.spec.workspace # None ELSE status.claim]

\* Status().Update: a conflict is retried, a change wakes the controller again.
UpdateStatus ==
  /\ JobIs("status")
  /\ status' = IF gen = job.gen THEN Decision ELSE status
  /\ queue' = IF gen # job.gen \/ status' # status THEN queue \union {"agent"} ELSE queue
  /\ job' = Idle
  /\ UNCHANGED <<users, modelReady, owned, faults>>

\* A write fails and the request is queued again; what was written stays.
WriteFails ==
  /\ faults < MaxFaults
  /\ job.pc \in {"claim", "deployment", "service", "status"}
  /\ faults' = faults + 1
  /\ queue' = queue \union {"agent"}
  /\ job' = Idle
  /\ UNCHANGED <<users, modelReady, owned, status>>

OperatorRestart ==
  /\ faults < MaxFaults
  /\ faults' = faults + 1
  /\ queue' = {"agent", "model"}
  /\ job' = Idle
  /\ UNCHANGED <<users, modelReady, owned, status>>

Reconcile == \/ ReadCredential \/ RefsDone \/ ReadModel \/ ReadModelCredential
             \/ ReconcileWorkspace \/ WriteDeployment \/ WriteService
             \/ UpdateStatus

Next ==
  \/ \E s \in Specs : Apply(s)
  \/ \E c \in Credentials : \E v \in Secrets \union {None} : SetCredential(c, v)
  \/ \E c \in Credentials \union {None} : SetModel(c)
  \/ ModelReconcile
  \/ StartReconcile
  \/ Reconcile
  \/ WriteFails
  \/ OperatorRestart

\* The controllers' workers keep running.
Fairness == WF_vars(ModelReconcile) /\ WF_vars(StartReconcile) /\ WF_vars(Reconcile)

Spec == Init /\ [][Next]_vars /\ Fairness

-----------------------------------------------------------------------------
(* Properties.                                                             *)

Quiescent == queue = {} /\ JobIs("idle")

VolumeEntry == [name : VolumeName, source : Strings \union Secrets]
MountEntry  == [name : VolumeName, mountPath : Paths]
EnvEntry    == [name : Strings, value : {None} \union Paths]

InitContainer ==
  [repository : Text, branch : Text, mounts : Seq(MountEntry), env : Seq(EnvEntry)]

Deployments ==
  [replicas : Nat, strategy : {"RollingUpdate", "Recreate"}, volumes : Seq(VolumeEntry),
   init : {None} \union InitContainer, fsGroup : BOOLEAN, env : Seq(EnvEntry),
   mounts : Seq(MountEntry), sandbox : BOOLEAN, port : Nat, probe : Text,
   runtimeClass : Text]

Target   == [name : Credentials, git : BOOLEAN]
Resolved == [name : Credentials, secret : Secrets]

Jobs ==
  [pc : {"refs", "model", "credential", "claim", "deployment", "service", "status"},
   spec : Specs, gen : Nat, todo : Seq(Target), creds : Seq(Resolved),
   missing : SUBSET Credentials, gitSecret : Secrets \union {None},
   modelCredential : Credentials \union {None}, modelSecret : Secrets \union {None},
   materialized : BOOLEAN]

Status == [reason : {"none", "InvalidSpec", "ReferenceNotFound", "Resolved"},
           missing : SUBSET Credentials, claim : BOOLEAN]

\* A nil pointer is no object and an empty string no name.
ASSUME NoneIsNoValue == /\ None \notin Credentials \union Secrets \union Paths
                        /\ None \notin AgentRuntimeSpec \union AgentWorkspaceSpec
                        /\ None \notin InitContainer \union Deployments

\* Every variable has its type.
TypeOK ==
  /\ spec \in Specs
  /\ gen \in 1..(1 + MaxEdits)
  /\ credential \in [Credentials -> Secrets \union {None}]
  /\ model \in Credentials \union {None}
  /\ modelReady \in BOOLEAN
  /\ deployment \in Deployments \union {None}
  /\ claim \in BOOLEAN
  /\ service \in Nat
  /\ status \in Status
  /\ queue \subseteq {"agent", "model"}
  /\ job \in Jobs \union {Idle}
  /\ edits \in 0..MaxEdits
  /\ faults \in 0..MaxFaults

NamesIn(vols)   == [i \in 1..Len(vols) |-> vols[i].name]
DirsIn(mounts)  == [i \in 1..Len(mounts) |-> Clean(mounts[i].mountPath)]
Backed(mounts, vols) ==
  \A i \in 1..Len(mounts) : \E j \in 1..Len(vols) : vols[j].name = mounts[i].name
PathOf(d, name) ==
  LET i == CHOOSE i \in 1..Len(d.mounts) : d.mounts[i].name = name
  IN d.mounts[i].mountPath
HasVolume(d, name) == \E i \in 1..Len(d.volumes) : d.volumes[i].name = name

\* The workspace paths validation does not keep apart from other mounts: written
\* with a slash at the end (validateVolumes reserves it as written and compares
\* trimmed), or one the Operator itself uses (validateWorkspace does not look).
Unchecked(p) == p.slash \/ p \in ReservedMountPaths \/ Inside(p, CredentialsPath)

\* "a mount with no volume behind it ... exactly the failure modes this
\* assembly is prone to" (runtimePod), and validateVolumes' promise that
\* nothing shadows the working directory or a credential: whatever specs were
\* applied with and without the webhook, whatever was resolved in between and
\* whatever Deployment was there before, the submitted pod has no volume twice,
\* no two mounts in one directory (but for a workspace path that validation lets
\* through), a volume behind every mount, and one writer of the claim.
PodIsCoherent ==
  deployment # None =>
    /\ ~HasDuplicate(NamesIn(deployment.volumes))
    /\ \/ ~HasDuplicate(DirsIn(deployment.mounts))
       \/ /\ HasVolume(deployment, Volume("workspace"))
          /\ Unchecked(PathOf(deployment, Volume("workspace")))
    /\ Backed(deployment.mounts, deployment.volumes)
    /\ deployment.init # None => Backed(deployment.init.mounts, deployment.volumes)
    /\ HasVolume(deployment, Volume("workspace")) =>
         deployment.replicas = 1 /\ deployment.strategy = "Recreate" /\ claim

\* The value a variable has in the container: Kubernetes takes the last.
Entries(d, n) == {i \in 1..Len(d.env) : d.env[i].name = n}
Value(d, n) ==
  IF Entries(d, n) = {} THEN None
  ELSE d.env[CHOOSE i \in Entries(d, n) : \A j \in Entries(d, n) : j <= i].value

\* "an env var naming a path nothing is mounted at": the runtime finds its
\* working directory, its HOME, the git token and its Credentials where the
\* environment says, whatever the Agent's own environment sets, and is told of
\* no Credentials directory that is not there.
EnvNamesMounts ==
  deployment # None =>
    LET At(n) == PathOf(deployment, Volume(n)) IN
    /\ HasVolume(deployment, Volume("workspace")) =>
         /\ Value(deployment, "AGENTPLANE_WORKSPACE") = At("workspace")
         /\ Value(deployment, "HOME") = Under(At("workspace"), ".agent-home")
         /\ deployment.init.env[1].value = At("workspace")
    /\ HasVolume(deployment, Volume("git-credential")) =>
         /\ Value(deployment, "AGENTPLANE_GIT_CREDENTIAL_FILE") = Under(At("git-credential"), "token")
         /\ Len(deployment.init.mounts) = 2
    /\ Value(deployment, "AGENTPLANE_CREDENTIALS_PATH") =
         IF \E c \in Credentials : HasVolume(deployment, CredentialVolume(c))
         THEN CredentialsPath ELSE None

\* The Secrets as they are now.
GitSecretNow == IF NeedsGit(spec) THEN credential[spec.workspace.credentialRef] ELSE None
Exists(c) == credential[c] # None

\* creds are the Credentials among refs that exist, in the order of refs, each
\* with its Secret.
AreCurrent(creds, refs) ==
  /\ \A i \in 1..Len(creds) : /\ creds[i].secret = credential[creds[i].name]
                              /\ \E p \in 1..Len(refs) : refs[p] = creds[i].name
  /\ \A p \in 1..Len(refs) :
       Exists(refs[p]) => \E i \in 1..Len(creds) : creds[i].name = refs[p]
  /\ \A i, j \in 1..Len(creds) : \A p, q \in 1..Len(refs) :
       i < j /\ refs[p] = creds[i].name /\ refs[q] = creds[j].name => p < q

\* Nothing is left behind by a workspace, a volume, a Credential or a runtime
\* class that was removed, and no rotated Secret is missed: at rest the
\* Deployment that was updated over and over is the one a fresh Agent with this
\* spec would get, but for the model's Secret, which no watch keeps current.
PodFollowsSpec ==
  (Quiescent /\ Validate(spec) /\ spec.runtime # None
     /\ (NeedsGit(spec) => GitSecretNow # None)) =>
    \E modelSecret \in Secrets \union {None} :
    \E creds \in UNION {[1..n -> Resolved] : n \in 0..Len(spec.credentialRefs)} :
      /\ AreCurrent(creds, spec.credentialRefs)
      /\ deployment = Mutate(Blank, spec, GitSecretNow, modelSecret, creds)

TargetNames(s) == {CredentialTargets(s)[i].name : i \in 1..Len(CredentialTargets(s))}

\* "the watch on idxAgentCredentials wakes the Agent when it appears": at rest
\* the Agent reports exactly the Credentials that are missing now, its
\* workspace's included, and names the claim its pod mounts.
StatusIsExact ==
  (Quiescent /\ Validate(spec)) =>
    /\ status.missing = {c \in TargetNames(spec) : ~Exists(c)}
    /\ status.reason = IF status.missing = {} THEN "Resolved" ELSE "ReferenceNotFound"
    /\ spec.runtime # None /\ (NeedsGit(spec) => GitSecretNow # None)
         => status.claim = (spec.workspace # None)

\* The events of the objects Reconcile writes do not feed it: once users stop,
\* the Operator comes to rest.
ComesToRest == <>[]Quiescent
=============================================================================
