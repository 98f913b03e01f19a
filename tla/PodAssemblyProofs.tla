------------------------- MODULE PodAssemblyProofs -------------------------
(***************************************************************************)
(* What PodAssembly guarantees for every set of specs, Credentials and     *)
(* Secrets and every sequence of writes, faults and restarts. Whatever     *)
(* Deployment Mutate is run on, it makes the same pod of a spec (Pod), and *)
(* the pod of a valid spec is coherent. What the Agent reports and runs at *)
(* rest follows as for the other controllers: whatever a Reconcile has not *)
(* taken into account is in the queue, or the Reconcile has read nothing   *)
(* stale.                                                                  *)
(***************************************************************************)
EXTENDS PodAssembly, SequenceTheorems, TLAPS

-----------------------------------------------------------------------------
(* Sequences.                                                              *)

\* Two sequences without duplicates and nothing in common have none together.
LEMMA DistinctConcat ==
  ASSUME NEW S, NEW s \in Seq(S), NEW t \in Seq(S),
         ~HasDuplicate(s), ~HasDuplicate(t),
         \A i \in 1..Len(s) : \A j \in 1..Len(t) : s[i] # t[j]
  PROVE  ~HasDuplicate(s \o t)
<1>1. /\ Len(s \o t) = Len(s) + Len(t)
      /\ \A i \in 1..Len(s) + Len(t) :
           (s \o t)[i] = IF i <= Len(s) THEN s[i] ELSE t[i - Len(s)]
  BY ConcatProperties
<1>2. SUFFICES ASSUME NEW i \in 1..Len(s) + Len(t), NEW j \in 1..Len(s) + Len(t),
                      i < j, (s \o t)[i] = (s \o t)[j]
               PROVE  FALSE
  BY <1>1 DEF HasDuplicate
<1>3. Len(s) \in Nat /\ Len(t) \in Nat
  OBVIOUS
<1>4. CASE j <= Len(s)
  BY <1>1, <1>2, <1>3, <1>4 DEF HasDuplicate
<1>5. CASE i > Len(s)
  <2>1. i - Len(s) \in 1..Len(t) /\ j - Len(s) \in 1..Len(t) /\ i - Len(s) < j - Len(s)
    BY <1>2, <1>3, <1>5
  <2> QED
    BY <2>1, <1>1, <1>2, <1>3, <1>5 DEF HasDuplicate
<1>6. CASE i <= Len(s) /\ j > Len(s)
  <2>1. i \in 1..Len(s) /\ j - Len(s) \in 1..Len(t)
    BY <1>2, <1>3, <1>6
  <2> QED
    BY <2>1, <1>1, <1>2, <1>3, <1>6
<1> QED
  BY <1>3, <1>4, <1>5, <1>6

\* A sequence made of two by parts.
LEMMA ConcatByParts ==
  ASSUME NEW T, NEW a \in Seq(T), NEW b \in Seq(T), NEW c \in Seq(T),
         Len(c) = Len(a) + Len(b),
         \A i \in 1..Len(a) : c[i] = a[i],
         \A i \in 1..Len(b) : c[Len(a) + i] = b[i]
  PROVE  c = a \o b
<1>1. /\ a \o b \in Seq(T)
      /\ Len(a \o b) = Len(a) + Len(b)
      /\ \A i \in 1..Len(a) + Len(b) :
           (a \o b)[i] = IF i <= Len(a) THEN a[i] ELSE b[i - Len(a)]
  BY ConcatProperties
<1>2. ASSUME NEW i \in 1..Len(c) PROVE c[i] = (a \o b)[i]
  <2>1. Len(a) \in Nat /\ Len(b) \in Nat /\ i \in 1..Len(a) + Len(b)
    OBVIOUS
  <2>2. CASE i <= Len(a)
    BY <2>1, <2>2, <1>1
  <2>3. CASE i > Len(a)
    <3>1. i - Len(a) \in 1..Len(b) /\ Len(a) + (i - Len(a)) = i /\ ~(i <= Len(a))
      BY <2>1, <2>3
    <3>2. c[Len(a) + (i - Len(a))] = b[i - Len(a)]
      BY <3>1
    <3>3. (a \o b)[i] = b[i - Len(a)]
      BY <2>1, <3>1, <1>1
    <3> QED
      BY <3>1, <3>2, <3>3
  <2> QED
    BY <2>1, <2>2, <2>3
<1> QED
  BY <1>1, <1>2, SeqEqual

\* The names, and the directories, of a concatenation.
LEMMA NamesConcat ==
  ASSUME NEW S, NEW s \in Seq(S), NEW t \in Seq(S)
  PROVE  NamesIn(s \o t) = NamesIn(s) \o NamesIn(t)
<1> DEFINE N == {x.name : x \in S}
           a == NamesIn(s)
           b == NamesIn(t)
           c == NamesIn(s \o t)
<1>1. /\ s \o t \in Seq(S)
      /\ Len(s \o t) = Len(s) + Len(t)
      /\ \A i \in 1..Len(s) + Len(t) :
           (s \o t)[i] = IF i <= Len(s) THEN s[i] ELSE t[i - Len(s)]
  BY ConcatProperties
<1>2. ASSUME NEW u \in Seq(S)
      PROVE  /\ NamesIn(u) \in Seq(N)
             /\ Len(NamesIn(u)) = Len(u)
             /\ \A i \in 1..Len(u) : NamesIn(u)[i] = u[i].name
  BY DEF NamesIn
<1>3. a \in Seq(N) /\ b \in Seq(N) /\ c \in Seq(N)
      /\ Len(a) = Len(s) /\ Len(b) = Len(t) /\ Len(c) = Len(s) + Len(t)
  BY <1>1, <1>2
<1>4. ASSUME NEW i \in 1..Len(s) PROVE c[i] = a[i]
  <2>1. i \in 1..Len(s) + Len(t) /\ i <= Len(s) /\ i \in 1..Len(s \o t)
    BY <1>1
  <2> QED
    BY <2>1, <1>1, <1>2
<1>5. ASSUME NEW i \in 1..Len(t) PROVE c[Len(s) + i] = b[i]
  <2>1. /\ Len(s) + i \in 1..Len(s) + Len(t) /\ ~(Len(s) + i <= Len(s))
        /\ Len(s) + i \in 1..Len(s \o t) /\ (Len(s) + i) - Len(s) = i
    BY <1>1
  <2>2. (s \o t)[Len(s) + i] = t[i]
    BY <2>1, <1>1
  <2> QED
    BY <2>1, <2>2, <1>1, <1>2
<1> HIDE DEF N, a, b, c
<1>6. /\ \A i \in 1..Len(a) : c[i] = a[i]
      /\ \A i \in 1..Len(b) : c[Len(a) + i] = b[i]
      /\ Len(c) = Len(a) + Len(b)
  BY <1>3, <1>4, <1>5
<1>7. c = a \o b
  BY <1>3, <1>6, ConcatByParts
<1> QED
  BY <1>7, Zenon DEF a, b, c

LEMMA DirsConcat ==
  ASSUME NEW s \in Seq(MountEntry), NEW t \in Seq(MountEntry)
  PROVE  DirsIn(s \o t) = DirsIn(s) \o DirsIn(t)
<1> DEFINE a == DirsIn(s)
           b == DirsIn(t)
           c == DirsIn(s \o t)
<1>1. /\ s \o t \in Seq(MountEntry)
      /\ Len(s \o t) = Len(s) + Len(t)
      /\ \A i \in 1..Len(s) + Len(t) :
           (s \o t)[i] = IF i <= Len(s) THEN s[i] ELSE t[i - Len(s)]
  BY ConcatProperties
<1>2. ASSUME NEW u \in Seq(MountEntry)
      PROVE  /\ DirsIn(u) \in Seq(Paths)
             /\ Len(DirsIn(u)) = Len(u)
             /\ \A i \in 1..Len(u) : DirsIn(u)[i] = Clean(u[i].mountPath)
  <2>1. \A p \in Paths : Clean(p) \in Paths
    BY DEF Paths, Clean
  <2>2. \A i \in 1..Len(u) : u[i].mountPath \in Paths
    <3>1. \A m \in MountEntry : m.mountPath \in Paths
      BY DEF MountEntry
    <3> QED
      BY <3>1, ElementOfSeq
  <2>3. Len(u) \in Nat
    OBVIOUS
  <2>4. DirsIn(u) \in [1..Len(u) -> Paths]
    BY <2>1, <2>2 DEF DirsIn
  <2>5. DirsIn(u) \in Seq(Paths) /\ Len(DirsIn(u)) = Len(u)
    BY <2>3, <2>4
  <2> QED
    BY <2>5 DEF DirsIn
<1>3. a \in Seq(Paths) /\ b \in Seq(Paths) /\ c \in Seq(Paths)
      /\ Len(a) = Len(s) /\ Len(b) = Len(t) /\ Len(c) = Len(s) + Len(t)
  BY <1>1, <1>2
<1>4. ASSUME NEW i \in 1..Len(s) PROVE c[i] = a[i]
  <2>1. i \in 1..Len(s) + Len(t) /\ i <= Len(s) /\ i \in 1..Len(s \o t)
    BY <1>1
  <2> QED
    BY <2>1, <1>1, <1>2
<1>5. ASSUME NEW i \in 1..Len(t) PROVE c[Len(s) + i] = b[i]
  <2>1. /\ Len(s) + i \in 1..Len(s) + Len(t) /\ ~(Len(s) + i <= Len(s))
        /\ Len(s) + i \in 1..Len(s \o t) /\ (Len(s) + i) - Len(s) = i
    BY <1>1
  <2>2. (s \o t)[Len(s) + i] = t[i]
    BY <2>1, <1>1
  <2> QED
    BY <2>1, <2>2, <1>1, <1>2
<1> HIDE DEF a, b, c
<1>6. /\ \A i \in 1..Len(a) : c[i] = a[i]
      /\ \A i \in 1..Len(b) : c[Len(a) + i] = b[i]
      /\ Len(c) = Len(a) + Len(b)
  BY <1>3, <1>4, <1>5
<1>7. c = a \o b
  BY <1>3, <1>6, ConcatByParts
<1> QED
  BY <1>7, Zenon DEF a, b, c

-----------------------------------------------------------------------------
(* The pod Mutate makes, part by part.                                     *)

OwnVolumes(s, git, mod) == Optional(s.workspace # None, WorkspaceVolumes(git, mod))
OwnMounts(s, git, mod)  == Optional(s.workspace # None, WorkspaceMounts(s.workspace, git, mod))

SpecVolumes(s) == LET vols == s.runtime.volumes IN
                  [i \in 1..Len(vols) |-> Vol(vols[i].name, vols[i].source)]
SpecMounts(s)  == LET vols == s.runtime.volumes IN
                  [i \in 1..Len(vols) |-> Mount(vols[i].name, vols[i].mountPath)]

CredVolumes(creds) == [i \in 1..Len(creds) |->
                         Vol(CredentialVolume(creds[i].name), creds[i].secret)]
CredMounts(creds)  == [i \in 1..Len(creds) |->
                         Mount(CredentialVolume(creds[i].name),
                               Under(CredentialsPath, creds[i].name))]

OwnEnv(s, git)  == Optional(s.workspace # None, WorkspaceEnv(s.workspace, git))
CredEnv(creds)  == Optional(creds # <<>>, << Var("AGENTPLANE_CREDENTIALS_PATH", CredentialsPath) >>)
Probe(s) == CASE s.runtime.readinessProbe # None -> s.runtime.readinessProbe
              [] s.runtime.readinessProbe = None /\ s.workspace # None /\ s.runtime.port # 0 -> "config"
              [] OTHER -> None

Pod(s, git, mod, creds) ==
  [replicas |-> IF s.workspace = None THEN s.runtime.replicas ELSE 1,
   strategy |-> IF s.workspace = None THEN "RollingUpdate" ELSE "Recreate",
   volumes  |-> (OwnVolumes(s, git, mod) \o SpecVolumes(s)) \o CredVolumes(creds),
   init     |-> IF s.workspace = None THEN None
                ELSE CloneInitContainer(s.workspace, git # None),
   fsGroup  |-> s.workspace # None,
   env      |-> ((InjectedEnv \o s.runtime.env) \o OwnEnv(s, git)) \o CredEnv(creds),
   mounts   |-> (OwnMounts(s, git, mod) \o SpecMounts(s)) \o CredMounts(creds),
   sandbox  |-> s.workspace # None \/ s.runtime.volumes # <<>> \/ creds # <<>>,
   port     |-> s.runtime.port,
   probe    |-> Probe(s),
   runtimeClass |-> s.runtime.runtimeClassName]

\* What reconcileRuntime hands to Mutate.
Inputs(s, git, mod, creds) ==
  /\ s \in AgentSpec /\ s.runtime # None
  /\ git \in Secrets \union {None} /\ mod \in Secrets \union {None}
  /\ creds \in Seq(Resolved)

LEMMA RuntimeType ==
  ASSUME NEW s \in AgentSpec, s.runtime # None
  PROVE  /\ s.runtime \in AgentRuntimeSpec
         /\ s.runtime.volumes \in Seq(AgentVolume)
         /\ s.runtime.env \in Seq(EnvEntry)
         /\ s.runtime.replicas \in Nat /\ s.runtime.port \in Nat
         /\ s.runtime.readinessProbe \in Text /\ s.runtime.runtimeClassName \in Text
         /\ s.workspace # None => s.workspace \in AgentWorkspaceSpec
<1>1. s.runtime \in AgentRuntimeSpec /\ (s.workspace # None => s.workspace \in AgentWorkspaceSpec)
  BY DEF AgentSpec
<1> QED
  BY <1>1 DEF AgentRuntimeSpec, EnvEntry

LEMMA PathTypes ==
  /\ \A p \in Paths : \A seg \in Names : Under(p, seg) \in Paths
  /\ TmpPath \in Paths /\ GitPath \in Paths /\ ModelPath \in Paths /\ CredentialsPath \in Paths
  /\ \A ws \in AgentWorkspaceSpec : WorkspaceMountPath(ws) \in Paths
<1>1. \A p \in Paths : p.segs \in Seq(Names)
  BY DEF Paths
<1>2. \A q \in Seq(Names) : Path(q) \in Paths
  BY DEF Paths, Path
<1>3. ASSUME NEW p \in Paths, NEW seg \in Names PROVE Under(p, seg) \in Paths
  <2>1. Append(p.segs, seg) \in Seq(Names)
    BY <1>1
  <2> QED
    BY <2>1, <1>2 DEF Under
<1>4. /\ "tmp" \in Names /\ "agentplane" \in Names /\ "git" \in Names /\ "model" \in Names
      /\ "credentials" \in Names /\ "workspace" \in Names
  BY OperatorStrings, Zenon DEF Names
<1>5. <<"tmp">> \in Seq(Names) /\ <<"agentplane", "git">> \in Seq(Names)
      /\ <<"agentplane", "model">> \in Seq(Names)
      /\ <<"agentplane", "credentials">> \in Seq(Names) /\ <<"workspace">> \in Seq(Names)
  BY <1>4
<1>6. \A ws \in AgentWorkspaceSpec : WorkspaceMountPath(ws) \in Paths
  BY <1>2, <1>5 DEF AgentWorkspaceSpec, WorkspaceMountPath
<1> QED
  BY <1>2, <1>3, <1>5, <1>6 DEF TmpPath, GitPath, ModelPath, CredentialsPath

LEMMA PairInProduct ==
  ASSUME NEW A, NEW B, NEW a \in A, NEW b \in B PROVE <<a, b>> \in A \X B
OBVIOUS

LEMMA EntryTypes ==
  /\ \A n \in Strings : Volume(n) \in VolumeName
  /\ \A c \in Credentials : CredentialVolume(c) \in VolumeName
  /\ \A n \in VolumeName, v \in Strings \union Secrets : Vol(n, v) \in VolumeEntry
  /\ \A n \in VolumeName, p \in Paths : Mount(n, p) \in MountEntry
  /\ \A n \in Strings, p \in Paths \union {None} : Var(n, p) \in EnvEntry
<1>0. "" \in {"", "credential-"} /\ "credential-" \in {"", "credential-"}
  BY Zenon
<1>1. \A n \in Strings : Volume(n) \in VolumeName
  BY <1>0, PairInProduct, Zenon DEF Volume, Names, VolumeName
<1>2. \A c \in Credentials : CredentialVolume(c) \in VolumeName
  BY <1>0, PairInProduct, Zenon DEF CredentialVolume, Names, VolumeName
<1>3. \A n \in VolumeName, v \in Strings \union Secrets : Vol(n, v) \in VolumeEntry
  BY DEF Vol, VolumeEntry
<1>4. \A n \in VolumeName, p \in Paths : Mount(n, p) \in MountEntry
  BY DEF Mount, MountEntry
<1>5. \A n \in Strings, p \in Paths \union {None} : Var(n, p) \in EnvEntry
  BY DEF Var, EnvEntry
<1> QED
  BY <1>1, <1>2, <1>3, <1>4, <1>5

LEMMA MountFields ==
  \A n, q : Mount(n, q).name = n /\ Mount(n, q).mountPath = q
BY DEF Mount

LEMMA OperatorNames ==
  /\ Volume("workspace") \in VolumeName /\ Volume("tmp") \in VolumeName
  /\ Volume("git-credential") \in VolumeName /\ Volume("model-credential") \in VolumeName
<1>1. /\ "workspace" \in Strings /\ "tmp" \in Strings /\ "git-credential" \in Strings
      /\ "model-credential" \in Strings
  BY OperatorStrings, Zenon
<1> QED
  BY <1>1, EntryTypes, Zenon

LEMMA OwnTypes ==
  ASSUME NEW s \in AgentSpec, NEW git \in Secrets \union {None}, NEW mod \in Secrets \union {None}
  PROVE  /\ OwnVolumes(s, git, mod) \in Seq(VolumeEntry)
         /\ OwnMounts(s, git, mod) \in Seq(MountEntry)
         /\ OwnEnv(s, git) \in Seq(EnvEntry)
<1> CASE s.workspace = None
  BY DEF OwnVolumes, OwnMounts, OwnEnv, Optional
<1> CASE s.workspace # None
  <2> DEFINE ws == s.workspace
  <2>1. ws \in AgentWorkspaceSpec
    BY DEF AgentSpec
  <2>2. WorkspaceMountPath(ws) \in Paths
    BY <2>1, PathTypes
  <2>3. Home(ws) \in Paths /\ Under(Home(ws), ".config") \in Paths /\ Under(GitPath, "token") \in Paths
    <3>1. ".agent-home" \in Names /\ ".config" \in Names /\ "token" \in Names
      BY OperatorStrings, Zenon DEF Names
    <3>2. Home(ws) \in Paths
      BY <2>2, <3>1, PathTypes DEF Home
    <3> QED
      BY <3>1, <3>2, PathTypes
  <2>4. WorkspaceVolumes(git, mod) \in Seq(VolumeEntry)
    <3>1. /\ << Vol(Volume("workspace"), "claim"), Vol(Volume("tmp"), "emptyDir") >> \in Seq(VolumeEntry)
          /\ Optional(git # None, << Vol(Volume("git-credential"), git) >>) \in Seq(VolumeEntry)
          /\ Optional(mod # None, << Vol(Volume("model-credential"), mod) >>) \in Seq(VolumeEntry)
      <4>1. "claim" \in Strings \union Secrets /\ "emptyDir" \in Strings \union Secrets
        BY OperatorStrings, Zenon
      <4>2. Vol(Volume("workspace"), "claim") \in VolumeEntry
            /\ Vol(Volume("tmp"), "emptyDir") \in VolumeEntry
        BY <4>1, OperatorNames, EntryTypes, Zenon
      <4>3. /\ git # None => Vol(Volume("git-credential"), git) \in VolumeEntry
            /\ mod # None => Vol(Volume("model-credential"), mod) \in VolumeEntry
        BY OperatorNames, EntryTypes, Zenon
      <4> QED
        BY <4>2, <4>3 DEF Optional
    <3> QED
      BY <3>1, ConcatProperties DEF WorkspaceVolumes
  <2>5. WorkspaceMounts(ws, git, mod) \in Seq(MountEntry)
    <3>1. /\ << Mount(Volume("workspace"), WorkspaceMountPath(ws)), Mount(Volume("tmp"), TmpPath) >>
               \in Seq(MountEntry)
          /\ Optional(git # None, << Mount(Volume("git-credential"), GitPath) >>) \in Seq(MountEntry)
          /\ Optional(mod # None, << Mount(Volume("model-credential"), ModelPath) >>) \in Seq(MountEntry)
      <4>1. /\ Mount(Volume("workspace"), WorkspaceMountPath(ws)) \in MountEntry
            /\ Mount(Volume("tmp"), TmpPath) \in MountEntry
            /\ Mount(Volume("git-credential"), GitPath) \in MountEntry
            /\ Mount(Volume("model-credential"), ModelPath) \in MountEntry
        BY <2>2, OperatorNames, EntryTypes, PathTypes, Zenon
      <4> QED
        BY <4>1 DEF Optional
    <3> QED
      BY <3>1, ConcatProperties DEF WorkspaceMounts
  <2>6. WorkspaceEnv(ws, git) \in Seq(EnvEntry)
    <3>1. /\ << Var("AGENTPLANE_WORKSPACE", WorkspaceMountPath(ws)),
                Var("AGENTPLANE_AGENT_HOME", Home(ws)), Var("HOME", Home(ws)),
                Var("XDG_CONFIG_HOME", Under(Home(ws), ".config")) >> \in Seq(EnvEntry)
          /\ Optional(git # None, << Var("AGENTPLANE_GIT_CREDENTIAL_FILE", Under(GitPath, "token")) >>)
               \in Seq(EnvEntry)
          /\ Optional(ws.repository # None, << Var("GIT_CONFIG_VALUE_0", WorkspaceMountPath(ws)) >>)
               \in Seq(EnvEntry)
      <4>1. /\ "AGENTPLANE_WORKSPACE" \in Strings /\ "AGENTPLANE_AGENT_HOME" \in Strings
            /\ "HOME" \in Strings /\ "XDG_CONFIG_HOME" \in Strings
            /\ "AGENTPLANE_GIT_CREDENTIAL_FILE" \in Strings /\ "GIT_CONFIG_VALUE_0" \in Strings
        BY OperatorStrings, Zenon
      <4>2. /\ Var("AGENTPLANE_WORKSPACE", WorkspaceMountPath(ws)) \in EnvEntry
            /\ Var("AGENTPLANE_AGENT_HOME", Home(ws)) \in EnvEntry
            /\ Var("HOME", Home(ws)) \in EnvEntry
            /\ Var("XDG_CONFIG_HOME", Under(Home(ws), ".config")) \in EnvEntry
            /\ Var("AGENTPLANE_GIT_CREDENTIAL_FILE", Under(GitPath, "token")) \in EnvEntry
            /\ Var("GIT_CONFIG_VALUE_0", WorkspaceMountPath(ws)) \in EnvEntry
        BY <4>1, <2>2, <2>3, EntryTypes, Zenon
      <4> QED
        BY <4>2 DEF Optional
    <3> QED
      BY <3>1, ConcatProperties DEF WorkspaceEnv
  <2> QED
    BY <2>4, <2>5, <2>6 DEF OwnVolumes, OwnMounts, OwnEnv, Optional
<1> QED
  OBVIOUS

LEMMA SpecTypes ==
  ASSUME NEW s \in AgentSpec, s.runtime # None
  PROVE  /\ SpecVolumes(s) \in Seq(VolumeEntry) /\ Len(SpecVolumes(s)) = Len(s.runtime.volumes)
         /\ SpecMounts(s) \in Seq(MountEntry) /\ Len(SpecMounts(s)) = Len(s.runtime.volumes)
         /\ \A i \in 1..Len(s.runtime.volumes) :
              /\ s.runtime.volumes[i] \in AgentVolume
              /\ SpecVolumes(s)[i].name = s.runtime.volumes[i].name
              /\ SpecMounts(s)[i] = Mount(s.runtime.volumes[i].name, s.runtime.volumes[i].mountPath)
<1> DEFINE vols == s.runtime.volumes
<1>1. vols \in Seq(AgentVolume) /\ Len(vols) \in Nat
  BY RuntimeType
<1>2. \A i \in 1..Len(vols) : vols[i] \in AgentVolume
  BY <1>1, ElementOfSeq
<1>3. \A v \in AgentVolume : Vol(v.name, v.source) \in VolumeEntry /\ Mount(v.name, v.mountPath) \in MountEntry
  BY EntryTypes DEF AgentVolume
<1>4. SpecVolumes(s) \in [1..Len(vols) -> VolumeEntry] /\ SpecMounts(s) \in [1..Len(vols) -> MountEntry]
  BY <1>2, <1>3 DEF SpecVolumes, SpecMounts
<1>5. /\ SpecVolumes(s) \in Seq(VolumeEntry) /\ Len(SpecVolumes(s)) = Len(vols)
      /\ SpecMounts(s) \in Seq(MountEntry) /\ Len(SpecMounts(s)) = Len(vols)
  BY <1>1, <1>4
<1>6. ASSUME NEW i \in 1..Len(vols)
      PROVE  SpecVolumes(s)[i].name = vols[i].name /\ SpecMounts(s)[i] = Mount(vols[i].name, vols[i].mountPath)
  BY DEF SpecVolumes, SpecMounts, Vol
<1> QED
  BY <1>2, <1>5, <1>6

LEMMA CredTypes ==
  ASSUME NEW creds \in Seq(Resolved)
  PROVE  /\ CredVolumes(creds) \in Seq(VolumeEntry) /\ Len(CredVolumes(creds)) = Len(creds)
         /\ CredMounts(creds) \in Seq(MountEntry) /\ Len(CredMounts(creds)) = Len(creds)
         /\ CredEnv(creds) \in Seq(EnvEntry)
         /\ \A i \in 1..Len(creds) :
              /\ creds[i] \in Resolved
              /\ CredVolumes(creds)[i].name = CredentialVolume(creds[i].name)
              /\ CredMounts(creds)[i] = Mount(CredentialVolume(creds[i].name),
                                              Under(CredentialsPath, creds[i].name))
<1>1. Len(creds) \in Nat
  OBVIOUS
<1>2. \A i \in 1..Len(creds) : creds[i] \in Resolved
  BY ElementOfSeq
<1>3. \A c \in Resolved : /\ Vol(CredentialVolume(c.name), c.secret) \in VolumeEntry
                          /\ Mount(CredentialVolume(c.name), Under(CredentialsPath, c.name)) \in MountEntry
  <2> TAKE c \in Resolved
  <2>1. c.name \in Credentials /\ c.name \in Names /\ c.secret \in Strings \union Secrets
    BY DEF Resolved, Names
  <2>2. CredentialVolume(c.name) \in VolumeName /\ Under(CredentialsPath, c.name) \in Paths
    BY <2>1, EntryTypes, PathTypes
  <2> QED
    BY <2>1, <2>2, EntryTypes
<1>4. /\ CredVolumes(creds) \in [1..Len(creds) -> VolumeEntry]
      /\ CredMounts(creds) \in [1..Len(creds) -> MountEntry]
  BY <1>2, <1>3 DEF CredVolumes, CredMounts
<1>5. /\ CredVolumes(creds) \in Seq(VolumeEntry) /\ Len(CredVolumes(creds)) = Len(creds)
      /\ CredMounts(creds) \in Seq(MountEntry) /\ Len(CredMounts(creds)) = Len(creds)
  BY <1>1, <1>4
<1>6. ASSUME NEW i \in 1..Len(creds)
      PROVE  /\ CredVolumes(creds)[i].name = CredentialVolume(creds[i].name)
             /\ CredMounts(creds)[i] = Mount(CredentialVolume(creds[i].name),
                                             Under(CredentialsPath, creds[i].name))
  BY DEF CredVolumes, CredMounts, Vol
<1>7. CredEnv(creds) \in Seq(EnvEntry)
  <2>1. "AGENTPLANE_CREDENTIALS_PATH" \in Strings
    BY OperatorStrings, Zenon
  <2>2. Var("AGENTPLANE_CREDENTIALS_PATH", CredentialsPath) \in EnvEntry
    BY <2>1, EntryTypes, PathTypes, Zenon
  <2> QED
    BY <2>2 DEF CredEnv, Optional
<1> QED
  BY <1>2, <1>5, <1>6, <1>7

LEMMA InjectedType == InjectedEnv \in Seq(EnvEntry) /\ Len(InjectedEnv) = 2
<1>1. "AGENTPLANE_REGISTRY" \in Strings /\ "AGENTPLANE_AGENT_NAME" \in Strings
  BY OperatorStrings, Zenon
<1>2. Var("AGENTPLANE_REGISTRY", None) \in EnvEntry /\ Var("AGENTPLANE_AGENT_NAME", None) \in EnvEntry
  BY <1>1, EntryTypes, Zenon
<1> QED
  BY <1>2 DEF InjectedEnv

\* A pod template is its eleven fields: what an update leaves of each of them
\* says what the updated template is.
PodFields == {"replicas", "strategy", "volumes", "init", "fsGroup", "env", "mounts", "sandbox",
              "port", "probe", "runtimeClass"}

LEMMA PodOfFields ==
  ASSUME NEW r, NEW g, NEW v, NEW i, NEW f, NEW e, NEW m, NEW x, NEW p, NEW q, NEW c, NEW X,
         X = [n \in PodFields |-> X[n]],
         X.replicas = r /\ X.strategy = g /\ X.volumes = v /\ X.init = i /\ X.fsGroup = f /\ X.env = e,
         X.mounts = m /\ X.sandbox = x /\ X.port = p /\ X.probe = q /\ X.runtimeClass = c
  PROVE  X = [replicas |-> r, strategy |-> g, volumes |-> v, init |-> i, fsGroup |-> f, env |-> e,
              mounts |-> m, sandbox |-> x, port |-> p, probe |-> q, runtimeClass |-> c]
BY DEF PodFields

\* What the three writers of the template leave of it, one lemma for each: first
\* the workspace's,
LEMMA WorkspaceUpdate ==
  ASSUME NEW r, NEW g, NEW v, NEW i, NEW f, NEW e, NEW m, NEW x, NEW p, NEW q, NEW c, NEW vs, NEW ic,
         NEW X, X = [[replicas |-> r, strategy |-> g, volumes |-> v, init |-> i,
                      fsGroup |-> f, env |-> e, mounts |-> m, sandbox |-> x,
                      port |-> p, probe |-> q, runtimeClass |-> c]
                     EXCEPT !.replicas = 1, !.strategy = "Recreate", !.volumes = vs, !.init = ic, !.fsGroup = TRUE]
  PROVE  X = [replicas |-> 1, strategy |-> "Recreate", volumes |-> vs, init |-> ic,
              fsGroup |-> TRUE, env |-> e, mounts |-> m, sandbox |-> x,
              port |-> p, probe |-> q, runtimeClass |-> c]
<1>1. X = [n \in PodFields |-> X[n]]
  BY Zenon DEF PodFields
<1>2. /\ X.replicas = 1 /\ X.strategy = "Recreate" /\ X.volumes = vs /\ X.init = ic /\ X.fsGroup = TRUE
      /\ X.env = e /\ X.mounts = m /\ X.sandbox = x
      /\ X.port = p /\ X.probe = q /\ X.runtimeClass = c
  OBVIOUS
<1> QED
  BY <1>1, <1>2, PodOfFields

\* then that of the volumes the Agent lists,
LEMMA UserUpdate ==
  ASSUME NEW r, NEW g, NEW v, NEW i, NEW f, NEW e, NEW m, NEW x, NEW p, NEW q, NEW c, NEW vs, NEW ms,
         NEW X, X = [[replicas |-> r, strategy |-> g, volumes |-> v, init |-> i,
                      fsGroup |-> f, env |-> e, mounts |-> m, sandbox |-> x,
                      port |-> p, probe |-> q, runtimeClass |-> c]
                     EXCEPT !.volumes = @ \o vs, !.mounts = @ \o ms, !.sandbox = TRUE]
  PROVE  X = [replicas |-> r, strategy |-> g, volumes |-> v \o vs, init |-> i,
              fsGroup |-> f, env |-> e, mounts |-> m \o ms, sandbox |-> TRUE,
              port |-> p, probe |-> q, runtimeClass |-> c]
<1>1. X = [n \in PodFields |-> X[n]]
  BY Zenon DEF PodFields
<1>2. /\ X.replicas = r /\ X.strategy = g /\ X.volumes = v \o vs /\ X.init = i /\ X.fsGroup = f
      /\ X.env = e /\ X.mounts = m \o ms /\ X.sandbox = TRUE
      /\ X.port = p /\ X.probe = q /\ X.runtimeClass = c
  OBVIOUS
<1> QED
  BY <1>1, <1>2, PodOfFields

\* and that of the Credentials.
LEMMA CredentialUpdate ==
  ASSUME NEW r, NEW g, NEW v, NEW i, NEW f, NEW e, NEW m, NEW x, NEW p, NEW q, NEW c, NEW vs, NEW ms, NEW w,
         NEW X, X = [[replicas |-> r, strategy |-> g, volumes |-> v, init |-> i,
                      fsGroup |-> f, env |-> e, mounts |-> m, sandbox |-> x,
                      port |-> p, probe |-> q, runtimeClass |-> c]
                     EXCEPT !.volumes = @ \o vs, !.mounts = @ \o ms, !.env = Append(@, w), !.sandbox = TRUE]
  PROVE  X = [replicas |-> r, strategy |-> g, volumes |-> v \o vs, init |-> i,
              fsGroup |-> f, env |-> Append(e, w), mounts |-> m \o ms, sandbox |-> TRUE,
              port |-> p, probe |-> q, runtimeClass |-> c]
<1>1. X = [n \in PodFields |-> X[n]]
  BY Zenon DEF PodFields
<1>2. /\ X.replicas = r /\ X.strategy = g /\ X.volumes = v \o vs /\ X.init = i /\ X.fsGroup = f
      /\ X.env = Append(e, w) /\ X.mounts = m \o ms /\ X.sandbox = TRUE
      /\ X.port = p /\ X.probe = q /\ X.runtimeClass = c
  OBVIOUS
<1> QED
  BY <1>1, <1>2, PodOfFields

\* The function handed to CreateOrUpdate leaves nothing of the Deployment it is
\* run on: whatever was there, it makes the same pod of the same inputs.
LEMMA MutateIsPod ==
  ASSUME NEW d \in Deployments, NEW s, NEW git, NEW mod, NEW creds, Inputs(s, git, mod, creds)
  PROVE  Mutate(d, s, git, mod, creds) = Pod(s, git, mod, creds)
<1> USE DEF Inputs
<1> DEFINE rt == s.runtime
           ws == s.workspace
           E  == (InjectedEnv \o rt.env) \o OwnEnv(s, git)
           M  == OwnMounts(s, git, mod)
           V  == OwnVolumes(s, git, mod)
           I  == IF ws = None THEN None ELSE CloneInitContainer(ws, git # None)
           R  == IF ws = None THEN rt.replicas ELSE 1
           G  == IF ws = None THEN "RollingUpdate" ELSE "Recreate"
           P  == Probe(s)
           F  == ws # None
           F3 == ws # None \/ rt.volumes # <<>>
           F4 == ws # None \/ rt.volumes # <<>> \/ creds # <<>>
           D1 == [replicas |-> rt.replicas, strategy |-> d.strategy, volumes |-> d.volumes,
                  init |-> d.init, fsGroup |-> d.fsGroup, env |-> E, mounts |-> M,
                  sandbox |-> F, port |-> rt.port, probe |-> P,
                  runtimeClass |-> rt.runtimeClassName]
           D2 == [replicas |-> R, strategy |-> G, volumes |-> V,
                  init |-> I, fsGroup |-> F, env |-> E, mounts |-> M,
                  sandbox |-> F, port |-> rt.port, probe |-> P,
                  runtimeClass |-> rt.runtimeClassName]
           D3 == [replicas |-> R, strategy |-> G, volumes |-> V \o SpecVolumes(s),
                  init |-> I, fsGroup |-> F, env |-> E, mounts |-> M \o SpecMounts(s),
                  sandbox |-> F3, port |-> rt.port, probe |-> P,
                  runtimeClass |-> rt.runtimeClassName]
<1>1. Container(d, s, git, mod) = D1
  <2> DEFINE E0 == InjectedEnv \o rt.env \o Optional(ws # None, WorkspaceEnv(ws, git))
             M0 == Optional(ws # None, WorkspaceMounts(ws, git, mod))
  <2>1. E0 = E /\ M0 = M
    BY DEF OwnEnv, OwnMounts
  <2>2. Container(d, s, git, mod) =
          [d EXCEPT !.replicas = rt.replicas, !.env = E0, !.mounts = M0, !.sandbox = F,
                    !.port = rt.port, !.probe = P, !.runtimeClass = rt.runtimeClassName]
    BY Zenon DEF Container, Probe
  <2> HIDE DEF E0, M0, E, M, P, F
  <2> QED
    BY <2>1, <2>2 DEF Deployments
<1>2. WorkspacePod(D1, s, git, mod) = D2
  <2> HIDE DEF E, M, P, F
  <2>1. CASE ws = None
    <3>1. F = FALSE
      BY <2>1 DEF F
    <3> QED
      BY <2>1, <3>1 DEF WorkspacePod, OwnVolumes, Optional
  <2>2. CASE ws # None
    <3>1. V = WorkspaceVolumes(git, mod)
      BY <2>2 DEF OwnVolumes, Optional
    <3>2. WorkspacePod(D1, s, git, mod) =
            [D1 EXCEPT !.replicas = 1, !.strategy = "Recreate", !.volumes = V, !.init = I, !.fsGroup = TRUE]
      BY <2>2, <3>1 DEF WorkspacePod
    <3>3. F = TRUE /\ R = 1 /\ G = "Recreate"
      BY <2>2 DEF F
    <3> HIDE DEF V, I, R, G
    <3>4. ASSUME NEW X, X = [D1 EXCEPT !.replicas = 1, !.strategy = "Recreate", !.volumes = V,
                                       !.init = I, !.fsGroup = TRUE]
          PROVE  X =
            [replicas |-> 1, strategy |-> "Recreate", volumes |-> V, init |-> I, fsGroup |-> TRUE,
             env |-> E, mounts |-> M, sandbox |-> F, port |-> rt.port, probe |-> P,
             runtimeClass |-> rt.runtimeClassName]
      BY <3>4, WorkspaceUpdate, Zenon
    <3> QED
      BY <3>2, <3>3, <3>4, Zenon
  <2> QED
    BY <2>1, <2>2
<1>3. UserVolumes(D2, rt.volumes) = D3
  <2>0. V \in Seq(VolumeEntry) /\ M \in Seq(MountEntry)
    BY OwnTypes
  <2>1. CASE rt.volumes = <<>>
    <3>1. SpecVolumes(s) = <<>> /\ SpecMounts(s) = <<>>
      BY <2>1, SpecTypes
    <3>2. V \o SpecVolumes(s) = V /\ M \o SpecMounts(s) = M
      BY <2>0, <3>1, ConcatEmptySeq
    <3>3. F3 = F
      BY <2>1
    <3> HIDE DEF V, M, E, I, R, G, P, F, F3
    <3> QED
      BY <2>1, <3>2, <3>3 DEF UserVolumes
  <2>2. CASE rt.volumes # <<>>
    <3>1. UserVolumes(D2, rt.volumes) = [D2 EXCEPT !.volumes = @ \o SpecVolumes(s),
                                                 !.mounts = @ \o SpecMounts(s), !.sandbox = TRUE]
      BY <2>2 DEF UserVolumes, SpecVolumes, SpecMounts
    <3>2. F3 = TRUE
      BY <2>2
    <3> HIDE DEF V, M, E, I, R, G, P, F, F3
    <3>3. ASSUME NEW X, X = [D2 EXCEPT !.volumes = @ \o SpecVolumes(s), !.mounts = @ \o SpecMounts(s),
                                       !.sandbox = TRUE]
          PROVE  X =
            [replicas |-> R, strategy |-> G, volumes |-> V \o SpecVolumes(s), init |-> I,
             fsGroup |-> F, env |-> E, mounts |-> M \o SpecMounts(s), sandbox |-> TRUE,
             port |-> rt.port, probe |-> P, runtimeClass |-> rt.runtimeClassName]
      BY <3>3, UserUpdate, Zenon
    <3> QED
      BY <3>1, <3>2, <3>3, Zenon
  <2> QED
    BY <2>1, <2>2
<1>4. CredentialVolumes(D3, creds) = Pod(s, git, mod, creds)
  <2> DEFINE V3 == V \o SpecVolumes(s)
             M3 == M \o SpecMounts(s)
  <2>0. /\ V3 \in Seq(VolumeEntry) /\ M3 \in Seq(MountEntry) /\ E \in Seq(EnvEntry)
    <3>1. V \in Seq(VolumeEntry) /\ M \in Seq(MountEntry) /\ OwnEnv(s, git) \in Seq(EnvEntry)
      BY OwnTypes
    <3>2. rt.env \in Seq(EnvEntry)
      BY RuntimeType
    <3>3. InjectedEnv \o rt.env \in Seq(EnvEntry)
      BY <3>2, InjectedType, ConcatProperties
    <3>4. E \in Seq(EnvEntry)
      BY <3>1, <3>3, ConcatProperties
    <3> HIDE DEF E, V, M
    <3> QED
      BY <3>1, <3>4, SpecTypes, ConcatProperties
  <2>5. Pod(s, git, mod, creds) =
          [replicas |-> R, strategy |-> G, volumes |-> V3 \o CredVolumes(creds),
           init |-> I, fsGroup |-> F, env |-> E \o CredEnv(creds),
           mounts |-> M3 \o CredMounts(creds),
           sandbox |-> F4, port |-> rt.port,
           probe |-> P, runtimeClass |-> rt.runtimeClassName]
    BY Zenon DEF Pod
  <2>1. CASE creds = <<>>
    <3>1. CredVolumes(creds) = <<>> /\ CredMounts(creds) = <<>> /\ CredEnv(creds) = <<>>
      <4>1. Len(CredVolumes(creds)) = 0 /\ Len(CredMounts(creds)) = 0 /\ CredVolumes(creds) \in Seq(VolumeEntry)
            /\ CredMounts(creds) \in Seq(MountEntry)
        BY <2>1, CredTypes
      <4>2. CredEnv(creds) = <<>>
        BY <2>1 DEF CredEnv, Optional
      <4> QED
        BY <4>1, <4>2, EmptySeq
    <3>3. F4 = F3
      BY <2>1
    <3> HIDE DEF V, M, V3, M3, E, I, R, G, P, F, F3, F4
    <3>2. V3 \o CredVolumes(creds) = V3 /\ M3 \o CredMounts(creds) = M3 /\ E \o CredEnv(creds) = E
      BY <2>0, <3>1, ConcatEmptySeq
    <3> QED
      BY <2>1, <2>5, <3>2, <3>3 DEF CredentialVolumes, V3, M3
  <2>2. CASE creds # <<>>
    <3> DEFINE W == Var("AGENTPLANE_CREDENTIALS_PATH", CredentialsPath)
    <3>1. CredentialVolumes(D3, creds) =
            [D3 EXCEPT !.volumes = @ \o CredVolumes(creds), !.mounts = @ \o CredMounts(creds),
                       !.env = Append(@, W), !.sandbox = TRUE]
      BY <2>2 DEF CredentialVolumes, CredVolumes, CredMounts
    <3>2. Append(E, W) = E \o CredEnv(creds)
      <4>1. CredEnv(creds) = <<W>>
        BY <2>2 DEF CredEnv, Optional
      <4> HIDE DEF E, W
      <4>2. CredEnv(creds) \in Seq(EnvEntry)
        BY CredTypes
      <4> QED
        BY <4>1, <4>2, <2>0, AppendIsConcat
    <3>3. F4 = TRUE
      BY <2>2
    <3> HIDE DEF V, M, E, I, R, G, P, W, F, F3, F4
    <3>4. ASSUME NEW X, X = [D3 EXCEPT !.volumes = @ \o CredVolumes(creds),
                                       !.mounts = @ \o CredMounts(creds),
                                       !.env = Append(@, W), !.sandbox = TRUE]
          PROVE  X =
            [replicas |-> R, strategy |-> G, volumes |-> V3 \o CredVolumes(creds), init |-> I,
             fsGroup |-> F, env |-> Append(E, W), mounts |-> M3 \o CredMounts(creds),
             sandbox |-> TRUE, port |-> rt.port, probe |-> P, runtimeClass |-> rt.runtimeClassName]
      BY <3>4, CredentialUpdate, Zenon
    <3>5. CredentialVolumes(D3, creds) =
            [replicas |-> R, strategy |-> G, volumes |-> V3 \o CredVolumes(creds), init |-> I,
             fsGroup |-> F, env |-> Append(E, W), mounts |-> M3 \o CredMounts(creds),
             sandbox |-> TRUE, port |-> rt.port, probe |-> P, runtimeClass |-> rt.runtimeClassName]
      BY <3>1, <3>4, Zenon
    <3> HIDE DEF V3, M3, D3
    <3> QED
      BY <2>5, <3>2, <3>3, <3>5, Zenon
  <2> QED
    BY <2>1, <2>2
<1> QED
  BY <1>1, <1>2, <1>3, <1>4, Zenon DEF Mutate

LEMMA PodType ==
  ASSUME NEW s, NEW git, NEW mod, NEW creds, Inputs(s, git, mod, creds)
  PROVE  Pod(s, git, mod, creds) \in Deployments
<1> USE DEF Inputs
<1> DEFINE ws == s.workspace
           p == Pod(s, git, mod, creds)
<1>1. p.volumes \in Seq(VolumeEntry) /\ p.mounts \in Seq(MountEntry) /\ p.env \in Seq(EnvEntry)
  <2>1. /\ OwnVolumes(s, git, mod) \o SpecVolumes(s) \in Seq(VolumeEntry)
        /\ OwnMounts(s, git, mod) \o SpecMounts(s) \in Seq(MountEntry)
    BY OwnTypes, SpecTypes, ConcatProperties
  <2>2. InjectedEnv \o s.runtime.env \in Seq(EnvEntry)
    BY InjectedType, RuntimeType, ConcatProperties
  <2>3. (InjectedEnv \o s.runtime.env) \o OwnEnv(s, git) \in Seq(EnvEntry)
    BY <2>2, OwnTypes, ConcatProperties
  <2> QED
    BY <2>1, <2>3, CredTypes, ConcatProperties DEF Pod
<1>2. p.init \in {None} \union InitContainer
  <2>1. CASE ws = None
    BY <2>1 DEF Pod
  <2>2. CASE ws # None
    <3>1. ws \in AgentWorkspaceSpec
      BY <2>2, RuntimeType
    <3>2. WorkspaceMountPath(ws) \in Paths /\ Under(GitPath, "token") \in Paths
      <4>1. "token" \in Names
        BY OperatorStrings, Zenon DEF Names
      <4> QED
        BY <3>1, <4>1, PathTypes
    <3>3. "AGENTPLANE_WORKSPACE" \in Strings /\ "AGENTPLANE_GIT_CREDENTIAL_FILE" \in Strings
      BY OperatorStrings, Zenon
    <3>4. /\ Mount(Volume("workspace"), WorkspaceMountPath(ws)) \in MountEntry
          /\ Mount(Volume("git-credential"), GitPath) \in MountEntry
          /\ Var("AGENTPLANE_WORKSPACE", WorkspaceMountPath(ws)) \in EnvEntry
          /\ Var("AGENTPLANE_GIT_CREDENTIAL_FILE", Under(GitPath, "token")) \in EnvEntry
      BY <3>2, <3>3, OperatorNames, EntryTypes, PathTypes, Zenon
    <3> DEFINE c == CloneInitContainer(ws, git # None)
    <3>5. c.mounts \in Seq(MountEntry)
      <4>1. /\ << Mount(Volume("workspace"), WorkspaceMountPath(ws)) >> \in Seq(MountEntry)
            /\ Optional(git # None, << Mount(Volume("git-credential"), GitPath) >>) \in Seq(MountEntry)
        BY <3>4 DEF Optional
      <4> QED
        BY <4>1, ConcatProperties DEF CloneInitContainer
    <3>6. c.env \in Seq(EnvEntry)
      <4>1. /\ << Var("AGENTPLANE_WORKSPACE", WorkspaceMountPath(ws)) >> \in Seq(EnvEntry)
            /\ Optional(git # None, << Var("AGENTPLANE_GIT_CREDENTIAL_FILE", Under(GitPath, "token")) >>)
                 \in Seq(EnvEntry)
        BY <3>4 DEF Optional
      <4> QED
        BY <4>1, ConcatProperties DEF CloneInitContainer
    <3>7. c.repository \in Text /\ c.branch \in Text
      BY <3>1 DEF CloneInitContainer, AgentWorkspaceSpec
    <3>8. c = [repository |-> c.repository, branch |-> c.branch, mounts |-> c.mounts, env |-> c.env]
      BY DEF CloneInitContainer
    <3>9. p.init = c
      BY <2>2 DEF Pod
    <3> HIDE DEF c
    <3>10. c \in InitContainer
      BY <3>5, <3>6, <3>7, <3>8 DEF InitContainer
    <3> QED
      BY <3>9, <3>10
  <2> QED
    BY <2>1, <2>2
<1>3. p.replicas \in Nat /\ p.port \in Nat /\ p.runtimeClass \in Text /\ p.probe \in Text
  <2>1. "config" \in Text
    BY OperatorStrings, Zenon DEF Text
  <2>2. Probe(s) \in Text
    <3>1. Probe(s) \in {s.runtime.readinessProbe, "config", None}
      BY DEF Probe
    <3> QED
      BY <2>1, <3>1, RuntimeType DEF Text
  <2> QED
    BY <2>2, RuntimeType DEF Pod
<1>4. p.strategy \in {"RollingUpdate", "Recreate"} /\ p.fsGroup \in BOOLEAN /\ p.sandbox \in BOOLEAN
  BY DEF Pod
<1>5. p = [replicas |-> p.replicas, strategy |-> p.strategy, volumes |-> p.volumes, init |-> p.init,
           fsGroup |-> p.fsGroup, env |-> p.env, mounts |-> p.mounts, sandbox |-> p.sandbox,
           port |-> p.port, probe |-> p.probe, runtimeClass |-> p.runtimeClass]
  BY DEF Pod
<1> HIDE DEF p
<1>6. p \in Deployments
  BY <1>1, <1>2, <1>3, <1>4, <1>5 DEF Deployments
<1> QED
  BY <1>6 DEF p

-----------------------------------------------------------------------------
(* The four parts that add volumes and mounts.                             *)

LEMMA TupleConcat ==
  /\ \A a, b : <<a>> \o <<b>> = <<a, b>>
  /\ \A a, b, c : <<a, b>> \o <<c>> = <<a, b, c>>
  /\ \A a, b, c, d : <<a, b, c>> \o <<d>> = <<a, b, c, d>>
  /\ \A a, b : <<a, b>> \o <<>> = <<a, b>>
  /\ \A a, b, c : <<a, b, c>> \o <<>> = <<a, b, c>>
<1>0. ASSUME NEW a, NEW b PROVE <<a>> \o <<b>> = <<a, b>>
  <2> DEFINE T == {a, b}
             x == <<a>>
             y == <<b>>
             z == <<a, b>>
  <2>1. x \in Seq(T) /\ y \in Seq(T) /\ z \in Seq(T)
    OBVIOUS
  <2>2. /\ Len(x) = 1 /\ Len(y) = 1 /\ Len(z) = 2
        /\ \A i \in 1..1 : z[i] = x[i]
        /\ \A i \in 1..1 : z[1 + i] = y[i]
    OBVIOUS
  <2> HIDE DEF T, x, y, z
  <2>3. /\ \A i \in 1..Len(x) : z[i] = x[i]
        /\ \A i \in 1..Len(y) : z[Len(x) + i] = y[i]
        /\ Len(z) = Len(x) + Len(y)
    BY <2>2
  <2>4. z = x \o y
    BY <2>1, <2>3, ConcatByParts
  <2> QED
    BY <2>4, Zenon DEF x, y, z
<1>1. ASSUME NEW a, NEW b, NEW c PROVE <<a, b>> \o <<c>> = <<a, b, c>>
  <2> DEFINE T == {a, b, c}
             x == <<a, b>>
             y == <<c>>
             z == <<a, b, c>>
  <2>1. x \in Seq(T) /\ y \in Seq(T) /\ z \in Seq(T)
    OBVIOUS
  <2>2. /\ Len(x) = 2 /\ Len(y) = 1 /\ Len(z) = 3
        /\ \A i \in 1..2 : z[i] = x[i]
        /\ \A i \in 1..1 : z[2 + i] = y[i]
    OBVIOUS
  <2> HIDE DEF T, x, y, z
  <2>3. /\ \A i \in 1..Len(x) : z[i] = x[i]
        /\ \A i \in 1..Len(y) : z[Len(x) + i] = y[i]
        /\ Len(z) = Len(x) + Len(y)
    BY <2>2
  <2>4. z = x \o y
    BY <2>1, <2>3, ConcatByParts
  <2> QED
    BY <2>4, Zenon DEF x, y, z
<1>2. ASSUME NEW a, NEW b, NEW c, NEW d PROVE <<a, b, c>> \o <<d>> = <<a, b, c, d>>
  <2> DEFINE T == {a, b, c, d}
             x == <<a, b, c>>
             y == <<d>>
             z == <<a, b, c, d>>
  <2>1. x \in Seq(T) /\ y \in Seq(T) /\ z \in Seq(T)
    OBVIOUS
  <2>2. /\ Len(x) = 3 /\ Len(y) = 1 /\ Len(z) = 4
        /\ \A i \in 1..3 : z[i] = x[i]
        /\ \A i \in 1..1 : z[3 + i] = y[i]
    OBVIOUS
  <2> HIDE DEF T, x, y, z
  <2>3. /\ \A i \in 1..Len(x) : z[i] = x[i]
        /\ \A i \in 1..Len(y) : z[Len(x) + i] = y[i]
        /\ Len(z) = Len(x) + Len(y)
    BY <2>2
  <2>4. z = x \o y
    BY <2>1, <2>3, ConcatByParts
  <2> QED
    BY <2>4, Zenon DEF x, y, z
<1>3. ASSUME NEW a, NEW b PROVE <<a, b>> \o <<>> = <<a, b>>
  <2>1. <<a, b>> \in Seq({a, b})
    OBVIOUS
  <2> QED
    BY <2>1, ConcatEmptySeq
<1>4. ASSUME NEW a, NEW b, NEW c PROVE <<a, b, c>> \o <<>> = <<a, b, c>>
  <2>1. <<a, b, c>> \in Seq({a, b, c})
    OBVIOUS
  <2> QED
    BY <2>1, ConcatEmptySeq
<1> QED
  BY <1>0, <1>1, <1>2, <1>3, <1>4, Zenon

\* What the Operator's own mounts and volumes are.
WorkspaceMount(ws) == Mount(Volume("workspace"), WorkspaceMountPath(ws))
TmpMount   == Mount(Volume("tmp"), TmpPath)
GitMount   == Mount(Volume("git-credential"), GitPath)
ModelMount == Mount(Volume("model-credential"), ModelPath)

ClaimVolume == Vol(Volume("workspace"), "claim")
TmpVolume   == Vol(Volume("tmp"), "emptyDir")
GitVolume(git)   == Vol(Volume("git-credential"), git)
ModelVolume(mod) == Vol(Volume("model-credential"), mod)

LEMMA OwnParts ==
  ASSUME NEW ws, NEW git, NEW mod, NEW W, NEW V,
         W = WorkspaceMounts(ws, git, mod), V = WorkspaceVolumes(git, mod)
  PROVE  \/ /\ git = None /\ mod = None
            /\ W = <<WorkspaceMount(ws), TmpMount>>
            /\ V = <<ClaimVolume, TmpVolume>>
         \/ /\ git # None /\ mod = None
            /\ W = <<WorkspaceMount(ws), TmpMount, GitMount>>
            /\ V = <<ClaimVolume, TmpVolume, GitVolume(git)>>
         \/ /\ git = None /\ mod # None
            /\ W = <<WorkspaceMount(ws), TmpMount, ModelMount>>
            /\ V = <<ClaimVolume, TmpVolume, ModelVolume(mod)>>
         \/ /\ git # None /\ mod # None
            /\ W = <<WorkspaceMount(ws), TmpMount, GitMount, ModelMount>>
            /\ V = <<ClaimVolume, TmpVolume, GitVolume(git), ModelVolume(mod)>>
<1> DEFINE w == WorkspaceMount(ws)
           t == TmpMount
           g == GitMount
           m == ModelMount
           vw == ClaimVolume
           vt == TmpVolume
           vg == GitVolume(git)
           vm == ModelVolume(mod)
<1>1. /\ W = (<<w, t>> \o Optional(git # None, <<g>>)) \o Optional(mod # None, <<m>>)
      /\ V = (<<vw, vt>> \o Optional(git # None, <<vg>>)) \o Optional(mod # None, <<vm>>)
  BY Zenon DEF WorkspaceMounts, WorkspaceVolumes, WorkspaceMount, TmpMount, GitMount, ModelMount,
               ClaimVolume, TmpVolume, GitVolume, ModelVolume
<1> HIDE DEF w, t, g, m, vw, vt, vg, vm
<1>2. \/ git = None /\ mod = None /\ W = <<w, t>> /\ V = <<vw, vt>>
      \/ git # None /\ mod = None /\ W = <<w, t, g>> /\ V = <<vw, vt, vg>>
      \/ git = None /\ mod # None /\ W = <<w, t, m>> /\ V = <<vw, vt, vm>>
      \/ git # None /\ mod # None /\ W = <<w, t, g, m>> /\ V = <<vw, vt, vg, vm>>
  <2>1. CASE git = None /\ mod = None
    BY <1>1, <2>1, TupleConcat DEF Optional
  <2>2. CASE git # None /\ mod = None
    BY <1>1, <2>2, TupleConcat DEF Optional
  <2>3. CASE git = None /\ mod # None
    BY <1>1, <2>3, TupleConcat DEF Optional
  <2>4. CASE git # None /\ mod # None
    <3>1. W = (<<w, t>> \o <<g>>) \o <<m>> /\ V = (<<vw, vt>> \o <<vg>>) \o <<vm>>
      BY <1>1, <2>4, Zenon DEF Optional
    <3>2. W = <<w, t, g>> \o <<m>> /\ V = <<vw, vt, vg>> \o <<vm>>
      <4>1. <<w, t>> \o <<g>> = <<w, t, g>>
        BY TupleConcat
      <4>2. <<vw, vt>> \o <<vg>> = <<vw, vt, vg>>
        BY TupleConcat
      <4> QED
        BY <3>1, <4>1, <4>2, Zenon
    <3>3. <<w, t, g>> \o <<m>> = <<w, t, g, m>>
      BY TupleConcat
    <3>4. <<vw, vt, vg>> \o <<vm>> = <<vw, vt, vg, vm>>
      BY TupleConcat
    <3> QED
      BY <2>4, <3>2, <3>3, <3>4, Zenon
  <2> QED
    BY <2>1, <2>2, <2>3, <2>4
<1> QED
  BY <1>2, Zenon DEF w, t, g, m, vw, vt, vg, vm

LEMMA NamesApart ==
  /\ Volume("workspace") # Volume("tmp") /\ Volume("workspace") # Volume("git-credential")
  /\ Volume("workspace") # Volume("model-credential") /\ Volume("tmp") # Volume("git-credential")
  /\ Volume("tmp") # Volume("model-credential")
  /\ Volume("git-credential") # Volume("model-credential")
  /\ \A c : CredentialVolume(c) \notin ReservedVolumeNames
  /\ \A c : CredentialVolume(c)[1] = "credential-"
  /\ \A b, c : CredentialVolume(b) = CredentialVolume(c) => b = c
BY DEF Volume, CredentialVolume, ReservedVolumeNames

LEMMA PathsApart ==
  /\ TmpPath # GitPath /\ TmpPath # ModelPath /\ GitPath # ModelPath
  /\ \A p \in {TmpPath, GitPath, ModelPath} : Clean(p) = p /\ p \in ReservedMountPaths
  /\ \A p \in {TmpPath, GitPath, ModelPath} : ~Inside(p, CredentialsPath)
<1>1. TmpPath # GitPath /\ TmpPath # ModelPath /\ GitPath # ModelPath
  BY DEF TmpPath, GitPath, ModelPath, Path
<1>2. \A p \in {TmpPath, GitPath, ModelPath} : Clean(p) = p
  BY DEF TmpPath, GitPath, ModelPath, Path, Clean
<1>3. \A p \in {TmpPath, GitPath, ModelPath} : ~Inside(p, CredentialsPath)
  <2>1. /\ Len(TmpPath.segs) = 1 /\ Len(GitPath.segs) = 2 /\ Len(ModelPath.segs) = 2
        /\ Len(CredentialsPath.segs) = 2
    BY DEF TmpPath, GitPath, ModelPath, Path, CredentialsPath
  <2>2. ~Inside(TmpPath, CredentialsPath) /\ ~Inside(GitPath, CredentialsPath)
        /\ ~Inside(ModelPath, CredentialsPath)
    BY <2>1 DEF Inside
  <2> QED
    BY <2>2
<1> QED
  BY <1>1, <1>2, <1>3 DEF ReservedMountPaths

\* The Operator's mounts have the names of its volumes, each once, at paths that
\* differ but for the workspace's.
LEMMA OwnFacts ==
  ASSUME NEW s, s.workspace # None, NEW git, NEW mod, NEW W, NEW V,
         W = OwnMounts(s, git, mod), V = OwnVolumes(s, git, mod)
  PROVE  /\ Len(W) = Len(V) /\ Len(W) \in 2..4
         /\ \A i \in 1..Len(W) : W[i].name = V[i].name /\ W[i].name \in ReservedVolumeNames
         /\ W[1] = Mount(Volume("workspace"), WorkspaceMountPath(s.workspace))
         /\ \A i, j \in 1..Len(W) : i < j => W[i].name # W[j].name
         /\ \A i \in 2..Len(W) : W[i].mountPath \in {TmpPath, GitPath, ModelPath}
         /\ \A i, j \in 2..Len(W) : i < j => W[i].mountPath # W[j].mountPath
         /\ \A i \in 1..Len(W) :
              W[i].name = Volume("git-credential") => W[i].mountPath = GitPath /\ git # None
         /\ git # None => \E i \in 1..Len(W) : W[i].name = Volume("git-credential")
<1> DEFINE w == WorkspaceMount(s.workspace)
           t == TmpMount
           g == GitMount
           m == ModelMount
           vw == ClaimVolume
           vt == TmpVolume
           vg == GitVolume(git)
           vm == ModelVolume(mod)
<1>1. W = WorkspaceMounts(s.workspace, git, mod) /\ V = WorkspaceVolumes(git, mod)
  BY DEF OwnMounts, OwnVolumes, Optional
<1>2. \/ git = None /\ mod = None /\ W = <<w, t>> /\ V = <<vw, vt>>
      \/ git # None /\ mod = None /\ W = <<w, t, g>> /\ V = <<vw, vt, vg>>
      \/ git = None /\ mod # None /\ W = <<w, t, m>> /\ V = <<vw, vt, vm>>
      \/ git # None /\ mod # None /\ W = <<w, t, g, m>> /\ V = <<vw, vt, vg, vm>>
  BY <1>1, OwnParts
<1>3. /\ vw.name = Volume("workspace") /\ vt.name = Volume("tmp")
      /\ vg.name = Volume("git-credential") /\ vm.name = Volume("model-credential")
      /\ w.name = Volume("workspace") /\ t.name = Volume("tmp")
      /\ g.name = Volume("git-credential") /\ m.name = Volume("model-credential")
      /\ t.mountPath = TmpPath /\ g.mountPath = GitPath /\ m.mountPath = ModelPath
  BY DEF Vol, Mount, WorkspaceMount, TmpMount, GitMount, ModelMount, ClaimVolume, TmpVolume,
         GitVolume, ModelVolume
<1>4. /\ Volume("workspace") \in ReservedVolumeNames /\ Volume("tmp") \in ReservedVolumeNames
      /\ Volume("git-credential") \in ReservedVolumeNames
      /\ Volume("model-credential") \in ReservedVolumeNames
  BY DEF ReservedVolumeNames
<1> HIDE DEF w, t, g, m, vw, vt, vg, vm
<1>5. CASE git = None /\ mod = None
  <2>1. W = <<w, t>> /\ V = <<vw, vt>>
    BY <1>2, <1>5
  <2>2. /\ Len(W) = 2 /\ Len(V) = 2
        /\ W[1] = w /\ W[2] = t
        /\ V[1] = vw /\ V[2] = vt
    BY <2>1
  <2>3. \A i \in 1..2 : W[i].name = V[i].name /\ W[i].name \in ReservedVolumeNames
    BY <2>2, <1>3, <1>4
  <2>4. \A i, j \in 1..2 : i < j => W[i].name # W[j].name
    BY <2>2, <1>3, NamesApart
  <2>5. /\ \A i \in 2..2 : W[i].mountPath \in {TmpPath, GitPath, ModelPath}
        /\ \A i, j \in 2..2 : i < j => W[i].mountPath # W[j].mountPath
    BY <2>2, <1>3, PathsApart
  <2>6. /\ \A i \in 1..2 :
             W[i].name = Volume("git-credential") => W[i].mountPath = GitPath /\ git # None
        /\ git # None => \E i \in 1..2 : W[i].name = Volume("git-credential")
    BY <2>2, <1>3, <1>5, NamesApart
  <2> QED
    BY <2>2, <2>3, <2>4, <2>5, <2>6 DEF w, WorkspaceMount
<1>6. CASE git # None /\ mod = None
  <2>1. W = <<w, t, g>> /\ V = <<vw, vt, vg>>
    BY <1>2, <1>6
  <2>2. /\ Len(W) = 3 /\ Len(V) = 3
        /\ W[1] = w /\ W[2] = t /\ W[3] = g
        /\ V[1] = vw /\ V[2] = vt /\ V[3] = vg
    BY <2>1
  <2>3. \A i \in 1..3 : W[i].name = V[i].name /\ W[i].name \in ReservedVolumeNames
    BY <2>2, <1>3, <1>4
  <2>4. \A i, j \in 1..3 : i < j => W[i].name # W[j].name
    BY <2>2, <1>3, NamesApart
  <2>5. /\ \A i \in 2..3 : W[i].mountPath \in {TmpPath, GitPath, ModelPath}
        /\ \A i, j \in 2..3 : i < j => W[i].mountPath # W[j].mountPath
    BY <2>2, <1>3, PathsApart
  <2>6. /\ \A i \in 1..3 :
             W[i].name = Volume("git-credential") => W[i].mountPath = GitPath /\ git # None
        /\ git # None => \E i \in 1..3 : W[i].name = Volume("git-credential")
    BY <2>2, <1>3, <1>6, NamesApart
  <2> QED
    BY <2>2, <2>3, <2>4, <2>5, <2>6 DEF w, WorkspaceMount
<1>7. CASE git = None /\ mod # None
  <2>1. W = <<w, t, m>> /\ V = <<vw, vt, vm>>
    BY <1>2, <1>7
  <2>2. /\ Len(W) = 3 /\ Len(V) = 3
        /\ W[1] = w /\ W[2] = t /\ W[3] = m
        /\ V[1] = vw /\ V[2] = vt /\ V[3] = vm
    BY <2>1
  <2>3. \A i \in 1..3 : W[i].name = V[i].name /\ W[i].name \in ReservedVolumeNames
    BY <2>2, <1>3, <1>4
  <2>4. \A i, j \in 1..3 : i < j => W[i].name # W[j].name
    BY <2>2, <1>3, NamesApart
  <2>5. /\ \A i \in 2..3 : W[i].mountPath \in {TmpPath, GitPath, ModelPath}
        /\ \A i, j \in 2..3 : i < j => W[i].mountPath # W[j].mountPath
    BY <2>2, <1>3, PathsApart
  <2>6. /\ \A i \in 1..3 :
             W[i].name = Volume("git-credential") => W[i].mountPath = GitPath /\ git # None
        /\ git # None => \E i \in 1..3 : W[i].name = Volume("git-credential")
    BY <2>2, <1>3, <1>7, NamesApart
  <2> QED
    BY <2>2, <2>3, <2>4, <2>5, <2>6 DEF w, WorkspaceMount
<1>8. CASE git # None /\ mod # None
  <2>1. W = <<w, t, g, m>> /\ V = <<vw, vt, vg, vm>>
    BY <1>2, <1>8
  <2>2. /\ Len(W) = 4 /\ Len(V) = 4
        /\ W[1] = w /\ W[2] = t /\ W[3] = g /\ W[4] = m
        /\ V[1] = vw /\ V[2] = vt /\ V[3] = vg /\ V[4] = vm
    BY <2>1
  <2>3. \A i \in 1..4 : W[i].name = V[i].name /\ W[i].name \in ReservedVolumeNames
    BY <2>2, <1>3, <1>4
  <2>4. \A i, j \in 1..4 : i < j => W[i].name # W[j].name
    BY <2>2, <1>3, NamesApart
  <2>5. /\ \A i \in 2..4 : W[i].mountPath \in {TmpPath, GitPath, ModelPath}
        /\ \A i, j \in 2..4 : i < j => W[i].mountPath # W[j].mountPath
    BY <2>2, <1>3, PathsApart
  <2>6. /\ \A i \in 1..4 :
             W[i].name = Volume("git-credential") => W[i].mountPath = GitPath /\ git # None
        /\ git # None => \E i \in 1..4 : W[i].name = Volume("git-credential")
    BY <2>2, <1>3, <1>8, NamesApart
  <2> QED
    BY <2>2, <2>3, <2>4, <2>5, <2>6 DEF w, WorkspaceMount
<1> QED
  BY <1>5, <1>6, <1>7, <1>8

LEMMA ConcatElement ==
  ASSUME NEW T, NEW a \in Seq(T), NEW b \in Seq(T), NEW i \in 1..Len(a \o b)
  PROVE  \/ \E j \in 1..Len(a) : (a \o b)[i] = a[j]
         \/ \E j \in 1..Len(b) : (a \o b)[i] = b[j]
<1>1. /\ Len(a \o b) = Len(a) + Len(b)
      /\ \A k \in 1..Len(a) + Len(b) :
           (a \o b)[k] = IF k <= Len(a) THEN a[k] ELSE b[k - Len(a)]
  BY ConcatProperties
<1>2. Len(a) \in Nat /\ Len(b) \in Nat /\ i \in 1..Len(a) + Len(b)
  BY <1>1
<1>3. CASE i <= Len(a)
  BY <1>1, <1>2, <1>3
<1>4. CASE i > Len(a)
  <2>1. i - Len(a) \in 1..Len(b) /\ (a \o b)[i] = b[i - Len(a)]
    BY <1>1, <1>2, <1>4
  <2> QED
    BY <2>1
<1> QED
  BY <1>2, <1>3, <1>4

-----------------------------------------------------------------------------
(* The pod of a valid spec is coherent.                                    *)

NoneTwice(creds) == \A i, j \in 1..Len(creds) : i < j => creds[i].name # creds[j].name

ValidInputs(s, git, mod, creds) ==
  Inputs(s, git, mod, creds) /\ s \in Specs /\ Validate(s) /\ NoneTwice(creds)

LEMMA NamesInFacts ==
  ASSUME NEW S, NEW u \in Seq(S), \A x \in S : x.name \in VolumeName
  PROVE  /\ NamesIn(u) \in Seq(VolumeName) /\ Len(NamesIn(u)) = Len(u)
         /\ \A i \in 1..Len(u) : NamesIn(u)[i] = u[i].name
<1>1. Len(u) \in Nat /\ \A i \in 1..Len(u) : u[i] \in S
  BY ElementOfSeq
<1>2. NamesIn(u) \in [1..Len(u) -> VolumeName]
  BY <1>1 DEF NamesIn
<1>3. NamesIn(u) \in Seq(VolumeName) /\ Len(NamesIn(u)) = Len(u)
  BY <1>1, <1>2
<1> QED
  BY <1>3 DEF NamesIn

LEMMA DirsInFacts ==
  ASSUME NEW u \in Seq(MountEntry)
  PROVE  /\ DirsIn(u) \in Seq(Paths) /\ Len(DirsIn(u)) = Len(u)
         /\ \A i \in 1..Len(u) : DirsIn(u)[i] = Clean(u[i].mountPath)
<1>1. Len(u) \in Nat /\ \A i \in 1..Len(u) : u[i] \in MountEntry
  BY ElementOfSeq
<1>2. \A m \in MountEntry : Clean(m.mountPath) \in Paths
  <2>1. \A p \in Paths : Clean(p) \in Paths
    BY DEF Paths, Clean
  <2> QED
    BY <2>1 DEF MountEntry
<1>3. DirsIn(u) \in [1..Len(u) -> Paths]
  BY <1>1, <1>2 DEF DirsIn
<1>4. DirsIn(u) \in Seq(Paths) /\ Len(DirsIn(u)) = Len(u)
  BY <1>1, <1>3
<1> QED
  BY <1>4 DEF DirsIn

\* Volumes and mounts are named alike, place by place.
LEMMA SameNames ==
  ASSUME NEW s, NEW git, NEW mod, NEW creds, Inputs(s, git, mod, creds)
  PROVE  LET p == Pod(s, git, mod, creds) IN
         /\ NamesIn(p.mounts) = NamesIn(p.volumes)
         /\ NamesIn(p.volumes) = (NamesIn(OwnVolumes(s, git, mod)) \o NamesIn(SpecVolumes(s)))
                                   \o NamesIn(CredVolumes(creds))
<1> USE DEF Inputs
<1> DEFINE V == OwnVolumes(s, git, mod)
           W == OwnMounts(s, git, mod)
           p == Pod(s, git, mod, creds)
<1>0. V \in Seq(VolumeEntry) /\ W \in Seq(MountEntry)
  BY OwnTypes
<1>1. NamesIn(W) = NamesIn(V)
  <2>1. CASE s.workspace = None
    <3>1. V = <<>> /\ W = <<>>
      BY <2>1 DEF OwnVolumes, OwnMounts, Optional
    <3> QED
      BY <3>1
  <2>2. CASE s.workspace # None
    <3>1. Len(W) = Len(V) /\ Len(W) \in 2..4 /\ \A i \in 1..Len(W) : W[i].name = V[i].name
      BY <2>2, OwnFacts
    <3> HIDE DEF V, W
    <3> QED
      BY <3>1 DEF NamesIn
  <2> QED
    BY <2>1, <2>2
<1>2. NamesIn(SpecMounts(s)) = NamesIn(SpecVolumes(s))
  <2>1. /\ Len(SpecMounts(s)) = Len(SpecVolumes(s)) /\ Len(SpecVolumes(s)) = Len(s.runtime.volumes)
        /\ \A i \in 1..Len(s.runtime.volumes) : SpecMounts(s)[i].name = SpecVolumes(s)[i].name
    BY SpecTypes, MountFields
  <2> QED
    BY <2>1 DEF NamesIn
<1>3. NamesIn(CredMounts(creds)) = NamesIn(CredVolumes(creds))
  <2>1. /\ Len(CredMounts(creds)) = Len(CredVolumes(creds)) /\ Len(CredVolumes(creds)) = Len(creds)
        /\ \A i \in 1..Len(creds) : CredMounts(creds)[i].name = CredVolumes(creds)[i].name
    BY CredTypes, MountFields
  <2> QED
    BY <2>1 DEF NamesIn
<1>4. p.volumes = (V \o SpecVolumes(s)) \o CredVolumes(creds)
      /\ p.mounts = (W \o SpecMounts(s)) \o CredMounts(creds)
  BY DEF Pod
<1> HIDE DEF V, W, p
<1>5. V \o SpecVolumes(s) \in Seq(VolumeEntry) /\ W \o SpecMounts(s) \in Seq(MountEntry)
  BY <1>0, SpecTypes, ConcatProperties
<1>6. NamesIn(p.volumes) = NamesIn(V \o SpecVolumes(s)) \o NamesIn(CredVolumes(creds))
  BY <1>4, <1>5, CredTypes, NamesConcat
<1>7. NamesIn(p.mounts) = NamesIn(W \o SpecMounts(s)) \o NamesIn(CredMounts(creds))
  BY <1>4, <1>5, CredTypes, NamesConcat
<1>8. NamesIn(V \o SpecVolumes(s)) = NamesIn(V) \o NamesIn(SpecVolumes(s))
  BY <1>0, SpecTypes, NamesConcat
<1>9. NamesIn(W \o SpecMounts(s)) = NamesIn(W) \o NamesIn(SpecMounts(s))
  BY <1>0, SpecTypes, NamesConcat
<1>10. /\ NamesIn(p.mounts) = NamesIn(p.volumes)
       /\ NamesIn(p.volumes) = (NamesIn(V) \o NamesIn(SpecVolumes(s))) \o NamesIn(CredVolumes(creds))
  BY <1>1, <1>2, <1>3, <1>6, <1>7, <1>8, <1>9, Zenon
<1> QED
  BY <1>10, Zenon DEF V, W, p

\* What a valid spec's own volumes are, and stay away from.
LEMMA SpecFacts ==
  ASSUME NEW s \in Specs, s \in AgentSpec, s.runtime # None, Validate(s),
         NEW i \in 1..Len(s.runtime.volumes)
  PROVE  LET v == s.runtime.volumes[i] IN
         /\ v.name \notin ReservedVolumeNames /\ v.name[1] # "credential-"
         /\ Clean(v.mountPath) \notin ReservedMountPaths
         /\ s.workspace # None => Clean(v.mountPath) # WorkspaceMountPath(s.workspace)
         /\ ~Inside(Clean(v.mountPath), CredentialsPath)
<1>1. FreeVolume(s, s.runtime.volumes[i])
  BY DEF Validate, ValidateVolumes
<1> QED
  BY <1>1 DEF FreeVolume, ReservedPaths

\* No volume twice.
LEMMA PodNamesDiffer ==
  ASSUME NEW s, NEW git, NEW mod, NEW creds, ValidInputs(s, git, mod, creds)
  PROVE  ~HasDuplicate(NamesIn(Pod(s, git, mod, creds).volumes))
<1> USE DEF ValidInputs, Inputs
<1> DEFINE a == NamesIn(OwnVolumes(s, git, mod))
           b == NamesIn(SpecVolumes(s))
           c == NamesIn(CredVolumes(creds))
           V == OwnVolumes(s, git, mod)
           W == OwnMounts(s, git, mod)
<1>0. \A x \in VolumeEntry : x.name \in VolumeName
  BY DEF VolumeEntry
<1>1. /\ a \in Seq(VolumeName) /\ Len(a) = Len(V) /\ \A i \in 1..Len(V) : a[i] = V[i].name
  BY <1>0, OwnTypes, NamesInFacts
<1>2. /\ b \in Seq(VolumeName) /\ Len(b) = Len(s.runtime.volumes)
      /\ \A i \in 1..Len(s.runtime.volumes) : b[i] = s.runtime.volumes[i].name
  BY <1>0, SpecTypes, NamesInFacts
<1>3. /\ c \in Seq(VolumeName) /\ Len(c) = Len(creds)
      /\ \A i \in 1..Len(creds) : c[i] = CredentialVolume(creds[i].name)
  BY <1>0, CredTypes, NamesInFacts
<1>4. /\ ~HasDuplicate(a) /\ \A i \in 1..Len(a) : a[i] \in ReservedVolumeNames
  <2>1. CASE s.workspace = None
    <3>1. V = <<>>
      BY <2>1 DEF OwnVolumes, Optional
    <3> QED
      BY <3>1, <1>1 DEF HasDuplicate
  <2>2. CASE s.workspace # None
    <3>1. /\ Len(W) = Len(V)
          /\ \A i \in 1..Len(W) : W[i].name = V[i].name /\ W[i].name \in ReservedVolumeNames
          /\ \A i, j \in 1..Len(W) : i < j => W[i].name # W[j].name
      BY <2>2, OwnFacts
    <3> HIDE DEF a, V, W
    <3> QED
      BY <3>1, <1>1 DEF HasDuplicate
  <2> QED
    BY <2>1, <2>2
<1>5. ~HasDuplicate(b)
  <2>1. ~HasDuplicate([i \in 1..Len(s.runtime.volumes) |-> s.runtime.volumes[i].name])
    BY VolumesAreKeyed
  <2>2. Len(s.runtime.volumes) \in Nat
    BY RuntimeType
  <2> HIDE DEF b
  <2> QED
    BY <1>2, <2>1, <2>2 DEF HasDuplicate
<1>6. \A i \in 1..Len(b) : b[i] \notin ReservedVolumeNames /\ b[i][1] # "credential-"
  <2> HIDE DEF b
  <2> QED
    BY <1>2, SpecFacts
<1>7. ~HasDuplicate(c)
  <2> HIDE DEF c
  <2> QED
    BY <1>3, NamesApart DEF HasDuplicate, NoneTwice
<1>8. NamesIn(Pod(s, git, mod, creds).volumes) = (a \o b) \o c
  <2> HIDE DEF Inputs
  <2>1. Inputs(s, git, mod, creds)
    OBVIOUS
  <2> QED
    BY <2>1, SameNames, Zenon
<1> HIDE DEF a, b, c
<1>9. ~HasDuplicate(a \o b) /\ a \o b \in Seq(VolumeName)
  <2>1. \A i \in 1..Len(a) : \A j \in 1..Len(b) : a[i] # b[j]
    BY <1>4, <1>6
  <2> QED
    BY <2>1, <1>1, <1>2, <1>4, <1>5, DistinctConcat, ConcatProperties
<1>10. ASSUME NEW i \in 1..Len(a \o b), NEW j \in 1..Len(c) PROVE (a \o b)[i] # c[j]
  <2>1. c[j] \notin ReservedVolumeNames /\ c[j][1] = "credential-"
    BY <1>3, NamesApart
  <2>2. \/ \E k \in 1..Len(a) : (a \o b)[i] = a[k]
        \/ \E k \in 1..Len(b) : (a \o b)[i] = b[k]
    BY <1>1, <1>2, ConcatElement
  <2> QED
    BY <2>1, <2>2, <1>4, <1>6
<1>11. ~HasDuplicate((a \o b) \o c)
  BY <1>3, <1>7, <1>9, <1>10, DistinctConcat
<1> QED
  BY <1>8, <1>11, Zenon

LEMMA CleanUnslashed == \A p \in Paths : p.slash = FALSE => Clean(p) = p
BY DEF Paths, Clean

LEMMA CredPathsApart ==
  /\ \A b, c \in Names : Under(CredentialsPath, b) = Under(CredentialsPath, c) => b = c
  /\ \A c \in Names : /\ Inside(Under(CredentialsPath, c), CredentialsPath)
                      /\ Clean(Under(CredentialsPath, c)) = Under(CredentialsPath, c)
<1> DEFINE q == CredentialsPath.segs
<1>0. q = <<"agentplane", "credentials">>
  BY DEF CredentialsPath, Path
<1>1. q \in Seq({"agentplane", "credentials"}) /\ Len(q) = 2
  BY <1>0
<1>2. \A c : Under(CredentialsPath, c).segs = Append(q, c) /\ Under(CredentialsPath, c).slash = FALSE
  BY DEF Under, Path
<1>3. ASSUME NEW c
      PROVE Len(Append(q, c)) = 3 /\ Append(q, c)[3] = c /\ Append(q, c)[1] = q[1] /\ Append(q, c)[2] = q[2]
  BY <1>0
<1>4. \A b, c \in Names : Under(CredentialsPath, b) = Under(CredentialsPath, c) => b = c
  BY <1>2, <1>3
<1>5. ASSUME NEW c \in Names PROVE Inside(Under(CredentialsPath, c), CredentialsPath)
  <2> DEFINE u == Append(q, c)
  <2>1. SubSeq(u, 1, 2) = q
    <3> DEFINE S == {q[1], q[2], c}
               v == SubSeq(u, 1, 2)
    <3>1. q \in Seq(S)
      BY <1>0
    <3>2. u[1] = q[1] /\ u[2] = q[2]
      BY <1>3
    <3> HIDE DEF q, u
    <3>3. \A i \in 1..2 : u[i] \in S
      BY <3>2
    <3> HIDE DEF S
    <3>4. v \in Seq(S) /\ Len(v) = 2 /\ \A i \in 1..2 : v[i] = u[i]
      BY <3>3, SubSeqProperties
    <3> HIDE DEF v
    <3>5. v = q
      BY <1>1, <3>1, <3>2, <3>4, SeqEqual
    <3> QED
      BY <3>5 DEF v
  <2> QED
    BY <2>1, <1>1, <1>2, <1>3 DEF Inside
<1>6. \A c \in Names : Clean(Under(CredentialsPath, c)) = Under(CredentialsPath, c)
  BY <1>2, PathTypes, CleanUnslashed
<1> QED
  BY <1>4, <1>5, <1>6

\* No two mounts in one directory, if validation looked at the workspace's path.
LEMMA PodDirsDiffer ==
  ASSUME NEW s, NEW git, NEW mod, NEW creds, ValidInputs(s, git, mod, creds),
         s.workspace = None \/ ~Unchecked(WorkspaceMountPath(s.workspace))
  PROVE  ~HasDuplicate(DirsIn(Pod(s, git, mod, creds).mounts))
<1> USE DEF ValidInputs, Inputs
<1> DEFINE W == OwnMounts(s, git, mod)
           a == DirsIn(W)
           b == DirsIn(SpecMounts(s))
           c == DirsIn(CredMounts(creds))
           wp == WorkspaceMountPath(s.workspace)
           vols == s.runtime.volumes
<1>1. /\ a \in Seq(Paths) /\ Len(a) = Len(W) /\ \A i \in 1..Len(W) : a[i] = Clean(W[i].mountPath)
  BY OwnTypes, DirsInFacts
<1>2. /\ b \in Seq(Paths) /\ Len(b) = Len(vols)
      /\ \A i \in 1..Len(vols) : b[i] = Clean(vols[i].mountPath)
  <2>1. /\ SpecMounts(s) \in Seq(MountEntry) /\ Len(SpecMounts(s)) = Len(vols)
        /\ \A i \in 1..Len(vols) : SpecMounts(s)[i].mountPath = vols[i].mountPath
    BY SpecTypes, MountFields
  <2> HIDE DEF vols
  <2> QED
    BY <2>1, DirsInFacts
<1>3. /\ c \in Seq(Paths) /\ Len(c) = Len(creds)
      /\ \A i \in 1..Len(creds) : c[i] = Under(CredentialsPath, creds[i].name)
                                  /\ creds[i].name \in Names
  <2>1. \A i \in 1..Len(creds) : creds[i].name \in Names
    BY CredTypes DEF Resolved, Names
  <2>2. /\ c \in Seq(Paths) /\ Len(c) = Len(creds)
        /\ \A i \in 1..Len(creds) : c[i] = Clean(Under(CredentialsPath, creds[i].name))
    BY CredTypes, DirsInFacts, MountFields
  <2> HIDE DEF c
  <2> QED
    BY <2>1, <2>2, CredPathsApart
<1>4. /\ ~HasDuplicate(a)
      /\ \A i \in 1..Len(a) : /\ a[i] \in ReservedMountPaths \/ (s.workspace # None /\ a[i] = wp)
                              /\ ~Inside(a[i], CredentialsPath)
  <2>1. CASE s.workspace = None
    <3>1. W = <<>>
      BY <2>1 DEF OwnMounts, Optional
    <3> QED
      BY <3>1, <1>1 DEF HasDuplicate
  <2>2. CASE s.workspace # None
    <3>1. /\ Len(W) \in 2..4 /\ W[1].mountPath = wp
          /\ \A i \in 2..Len(W) : W[i].mountPath \in {TmpPath, GitPath, ModelPath}
          /\ \A i, j \in 2..Len(W) : i < j => W[i].mountPath # W[j].mountPath
      BY <2>2, OwnFacts, MountFields
    <3>2. wp \in Paths /\ wp.slash = FALSE /\ wp \notin ReservedMountPaths /\ ~Inside(wp, CredentialsPath)
      <4>1. wp \in Paths
        BY <2>2, RuntimeType, PathTypes
      <4> HIDE DEF wp
      <4> QED
        BY <4>1, <2>2 DEF Unchecked, Paths, wp
    <3> HIDE DEF W, a, wp
    <3>3. a[1] = wp
      BY <1>1, <3>1, <3>2, CleanUnslashed
    <3>4. \A i \in 2..Len(W) : /\ a[i] = W[i].mountPath /\ a[i] \in ReservedMountPaths
                               /\ ~Inside(a[i], CredentialsPath)
      BY <1>1, <3>1, PathsApart
    <3>5. ~HasDuplicate(a)
      BY <1>1, <3>1, <3>2, <3>3, <3>4 DEF HasDuplicate
    <3>6. \A i \in 1..Len(a) : i = 1 \/ i \in 2..Len(W)
      BY <1>1, <3>1
    <3> QED
      BY <2>2, <3>2, <3>3, <3>4, <3>5, <3>6
  <2> QED
    BY <2>1, <2>2
<1>5. ~HasDuplicate(b)
  <2>1. ~HasDuplicate([i \in 1..Len(vols) |-> Clean(vols[i].mountPath)])
    BY DEF Validate, ValidateVolumes
  <2>2. Len(vols) \in Nat
    BY RuntimeType
  <2> HIDE DEF b
  <2> QED
    BY <1>2, <2>1, <2>2 DEF HasDuplicate
<1>6. \A i \in 1..Len(b) : /\ b[i] \notin ReservedMountPaths /\ (s.workspace # None => b[i] # wp)
                           /\ ~Inside(b[i], CredentialsPath)
  <2> HIDE DEF b, wp
  <2> QED
    BY <1>2, SpecFacts DEF wp
<1>7. ~HasDuplicate(c) /\ \A i \in 1..Len(c) : Inside(c[i], CredentialsPath)
  <2> HIDE DEF c
  <2> QED
    BY <1>3, CredPathsApart DEF HasDuplicate, NoneTwice
<1>8. DirsIn(Pod(s, git, mod, creds).mounts) = (a \o b) \o c
  <2>1. Pod(s, git, mod, creds).mounts = (W \o SpecMounts(s)) \o CredMounts(creds)
    BY DEF Pod
  <2>2. W \in Seq(MountEntry) /\ SpecMounts(s) \in Seq(MountEntry) /\ CredMounts(creds) \in Seq(MountEntry)
    BY OwnTypes, SpecTypes, CredTypes
  <2> HIDE DEF W, Inputs, ValidInputs
  <2>3. W \o SpecMounts(s) \in Seq(MountEntry)
    BY <2>2, ConcatProperties
  <2>4. DirsIn((W \o SpecMounts(s)) \o CredMounts(creds)) = DirsIn(W \o SpecMounts(s)) \o c
    BY <2>2, <2>3, DirsConcat
  <2>5. DirsIn(W \o SpecMounts(s)) = a \o b
    BY <2>2, DirsConcat
  <2> QED
    BY <2>1, <2>4, <2>5, Zenon
<1> HIDE DEF a, b, c
<1>9. ~HasDuplicate(a \o b) /\ a \o b \in Seq(Paths)
  <2>1. \A i \in 1..Len(a) : \A j \in 1..Len(b) : a[i] # b[j]
    BY <1>4, <1>6
  <2> QED
    BY <2>1, <1>1, <1>2, <1>4, <1>5, DistinctConcat, ConcatProperties
<1>10. ASSUME NEW i \in 1..Len(a \o b), NEW j \in 1..Len(c) PROVE (a \o b)[i] # c[j]
  <2>2. \/ \E k \in 1..Len(a) : (a \o b)[i] = a[k]
        \/ \E k \in 1..Len(b) : (a \o b)[i] = b[k]
    BY <1>1, <1>2, ConcatElement
  <2> QED
    BY <2>2, <1>4, <1>6, <1>7
<1>11. ~HasDuplicate((a \o b) \o c)
  BY <1>3, <1>7, <1>9, <1>10, DistinctConcat
<1> QED
  BY <1>8, <1>11, Zenon

\* The Operator's mounts come first.
LEMMA OwnComeFirst ==
  ASSUME NEW s, NEW git, NEW mod, NEW creds, Inputs(s, git, mod, creds),
         NEW p, p = Pod(s, git, mod, creds), NEW W, W = OwnMounts(s, git, mod)
  PROVE  /\ p.mounts \in Seq(MountEntry) /\ p.volumes \in Seq(VolumeEntry)
         /\ Len(p.mounts) = Len(p.volumes)
         /\ \A i \in 1..Len(p.mounts) : p.mounts[i].name = p.volumes[i].name
         /\ Len(W) \in Nat /\ Len(W) <= Len(p.mounts)
         /\ \A i \in 1..Len(W) : p.mounts[i] = W[i]
         /\ \A i \in 1..Len(p.mounts) :
              \/ i <= Len(W)
              \/ \E j \in 1..Len(s.runtime.volumes) : p.mounts[i].name = s.runtime.volumes[j].name
              \/ \E j \in 1..Len(creds) : p.mounts[i].name = CredentialVolume(creds[j].name)
         /\ creds # <<>> => \E i \in 1..Len(p.mounts) : p.mounts[i].name = CredentialVolume(creds[1].name)
<1> USE DEF Inputs
<1> DEFINE U == SpecMounts(s)
           C == CredMounts(creds)
<1>1. p.mounts \in Seq(MountEntry) /\ p.volumes \in Seq(VolumeEntry)
  BY PodType DEF Deployments
<1>2. NamesIn(p.mounts) = NamesIn(p.volumes)
  BY SameNames
<1>3. /\ Len(p.mounts) = Len(p.volumes)
      /\ \A i \in 1..Len(p.mounts) : p.mounts[i].name = p.volumes[i].name
  <2>1. \A x \in MountEntry : x.name \in VolumeName
    BY DEF MountEntry
  <2>2. \A x \in VolumeEntry : x.name \in VolumeName
    BY DEF VolumeEntry
  <2>3. /\ Len(NamesIn(p.mounts)) = Len(p.mounts)
        /\ \A i \in 1..Len(p.mounts) : NamesIn(p.mounts)[i] = p.mounts[i].name
    BY <1>1, <2>1, NamesInFacts
  <2>4. /\ Len(NamesIn(p.volumes)) = Len(p.volumes)
        /\ \A i \in 1..Len(p.volumes) : NamesIn(p.volumes)[i] = p.volumes[i].name
    BY <1>1, <2>2, NamesInFacts
  <2> QED
    BY <1>2, <2>3, <2>4
<1>4. p.mounts = (W \o U) \o C
  BY DEF Pod
<1>5. W \in Seq(MountEntry) /\ U \in Seq(MountEntry) /\ C \in Seq(MountEntry)
  BY OwnTypes, SpecTypes, CredTypes
<1>6. /\ \A j \in 1..Len(U) : U[j].name = s.runtime.volumes[j].name
      /\ Len(U) = Len(s.runtime.volumes)
      /\ \A j \in 1..Len(C) : C[j].name = CredentialVolume(creds[j].name)
      /\ Len(C) = Len(creds)
  BY SpecTypes, CredTypes, MountFields
<1> HIDE DEF U, C
<1>7. /\ W \o U \in Seq(MountEntry) /\ Len(W \o U) = Len(W) + Len(U)
      /\ \A i \in 1..Len(W) + Len(U) : (W \o U)[i] = IF i <= Len(W) THEN W[i] ELSE U[i - Len(W)]
  BY <1>5, ConcatProperties
<1> DEFINE X == W \o U
<1>8. /\ Len(p.mounts) = Len(X) + Len(C)
      /\ \A i \in 1..Len(X) + Len(C) : p.mounts[i] = IF i <= Len(X) THEN X[i] ELSE C[i - Len(X)]
  <2> HIDE DEF X
  <2>1. p.mounts = X \o C /\ X \in Seq(MountEntry)
    BY <1>4, <1>7 DEF X
  <2>2. /\ Len(X \o C) = Len(X) + Len(C)
        /\ \A i \in 1..Len(X) + Len(C) : (X \o C)[i] = IF i <= Len(X) THEN X[i] ELSE C[i - Len(X)]
    BY <2>1, <1>5, ConcatProperties
  <2> QED
    BY <2>1, <2>2
<1>9. Len(X) = Len(W) + Len(U)
      /\ \A i \in 1..Len(W) + Len(U) : X[i] = IF i <= Len(W) THEN W[i] ELSE U[i - Len(W)]
  BY <1>7
<1> HIDE DEF X
<1>10. Len(W) \in Nat /\ Len(U) \in Nat /\ Len(C) \in Nat
  BY <1>5
<1>11. Len(W) <= Len(p.mounts) /\ \A i \in 1..Len(W) : p.mounts[i] = W[i]
  BY <1>8, <1>9, <1>10
<1>12. ASSUME NEW i \in 1..Len(p.mounts), ~(i <= Len(W))
       PROVE  \/ \E j \in 1..Len(s.runtime.volumes) : p.mounts[i].name = s.runtime.volumes[j].name
              \/ \E j \in 1..Len(creds) : p.mounts[i].name = CredentialVolume(creds[j].name)
  <2>1. CASE i <= Len(X)
    <3>1. i - Len(W) \in 1..Len(U) /\ p.mounts[i] = U[i - Len(W)]
      <4>1. i \in 1..Len(X) + Len(C) /\ i \in 1..Len(W) + Len(U) /\ i - Len(W) \in 1..Len(U)
        BY <1>8, <1>9, <1>10, <1>12, <2>1
      <4>2. p.mounts[i] = X[i]
        BY <4>1, <1>8, <2>1
      <4>3. X[i] = U[i - Len(W)]
        BY <4>1, <1>9, <1>12
      <4> QED
        BY <4>1, <4>2, <4>3
    <3> QED
      BY <3>1, <1>6
  <2>2. CASE ~(i <= Len(X))
    <3>1. i - Len(X) \in 1..Len(C) /\ p.mounts[i] = C[i - Len(X)]
      <4>1. i \in 1..Len(X) + Len(C) /\ i - Len(X) \in 1..Len(C)
        BY <1>8, <1>9, <1>10, <2>2
      <4> QED
        BY <4>1, <1>8, <2>2
    <3> QED
      BY <3>1, <1>6
  <2> QED
    BY <2>1, <2>2
<1>13. ASSUME creds # <<>>
       PROVE  \E i \in 1..Len(p.mounts) : p.mounts[i].name = CredentialVolume(creds[1].name)
  <2>1. Len(C) >= 1
    BY <1>6, <1>10, <1>13, EmptySeq
  <2>2. Len(X) + 1 \in 1..Len(p.mounts) /\ p.mounts[Len(X) + 1] = C[1]
    BY <2>1, <1>8, <1>9, <1>10
  <2> QED
    BY <2>1, <2>2, <1>6, <1>10
<1> QED
  BY <1>1, <1>3, <1>10, <1>11, <1>12, <1>13

\* A mount is found by its name.
LEMMA PathOfMount ==
  ASSUME NEW s, NEW git, NEW mod, NEW creds, ValidInputs(s, git, mod, creds),
         NEW p, p = Pod(s, git, mod, creds), NEW i \in 1..Len(p.mounts)
  PROVE  PathOf(p, p.mounts[i].name) = p.mounts[i].mountPath
<1>0. Inputs(s, git, mod, creds)
  BY DEF ValidInputs
<1>1. /\ p.volumes \in Seq(VolumeEntry) /\ Len(p.mounts) = Len(p.volumes)
      /\ \A j \in 1..Len(p.mounts) : p.mounts[j].name = p.volumes[j].name
  BY <1>0, OwnComeFirst
<1>2. \A j, k \in 1..Len(p.volumes) : j < k => p.volumes[j].name # p.volumes[k].name
  <2>1. ~HasDuplicate(NamesIn(p.volumes))
    BY PodNamesDiffer
  <2>2. \A x \in VolumeEntry : x.name \in VolumeName
    BY DEF VolumeEntry
  <2>3. /\ Len(NamesIn(p.volumes)) = Len(p.volumes)
        /\ \A j \in 1..Len(p.volumes) : NamesIn(p.volumes)[j] = p.volumes[j].name
    BY <1>1, <2>2, NamesInFacts
  <2> QED
    BY <2>1, <2>3 DEF HasDuplicate
<1>3. Len(p.volumes) \in Nat
  BY <1>1
<1>4. \A j \in 1..Len(p.mounts) : p.mounts[j].name = p.mounts[i].name => j = i
  BY <1>1, <1>2, <1>3
<1> DEFINE k == CHOOSE j \in 1..Len(p.mounts) : p.mounts[j].name = p.mounts[i].name
<1>5. k = i
  BY <1>4
<1> QED
  BY <1>5 DEF PathOf

\* The volumes with the Operator's names are the Operator's.
LEMMA OwnVolumesOnly ==
  ASSUME NEW s, NEW git, NEW mod, NEW creds, ValidInputs(s, git, mod, creds),
         NEW p, p = Pod(s, git, mod, creds), NEW W, W = OwnMounts(s, git, mod),
         NEW n \in ReservedVolumeNames
  PROVE  HasVolume(p, n) <=> \E i \in 1..Len(W) : W[i].name = n
<1>0. Inputs(s, git, mod, creds) /\ s \in Specs /\ Validate(s) /\ s \in AgentSpec /\ s.runtime # None
  BY DEF ValidInputs, Inputs
<1>1. /\ Len(p.mounts) = Len(p.volumes) /\ Len(p.mounts) \in Nat
      /\ \A j \in 1..Len(p.mounts) : p.mounts[j].name = p.volumes[j].name
      /\ Len(W) \in Nat /\ Len(W) <= Len(p.mounts)
      /\ \A i \in 1..Len(W) : p.mounts[i] = W[i]
      /\ \A i \in 1..Len(p.mounts) :
           \/ i <= Len(W)
           \/ \E j \in 1..Len(s.runtime.volumes) : p.mounts[i].name = s.runtime.volumes[j].name
           \/ \E j \in 1..Len(creds) : p.mounts[i].name = CredentialVolume(creds[j].name)
  <2>1. p.mounts \in Seq(MountEntry)
    BY <1>0, OwnComeFirst
  <2>2. Len(p.mounts) \in Nat
    BY <2>1
  <2>3. /\ Len(p.mounts) = Len(p.volumes)
        /\ \A j \in 1..Len(p.mounts) : p.mounts[j].name = p.volumes[j].name
        /\ Len(W) \in Nat /\ Len(W) <= Len(p.mounts)
        /\ \A i \in 1..Len(W) : p.mounts[i] = W[i]
    BY <1>0, OwnComeFirst
  <2>4. \A i \in 1..Len(p.mounts) :
           \/ i <= Len(W)
           \/ \E j \in 1..Len(s.runtime.volumes) : p.mounts[i].name = s.runtime.volumes[j].name
           \/ \E j \in 1..Len(creds) : p.mounts[i].name = CredentialVolume(creds[j].name)
    BY <1>0, OwnComeFirst
  <2> QED
    BY <2>2, <2>3, <2>4, Zenon
<1>2. ASSUME NEW i \in 1..Len(p.volumes), p.volumes[i].name = n
      PROVE  \E j \in 1..Len(W) : W[j].name = n
  <2>1. i \in 1..Len(p.mounts) /\ p.mounts[i].name = n
    BY <1>1, <1>2
  <2>2. ~\E j \in 1..Len(s.runtime.volumes) : p.mounts[i].name = s.runtime.volumes[j].name
    BY <1>0, <2>1, SpecFacts
  <2>3. ~\E j \in 1..Len(creds) : p.mounts[i].name = CredentialVolume(creds[j].name)
    BY <2>1, NamesApart
  <2>4. i \in 1..Len(W)
    <3>1. i <= Len(W)
      BY <1>1, <2>1, <2>2, <2>3
    <3> QED
      BY <1>1, <2>1, <3>1
  <2> QED
    BY <1>1, <2>1, <2>4
<1>3. ASSUME NEW i \in 1..Len(W), W[i].name = n
      PROVE  \E j \in 1..Len(p.volumes) : p.volumes[j].name = n
  BY <1>1, <1>3
<1> QED
  BY <1>2, <1>3 DEF HasVolume

\* The working directory's part in a pod.
LEMMA WorkspacePart ==
  ASSUME NEW s, NEW git, NEW mod, NEW creds, ValidInputs(s, git, mod, creds),
         NEW p, p = Pod(s, git, mod, creds)
  PROVE  /\ HasVolume(p, Volume("workspace")) <=> s.workspace # None
         /\ s.workspace # None =>
              /\ PathOf(p, Volume("workspace")) = WorkspaceMountPath(s.workspace)
              /\ HasVolume(p, Volume("git-credential")) <=> git # None
              /\ git # None => PathOf(p, Volume("git-credential")) = GitPath
         /\ s.workspace = None => ~HasVolume(p, Volume("git-credential"))
<1> DEFINE W == OwnMounts(s, git, mod)
<1>0. Inputs(s, git, mod, creds)
  BY DEF ValidInputs
<1>1. Volume("workspace") \in ReservedVolumeNames /\ Volume("git-credential") \in ReservedVolumeNames
  BY DEF ReservedVolumeNames
<1>2. /\ HasVolume(p, Volume("workspace")) <=> \E i \in 1..Len(W) : W[i].name = Volume("workspace")
      /\ HasVolume(p, Volume("git-credential")) <=>
           \E i \in 1..Len(W) : W[i].name = Volume("git-credential")
  BY <1>1, OwnVolumesOnly
<1>3. CASE s.workspace = None
  <2>1. W = <<>>
    BY <1>3 DEF OwnMounts, Optional
  <2> QED
    BY <1>2, <1>3, <2>1
<1>4. CASE s.workspace # None
  <2>1. /\ Len(W) \in 2..4
        /\ W[1] = Mount(Volume("workspace"), WorkspaceMountPath(s.workspace))
        /\ \A i \in 1..Len(W) :
             W[i].name = Volume("git-credential") => W[i].mountPath = GitPath /\ git # None
        /\ git # None => \E i \in 1..Len(W) : W[i].name = Volume("git-credential")
    BY <1>4, OwnFacts
  <2>2. W[1].name = Volume("workspace") /\ W[1].mountPath = WorkspaceMountPath(s.workspace)
    BY <2>1, MountFields
  <2>3. /\ Len(W) <= Len(p.mounts) /\ Len(p.mounts) \in Nat
        /\ \A i \in 1..Len(W) : p.mounts[i] = W[i]
    BY <1>0, OwnComeFirst
  <2> HIDE DEF W
  <2>4. \A i \in 1..Len(W) : PathOf(p, W[i].name) = W[i].mountPath
    BY <2>1, <2>3, PathOfMount
  <2> QED
    BY <1>2, <1>4, <2>1, <2>2, <2>4
<1> QED
  BY <1>3, <1>4

\* What PodIsCoherent says of a pod, but for the claim.
Coherent(d) ==
  /\ ~HasDuplicate(NamesIn(d.volumes))
  /\ \/ ~HasDuplicate(DirsIn(d.mounts))
     \/ HasVolume(d, Volume("workspace")) /\ Unchecked(PathOf(d, Volume("workspace")))
  /\ Backed(d.mounts, d.volumes)
  /\ d.init # None => Backed(d.init.mounts, d.volumes)
  /\ HasVolume(d, Volume("workspace")) => d.replicas = 1 /\ d.strategy = "Recreate"

LEMMA InitMounts ==
  ASSUME NEW ws, NEW git, NEW c, c = CloneInitContainer(ws, git # None)
  PROVE  /\ git = None => c.mounts = <<WorkspaceMount(ws)>>
         /\ git # None => c.mounts = <<WorkspaceMount(ws), GitMount>>
         /\ c.env[1] = Var("AGENTPLANE_WORKSPACE", WorkspaceMountPath(ws))
<1> DEFINE w == WorkspaceMount(ws)
           g == GitMount
           e == Var("AGENTPLANE_WORKSPACE", WorkspaceMountPath(ws))
           f == Var("AGENTPLANE_GIT_CREDENTIAL_FILE", Under(GitPath, "token"))
<1>1. /\ c.mounts = <<w>> \o Optional(git # None, <<g>>)
      /\ c.env = <<e>> \o Optional(git # None, <<f>>)
  BY DEF CloneInitContainer, WorkspaceMount, GitMount
<1> HIDE DEF w, g, e, f
<1>2. CASE git = None
  <2>1. c.mounts = <<w>> \o <<>> /\ c.env = <<e>> \o <<>>
    BY <1>1, <1>2 DEF Optional
  <2>2. <<w>> \in Seq({w}) /\ <<e>> \in Seq({e})
    OBVIOUS
  <2>3. c.mounts = <<w>> /\ c.env = <<e>>
    BY <2>1, <2>2, ConcatEmptySeq
  <2> QED
    BY <1>2, <2>3 DEF w, g, e
<1>3. CASE git # None
  <2>1. c.mounts = <<w>> \o <<g>> /\ c.env = <<e>> \o <<f>>
    BY <1>1, <1>3 DEF Optional
  <2>2. c.mounts = <<w, g>> /\ c.env = <<e, f>>
    BY <2>1, TupleConcat, Zenon
  <2> QED
    BY <1>3, <2>2 DEF w, g, e
<1> QED
  BY <1>2, <1>3

\* The pod of a valid spec is coherent.
LEMMA PodCoherent ==
  ASSUME NEW s, NEW git, NEW mod, NEW creds, ValidInputs(s, git, mod, creds),
         NEW p, p = Pod(s, git, mod, creds)
  PROVE  Coherent(p)
<1>0. Inputs(s, git, mod, creds)
  BY DEF ValidInputs
<1>1. ~HasDuplicate(NamesIn(p.volumes))
  BY PodNamesDiffer
<1>2. /\ Len(p.mounts) = Len(p.volumes)
      /\ \A j \in 1..Len(p.mounts) : p.mounts[j].name = p.volumes[j].name
  BY <1>0, OwnComeFirst
<1>3. Backed(p.mounts, p.volumes)
  BY <1>2 DEF Backed
<1>4. CASE s.workspace = None
  <2>1. ~HasDuplicate(DirsIn(p.mounts)) /\ ~HasVolume(p, Volume("workspace"))
    BY <1>4, PodDirsDiffer, WorkspacePart
  <2>2. p.init = None
    BY <1>4 DEF Pod
  <2> QED
    BY <1>1, <1>3, <2>1, <2>2 DEF Coherent
<1>5. CASE s.workspace # None
  <2>1. /\ HasVolume(p, Volume("workspace"))
        /\ PathOf(p, Volume("workspace")) = WorkspaceMountPath(s.workspace)
        /\ git # None => HasVolume(p, Volume("git-credential"))
    BY <1>5, WorkspacePart
  <2>2. \/ ~HasDuplicate(DirsIn(p.mounts))
        \/ HasVolume(p, Volume("workspace")) /\ Unchecked(PathOf(p, Volume("workspace")))
    BY <2>1, PodDirsDiffer
  <2>3. p.replicas = 1 /\ p.strategy = "Recreate" /\ p.init = CloneInitContainer(s.workspace, git # None)
    BY <1>5 DEF Pod
  <2>4. Backed(p.init.mounts, p.volumes)
    <3>1. WorkspaceMount(s.workspace).name = Volume("workspace") /\ GitMount.name = Volume("git-credential")
      BY MountFields DEF WorkspaceMount, GitMount
    <3>2. \/ git = None /\ p.init.mounts = <<WorkspaceMount(s.workspace)>>
          \/ git # None /\ p.init.mounts = <<WorkspaceMount(s.workspace), GitMount>>
      <4> DEFINE c == p.init
      <4>1. c = CloneInitContainer(s.workspace, git # None)
        BY <2>3
      <4> HIDE DEF c
      <4>2. git = None => c.mounts = <<WorkspaceMount(s.workspace)>>
        BY <4>1, InitMounts
      <4>3. git # None => c.mounts = <<WorkspaceMount(s.workspace), GitMount>>
        BY <4>1, InitMounts
      <4> QED
        BY <4>2, <4>3 DEF c
    <3> QED
      BY <2>1, <3>1, <3>2 DEF Backed, HasVolume
  <2> QED
    BY <1>1, <1>3, <2>1, <2>2, <2>3, <2>4 DEF Coherent
<1> QED
  BY <1>4, <1>5

-----------------------------------------------------------------------------
(* The environment of a valid spec's pod.                                  *)

\* The last entry of a name has its value.
LEMMA ValueIsLast ==
  ASSUME NEW d, NEW n, d.env \in Seq(EnvEntry), NEW k \in 1..Len(d.env), d.env[k].name = n,
         \A j \in 1..Len(d.env) : j > k => d.env[j].name # n
  PROVE  Value(d, n) = d.env[k].value
<1>1. Len(d.env) \in Nat /\ k \in Nat
  OBVIOUS
<1>2. k \in Entries(d, n) /\ \A j \in Entries(d, n) : j \in Nat /\ j <= k
  BY <1>1 DEF Entries
<1> DEFINE i == CHOOSE i \in Entries(d, n) : \A j \in Entries(d, n) : j <= i
<1>3. i \in Entries(d, n) /\ \A j \in Entries(d, n) : j <= i
  BY <1>2
<1> HIDE DEF i
<1>4. i = k
  BY <1>1, <1>2, <1>3
<1> QED
  BY <1>2, <1>4 DEF Value, i

LEMMA NoValue ==
  ASSUME NEW d, NEW n, \A j \in 1..Len(d.env) : d.env[j].name # n
  PROVE  Value(d, n) = None
BY DEF Value, Entries

LEMMA VarFields == \A n, v : Var(n, v).name = n /\ Var(n, v).value = v
BY DEF Var

\* What the workspace adds to the environment: each variable once.
LEMMA OwnEnvFacts ==
  ASSUME NEW s \in AgentSpec, s.workspace # None, NEW git, NEW O, O = OwnEnv(s, git),
         O \in Seq(EnvEntry)
  PROVE  /\ Len(O) \in 4..6
         /\ O[1] = Var("AGENTPLANE_WORKSPACE", WorkspaceMountPath(s.workspace))
         /\ O[3] = Var("HOME", Home(s.workspace))
         /\ git # None => Len(O) \in 5..6 /\
              O[5] = Var("AGENTPLANE_GIT_CREDENTIAL_FILE", Under(GitPath, "token"))
         /\ \A i \in 1..Len(O) : /\ i # 1 => O[i].name # "AGENTPLANE_WORKSPACE"
                                 /\ i # 3 => O[i].name # "HOME"
                                 /\ i # 5 => O[i].name # "AGENTPLANE_GIT_CREDENTIAL_FILE"
                                 /\ O[i].name # "AGENTPLANE_CREDENTIALS_PATH"
<1> DEFINE ws == s.workspace
           v1 == Var("AGENTPLANE_WORKSPACE", WorkspaceMountPath(ws))
           v2 == Var("AGENTPLANE_AGENT_HOME", Home(ws))
           v3 == Var("HOME", Home(ws))
           v4 == Var("XDG_CONFIG_HOME", Under(Home(ws), ".config"))
           v5 == Var("AGENTPLANE_GIT_CREDENTIAL_FILE", Under(GitPath, "token"))
           v6 == Var("GIT_CONFIG_VALUE_0", WorkspaceMountPath(ws))
           G  == Optional(git # None, <<v5>>)
           R  == Optional(ws.repository # None, <<v6>>)
           Q  == <<v1, v2, v3, v4>>
           T  == {v1, v2, v3, v4, v5, v6}
<1>1. O = (Q \o G) \o R
  <2>1. O = WorkspaceEnv(ws, git)
    BY DEF OwnEnv, Optional
  <2> QED
    BY <2>1, Zenon DEF WorkspaceEnv
<1>2. /\ v1.name = "AGENTPLANE_WORKSPACE" /\ v2.name = "AGENTPLANE_AGENT_HOME" /\ v3.name = "HOME"
      /\ v4.name = "XDG_CONFIG_HOME" /\ v5.name = "AGENTPLANE_GIT_CREDENTIAL_FILE"
      /\ v6.name = "GIT_CONFIG_VALUE_0"
  BY VarFields
<1> HIDE DEF v1, v2, v3, v4, v5, v6
<1>3. /\ Q \in Seq(T) /\ G \in Seq(T) /\ R \in Seq(T) /\ Len(Q) = 4
      /\ Q[1] = v1 /\ Q[2] = v2 /\ Q[3] = v3 /\ Q[4] = v4
      /\ \/ git # None /\ Len(G) = 1 /\ G[1] = v5
         \/ git = None /\ Len(G) = 0
      /\ \/ Len(R) = 1 /\ R[1] = v6
         \/ Len(R) = 0
  <2>1. /\ Q \in Seq(T) /\ Len(Q) = 4
        /\ Q[1] = v1 /\ Q[2] = v2 /\ Q[3] = v3 /\ Q[4] = v4
    OBVIOUS
  <2>2. <<v5>> \in Seq(T) /\ <<v6>> \in Seq(T) /\ <<>> \in Seq(T)
        /\ Len(<<v5>>) = 1 /\ <<v5>>[1] = v5 /\ Len(<<v6>>) = 1 /\ <<v6>>[1] = v6 /\ Len(<<>>) = 0
    OBVIOUS
  <2>3. (git # None /\ G = <<v5>>) \/ (git = None /\ G = <<>>)
    BY Zenon DEF Optional
  <2>4. R = <<v6>> \/ R = <<>>
    BY Zenon DEF Optional
  <2> HIDE DEF Q, G, R, T
  <2>5. /\ G \in Seq(T)
        /\ \/ git # None /\ Len(G) = 1 /\ G[1] = v5
           \/ git = None /\ Len(G) = 0
    BY <2>2, <2>3
  <2>6. /\ R \in Seq(T)
        /\ \/ Len(R) = 1 /\ R[1] = v6
           \/ Len(R) = 0
    BY <2>2, <2>4
  <2> QED
    BY <2>1, <2>5, <2>6, Zenon
<1> HIDE DEF Q, G, R, T
<1>4. /\ Q \o G \in Seq(T) /\ Len(Q \o G) = Len(Q) + Len(G)
      /\ \A i \in 1..Len(Q) + Len(G) : (Q \o G)[i] = IF i <= Len(Q) THEN Q[i] ELSE G[i - Len(Q)]
  <2>1. Q \in Seq(T) /\ G \in Seq(T)
    BY <1>3
  <2> QED
    BY <2>1, ConcatProperties
<1> DEFINE X == Q \o G
<1>5. /\ X \in Seq(T) /\ Len(X) = 4 + Len(G)
      /\ \A i \in 1..4 + Len(G) : X[i] = IF i <= 4 THEN Q[i] ELSE G[i - 4]
  <2> HIDE DEF X
  <2>1. Len(Q) = 4
    BY <1>3
  <2> QED
    BY <1>4, <2>1 DEF X
<1>6. O = X \o R
  BY <1>1
<1> HIDE DEF X
<1>7. /\ Len(O) = Len(X) + Len(R)
      /\ \A i \in 1..Len(X) + Len(R) : O[i] = IF i <= Len(X) THEN X[i] ELSE R[i - Len(X)]
  <2>1. X \in Seq(T) /\ R \in Seq(T)
    BY <1>3, <1>5
  <2> QED
    BY <2>1, <1>6, ConcatProperties
<1>8. Len(G) \in 0..1 /\ Len(R) \in 0..1
  BY <1>3
<1>9. Len(O) = 4 + Len(G) + Len(R) /\ Len(O) \in 4..6
  BY <1>5, <1>7, <1>8
<1>10. O[1] = v1 /\ O[2] = v2 /\ O[3] = v3 /\ O[4] = v4
  BY <1>3, <1>5, <1>7, <1>8
<1>11. git # None => Len(O) \in 5..6 /\ O[5] = v5
  BY <1>3, <1>5, <1>7, <1>8, <1>9
<1>12. Len(O) >= 5 => O[5] = v5 \/ O[5] = v6
  BY <1>3, <1>5, <1>7, <1>8, <1>9
<1>13. Len(O) = 6 => O[6] = v6
  <2>0. SUFFICES ASSUME Len(O) = 6 PROVE O[6] = v6
    OBVIOUS
  <2>1. Len(G) = 1 /\ Len(R) = 1 /\ Len(X) = 5 /\ R[1] = v6
    <3>1. Len(G) = 1 /\ Len(R) = 1
      <4> DEFINE m == Len(G)
                 n == Len(R)
      <4>1. 6 = 4 + m + n /\ m \in 0..1 /\ n \in 0..1
        BY <1>8, <1>9, <2>0
      <4> HIDE DEF m, n
      <4>2. m = 1 /\ n = 1
        BY <4>1
      <4> QED
        BY <4>2 DEF m, n
    <3>2. Len(X) = 5
      BY <1>5, <3>1
    <3>3. R[1] = v6
      BY <1>3, <3>1
    <3> QED
      BY <3>1, <3>2, <3>3
  <2>2. 6 \in 1..Len(X) + Len(R) /\ ~(6 <= Len(X)) /\ 6 - Len(X) = 1
    BY <2>1
  <2>3. O[6] = R[6 - Len(X)]
    BY <1>7, <2>2
  <2> QED
    BY <2>1, <2>2, <2>3
<1>14. \A i \in 1..Len(O) : i = 1 \/ i = 2 \/ i = 3 \/ i = 4 \/ (i = 5 /\ Len(O) >= 5) \/ (i = 6 /\ Len(O) = 6)
  BY <1>9
<1>15. \A i \in 1..Len(O) : /\ i # 1 => O[i].name # "AGENTPLANE_WORKSPACE"
                            /\ i # 3 => O[i].name # "HOME"
                            /\ i # 5 => O[i].name # "AGENTPLANE_GIT_CREDENTIAL_FILE"
                            /\ O[i].name # "AGENTPLANE_CREDENTIALS_PATH"
  BY <1>2, <1>10, <1>12, <1>13, <1>14
<1> QED
  BY <1>9, <1>10, <1>11, <1>15 DEF v1, v3, v5

\* What EnvNamesMounts says of a pod.
EnvAgrees(d) ==
  LET At(n) == PathOf(d, Volume(n)) IN
  /\ HasVolume(d, Volume("workspace")) =>
       /\ Value(d, "AGENTPLANE_WORKSPACE") = At("workspace")
       /\ Value(d, "HOME") = Under(At("workspace"), ".agent-home")
       /\ d.init.env[1].value = At("workspace")
  /\ HasVolume(d, Volume("git-credential")) =>
       /\ Value(d, "AGENTPLANE_GIT_CREDENTIAL_FILE") = Under(At("git-credential"), "token")
       /\ Len(d.init.mounts) = 2
  /\ Value(d, "AGENTPLANE_CREDENTIALS_PATH") =
       IF \E c \in Credentials : HasVolume(d, CredentialVolume(c))
       THEN CredentialsPath ELSE None

\* The pod's environment: first what is not the workspace's, last the Credentials'.
EnvParts(e, a, O, creds) ==
  /\ e \in Seq(EnvEntry) /\ O \in Seq(EnvEntry) /\ a \in Nat
  /\ Len(e) = a + Len(O) + Len(CredEnv(creds))
  /\ \A i \in 1..Len(O) : e[a + i] = O[i]
  /\ \A i \in 1..a : e[i].name # "AGENTPLANE_CREDENTIALS_PATH"
  /\ creds = <<>> => Len(CredEnv(creds)) = 0
  /\ creds # <<>> =>
       /\ Len(CredEnv(creds)) = 1
       /\ e[a + Len(O) + 1] = Var("AGENTPLANE_CREDENTIALS_PATH", CredentialsPath)

LEMMA PodEnvParts ==
  ASSUME NEW s, NEW git, NEW mod, NEW creds, Inputs(s, git, mod, creds), Validate(s)
  PROVE  EnvParts(Pod(s, git, mod, creds).env, Len(s.runtime.env) + 2, OwnEnv(s, git), creds)
<1> USE DEF Inputs
<1> DEFINE p == Pod(s, git, mod, creds)
           O == OwnEnv(s, git)
           a == Len(s.runtime.env) + 2
           e == s.runtime.env
           I == InjectedEnv
           C == CredEnv(creds)
           A == I \o e
           B == A \o O
<1>1. p.env = B \o C
  BY DEF Pod
<1>2. O \in Seq(EnvEntry) /\ e \in Seq(EnvEntry) /\ I \in Seq(EnvEntry) /\ Len(I) = 2 /\ C \in Seq(EnvEntry)
  BY OwnTypes, RuntimeType, InjectedType, CredTypes
<1>3. I[1].name = "AGENTPLANE_REGISTRY" /\ I[2].name = "AGENTPLANE_AGENT_NAME"
  BY VarFields DEF InjectedEnv
<1>4. \A i \in 1..Len(e) : e[i].name # "AGENTPLANE_CREDENTIALS_PATH"
  BY DEF Validate, ValidateRuntimeEnv, ReservedRuntimeEnv
<1>5. /\ creds = <<>> => Len(C) = 0
      /\ creds # <<>> => Len(C) = 1 /\ C[1] = Var("AGENTPLANE_CREDENTIALS_PATH", CredentialsPath)
  BY DEF CredEnv, Optional
<1> HIDE DEF Inputs, e, I, C, p, O, a
<1>6. /\ A \in Seq(EnvEntry) /\ Len(A) = Len(I) + Len(e)
      /\ \A i \in 1..Len(I) + Len(e) : A[i] = IF i <= Len(I) THEN I[i] ELSE e[i - Len(I)]
  <2>1. I \in Seq(EnvEntry) /\ e \in Seq(EnvEntry)
    BY <1>2
  <2> QED
    BY <2>1, ConcatProperties
<1> HIDE DEF A
<1>7. /\ B \in Seq(EnvEntry) /\ Len(B) = Len(A) + Len(O)
      /\ \A i \in 1..Len(A) + Len(O) : B[i] = IF i <= Len(A) THEN A[i] ELSE O[i - Len(A)]
  <2>1. A \in Seq(EnvEntry) /\ O \in Seq(EnvEntry)
    BY <1>2, <1>6
  <2> QED
    BY <2>1, ConcatProperties
<1> HIDE DEF B
<1>8. /\ p.env \in Seq(EnvEntry) /\ Len(p.env) = Len(B) + Len(C)
      /\ \A i \in 1..Len(B) + Len(C) : p.env[i] = IF i <= Len(B) THEN B[i] ELSE C[i - Len(B)]
  <2>1. B \in Seq(EnvEntry) /\ C \in Seq(EnvEntry)
    BY <1>2, <1>7
  <2>2. /\ B \o C \in Seq(EnvEntry) /\ Len(B \o C) = Len(B) + Len(C)
        /\ \A i \in 1..Len(B) + Len(C) : (B \o C)[i] = IF i <= Len(B) THEN B[i] ELSE C[i - Len(B)]
    BY <2>1, ConcatProperties
  <2> QED
    BY <1>1, <2>2
<1>9. Len(e) \in Nat /\ Len(O) \in Nat /\ Len(C) \in Nat
  BY <1>2
<1>10. a \in Nat /\ Len(A) = a /\ a = Len(e) + 2 /\ Len(B) = a + Len(O)
  BY <1>2, <1>6, <1>7, <1>9 DEF e, a
<1>11. ASSUME NEW i \in 1..Len(O) PROVE p.env[a + i] = O[i]
  <2>1. a + i \in 1..Len(B) + Len(C) /\ a + i <= Len(B) /\ a + i \in 1..Len(A) + Len(O)
        /\ ~(a + i <= Len(A)) /\ (a + i) - Len(A) = i
    BY <1>9, <1>10
  <2>2. p.env[a + i] = B[a + i]
    BY <1>8, <2>1
  <2>3. B[a + i] = O[(a + i) - Len(A)]
    BY <1>7, <2>1
  <2> QED
    BY <2>1, <2>2, <2>3
<1>12. ASSUME NEW i \in 1..a PROVE p.env[i].name # "AGENTPLANE_CREDENTIALS_PATH"
  <2>1. i \in 1..Len(B) + Len(C) /\ i <= Len(B) /\ i \in 1..Len(A) + Len(O) /\ i <= Len(A)
        /\ i \in 1..Len(I) + Len(e)
    BY <1>2, <1>9, <1>10
  <2>2. p.env[i] = A[i]
    BY <1>7, <1>8, <2>1
  <2>3. CASE i <= 2
    <3>1. A[i] = I[i]
      BY <1>2, <1>6, <2>1, <2>3
    <3>2. i = 1 \/ i = 2
      BY <1>10, <2>3
    <3> QED
      BY <1>3, <2>2, <3>1, <3>2
  <2>4. CASE ~(i <= 2)
    <3>1. i - 2 \in 1..Len(e) /\ A[i] = e[i - 2]
      <4>1. ~(i <= Len(I)) /\ i - Len(I) = i - 2 /\ i - 2 \in 1..Len(e)
        BY <1>2, <1>9, <1>10, <2>4
      <4> QED
        BY <1>6, <2>1, <4>1
    <3> QED
      BY <1>4, <2>2, <3>1
  <2> QED
    BY <2>3, <2>4
<1>13. ASSUME creds # <<>>
       PROVE  /\ Len(C) = 1
              /\ p.env[a + Len(O) + 1] = Var("AGENTPLANE_CREDENTIALS_PATH", CredentialsPath)
  <2>1. Len(C) = 1 /\ C[1] = Var("AGENTPLANE_CREDENTIALS_PATH", CredentialsPath)
    BY <1>5, <1>13
  <2>2. /\ a + Len(O) + 1 \in 1..Len(B) + Len(C) /\ ~(a + Len(O) + 1 <= Len(B))
        /\ (a + Len(O) + 1) - Len(B) = 1
    <3> DEFINE k == Len(B)
               n == Len(C)
    <3>1. n = 1 /\ k \in Nat /\ k = a + Len(O)
      BY <1>9, <1>10, <2>1
    <3> HIDE DEF k, n
    <3>2. k + 1 \in 1..k + n /\ ~(k + 1 <= k) /\ (k + 1) - k = 1
      BY <3>1
    <3> QED
      BY <3>1, <3>2 DEF k, n
  <2>3. p.env[a + Len(O) + 1] = C[(a + Len(O) + 1) - Len(B)]
    BY <1>8, <2>2
  <2> QED
    BY <2>1, <2>2, <2>3
<1>14. Len(p.env) = a + Len(O) + Len(C)
  BY <1>8, <1>10
<1>15. EnvParts(p.env, a, O, creds)
  BY <1>2, <1>5, <1>8, <1>10, <1>11, <1>12, <1>13, <1>14 DEF C, EnvParts
<1> QED
  BY <1>15 DEF p, a, O

\* A variable of the workspace has the value the workspace gives it, whatever
\* the Agent's own environment says.
LEMMA OwnValue ==
  ASSUME NEW s, NEW git, NEW mod, NEW creds, Inputs(s, git, mod, creds), Validate(s),
         NEW p, p = Pod(s, git, mod, creds), NEW O, O = OwnEnv(s, git),
         NEW k \in 1..Len(O), NEW n, O[k].name = n, n # "AGENTPLANE_CREDENTIALS_PATH",
         \A j \in 1..Len(O) : j # k => O[j].name # n
  PROVE  Value(p, n) = O[k].value
<1> DEFINE a == Len(s.runtime.env) + 2
           b == Len(O)
           m == Len(CredEnv(creds))
<1>0. a = Len(s.runtime.env) + 2 /\ b = Len(O) /\ m = Len(CredEnv(creds))
  OBVIOUS
<1>2. k \in 1..b /\ \A j \in 1..b : j # k => O[j].name # n
  OBVIOUS
<1> HIDE DEF a, b, m
<1>1. /\ p.env \in Seq(EnvEntry) /\ a \in Nat /\ b \in Nat
      /\ Len(p.env) = a + b + m
      /\ \A i \in 1..b : p.env[a + i] = O[i]
      /\ creds = <<>> => m = 0
      /\ creds # <<>> =>
           m = 1 /\ p.env[a + b + 1] = Var("AGENTPLANE_CREDENTIALS_PATH", CredentialsPath)
  <2>1. EnvParts(p.env, a, O, creds)
    BY <1>0, PodEnvParts
  <2>2. b \in Nat
    BY <1>0, <2>1 DEF EnvParts
  <2> QED
    BY <1>0, <2>1, <2>2 DEF EnvParts
<1>3. m \in 0..1 /\ (m = 1 => p.env[a + b + 1].name # n)
  BY <1>1, VarFields
<1>4. a + k \in 1..Len(p.env) /\ p.env[a + k] = O[k]
  BY <1>1, <1>2, <1>3
<1>5. ASSUME NEW j \in 1..Len(p.env), j > a + k PROVE p.env[j].name # n
  <2>1. j \in Nat /\ j <= a + b + m
    BY <1>1, <1>3
  <2>2. CASE j <= a + b
    <3>1. j - a \in 1..b /\ j - a # k /\ a + (j - a) = j
      BY <1>1, <1>2, <1>5, <2>1, <2>2
    <3>2. p.env[a + (j - a)] = O[j - a] /\ O[j - a].name # n
      BY <1>1, <1>2, <3>1
    <3> QED
      BY <3>1, <3>2
  <2>3. CASE j > a + b
    <3>1. m = 1 /\ j = a + b + 1
      BY <1>1, <1>3, <2>1, <2>3
    <3> QED
      BY <1>3, <3>1
  <2> QED
    BY <1>1, <2>1, <2>2, <2>3
<1>6. Value(p, n) = p.env[a + k].value
  BY <1>1, <1>4, <1>5, ValueIsLast
<1> QED
  BY <1>4, <1>6

\* The environment names the Credentials' directory where there are Credentials.
LEMMA CredentialsValue ==
  ASSUME NEW s, NEW git, NEW mod, NEW creds, Inputs(s, git, mod, creds), Validate(s),
         NEW p, p = Pod(s, git, mod, creds)
  PROVE  Value(p, "AGENTPLANE_CREDENTIALS_PATH") = IF creds # <<>> THEN CredentialsPath ELSE None
<1> DEFINE O == OwnEnv(s, git)
           a == Len(s.runtime.env) + 2
           b == Len(O)
           m == Len(CredEnv(creds))
<1> HIDE DEF a, b, m, O
<1>0. O = OwnEnv(s, git) /\ a = Len(s.runtime.env) + 2 /\ b = Len(O) /\ m = Len(CredEnv(creds))
  BY DEF O, a, b, m
<1>1. /\ p.env \in Seq(EnvEntry) /\ O \in Seq(EnvEntry) /\ a \in Nat /\ b \in Nat
      /\ Len(p.env) = a + b + m
      /\ \A i \in 1..b : p.env[a + i] = O[i]
      /\ \A i \in 1..a : p.env[i].name # "AGENTPLANE_CREDENTIALS_PATH"
      /\ creds = <<>> => m = 0
      /\ creds # <<>> =>
           m = 1 /\ p.env[a + b + 1] = Var("AGENTPLANE_CREDENTIALS_PATH", CredentialsPath)
  <2>1. EnvParts(p.env, a, O, creds)
    BY <1>0, PodEnvParts
  <2>2. b \in Nat
    BY <1>0, <2>1 DEF EnvParts
  <2> QED
    BY <1>0, <2>1, <2>2 DEF EnvParts
<1>2. \A i \in 1..b : O[i].name # "AGENTPLANE_CREDENTIALS_PATH"
  <2>1. CASE s.workspace = None
    <3>1. O = <<>> /\ b = 0
      BY <1>0, <2>1 DEF OwnEnv, Optional
    <3> QED
      BY <3>1
  <2>2. CASE s.workspace # None
    BY <1>0, <1>1, <2>2, OwnEnvFacts DEF Inputs
  <2> QED
    BY <2>1, <2>2
<1>3. \A i \in 1..(a + b) : p.env[i].name # "AGENTPLANE_CREDENTIALS_PATH"
  <2> TAKE i \in 1..(a + b)
  <2>1. i \in 1..a \/ (i - a \in 1..b /\ a + (i - a) = i)
    BY <1>1
  <2> QED
    BY <1>1, <1>2, <2>1
<1>4. CASE creds = <<>>
  <2>1. Len(p.env) = a + b
    BY <1>1, <1>4
  <2> QED
    BY <1>3, <1>4, <2>1, NoValue
<1>5. CASE creds # <<>>
  <2>1. Len(p.env) = a + b + 1 /\ a + b + 1 \in 1..Len(p.env)
        /\ \A j \in 1..Len(p.env) : ~(j > a + b + 1)
    BY <1>1, <1>5
  <2>2. /\ p.env[a + b + 1].name = "AGENTPLANE_CREDENTIALS_PATH"
        /\ p.env[a + b + 1].value = CredentialsPath
    BY <1>1, <1>5, VarFields
  <2>3. Value(p, "AGENTPLANE_CREDENTIALS_PATH") = p.env[a + b + 1].value
    BY <1>1, <2>1, <2>2, ValueIsLast
  <2> QED
    BY <1>5, <2>2, <2>3
<1> QED
  BY <1>4, <1>5

LEMMA CredentialsMounted ==
  ASSUME NEW s, NEW git, NEW mod, NEW creds, ValidInputs(s, git, mod, creds),
         NEW p, p = Pod(s, git, mod, creds)
  PROVE  (\E c \in Credentials : HasVolume(p, CredentialVolume(c))) <=> creds # <<>>
<1> DEFINE W == OwnMounts(s, git, mod)
<1> HIDE DEF W
<1>7. W = OwnMounts(s, git, mod)
  BY DEF W
<1>0. Inputs(s, git, mod, creds) /\ s \in Specs /\ Validate(s) /\ s \in AgentSpec /\ s.runtime # None
      /\ creds \in Seq(Resolved)
  BY DEF ValidInputs, Inputs
<1>1. /\ p.mounts \in Seq(MountEntry) /\ Len(p.mounts) = Len(p.volumes)
      /\ \A i \in 1..Len(p.mounts) : p.mounts[i].name = p.volumes[i].name
      /\ Len(W) \in Nat /\ Len(W) <= Len(p.mounts)
      /\ \A i \in 1..Len(W) : p.mounts[i] = W[i]
      /\ \A i \in 1..Len(p.mounts) :
           \/ i <= Len(W)
           \/ \E j \in 1..Len(s.runtime.volumes) : p.mounts[i].name = s.runtime.volumes[j].name
           \/ \E j \in 1..Len(creds) : p.mounts[i].name = CredentialVolume(creds[j].name)
      /\ creds # <<>> => \E i \in 1..Len(p.mounts) : p.mounts[i].name = CredentialVolume(creds[1].name)
  <2>1. p.mounts \in Seq(MountEntry)
    BY <1>0, <1>7, OwnComeFirst
  <2>2. /\ Len(p.mounts) = Len(p.volumes)
        /\ \A i \in 1..Len(p.mounts) : p.mounts[i].name = p.volumes[i].name
        /\ Len(W) \in Nat /\ Len(W) <= Len(p.mounts)
        /\ \A i \in 1..Len(W) : p.mounts[i] = W[i]
    BY <1>0, <1>7, OwnComeFirst
  <2>3. \A i \in 1..Len(p.mounts) :
           \/ i <= Len(W)
           \/ \E j \in 1..Len(s.runtime.volumes) : p.mounts[i].name = s.runtime.volumes[j].name
           \/ \E j \in 1..Len(creds) : p.mounts[i].name = CredentialVolume(creds[j].name)
    BY <1>0, <1>7, OwnComeFirst
  <2>4. creds # <<>> => \E i \in 1..Len(p.mounts) : p.mounts[i].name = CredentialVolume(creds[1].name)
    BY <1>0, <1>7, OwnComeFirst
  <2> QED
    BY <2>1, <2>2, <2>3, <2>4, Zenon
<1>2. ASSUME creds # <<>> PROVE \E c \in Credentials : HasVolume(p, CredentialVolume(c))
  <2>1. creds[1] \in Resolved
    BY <1>0, <1>2
  <2>2. creds[1].name \in Credentials
    BY <2>1 DEF Resolved
  <2>3. HasVolume(p, CredentialVolume(creds[1].name))
    BY <1>1, <1>2 DEF HasVolume
  <2> QED
    BY <2>2, <2>3
<1>3. ASSUME NEW c \in Credentials, HasVolume(p, CredentialVolume(c)), creds = <<>> PROVE FALSE
  <2>1. PICK i \in 1..Len(p.mounts) : p.mounts[i].name = CredentialVolume(c)
    BY <1>1, <1>3 DEF HasVolume
  <2>2. CASE i <= Len(W)
    <3>1. i \in 1..Len(W) /\ W[i].name = CredentialVolume(c)
      BY <1>1, <2>1, <2>2
    <3>2. s.workspace # None
      <4>1. s.workspace = None => W = <<>>
        BY <1>7 DEF OwnMounts, Optional
      <4> QED
        BY <3>1, <4>1
    <3>3. W[i].name \in ReservedVolumeNames
      <4> DEFINE V == OwnVolumes(s, git, mod)
      <4> HIDE DEF V
      <4>1. W = OwnMounts(s, git, mod) /\ V = OwnVolumes(s, git, mod)
        BY <1>7 DEF V
      <4>2. \A j \in 1..Len(W) : W[j].name \in ReservedVolumeNames
        BY <3>2, <4>1, OwnFacts
      <4> QED
        BY <3>1, <4>2
    <3> QED
      BY <3>1, <3>3, NamesApart
  <2>3. ASSUME NEW j \in 1..Len(s.runtime.volumes), p.mounts[i].name = s.runtime.volumes[j].name
        PROVE FALSE
    <3>1. s.runtime.volumes[j].name[1] # "credential-"
      BY <1>0, SpecFacts
    <3> QED
      BY <2>1, <2>3, <3>1, NamesApart
  <2>4. Len(creds) = 0
    BY <1>3
  <2> QED
    BY <1>1, <2>1, <2>2, <2>3, <2>4
<1> QED
  BY <1>2, <1>3

\* In the pod of a valid spec the environment names what is mounted.
LEMMA PodEnvAgrees ==
  ASSUME NEW s, NEW git, NEW mod, NEW creds, ValidInputs(s, git, mod, creds),
         NEW p, p = Pod(s, git, mod, creds)
  PROVE  EnvAgrees(p)
<1> DEFINE O == OwnEnv(s, git)
<1>0. Inputs(s, git, mod, creds) /\ Validate(s) /\ s \in AgentSpec /\ s.runtime # None
      /\ O \in Seq(EnvEntry)
  BY OwnTypes DEF ValidInputs, Inputs
<1>1. Value(p, "AGENTPLANE_CREDENTIALS_PATH") =
        IF \E c \in Credentials : HasVolume(p, CredentialVolume(c)) THEN CredentialsPath ELSE None
  BY <1>0, CredentialsValue, CredentialsMounted
<1>2. CASE s.workspace = None
  <2>1. ~HasVolume(p, Volume("workspace")) /\ ~HasVolume(p, Volume("git-credential"))
    BY <1>2, WorkspacePart
  <2> QED
    BY <1>1, <2>1 DEF EnvAgrees
<1>3. CASE s.workspace # None
  <2> DEFINE ws == s.workspace
  <2>1. /\ PathOf(p, Volume("workspace")) = WorkspaceMountPath(ws)
        /\ HasVolume(p, Volume("git-credential")) <=> git # None
        /\ git # None => PathOf(p, Volume("git-credential")) = GitPath
    BY <1>3, WorkspacePart
  <2> HIDE DEF O
  <2>2. O = OwnEnv(s, git)
    BY DEF O
  <2>3. /\ Len(O) \in 4..6
        /\ O[1] = Var("AGENTPLANE_WORKSPACE", WorkspaceMountPath(ws))
        /\ O[3] = Var("HOME", Home(ws))
        /\ git # None => Len(O) \in 5..6 /\
             O[5] = Var("AGENTPLANE_GIT_CREDENTIAL_FILE", Under(GitPath, "token"))
        /\ \A i \in 1..Len(O) : /\ i # 1 => O[i].name # "AGENTPLANE_WORKSPACE"
                                /\ i # 3 => O[i].name # "HOME"
                                /\ i # 5 => O[i].name # "AGENTPLANE_GIT_CREDENTIAL_FILE"
    BY <1>0, <1>3, <2>2, OwnEnvFacts
  <2>4. Value(p, "AGENTPLANE_WORKSPACE") = WorkspaceMountPath(ws)
    <3>1. 1 \in 1..Len(O) /\ O[1].name = "AGENTPLANE_WORKSPACE" /\ O[1].value = WorkspaceMountPath(ws)
      BY <2>3, VarFields
    <3> QED
      BY <1>0, <2>2, <2>3, <3>1, OwnValue
  <2>5. Value(p, "HOME") = Under(WorkspaceMountPath(ws), ".agent-home")
    <3>1. 3 \in 1..Len(O) /\ O[3].name = "HOME" /\ O[3].value = Home(ws)
      BY <2>3, VarFields
    <3>2. Value(p, "HOME") = Home(ws)
      BY <1>0, <2>2, <2>3, <3>1, OwnValue
    <3> QED
      BY <3>2 DEF Home
  <2>6. git # None => Value(p, "AGENTPLANE_GIT_CREDENTIAL_FILE") = Under(GitPath, "token")
    <3> SUFFICES ASSUME git # None
                 PROVE Value(p, "AGENTPLANE_GIT_CREDENTIAL_FILE") = Under(GitPath, "token")
      OBVIOUS
    <3>1. /\ 5 \in 1..Len(O) /\ O[5].name = "AGENTPLANE_GIT_CREDENTIAL_FILE"
          /\ O[5].value = Under(GitPath, "token")
      BY <2>3, VarFields
    <3> QED
      BY <1>0, <2>2, <2>3, <3>1, OwnValue
  <2>7. /\ p.init.env[1].value = WorkspaceMountPath(ws)
        /\ git # None => Len(p.init.mounts) = 2
    <3> DEFINE c == p.init
    <3>1. c = CloneInitContainer(ws, git # None)
      BY <1>3 DEF Pod
    <3> HIDE DEF c
    <3>2. /\ git # None => c.mounts = <<WorkspaceMount(ws), GitMount>>
          /\ c.env[1] = Var("AGENTPLANE_WORKSPACE", WorkspaceMountPath(ws))
      BY <3>1, InitMounts
    <3>3. git # None => Len(c.mounts) = 2
      BY <3>2
    <3>4. c.env[1].value = WorkspaceMountPath(ws)
      BY <3>2, VarFields
    <3> QED
      BY <3>3, <3>4 DEF c
  <2> QED
    BY <1>1, <2>1, <2>4, <2>5, <2>6, <2>7 DEF EnvAgrees
<1> QED
  BY <1>2, <1>3

-----------------------------------------------------------------------------
(* The Reconcile in progress.                                              *)

\* How many of the Credentials it names have been read.
Done(j) == Len(CredentialTargets(j.spec)) - Len(j.todo)

\* What is left to read is the rest of the list.
TodoFits(j) ==
  LET T == CredentialTargets(j.spec) IN
  /\ Len(j.todo) <= Len(T)
  /\ \A i \in 1..Len(j.todo) : j.todo[i] = T[Done(j) + i]

\* What was resolved is among what was read, in the order of the spec.
Collected(j) ==
  LET refs == j.spec.credentialRefs IN
  /\ Len(j.creds) <= Done(j) /\ Len(j.creds) <= Len(refs)
  /\ \A i \in 1..Len(j.creds) :
       \E p \in 1..Len(refs) : p <= Done(j) /\ refs[p] = j.creds[i].name
  /\ \A i, k \in 1..Len(j.creds) : \A p, q \in 1..Len(refs) :
       i < k /\ refs[p] = j.creds[i].name /\ refs[q] = j.creds[k].name => p < q

\* A Reconcile that is past a check has passed it.
Passed(j) ==
  /\ j.pc # "status" => Validate(j.spec)
  /\ j.pc \in {"model", "credential", "claim", "deployment", "service"} => j.spec.runtime # None
  /\ j.pc = "credential" => j.modelCredential # None
  /\ j.pc \in {"deployment", "service"} /\ j.spec.workspace # None => claim
  /\ j.pc # "refs" /\ Validate(j.spec) => j.todo = <<>>
  /\ j.materialized => j.pc = "status" /\ Validate(j.spec) /\ j.spec.runtime # None

\* A generation is an edit.
Counted == gen <= 1 + edits

JobInv == job # Idle => TodoFits(job) /\ Collected(job) /\ Passed(job)

\* The Deployment there is the pod of some valid spec.
PodInv ==
  deployment # None =>
    /\ Coherent(deployment)
    /\ EnvAgrees(deployment)
    /\ HasVolume(deployment, Volume("workspace")) => claim

\* A Reconcile that has read nothing stale, and written what it read.
Fresh(j) ==
  LET T    == CredentialTargets(spec)
      refs == spec.credentialRefs
  IN
  /\ j.spec = spec /\ j.gen = gen
  /\ \A c \in Credentials :
       c \in j.missing <=> \E p \in 1..Done(j) : T[p].name = c /\ ~Exists(c)
  /\ \A i \in 1..Len(j.creds) : j.creds[i].secret = credential[j.creds[i].name]
  /\ \A p \in 1..Len(refs) : p <= Done(j) /\ Exists(refs[p]) =>
       \E i \in 1..Len(j.creds) : j.creds[i].name = refs[p]
  /\ j.gitSecret = IF j.todo = <<>> THEN GitSecretNow ELSE None
  /\ j.pc = "service" \/ j.materialized =>
       deployment = Pod(spec, j.gitSecret, j.modelSecret, j.creds)
  /\ j.pc = "status" /\ Validate(spec) /\ ~j.materialized =>
       spec.runtime = None \/ (NeedsGit(spec) /\ j.gitSecret = None)

Deployable == spec.runtime # None /\ (NeedsGit(spec) => GitSecretNow # None)

\* What the Agent reports and runs is what its spec and its Credentials ask for.
StatusSettled ==
  /\ status.missing = {c \in TargetNames(spec) : ~Exists(c)}
  /\ status.reason = IF status.missing = {} THEN "Resolved" ELSE "ReferenceNotFound"
  /\ Deployable => status.claim = (spec.workspace # None)

PodSettled ==
  Deployable =>
    \E modelSecret \in Secrets \union {None} :
    \E creds \in UNION {[1..n -> Resolved] : n \in 0..Len(spec.credentialRefs)} :
      /\ AreCurrent(creds, spec.credentialRefs)
      /\ deployment = Pod(spec, GitSecretNow, modelSecret, creds)

Settled == Validate(spec) => StatusSettled /\ PodSettled

\* Nothing is overlooked: the Agent is queued, or its Reconcile takes everything
\* into account, or it already did.
Attended ==
  \/ "agent" \in queue
  \/ job # Idle /\ Fresh(job)
  \/ job = Idle /\ Settled

IndInv == TypeOK /\ Counted /\ JobInv /\ PodInv /\ Attended

-----------------------------------------------------------------------------
(* Facts about jobs.                                                       *)

\* The list of Credentials: the Agent's own, then the workspace's.
TargetParts(T, s) ==
  LET refs == s.credentialRefs IN
  /\ T \in Seq(Target) /\ refs \in Seq(Credentials)
  /\ Len(T) = Len(refs) + (IF NeedsGit(s) THEN 1 ELSE 0)
  /\ \A p \in 1..Len(refs) : T[p].name = refs[p] /\ T[p].git = FALSE
  /\ NeedsGit(s) => /\ T[Len(refs) + 1].name = s.workspace.credentialRef
                    /\ T[Len(refs) + 1].git = TRUE

LEMMA TargetFacts ==
  ASSUME NEW s \in AgentSpec
  PROVE  TargetParts(CredentialTargets(s), s)
<1> DEFINE refs == s.credentialRefs
           A == [i \in 1..Len(refs) |-> [name |-> refs[i], git |-> FALSE]]
           g == [name |-> s.workspace.credentialRef, git |-> TRUE]
           B == Optional(NeedsGit(s), <<g>>)
           T == CredentialTargets(s)
<1>1. T = A \o B
  BY DEF CredentialTargets, NeedsGit, Optional
<1>2. refs \in Seq(Credentials)
  BY DEF AgentSpec
<1>3. A \in Seq(Target) /\ Len(A) = Len(refs)
      /\ \A p \in 1..Len(refs) : A[p].name = refs[p] /\ A[p].git = FALSE
  <2>1. Len(refs) \in Nat /\ \A i \in 1..Len(refs) : refs[i] \in Credentials
    BY <1>2, ElementOfSeq
  <2>2. A \in [1..Len(refs) -> Target]
    BY <2>1 DEF Target
  <2>3. \A p \in 1..Len(refs) : A[p].name = refs[p] /\ A[p].git = FALSE
    OBVIOUS
  <2> HIDE DEF A
  <2>4. A \in Seq(Target) /\ Len(A) = Len(refs)
    BY <2>1, <2>2
  <2> QED
    BY <2>3, <2>4
<1>4. NeedsGit(s) => g \in Target
  BY DEF NeedsGit, AgentSpec, AgentWorkspaceSpec, Target
<1>5. g.name = s.workspace.credentialRef /\ g.git = TRUE
  OBVIOUS
<1> HIDE DEF A, g, T
<1>6. /\ B \in Seq(Target)
      /\ \/ NeedsGit(s) /\ Len(B) = 1 /\ B[1] = g
         \/ ~NeedsGit(s) /\ Len(B) = 0
  <2>1. CASE NeedsGit(s)
    <3>1. B = <<g>>
      BY <2>1 DEF Optional
    <3> HIDE DEF B
    <3> QED
      BY <1>4, <2>1, <3>1
  <2>2. CASE ~NeedsGit(s)
    <3>1. B = <<>>
      BY <2>2 DEF Optional
    <3> HIDE DEF B
    <3> QED
      BY <2>2, <3>1
  <2> QED
    BY <2>1, <2>2
<1> HIDE DEF B
<1>7. /\ T \in Seq(Target) /\ Len(T) = Len(A) + Len(B)
      /\ \A i \in 1..Len(A) + Len(B) : T[i] = IF i <= Len(A) THEN A[i] ELSE B[i - Len(A)]
  <2>1. A \in Seq(Target) /\ B \in Seq(Target)
    BY <1>3, <1>6
  <2> QED
    BY <1>1, <2>1, ConcatProperties
<1> DEFINE n == Len(refs)
           m == Len(B)
<1>8. n \in Nat /\ Len(A) = n
  BY <1>2, <1>3
<1> HIDE DEF n, m
<1>9. /\ Len(T) = n + m /\ m \in 0..1
      /\ \A i \in 1..(n + m) : T[i] = IF i <= n THEN A[i] ELSE B[i - n]
  BY <1>6, <1>7, <1>8 DEF m
<1>10. \A p \in 1..n : T[p].name = refs[p] /\ T[p].git = FALSE
  <2>1. \A p \in 1..n : T[p] = A[p]
    BY <1>8, <1>9
  <2> QED
    BY <1>3, <2>1 DEF n
<1>11. NeedsGit(s) => T[n + 1] = g /\ m = 1
  <2>1. NeedsGit(s) => m = 1 /\ B[1] = g
    BY <1>6 DEF m
  <2>2. NeedsGit(s) => T[n + 1] = B[(n + 1) - n]
    BY <1>8, <1>9, <2>1
  <2> QED
    BY <1>8, <2>1, <2>2
<1>12. ~NeedsGit(s) => m = 0
  BY <1>6 DEF m
<1> QED
  BY <1>2, <1>5, <1>7, <1>9, <1>10, <1>11, <1>12 DEF TargetParts, n, T

LEMMA JobTypes ==
  ASSUME NEW j \in Jobs
  PROVE  /\ j.pc \in {"refs", "model", "credential", "claim", "deployment", "service", "status"}
         /\ j.spec \in Specs /\ j.spec \in AgentSpec /\ j.gen \in Nat /\ j.todo \in Seq(Target)
         /\ j.creds \in Seq(Resolved) /\ j.missing \in SUBSET Credentials
         /\ j.gitSecret \in Secrets \union {None}
         /\ j.modelCredential \in Credentials \union {None}
         /\ j.modelSecret \in Secrets \union {None} /\ j.materialized \in BOOLEAN
         /\ j # Idle /\ j.pc # "idle"
BY PodBounds DEF Jobs, Idle

LEMMA IdleOrJob ==
  ASSUME TypeOK
  PROVE  /\ job = Idle <=> job.pc = "idle"
         /\ job.pc # "idle" => job \in Jobs
<1>1. Idle.pc = "idle"
  BY DEF Idle
<1>2. job \in Jobs \/ job = Idle
  BY DEF TypeOK
<1> QED
  BY <1>1, <1>2, JobTypes

\* The Credentials resolved so far are none twice.
LEMMA CollectedOnce ==
  ASSUME NEW j \in Jobs, Collected(j)
  PROVE  NoneTwice(j.creds)
<1> SUFFICES ASSUME NEW i \in 1..Len(j.creds), NEW k \in 1..Len(j.creds), i < k,
                    j.creds[i].name = j.creds[k].name
             PROVE  FALSE
  BY DEF NoneTwice
<1>1. j.spec.credentialRefs \in Seq(Credentials)
  BY JobTypes DEF AgentSpec
<1>2. PICK p \in 1..Len(j.spec.credentialRefs) : j.spec.credentialRefs[p] = j.creds[i].name
  BY DEF Collected
<1>3. p < p
  BY <1>2 DEF Collected
<1> QED
  BY <1>1, <1>3

LEMMA BlankType == Blank \in Deployments
<1>1. <<>> \in Seq(VolumeEntry) /\ <<>> \in Seq(EnvEntry) /\ <<>> \in Seq(MountEntry) /\ None \in Text
  BY DEF Text
<1> QED
  BY <1>1 DEF Blank, Deployments

LEMMA FreshIsPod ==
  ASSUME NEW s, NEW git, NEW mod, NEW creds, Inputs(s, git, mod, creds)
  PROVE  Mutate(Blank, s, git, mod, creds) = Pod(s, git, mod, creds)
BY BlankType, MutateIsPod

\* Whatever is there, the Deployment written is the pod of the spec that was read.
LEMMA AssembledIsPod ==
  ASSUME TypeOK, JobInv, job.pc = "deployment"
  PROVE  /\ ValidInputs(job.spec, job.gitSecret, job.modelSecret, job.creds)
         /\ Assembled = Pod(job.spec, job.gitSecret, job.modelSecret, job.creds)
<1>1. job \in Jobs /\ job # Idle
  BY IdleOrJob
<1>2. Validate(job.spec) /\ job.spec.runtime # None /\ NoneTwice(job.creds)
  BY <1>1, CollectedOnce DEF JobInv, Passed
<1>3. Inputs(job.spec, job.gitSecret, job.modelSecret, job.creds)
  BY <1>1, <1>2, JobTypes DEF Inputs
<1> DEFINE d == IF deployment = None THEN Blank ELSE deployment
           s == job.spec
           git == job.gitSecret
           mod == job.modelSecret
           creds == job.creds
<1>4. d \in Deployments
  BY BlankType DEF TypeOK
<1>5. Mutate(d, s, git, mod, creds) = Pod(s, git, mod, creds)
  <2>1. Inputs(s, git, mod, creds)
    BY <1>3
  <2> HIDE DEF d, s, git, mod, creds
  <2> QED
    BY <1>4, <2>1, MutateIsPod
<1> HIDE DEF d
<1> QED
  BY <1>1, <1>2, <1>3, <1>5, JobTypes DEF ValidInputs, Assembled, d

\* What reading a Credential does to a Reconcile j.
ReadParts(j, k, t) ==
  /\ j \in Jobs /\ k \in Jobs /\ t \in Target
  /\ j.pc = "refs" /\ k.pc = "refs" /\ k.spec = j.spec /\ k.gen = j.gen
  /\ k.modelCredential = j.modelCredential /\ k.modelSecret = j.modelSecret
  /\ k.materialized = j.materialized
  /\ j.todo # <<>> /\ t = Head(j.todo) /\ k.todo = Tail(j.todo)
  /\ \/ /\ ~Exists(t.name)
        /\ k.missing = j.missing \union {t.name}
        /\ k.creds = j.creds /\ k.gitSecret = j.gitSecret
     \/ /\ Exists(t.name) /\ t.git = TRUE
        /\ k.gitSecret = credential[t.name]
        /\ k.creds = j.creds /\ k.missing = j.missing
     \/ /\ Exists(t.name) /\ t.git = FALSE
        /\ k.creds = Append(j.creds, [name |-> t.name, secret |-> credential[t.name]])
        /\ k.missing = j.missing /\ k.gitSecret = j.gitSecret

LEMMA ReadFacts ==
  ASSUME TypeOK, ReadCredential
  PROVE  ReadParts(job, job', Head(job.todo))
<1> DEFINE t == Head(job.todo)
           r == [name |-> t.name, secret |-> credential[t.name]]
<1>1. job \in Jobs /\ job.pc = "refs"
  BY IdleOrJob DEF ReadCredential, JobIs
<1>2. job.todo \in Seq(Target) /\ job.todo # <<>>
  BY <1>1, JobTypes DEF ReadCredential
<1>3. t \in Target /\ Tail(job.todo) \in Seq(Target)
  BY <1>2
<1> HIDE DEF t
<1>4. t.name \in Credentials /\ t.git \in BOOLEAN
  BY <1>3 DEF Target
<1>5. job' = IF credential[t.name] = None
             THEN [job EXCEPT !.todo = Tail(job.todo), !.missing = job.missing \union {t.name}]
             ELSE Collect(t)
  BY DEF ReadCredential, t
<1>6. credential[t.name] \in Secrets \union {None}
  BY <1>4 DEF TypeOK
<1>7. CASE credential[t.name] = None
  <2>1. job' = [job EXCEPT !.todo = Tail(job.todo), !.missing = job.missing \union {t.name}]
    BY <1>5, <1>7
  <2>2. job' \in Jobs
    <3>1. job.missing \union {t.name} \in SUBSET Credentials
      BY <1>1, <1>4, JobTypes
    <3> QED
      BY <1>1, <1>3, <2>1, <3>1 DEF Jobs
  <2>3. /\ job'.pc = "refs" /\ job'.spec = job.spec /\ job'.gen = job.gen
        /\ job'.modelCredential = job.modelCredential /\ job'.modelSecret = job.modelSecret
        /\ job'.materialized = job.materialized /\ job'.todo = Tail(job.todo)
        /\ job'.missing = job.missing \union {t.name}
        /\ job'.creds = job.creds /\ job'.gitSecret = job.gitSecret
    BY <1>1, <2>1 DEF Jobs
  <2> QED
    BY <1>1, <1>2, <1>3, <1>7, <2>2, <2>3 DEF ReadParts, Exists, t
<1>8. CASE credential[t.name] # None /\ t.git
  <2>1. job' = [job EXCEPT !.todo = Tail(job.todo), !.gitSecret = credential[t.name]]
    BY <1>5, <1>8 DEF Collect
  <2>2. job' \in Jobs
    BY <1>1, <1>3, <1>6, <2>1 DEF Jobs
  <2>3. /\ job'.pc = "refs" /\ job'.spec = job.spec /\ job'.gen = job.gen
        /\ job'.modelCredential = job.modelCredential /\ job'.modelSecret = job.modelSecret
        /\ job'.materialized = job.materialized /\ job'.todo = Tail(job.todo)
        /\ job'.gitSecret = credential[t.name]
        /\ job'.creds = job.creds /\ job'.missing = job.missing
    BY <1>1, <2>1 DEF Jobs
  <2>4. t.git = TRUE
    BY <1>4, <1>8
  <2> QED
    BY <1>1, <1>2, <1>3, <1>8, <2>2, <2>3, <2>4 DEF ReadParts, Exists, t
<1>9. CASE credential[t.name] # None /\ ~t.git
  <2>1. job' = [job EXCEPT !.todo = Tail(job.todo), !.creds = Append(job.creds, r)]
    BY <1>5, <1>9 DEF Collect
  <2>2. r \in Resolved
    BY <1>4, <1>6, <1>9 DEF Resolved
  <2> HIDE DEF r
  <2>3. Append(job.creds, r) \in Seq(Resolved)
    BY <1>1, <2>2, JobTypes
  <2>4. job' \in Jobs
    BY <1>1, <1>3, <2>1, <2>3 DEF Jobs
  <2>5. /\ job'.pc = "refs" /\ job'.spec = job.spec /\ job'.gen = job.gen
        /\ job'.modelCredential = job.modelCredential /\ job'.modelSecret = job.modelSecret
        /\ job'.materialized = job.materialized /\ job'.todo = Tail(job.todo)
        /\ job'.creds = Append(job.creds, r)
        /\ job'.gitSecret = job.gitSecret /\ job'.missing = job.missing
    BY <1>1, <2>1 DEF Jobs
  <2>6. t.git = FALSE
    BY <1>4, <1>9
  <2> QED
    BY <1>1, <1>2, <1>3, <1>9, <2>4, <2>5, <2>6 DEF ReadParts, Exists, t, r
<1> QED
  BY <1>4, <1>7, <1>8, <1>9

-----------------------------------------------------------------------------
(* Every variable keeps its type.                                          *)

LEMMA InitType == Init => TypeOK
<1> SUFFICES ASSUME Init PROVE TypeOK
  OBVIOUS
<1>1. (CHOOSE s \in Secrets : TRUE) \in Secrets
  BY PodBounds
<1>2. credential \in [Credentials -> Secrets \union {None}]
  BY <1>1 DEF Init
<1>3. status \in Status
  BY DEF Init, NoStatus, Status
<1>4. /\ gen \in 1..(1 + MaxEdits) /\ edits \in 0..MaxEdits /\ faults \in 0..MaxFaults
      /\ service \in Nat
  BY PodBounds DEF Init
<1>5. spec \in Specs /\ modelReady \in BOOLEAN /\ claim \in BOOLEAN
  BY PodBounds DEF Init
<1>6. /\ model \in Credentials \union {None} /\ deployment \in Deployments \union {None}
      /\ queue \subseteq {"agent", "model"} /\ job \in Jobs \union {Idle}
  BY DEF Init
<1> QED
  BY <1>2, <1>3, <1>4, <1>5, <1>6, Zenon DEF TypeOK

LEMMA StepType ==
  ASSUME TypeOK, Counted, JobInv, [Next]_vars
  PROVE  TypeOK' /\ Counted'
<1>18. Counted'
  BY DEF TypeOK, Counted, Next, Reconcile, vars, users, Apply, SetCredential, SetModel,
         ModelReconcile, StartReconcile, ReadCredential, RefsDone, ReadModel,
         ReadModelCredential, ReconcileWorkspace, WriteDeployment, WriteService,
         UpdateStatus, WriteFails, OperatorRestart
<1> SUFFICES TypeOK'
  BY <1>18
<1> USE DEF TypeOK, users, owned
<1>0. MaxEdits \in Nat /\ MaxFaults \in Nat
  BY PodBounds
<1>1. ASSUME NEW s \in Specs, Apply(s) PROVE TypeOK'
  <2>1. gen' \in 1..(1 + MaxEdits) /\ edits' \in 0..MaxEdits
    BY <1>0, <1>1 DEF Apply, Counted
  <2>2. queue' \subseteq {"agent", "model"} /\ spec' \in Specs
    BY <1>1 DEF Apply
  <2> QED
    BY <1>1, <2>1, <2>2 DEF Apply
<1>2. ASSUME NEW c \in Credentials, NEW v \in Secrets \union {None}, SetCredential(c, v)
      PROVE TypeOK'
  BY <1>0, <1>2 DEF SetCredential
<1>3. ASSUME NEW c \in Credentials \union {None}, SetModel(c) PROVE TypeOK'
  BY <1>0, <1>3 DEF SetModel
<1>4. CASE ModelReconcile
  <2>1. modelReady' \in BOOLEAN
    BY <1>4, Zenon DEF ModelReconcile
  <2>2. queue' \subseteq {"agent", "model"}
    BY <1>4 DEF ModelReconcile
  <2> QED
    BY <1>4, <2>1, <2>2 DEF ModelReconcile
<1>5. CASE StartReconcile
  <2>1. CredentialTargets(spec) \in Seq(Target)
    BY TargetFacts, PodBounds DEF TargetParts
  <2>2. <<>> \in Seq(Resolved) /\ {} \in SUBSET Credentials /\ gen \in Nat
    OBVIOUS
  <2>3. job' \in Jobs
    BY <1>5, <2>1, <2>2 DEF StartReconcile, Jobs
  <2> QED
    BY <1>5, <2>3 DEF StartReconcile
<1>6. CASE ReadCredential
  <2>1. job' \in Jobs
    BY <1>6, ReadFacts DEF ReadParts
  <2> QED
    BY <1>6, <2>1 DEF ReadCredential
<1>7. CASE RefsDone
  <2>1. job \in Jobs
    BY <1>7, IdleOrJob DEF RefsDone, JobIs
  <2>2. job' \in Jobs
    BY <1>7, <2>1 DEF RefsDone, Jobs
  <2> QED
    BY <1>7, <2>2 DEF RefsDone
<1>8. CASE ReadModel
  <2>1. job \in Jobs
    BY <1>8, IdleOrJob DEF ReadModel, JobIs
  <2>2. job' \in Jobs
    BY <1>8, <2>1 DEF ReadModel, Jobs
  <2> QED
    BY <1>8, <2>2 DEF ReadModel
<1>9. CASE ReadModelCredential
  <2>1. job \in Jobs /\ job.pc = "credential"
    BY <1>9, IdleOrJob DEF ReadModelCredential, JobIs
  <2>2. job.modelCredential \in Credentials
    BY <2>1, JobTypes DEF JobInv, Passed
  <2>3. credential[job.modelCredential] \in Secrets \union {None}
    BY <2>2
  <2>4. job' \in Jobs
    BY <1>9, <2>1, <2>3 DEF ReadModelCredential, Jobs
  <2> QED
    BY <1>9, <2>4 DEF ReadModelCredential
<1>10. CASE ReconcileWorkspace
  <2>1. job \in Jobs
    BY <1>10, IdleOrJob DEF ReconcileWorkspace, JobIs
  <2>2. job' \in Jobs
    BY <1>10, <2>1 DEF ReconcileWorkspace, Jobs
  <2> QED
    BY <1>10, <2>2 DEF ReconcileWorkspace
<1>11. CASE WriteDeployment
  <2>1. job \in Jobs /\ job.pc = "deployment"
    BY <1>11, IdleOrJob DEF WriteDeployment, JobIs
  <2>2. job' \in Jobs
    BY <1>11, <2>1 DEF WriteDeployment, Jobs
  <2>3. deployment' \in Deployments
    <3> DEFINE p == Pod(job.spec, job.gitSecret, job.modelSecret, job.creds)
    <3>1. Inputs(job.spec, job.gitSecret, job.modelSecret, job.creds) /\ deployment' = p
      BY <1>11, <2>1, AssembledIsPod DEF WriteDeployment, ValidInputs
    <3>2. p \in Deployments
      BY <3>1, PodType, Zenon
    <3> QED
      BY <3>1, <3>2
  <2> QED
    BY <1>11, <2>2, <2>3 DEF WriteDeployment
<1>12. CASE WriteService
  <2>1. job \in Jobs /\ job.pc = "service"
    BY <1>12, IdleOrJob DEF WriteService, JobIs
  <2>2. job' \in Jobs
    BY <1>12, <2>1 DEF WriteService, Jobs
  <2>3. job.spec.runtime.port \in Nat
    BY <2>1, JobTypes, RuntimeType DEF JobInv, Passed
  <2> QED
    BY <1>12, <2>2, <2>3 DEF WriteService
<1>13. CASE UpdateStatus
  <2>1. job \in Jobs
    BY <1>13, IdleOrJob DEF UpdateStatus, JobIs
  <2>2. Decision \in Status
    <3> DEFINE F == IF job.materialized THEN job.spec.workspace # None ELSE status.claim
    <3>1. F \in BOOLEAN /\ job.missing \in SUBSET Credentials
      BY <2>1, JobTypes DEF Status
    <3> HIDE DEF F
    <3>2. Decision.claim = F /\ Decision.missing = job.missing
      BY DEF Decision, F
    <3> QED
      BY <3>1 DEF Decision, Status, F
  <2>3. status' \in Status
    BY <1>13, <2>2 DEF UpdateStatus
  <2> QED
    BY <1>13, <2>3 DEF UpdateStatus
<1>14. CASE WriteFails
  BY <1>0, <1>14 DEF WriteFails
<1>15. CASE OperatorRestart
  BY <1>0, <1>15 DEF OperatorRestart
<1>16. CASE UNCHANGED vars
  BY <1>16 DEF vars
<1> QED
  BY <1>1, <1>2, <1>3, <1>4, <1>5, <1>6, <1>7, <1>8, <1>9, <1>10, <1>11, <1>12, <1>13,
     <1>14, <1>15, <1>16 DEF Next, Reconcile

-----------------------------------------------------------------------------
(* The Reconcile in progress stays in step with its own spec.              *)

LEMMA DoneType ==
  ASSUME NEW j \in Jobs, TodoFits(j)
  PROVE  /\ Done(j) \in Nat /\ Len(j.todo) \in Nat /\ Len(CredentialTargets(j.spec)) \in Nat
         /\ Done(j) + Len(j.todo) = Len(CredentialTargets(j.spec))
         /\ j.todo = <<>> <=> Done(j) = Len(CredentialTargets(j.spec))
<1> DEFINE n == Len(CredentialTargets(j.spec))
           m == Len(j.todo)
<1>1. n \in Nat
  <2>1. CredentialTargets(j.spec) \in Seq(Target)
    BY JobTypes, TargetFacts DEF TargetParts
  <2> QED
    BY <2>1
<1>2. m \in Nat /\ (m = 0 <=> j.todo = <<>>)
  <2>1. j.todo \in Seq(Target)
    BY JobTypes
  <2> QED
    BY <2>1, EmptySeq
<1>3. m <= n /\ Done(j) = n - m
  BY DEF TodoFits, Done
<1> HIDE DEF n, m
<1>4. Done(j) \in Nat /\ Done(j) + m = n /\ (m = 0 <=> Done(j) = n)
  BY <1>1, <1>2, <1>3
<1> QED
  BY <1>1, <1>2, <1>4 DEF n, m

LEMMA TodoStep ==
  ASSUME NEW j, NEW k, NEW t, ReadParts(j, k, t), TodoFits(j)
  PROVE  /\ TodoFits(k) /\ Done(k) = Done(j) + 1 /\ Done(k) <= Len(CredentialTargets(j.spec))
         /\ t = CredentialTargets(j.spec)[Done(j) + 1]
<1> DEFINE T == CredentialTargets(j.spec)
           n == Len(T)
           m == Len(j.todo)
           d == Done(j)
<1>0. j \in Jobs /\ k \in Jobs /\ k.spec = j.spec /\ j.todo # <<>> /\ t = Head(j.todo)
      /\ k.todo = Tail(j.todo)
  BY DEF ReadParts
<1>1. d \in Nat /\ m \in Nat /\ n \in Nat /\ d + m = n
  BY <1>0, DoneType
<1>2. j.todo \in Seq(Target)
  BY <1>0, JobTypes
<1>3. m >= 1 /\ Len(k.todo) = m - 1 /\ t = j.todo[1]
      /\ \A i \in 1..(m - 1) : k.todo[i] = j.todo[i + 1]
  BY <1>0, <1>2, HeadTailProperties, EmptySeq
<1>4. \A i \in 1..m : j.todo[i] = T[d + i]
  BY DEF TodoFits
<1>5. Done(k) = n - Len(k.todo) /\ CredentialTargets(k.spec) = T
  BY <1>0 DEF Done
<1> HIDE DEF T, n, m, d
<1>6. Done(k) = d + 1 /\ d + 1 <= n /\ Len(k.todo) <= n
  BY <1>1, <1>3, <1>5
<1>7. t = T[d + 1]
  BY <1>1, <1>3, <1>4
<1>8. \A i \in 1..Len(k.todo) : k.todo[i] = T[Done(k) + i]
  <2> TAKE i \in 1..Len(k.todo)
  <2>1. i \in 1..(m - 1) /\ i + 1 \in 1..m /\ Done(k) + i = d + (i + 1)
    BY <1>1, <1>3, <1>6
  <2>2. k.todo[i] = T[d + (i + 1)]
    BY <1>3, <1>4, <2>1
  <2> QED
    BY <2>1, <2>2
<1>9. TodoFits(k)
  BY <1>5, <1>6, <1>8 DEF TodoFits, n
<1> QED
  BY <1>6, <1>7, <1>9 DEF T, n, d

LEMMA CollectedStep ==
  ASSUME NEW j, NEW k, NEW t, ReadParts(j, k, t), TodoFits(j), Collected(j), Validate(j.spec)
  PROVE  Collected(k)
<1> DEFINE T == CredentialTargets(j.spec)
           refs == j.spec.credentialRefs
           R == Len(refs)
           d == Done(j)
           c == j.creds
           l == Len(c)
<1>0. j \in Jobs /\ k \in Jobs /\ k.spec = j.spec /\ t \in Target
  BY DEF ReadParts
<1>1. d \in Nat /\ Done(k) = d + 1 /\ d + 1 <= Len(T) /\ t = T[d + 1]
  BY <1>0, DoneType, TodoStep
<1>2. TargetParts(T, j.spec)
  BY <1>0, TargetFacts, JobTypes
<1>3. refs \in Seq(Credentials) /\ R \in Nat
  BY <1>2 DEF TargetParts
<1>4. c \in Seq(Resolved) /\ l \in Nat
  BY <1>0, JobTypes
<1>5. /\ l <= d /\ l <= R
      /\ \A i \in 1..l : \E p \in 1..R : p <= d /\ refs[p] = c[i].name
      /\ \A i, h \in 1..l : \A p, q \in 1..R :
           i < h /\ refs[p] = c[i].name /\ refs[q] = c[h].name => p < q
  BY DEF Collected
<1>6. \A p, q \in 1..R : refs[p] = refs[q] => p = q
  <2>1. \A p, q \in 1..R : p < q => refs[p] # refs[q]
    BY DEF Validate, HasDuplicate
  <2> QED
    BY <1>3, <2>1
<1>7. CASE k.creds = c
  <2> HIDE DEF T, refs, R, d, c, l
  <2>1. l <= d + 1 /\ \A i \in 1..l : \E p \in 1..R : p <= d + 1 /\ refs[p] = c[i].name
    <3>1. \A p \in 1..R : p <= d => p <= d + 1
      BY <1>1, <1>3
    <3> QED
      BY <1>1, <1>4, <1>5, <3>1
  <2> QED
    BY <1>0, <1>1, <1>5, <1>7, <2>1 DEF Collected, R, refs, c, l, d
<1>8. CASE t.git = FALSE /\ k.creds = Append(c, [name |-> t.name, secret |-> credential[t.name]])
  <2> DEFINE r == [name |-> t.name, secret |-> credential[t.name]]
             e == k.creds
  <2>1. r.name = t.name
    OBVIOUS
  <2>2. e = Append(c, r) /\ e \in Seq(Resolved)
    BY <1>0, <1>8, JobTypes
  <2>3. r \in Resolved
    <3>1. Len(Append(c, r)) = l + 1 /\ Append(c, r)[l + 1] = r
      BY <1>4
    <3> QED
      BY <1>4, <2>2, <3>1
  <2> HIDE DEF r, e
  <2>4. Len(e) = l + 1 /\ e[l + 1] = r /\ \A i \in 1..l : e[i] = c[i]
    BY <1>4, <2>2, <2>3, AppendProperties
  <2>5. d + 1 \in 1..R /\ refs[d + 1] = t.name
    <3> HIDE DEF T
    <3>1. ~(NeedsGit(j.spec) /\ d + 1 = R + 1)
      BY <1>1, <1>2, <1>8 DEF TargetParts
    <3>2. Len(T) = R + (IF NeedsGit(j.spec) THEN 1 ELSE 0)
      BY <1>2 DEF TargetParts
    <3>3. d + 1 <= R
      <4> HIDE DEF R, d
      <4> QED
        BY <1>1, <1>3, <3>1, <3>2
    <3>4. d + 1 \in 1..R
      <4> HIDE DEF R, d
      <4> QED
        BY <1>1, <1>3, <3>3
    <3>5. T[d + 1].name = refs[d + 1]
      BY <1>2, <3>4 DEF TargetParts
    <3> QED
      BY <1>1, <3>4, <3>5
  <2> HIDE DEF T, refs, R, d, c, l
  <2>6. l + 1 <= d + 1 /\ l + 1 <= R
    BY <1>1, <1>3, <1>4, <1>5, <2>5
  <2>7. \A i \in 1..(l + 1) : i \in 1..l \/ i = l + 1
    BY <1>4
  <2>8. \A i \in 1..(l + 1) : \E p \in 1..R : p <= d + 1 /\ refs[p] = e[i].name
    <3> TAKE i \in 1..(l + 1)
    <3>1. CASE i \in 1..l
      <4>1. PICK p \in 1..R : p <= d /\ refs[p] = c[i].name
        BY <1>5, <3>1
      <4>2. p <= d + 1
        BY <1>1, <1>3, <4>1
      <4> QED
        BY <2>4, <3>1, <4>1, <4>2
    <3>2. CASE i = l + 1
      <4>1. refs[d + 1] = e[i].name /\ d + 1 <= d + 1
        BY <1>1, <2>1, <2>4, <2>5, <3>2
      <4> QED
        BY <2>5, <4>1
    <3> QED
      BY <2>7, <3>1, <3>2
  <2>9. ASSUME NEW i \in 1..(l + 1), NEW h \in 1..(l + 1), NEW p \in 1..R, NEW q \in 1..R,
               i < h, refs[p] = e[i].name, refs[q] = e[h].name
        PROVE  p < q
    <3>1. i \in 1..l
      BY <1>4, <2>7, <2>9
    <3>2. e[i] = c[i]
      BY <2>4, <3>1
    <3>3. CASE h \in 1..l
      BY <1>5, <2>4, <2>9, <3>1, <3>2, <3>3
    <3>4. CASE h = l + 1
      <4>1. q = d + 1
        BY <1>6, <2>1, <2>4, <2>5, <2>9, <3>4
      <4>2. PICK o \in 1..R : o <= d /\ refs[o] = c[i].name
        BY <1>5, <3>1
      <4>3. p = o
        BY <1>6, <2>9, <3>2, <4>2
      <4> QED
        BY <1>1, <1>3, <4>1, <4>2, <4>3
    <3> QED
      BY <2>7, <3>3, <3>4
  <2>10. /\ Len(k.creds) = l + 1 /\ e = k.creds
    BY <2>4 DEF e
  <2> QED
    BY <1>0, <1>1, <2>6, <2>8, <2>9, <2>10 DEF Collected, R, refs, d
<1> QED
  BY <1>7, <1>8 DEF ReadParts

LEMMA SameCredentials ==
  ASSUME NEW j, NEW k, TodoFits(j), Collected(j),
         k.spec = j.spec, k.todo = j.todo, k.creds = j.creds
  PROVE  TodoFits(k) /\ Collected(k) /\ Done(k) = Done(j)
BY DEF TodoFits, Collected, Done

\* The steps that only move the Reconcile on keep what it has read.
Moves == \/ RefsDone \/ ReadModel \/ ReadModelCredential \/ ReconcileWorkspace
         \/ WriteDeployment \/ WriteService

LEMMA MovesKeep ==
  ASSUME TypeOK, Moves
  PROVE  /\ job \in Jobs
         /\ job'.spec = job.spec /\ job'.gen = job.gen /\ job'.todo = job.todo
         /\ job'.creds = job.creds /\ job'.missing = job.missing /\ job'.gitSecret = job.gitSecret
<1>1. job \in Jobs
  BY IdleOrJob DEF Moves, RefsDone, ReadModel, ReadModelCredential, ReconcileWorkspace,
     WriteDeployment, WriteService, JobIs
<1> QED
  BY <1>1 DEF Moves, RefsDone, ReadModel, ReadModelCredential, ReconcileWorkspace,
     WriteDeployment, WriteService, Jobs

LEMMA MovesPass ==
  ASSUME TypeOK, JobInv, Moves
  PROVE  Passed(job)'
<1>1. job \in Jobs /\ job # Idle /\ Passed(job)
  <2>1. job \in Jobs
    BY MovesKeep
  <2> QED
    BY <2>1, JobTypes DEF JobInv
<1>2. CASE RefsDone
  <2>1. job.pc = "refs" /\ job.todo = <<>> /\ Validate(job.spec) /\ ~job.materialized
    BY <1>1, <1>2, JobTypes DEF RefsDone, JobIs, Passed
  <2>2. /\ job'.spec = job.spec /\ job'.todo = job.todo /\ job'.materialized = job.materialized
        /\ job'.pc \in {"status", "deployment", "model"}
        /\ job'.pc # "status" => job.spec.runtime # None
        /\ job'.pc = "deployment" => job.spec.workspace = None
    BY <1>1, <1>2 DEF RefsDone, Jobs
  <2> QED
    BY <2>1, <2>2 DEF Passed
<1>3. CASE ReadModel
  <2>1. /\ job'.spec = job.spec /\ job'.todo = job.todo /\ job'.materialized = job.materialized
        /\ job'.modelCredential = model /\ job.pc = "model"
        /\ job'.pc = IF model = None THEN "claim" ELSE "credential"
    BY <1>1, <1>3 DEF ReadModel, JobIs, Jobs
  <2> QED
    BY <1>1, <2>1 DEF Passed
<1>4. CASE ReadModelCredential
  <2>1. /\ job'.spec = job.spec /\ job'.todo = job.todo /\ job'.materialized = job.materialized
        /\ job.pc = "credential" /\ job'.pc = "claim"
    BY <1>1, <1>4 DEF ReadModelCredential, JobIs, Jobs
  <2> QED
    BY <1>1, <2>1 DEF Passed
<1>5. CASE ReconcileWorkspace
  <2>1. /\ job'.spec = job.spec /\ job'.todo = job.todo /\ job'.materialized = job.materialized
        /\ job.pc = "claim" /\ job'.pc = "deployment" /\ claim'
    BY <1>1, <1>5 DEF ReconcileWorkspace, JobIs, Jobs
  <2> QED
    BY <1>1, <2>1 DEF Passed
<1>6. CASE WriteDeployment
  <2>1. /\ job'.spec = job.spec /\ job'.todo = job.todo /\ job'.materialized = job.materialized
        /\ job.pc = "deployment" /\ job'.pc = "service" /\ claim' = claim
    BY <1>1, <1>6 DEF WriteDeployment, JobIs, Jobs
  <2> QED
    BY <1>1, <2>1 DEF Passed
<1>7. CASE WriteService
  <2>1. /\ job'.spec = job.spec /\ job'.todo = job.todo
        /\ job.pc = "service" /\ job'.pc = "status"
    BY <1>1, <1>7 DEF WriteService, JobIs, Jobs
  <2> QED
    BY <1>1, <2>1 DEF Passed
<1> QED
  BY <1>2, <1>3, <1>4, <1>5, <1>6, <1>7 DEF Moves

LEMMA StepJob ==
  ASSUME TypeOK, JobInv, [Next]_vars
  PROVE  JobInv'
<1>1. CASE job' = job /\ claim' = claim
  BY <1>1 DEF JobInv, TodoFits, Collected, Done, Passed
<1>2. CASE StartReconcile
  <2> DEFINE T == CredentialTargets(spec)
  <2>1. /\ job'.spec = spec /\ job'.todo = T /\ job'.creds = <<>> /\ ~job'.materialized
        /\ job'.pc = IF Validate(spec) THEN "refs" ELSE "status"
    BY <1>2 DEF StartReconcile
  <2>2. T \in Seq(Target) /\ spec.credentialRefs \in Seq(Credentials)
    BY TargetFacts, PodBounds DEF TargetParts, TypeOK
  <2>3. Len(T) \in Nat /\ Len(spec.credentialRefs) \in Nat
    BY <2>2
  <2> HIDE DEF T
  <2>4. CredentialTargets(job'.spec) = T
    BY <2>1 DEF T
  <2>5. Done(job') = 0
    BY <2>1, <2>3, <2>4 DEF Done
  <2>6. TodoFits(job')
    BY <2>1, <2>3, <2>4, <2>5 DEF TodoFits
  <2>7. Collected(job')
    <3>1. Len(job'.creds) = 0
      BY <2>1
    <3> QED
      BY <2>1, <2>3, <2>5, <3>1 DEF Collected
  <2>8. Passed(job)'
    BY <2>1 DEF Passed
  <2> QED
    BY <2>6, <2>7, <2>8 DEF JobInv, TodoFits, Collected, Done
<1>3. CASE ReadCredential
  <2> DEFINE t == Head(job.todo)
  <2>1. ReadParts(job, job', t)
    BY <1>3, ReadFacts
  <2>2. /\ job \in Jobs /\ job.pc = "refs" /\ job'.pc = "refs" /\ job'.spec = job.spec
        /\ job'.materialized = job.materialized
    BY <2>1 DEF ReadParts
  <2>3. TodoFits(job) /\ Collected(job) /\ Passed(job)
    BY <2>2, JobTypes DEF JobInv
  <2>4. Validate(job.spec) /\ ~job.materialized
    BY <2>2, <2>3 DEF Passed
  <2> HIDE DEF t
  <2>5. TodoFits(job')
    BY <2>1, <2>3, TodoStep
  <2>6. Collected(job')
    BY <2>1, <2>3, <2>4, CollectedStep
  <2>7. Passed(job)'
    BY <2>2, <2>4 DEF Passed
  <2> QED
    BY <2>5, <2>6, <2>7 DEF JobInv, TodoFits, Collected, Done
<1>4. CASE Moves
  <2>1. /\ job \in Jobs /\ job'.spec = job.spec /\ job'.todo = job.todo /\ job'.creds = job.creds
    BY <1>4, MovesKeep
  <2>2. TodoFits(job) /\ Collected(job)
    BY <2>1, JobTypes DEF JobInv
  <2>3. TodoFits(job') /\ Collected(job')
    BY <2>1, <2>2, SameCredentials
  <2>4. Passed(job)'
    BY <1>4, MovesPass
  <2> QED
    BY <2>3, <2>4 DEF JobInv, TodoFits, Collected, Done
<1>5. CASE job' = Idle
  BY <1>5 DEF JobInv, Idle
<1>6. \/ job' = job /\ claim' = claim
      \/ StartReconcile \/ ReadCredential \/ Moves \/ job' = Idle
  BY DEF Next, Reconcile, Moves, vars, owned, Apply, SetCredential, SetModel, ModelReconcile,
         UpdateStatus, WriteFails, OperatorRestart
<1> QED
  BY <1>1, <1>2, <1>3, <1>4, <1>5, <1>6

-----------------------------------------------------------------------------
(* The pod that was submitted.                                             *)

LEMMA StepPod ==
  ASSUME TypeOK, JobInv, PodInv, [Next]_vars
  PROVE  PodInv'
<1>1. CASE deployment' = deployment /\ (claim => claim')
  BY <1>1 DEF PodInv, Coherent, EnvAgrees
<1>2. CASE WriteDeployment
  <2> DEFINE p == Pod(job.spec, job.gitSecret, job.modelSecret, job.creds)
  <2>1. job.pc = "deployment" /\ claim' = claim /\ deployment' = Assembled
    BY <1>2 DEF WriteDeployment, JobIs
  <2>2. ValidInputs(job.spec, job.gitSecret, job.modelSecret, job.creds) /\ deployment' = p
    BY <2>1, AssembledIsPod
  <2> HIDE DEF p
  <2>3. p = Pod(job.spec, job.gitSecret, job.modelSecret, job.creds)
    BY DEF p
  <2>4. Coherent(p) /\ EnvAgrees(p)
    BY <2>2, <2>3, PodCoherent, PodEnvAgrees
  <2>5. HasVolume(p, Volume("workspace")) => job.spec.workspace # None
    BY <2>2, <2>3, WorkspacePart
  <2>6. job.spec.workspace # None => claim
    <3>1. job # Idle
      BY <2>1 DEF Idle
    <3> QED
      BY <2>1, <3>1 DEF JobInv, Passed
  <2>7. Coherent(deployment') /\ EnvAgrees(deployment')
        /\ (HasVolume(deployment', Volume("workspace")) => claim')
    BY <2>1, <2>2, <2>4, <2>5, <2>6
  <2> QED
    BY <2>7 DEF PodInv, Coherent, EnvAgrees
<1>3. WriteDeployment \/ (deployment' = deployment /\ (claim => claim'))
  BY DEF Next, Reconcile, vars, owned, Apply, SetCredential, SetModel, ModelReconcile,
         StartReconcile, ReadCredential, RefsDone, ReadModel, ReadModelCredential,
         ReconcileWorkspace, WriteService, UpdateStatus, WriteFails, OperatorRestart
<1> QED
  BY <1>1, <1>2, <1>3

-----------------------------------------------------------------------------
(* Nothing is overlooked.                                                  *)

LEMMA NeedsGitType ==
  ASSUME NEW s \in AgentSpec, NeedsGit(s)
  PROVE  s.workspace.credentialRef \in Credentials
BY DEF NeedsGit, AgentSpec, AgentWorkspaceSpec

\* The Credentials on the list are those the index finds the Agent by.
LEMMA TargetsAreNamed ==
  ASSUME TypeOK, NEW p \in 1..Len(CredentialTargets(spec))
  PROVE  NamesCredential(CredentialTargets(spec)[p].name)
<1> DEFINE T == CredentialTargets(spec)
           R == Len(spec.credentialRefs)
<1>1. TargetParts(T, spec)
  BY TargetFacts, PodBounds DEF TypeOK
<1>2. p \in 1..Len(T)
  OBVIOUS
<1> HIDE DEF T
<1>3. R \in Nat /\ Len(T) = R + (IF NeedsGit(spec) THEN 1 ELSE 0)
  BY <1>1 DEF TargetParts
<1> HIDE DEF R
<1>4. p \in 1..R \/ (NeedsGit(spec) /\ p = R + 1)
  BY <1>2, <1>3
<1>5. CASE p \in 1..R
  <2>1. T[p].name = spec.credentialRefs[p]
    BY <1>1, <1>5 DEF TargetParts, R
  <2> QED
    BY <1>5, <2>1 DEF NamesCredential, R, T
<1>6. CASE NeedsGit(spec) /\ p = R + 1
  <2>1. T[p].name = spec.workspace.credentialRef /\ spec.workspace # None
    BY <1>1, <1>6 DEF TargetParts, NeedsGit, R
  <2> QED
    BY <2>1 DEF NamesCredential, T
<1> QED
  BY <1>4, <1>5, <1>6

\* What a write to a Credential the Agent does not name leaves alone.
Untouched ==
  /\ spec' = spec
  /\ \A p \in 1..Len(CredentialTargets(spec)) :
       credential'[CredentialTargets(spec)[p].name] = credential[CredentialTargets(spec)[p].name]
  /\ \A p \in 1..Len(spec.credentialRefs) :
       credential'[spec.credentialRefs[p]] = credential[spec.credentialRefs[p]]
  /\ GitSecretNow' = GitSecretNow

LEMMA UnnamedUntouched ==
  ASSUME TypeOK, NEW c \in Credentials, NEW v, SetCredential(c, v), ~NamesCredential(c)
  PROVE  Untouched
<1>1. spec' = spec /\ \A b : b # c /\ b \in Credentials => credential'[b] = credential[b]
  BY DEF TypeOK, SetCredential
<1>2. spec \in AgentSpec
  BY PodBounds DEF TypeOK
<1>3. TargetParts(CredentialTargets(spec), spec)
  BY <1>2, TargetFacts
<1>4. ASSUME NEW p \in 1..Len(CredentialTargets(spec))
      PROVE  /\ CredentialTargets(spec)[p].name \in Credentials
             /\ CredentialTargets(spec)[p].name # c
  <2>1. CredentialTargets(spec)[p] \in Target
    BY <1>3, ElementOfSeq DEF TargetParts
  <2> QED
    BY <2>1, TargetsAreNamed DEF Target
<1>5. ASSUME NEW p \in 1..Len(spec.credentialRefs)
      PROVE  spec.credentialRefs[p] \in Credentials /\ spec.credentialRefs[p] # c
  <2>1. spec.credentialRefs[p] \in Credentials
    BY <1>3, ElementOfSeq DEF TargetParts
  <2> QED
    BY <2>1 DEF NamesCredential
<1>6. NeedsGit(spec) => /\ spec.workspace.credentialRef \in Credentials
                        /\ spec.workspace.credentialRef # c
  BY <1>2, NeedsGitType DEF NamesCredential, NeedsGit
<1>7. GitSecretNow' = GitSecretNow
  BY <1>1, <1>6 DEF GitSecretNow, NeedsGit
<1> QED
  BY <1>1, <1>4, <1>5, <1>7 DEF Untouched

LEMMA FreshUntouched ==
  ASSUME TypeOK, JobInv, Untouched, job # Idle, Fresh(job), job' = job,
         gen' = gen, deployment' = deployment
  PROVE  Fresh(job)'
<1> DEFINE T == CredentialTargets(spec)
           refs == spec.credentialRefs
<1>0. job \in Jobs /\ TodoFits(job) /\ Collected(job)
  BY DEF TypeOK, JobInv
<1>1. Done(job) \in Nat /\ Done(job) <= Len(T) /\ Len(T) \in Nat
  <2>1. job.spec = spec
    BY DEF Fresh
  <2>2. Done(job) \in Nat /\ Len(job.todo) \in Nat /\ Len(T) \in Nat /\ Done(job) + Len(job.todo) = Len(T)
    BY <1>0, <2>1, DoneType
  <2> QED
    BY <2>2
<1>2. (\A c \in Credentials :
        c \in job.missing <=> \E p \in 1..Done(job) : T[p].name = c /\ ~Exists(c))'
  <2> TAKE c \in Credentials
  <2>1. \A p \in 1..Done(job) : credential'[T[p].name] = credential[T[p].name]
    BY <1>1 DEF Untouched
  <2>2. c \in job.missing <=> \E p \in 1..Done(job) : T[p].name = c /\ credential[c] = None
    BY DEF Fresh, Exists
  <2>3. c \in job.missing <=> \E p \in 1..Done(job) : T[p].name = c /\ credential'[c] = None
    BY <2>1, <2>2
  <2> QED
    BY <2>3 DEF Untouched, Exists, Done
<1>3. (\A i \in 1..Len(job.creds) : job.creds[i].secret = credential[job.creds[i].name])'
  <2>1. \A i \in 1..Len(job.creds) : \E p \in 1..Len(refs) : refs[p] = job.creds[i].name
    BY <1>0 DEF Collected, Fresh
  <2> QED
    BY <2>1 DEF Fresh, Untouched
<1>4. (\A p \in 1..Len(refs) : p <= Done(job) /\ Exists(refs[p]) =>
         \E i \in 1..Len(job.creds) : job.creds[i].name = refs[p])'
  <2>1. \A p \in 1..Len(refs) : Exists(refs[p])' => Exists(refs[p])
    BY DEF Untouched, Exists
  <2> QED
    BY <2>1 DEF Fresh, Untouched, Done
<1>5. (job.gitSecret = IF job.todo = <<>> THEN GitSecretNow ELSE None)'
  BY DEF Fresh, Untouched
<1>6. /\ (job.spec = spec /\ job.gen = gen)'
      /\ (job.pc = "service" \/ job.materialized =>
            deployment = Pod(spec, job.gitSecret, job.modelSecret, job.creds))'
      /\ (job.pc = "status" /\ Validate(spec) /\ ~job.materialized =>
            spec.runtime = None \/ (NeedsGit(spec) /\ job.gitSecret = None))'
  BY DEF Fresh, Untouched
<1> QED
  BY <1>2, <1>3, <1>4, <1>5, <1>6 DEF Fresh

LEMMA SettledUntouched ==
  ASSUME TypeOK, Untouched, Settled, deployment' = deployment, status' = status
  PROVE  Settled'
<1> DEFINE refs == spec.credentialRefs
<1> SUFFICES ASSUME Validate(spec)'
             PROVE  StatusSettled' /\ PodSettled'
  BY DEF Settled
<1>0. Validate(spec) /\ spec' = spec /\ GitSecretNow' = GitSecretNow
  BY DEF Untouched
<1>1. StatusSettled /\ PodSettled
  BY <1>0 DEF Settled
<1>2. Deployable' <=> Deployable
  BY <1>0 DEF Deployable
<1>3. \A c \in TargetNames(spec) : Exists(c)' <=> Exists(c)
  BY DEF Untouched, TargetNames, Exists
<1>4. StatusSettled'
  <2>1. TargetNames(spec)' = TargetNames(spec)
    BY <1>0
  <2>2. {c \in TargetNames(spec) : ~Exists(c)}' = {c \in TargetNames(spec) : ~Exists(c)}
    <3>1. \A c \in TargetNames(spec) : (credential'[c] # None) <=> (credential[c] # None)
      BY <1>3 DEF Exists
    <3> HIDE DEF refs
    <3> QED
      BY <2>1, <3>1 DEF Exists
  <2> QED
    BY <1>0, <1>1, <1>2, <2>2 DEF StatusSettled
<1>5. PodSettled'
  <2>1. SUFFICES ASSUME Deployable'
        PROVE (\E modelSecret \in Secrets \union {None} :
               \E creds \in UNION {[1..n -> Resolved] : n \in 0..Len(spec.credentialRefs)} :
                 /\ AreCurrent(creds, spec.credentialRefs)
                 /\ deployment = Pod(spec, GitSecretNow, modelSecret, creds))'
    BY DEF PodSettled
  <2>2. PICK modelSecret \in Secrets \union {None},
             creds \in UNION {[1..n -> Resolved] : n \in 0..Len(refs)} :
                 /\ AreCurrent(creds, refs)
                 /\ deployment = Pod(spec, GitSecretNow, modelSecret, creds)
    BY <1>1, <1>2, <2>1 DEF PodSettled
  <2>3. AreCurrent(creds, refs)'
    <3>1. \A p \in 1..Len(refs) : credential'[refs[p]] = credential[refs[p]]
      BY DEF Untouched
    <3>2. \A i \in 1..Len(creds) : \E p \in 1..Len(refs) : refs[p] = creds[i].name
      BY <2>2 DEF AreCurrent
    <3>3. \A i \in 1..Len(creds) : credential'[creds[i].name] = credential[creds[i].name]
      BY <3>1, <3>2
    <3>4. refs' = refs
      BY <1>0
    <3> HIDE DEF refs
    <3> QED
      BY <2>2, <3>1, <3>3, <3>4 DEF AreCurrent, Exists
  <2> QED
    BY <1>0, <2>2, <2>3
<1> QED
  BY <1>4, <1>5

LEMMA FreshStart ==
  ASSUME TypeOK, StartReconcile
  PROVE  Fresh(job)'
<1> DEFINE T == CredentialTargets(spec)
<1>1. /\ job'.spec = spec /\ job'.gen = gen /\ job'.todo = T /\ job'.creds = <<>>
      /\ job'.missing = {} /\ job'.gitSecret = None /\ job'.materialized = FALSE
      /\ job'.pc = IF Validate(spec) THEN "refs" ELSE "status"
  BY DEF StartReconcile
<1>2. spec' = spec /\ gen' = gen /\ credential' = credential /\ deployment' = deployment
  BY DEF StartReconcile, users, owned
<1>3. TargetParts(T, spec)
  BY TargetFacts, PodBounds DEF TypeOK
<1>4. T \in Seq(Target) /\ Len(T) \in Nat /\ Len(spec.credentialRefs) \in Nat
  <2> HIDE DEF T
  <2>1. T \in Seq(Target) /\ spec.credentialRefs \in Seq(Credentials)
    BY <1>3 DEF TargetParts
  <2> QED
    BY <2>1
<1>5. T = <<>> => GitSecretNow = None
  <2>1. T = <<>> => Len(T) = 0
    OBVIOUS
  <2> HIDE DEF T
  <2>2. NeedsGit(spec) => Len(T) = Len(spec.credentialRefs) + 1
    BY <1>3 DEF TargetParts
  <2> QED
    BY <1>4, <2>1, <2>2 DEF GitSecretNow
<1> HIDE DEF T
<1>6. Done(job') = 0 /\ Done(job)' = 0
  <2>1. CredentialTargets(job'.spec) = T
    BY <1>1 DEF T
  <2> QED
    BY <1>1, <1>4, <2>1 DEF Done
<1>7. (\A c \in Credentials :
        c \in job.missing <=> \E p \in 1..Done(job) : CredentialTargets(spec)[p].name = c /\ ~Exists(c))'
  BY <1>1, <1>6
<1>8. (\A i \in 1..Len(job.creds) : job.creds[i].secret = credential[job.creds[i].name])'
  <2>1. Len(job'.creds) = 0
    BY <1>1
  <2> QED
    BY <2>1
<1>9. (\A p \in 1..Len(spec.credentialRefs) : p <= Done(job) /\ Exists(spec.credentialRefs[p]) =>
         \E i \in 1..Len(job.creds) : job.creds[i].name = spec.credentialRefs[p])'
  BY <1>2, <1>4, <1>6
<1>10. (job.gitSecret = IF job.todo = <<>> THEN GitSecretNow ELSE None)'
  <2>1. GitSecretNow' = GitSecretNow
    BY <1>2 DEF GitSecretNow
  <2> QED
    BY <1>1, <1>5, <2>1
<1> QED
  BY <1>1, <1>2, <1>7, <1>8, <1>9, <1>10 DEF Fresh

LEMMA FreshRead ==
  ASSUME TypeOK, JobInv, ReadCredential, Fresh(job)
  PROVE  Fresh(job)'
<1> DEFINE T == CredentialTargets(spec)
           refs == spec.credentialRefs
           R == Len(refs)
           d == Done(job)
           t == Head(job.todo)
<1>0. ReadParts(job, job', t)
  BY ReadFacts
<1> HIDE DEF t
<1>1. /\ job \in Jobs /\ job' \in Jobs /\ t \in Target
      /\ job.pc = "refs" /\ job'.pc = "refs" /\ job'.spec = job.spec /\ job'.gen = job.gen
      /\ job'.materialized = job.materialized /\ job.todo # <<>>
  BY <1>0 DEF ReadParts
<1>2. job.spec = spec /\ job.gen = gen
  BY DEF Fresh
<1>3. /\ spec' = spec /\ gen' = gen /\ credential' = credential /\ deployment' = deployment
  BY DEF ReadCredential, users, owned
<1>4. TodoFits(job) /\ Collected(job) /\ Passed(job)
  BY <1>1, JobTypes DEF JobInv
<1>5. /\ TodoFits(job') /\ Done(job') = d + 1 /\ d + 1 <= Len(T) /\ t = T[d + 1]
  BY <1>0, <1>2, <1>4, TodoStep
<1>6. d \in Nat
  BY <1>1, <1>4, DoneType
<1>7. Done(job)' = d + 1
  BY <1>5 DEF Done
<1>8. TargetParts(T, spec)
  BY TargetFacts, PodBounds DEF TypeOK
<1>9. T \in Seq(Target) /\ refs \in Seq(Credentials) /\ R \in Nat /\ Len(T) \in Nat
  <2> HIDE DEF T
  <2>1. T \in Seq(Target) /\ refs \in Seq(Credentials)
    BY <1>8 DEF TargetParts
  <2> QED
    BY <2>1
<1>10. t.name \in Credentials
  BY <1>1 DEF Target
<1>11. \/ d + 1 <= R /\ t.git = FALSE /\ t.name = refs[d + 1]
       \/ /\ d = R /\ Len(T) = R + 1 /\ t.git = TRUE /\ NeedsGit(spec)
          /\ t.name = spec.workspace.credentialRef
  <2>1. Len(T) = R + (IF NeedsGit(spec) THEN 1 ELSE 0)
    BY <1>8 DEF TargetParts
  <2>2. CASE d + 1 <= R
    <3>1. d + 1 \in 1..R
      BY <1>6, <1>9, <2>2
    <3> QED
      BY <1>5, <1>8, <2>2, <3>1 DEF TargetParts
  <2>3. CASE ~(d + 1 <= R)
    <3> HIDE DEF R, d, T
    <3>1. NeedsGit(spec) /\ d = R /\ Len(T) = R + 1
      BY <1>5, <1>6, <1>9, <2>1, <2>3
    <3> QED
      BY <1>5, <1>8, <3>1 DEF TargetParts, R
  <2> QED
    BY <2>2, <2>3
<1>12. job'.todo = <<>> <=> d + 1 = Len(T)
  BY <1>1, <1>2, <1>5, DoneType
<1> DEFINE r == [name |-> t.name, secret |-> credential[t.name]]
<1>13. \/ /\ credential[t.name] = None /\ job'.missing = job.missing \union {t.name}
          /\ job'.creds = job.creds /\ job'.gitSecret = job.gitSecret
       \/ /\ credential[t.name] # None /\ t.git = TRUE /\ job'.gitSecret = credential[t.name]
          /\ job'.creds = job.creds /\ job'.missing = job.missing
       \/ /\ credential[t.name] # None /\ t.git = FALSE /\ job'.creds = Append(job.creds, r)
          /\ job'.missing = job.missing /\ job'.gitSecret = job.gitSecret
  BY <1>0 DEF ReadParts, Exists
<1>14. /\ \A c \in Credentials :
            c \in job.missing <=> \E p \in 1..d : T[p].name = c /\ credential[c] = None
       /\ \A i \in 1..Len(job.creds) : job.creds[i].secret = credential[job.creds[i].name]
       /\ \A p \in 1..R : p <= d /\ credential[refs[p]] # None =>
            \E i \in 1..Len(job.creds) : job.creds[i].name = refs[p]
       /\ job.gitSecret = None
  BY <1>1 DEF Fresh, Exists
<1>15. r.name = t.name /\ r.secret = credential[t.name]
  OBVIOUS
<1>16. job'.creds = Append(job.creds, r) =>
         /\ Len(job'.creds) = Len(job.creds) + 1
         /\ job'.creds[Len(job.creds) + 1] = r
         /\ \A i \in 1..Len(job.creds) : job'.creds[i] = job.creds[i]
  <2>1. job.creds \in Seq(Resolved) /\ Len(job.creds) \in Nat
    BY <1>1, JobTypes
  <2> HIDE DEF r
  <2> SUFFICES ASSUME job'.creds = Append(job.creds, r)
               PROVE  /\ Len(job'.creds) = Len(job.creds) + 1
                      /\ job'.creds[Len(job.creds) + 1] = r
                      /\ \A i \in 1..Len(job.creds) : job'.creds[i] = job.creds[i]
    OBVIOUS
  <2>2. r \in Resolved
    <3>1. job'.creds \in Seq(Resolved)
      BY <1>1, JobTypes
    <3>2. Len(Append(job.creds, r)) = Len(job.creds) + 1 /\ Append(job.creds, r)[Len(job.creds) + 1] = r
      BY <2>1
    <3> QED
      BY <2>1, <3>1, <3>2
  <2> QED
    BY <2>1, <2>2, AppendProperties
<1> HIDE DEF r
<1>17. Len(job.creds) \in Nat
  BY <1>1, JobTypes
<1>18. (\A c \in Credentials :
        c \in job.missing <=> \E p \in 1..Done(job) : CredentialTargets(spec)[p].name = c /\ ~Exists(c))'
  <2>1. ASSUME NEW c \in Credentials
        PROVE  c \in job'.missing <=> \E p \in 1..(d + 1) : T[p].name = c /\ credential[c] = None
    <3> HIDE DEF T, d
    <3>1. \A p \in 1..(d + 1) : p \in 1..d \/ p = d + 1
      BY <1>6
    <3>2. d + 1 \in 1..(d + 1) /\ \A p \in 1..d : p \in 1..(d + 1)
      BY <1>6
    <3>3. (\E p \in 1..(d + 1) : T[p].name = c /\ credential[c] = None)
          <=> ((\E p \in 1..d : T[p].name = c /\ credential[c] = None) \/ (t.name = c /\ credential[c] = None))
      BY <1>5, <3>1, <3>2
    <3>4. c \in job'.missing <=> (c \in job.missing \/ (t.name = c /\ credential[c] = None))
      BY <1>13
    <3> QED
      BY <1>14, <3>3, <3>4
  <2> HIDE DEF d
  <2> QED
    BY <1>3, <1>7, <2>1 DEF Exists, T
<1>19. (\A i \in 1..Len(job.creds) : job.creds[i].secret = credential[job.creds[i].name])'
  <2>1. CASE job'.creds = job.creds
    BY <1>3, <1>14, <2>1
  <2>2. CASE job'.creds = Append(job.creds, r)
    <3>1. \A i \in 1..(Len(job.creds) + 1) : i \in 1..Len(job.creds) \/ i = Len(job.creds) + 1
      BY <1>17
    <3> QED
      BY <1>3, <1>14, <1>15, <1>16, <2>2, <3>1
  <2> QED
    BY <1>13, <2>1, <2>2
<1>20. (\A p \in 1..Len(spec.credentialRefs) : p <= Done(job) /\ Exists(spec.credentialRefs[p]) =>
         \E i \in 1..Len(job.creds) : job.creds[i].name = spec.credentialRefs[p])'
  <2>1. ASSUME NEW p \in 1..R, p <= d + 1, credential[refs[p]] # None
        PROVE  \E i \in 1..Len(job'.creds) : job'.creds[i].name = refs[p]
    <3> HIDE DEF T, d, R, refs
    <3>1. CASE p <= d
      <4>1. PICK i \in 1..Len(job.creds) : job.creds[i].name = refs[p]
        BY <1>14, <2>1, <3>1
      <4>2. i \in 1..Len(job'.creds) /\ job'.creds[i] = job.creds[i]
        BY <1>13, <1>16, <1>17
      <4> QED
        BY <4>1, <4>2
    <3>2. CASE ~(p <= d)
      <4>1. p = d + 1 /\ d + 1 <= R
        BY <1>6, <1>9, <2>1, <3>2
      <4>2. t.git = FALSE /\ t.name = refs[p]
        BY <1>6, <1>9, <1>11, <4>1
      <4>3. job'.creds = Append(job.creds, r)
        BY <1>13, <2>1, <4>2
      <4>4. Len(job.creds) + 1 \in 1..Len(job'.creds) /\ job'.creds[Len(job.creds) + 1].name = refs[p]
        BY <1>15, <1>16, <1>17, <4>2, <4>3
      <4> QED
        BY <4>4
    <3> QED
      BY <3>1, <3>2
  <2> HIDE DEF d
  <2> QED
    BY <1>3, <1>7, <2>1 DEF Exists, refs, R
<1>21. (job.gitSecret = IF job.todo = <<>> THEN GitSecretNow ELSE None)'
  <2>1. GitSecretNow' = GitSecretNow
    BY <1>3 DEF GitSecretNow
  <2> HIDE DEF T, d, R
  <2>2. CASE t.git = TRUE
    <3>1. d + 1 = Len(T) /\ NeedsGit(spec) /\ t.name = spec.workspace.credentialRef
      BY <1>6, <1>9, <1>11, <2>2
    <3>2. GitSecretNow = credential[t.name] /\ job'.todo = <<>>
      BY <1>12, <3>1 DEF GitSecretNow
    <3>3. job'.gitSecret = credential[t.name]
      BY <1>13, <1>14, <2>2
    <3> QED
      BY <2>1, <3>2, <3>3
  <2>3. CASE t.git = FALSE
    <3>1. d + 1 <= R /\ job'.gitSecret = None
      BY <1>11, <1>13, <1>14, <2>3
    <3>2. job'.todo = <<>> => ~NeedsGit(spec)
      <4>1. Len(T) = R + (IF NeedsGit(spec) THEN 1 ELSE 0)
        BY <1>8 DEF TargetParts, R
      <4> QED
        BY <1>6, <1>9, <1>12, <3>1, <4>1
    <3> QED
      BY <2>1, <3>1, <3>2 DEF GitSecretNow
  <2> QED
    BY <1>11, <2>2, <2>3
<1>22. ~job.materialized
  BY <1>1, <1>4 DEF Passed
<1> QED
  BY <1>1, <1>2, <1>3, <1>18, <1>19, <1>20, <1>21, <1>22 DEF Fresh

LEMMA FreshMoves ==
  ASSUME TypeOK, JobInv, Moves, Fresh(job)
  PROVE  Fresh(job)'
<1>1. /\ job \in Jobs
      /\ job'.spec = job.spec /\ job'.gen = job.gen /\ job'.todo = job.todo
      /\ job'.creds = job.creds /\ job'.missing = job.missing /\ job'.gitSecret = job.gitSecret
  BY MovesKeep
<1>2. spec' = spec /\ gen' = gen /\ credential' = credential
  BY DEF Moves, RefsDone, ReadModel, ReadModelCredential, ReconcileWorkspace,
     WriteDeployment, WriteService, users
<1>3. Done(job)' = Done(job) /\ GitSecretNow' = GitSecretNow
  BY <1>1, <1>2 DEF Done, GitSecretNow
<1>4. job.spec = spec /\ Passed(job)
  BY <1>1, JobTypes DEF Fresh, JobInv
<1>5. (job.pc = "service" \/ job.materialized =>
         deployment = Pod(spec, job.gitSecret, job.modelSecret, job.creds))'
  <2>1. CASE RefsDone
    <3>1. ~job'.materialized /\ job'.pc # "service"
      <4>1. job.pc = "refs" /\ ~job.materialized
        BY <1>4, <2>1 DEF RefsDone, JobIs, Passed
      <4> QED
        BY <1>1, <2>1, <4>1 DEF RefsDone, Jobs
    <3> QED
      BY <3>1
  <2>2. CASE ReadModel \/ ReadModelCredential \/ ReconcileWorkspace
    <3>1. ~job'.materialized /\ job'.pc # "service"
      <4>1. job.pc # "status"
        BY <2>2 DEF ReadModel, ReadModelCredential, ReconcileWorkspace, JobIs
      <4>2. ~job.materialized
        BY <1>4, <4>1 DEF Passed
      <4> QED
        BY <1>1, <2>2, <4>2 DEF ReadModel, ReadModelCredential, ReconcileWorkspace, Jobs
    <3> QED
      BY <3>1
  <2>3. CASE WriteDeployment
    <3>1. job.pc = "deployment" /\ deployment' = Assembled /\ job'.modelSecret = job.modelSecret
      BY <1>1, <2>3 DEF WriteDeployment, JobIs, Jobs
    <3>2. Assembled = Pod(job.spec, job.gitSecret, job.modelSecret, job.creds)
      BY <3>1, AssembledIsPod
    <3> QED
      BY <1>1, <1>2, <1>4, <3>1, <3>2
  <2>4. CASE WriteService
    <3>1. job.pc = "service" /\ deployment' = deployment /\ job'.modelSecret = job.modelSecret
      BY <1>1, <2>4 DEF WriteService, JobIs, Jobs
    <3> QED
      BY <1>1, <1>2, <3>1 DEF Fresh
  <2> QED
    BY <2>1, <2>2, <2>3, <2>4 DEF Moves
<1>6. (job.pc = "status" /\ Validate(spec) /\ ~job.materialized =>
         spec.runtime = None \/ (NeedsGit(spec) /\ job.gitSecret = None))'
  <2>1. CASE RefsDone
    <3>1. job'.pc = "status" =>
            job.spec.runtime = None \/ (NeedsGit(job.spec) /\ job.gitSecret = None)
      BY <1>1, <2>1 DEF RefsDone, Jobs
    <3> QED
      BY <1>1, <1>2, <1>4, <3>1
  <2>2. CASE ReadModel \/ ReadModelCredential \/ ReconcileWorkspace \/ WriteDeployment
    <3>1. job'.pc # "status"
      BY <1>1, <2>2 DEF ReadModel, ReadModelCredential, ReconcileWorkspace, WriteDeployment, Jobs
    <3> QED
      BY <3>1
  <2>3. CASE WriteService
    <3>1. job'.materialized = TRUE
      BY <1>1, <2>3 DEF WriteService, Jobs
    <3> QED
      BY <3>1
  <2> QED
    BY <2>1, <2>2, <2>3 DEF Moves
<1> QED
  BY <1>1, <1>2, <1>3, <1>5, <1>6 DEF Fresh, Exists

\* The Credentials a fresh Reconcile has when it has read them all.
LEMMA AllCurrent ==
  ASSUME TypeOK, NEW j \in Jobs, TodoFits(j), Collected(j), Fresh(j), j.todo = <<>>
  PROVE  /\ AreCurrent(j.creds, spec.credentialRefs)
         /\ j.creds \in UNION {[1..n -> Resolved] : n \in 0..Len(spec.credentialRefs)}
         /\ j.missing = {c \in TargetNames(spec) : ~Exists(c)}
         /\ j.gitSecret = GitSecretNow
<1> DEFINE T == CredentialTargets(spec)
           refs == spec.credentialRefs
           R == Len(refs)
<1>0. j.spec = spec
  BY DEF Fresh
<1>1. Done(j) = Len(T)
  BY <1>0, DoneType
<1>2. TargetParts(T, spec)
  BY TargetFacts, PodBounds DEF TypeOK
<1>3. T \in Seq(Target) /\ R \in Nat /\ Len(T) \in Nat /\ Len(T) >= R
  <2> HIDE DEF T
  <2>1. T \in Seq(Target) /\ refs \in Seq(Credentials) /\ Len(T) = R + (IF NeedsGit(spec) THEN 1 ELSE 0)
    BY <1>2 DEF TargetParts
  <2>2. R \in Nat
    BY <2>1
  <2> HIDE DEF R
  <2> QED
    BY <2>1, <2>2
<1>4. \A p \in 1..R : p <= Done(j)
  <2> HIDE DEF R, T
  <2> QED
    BY <1>1, <1>3
<1>5. AreCurrent(j.creds, refs)
  <2>1. \A i \in 1..Len(j.creds) : /\ j.creds[i].secret = credential[j.creds[i].name]
                                   /\ \E p \in 1..R : refs[p] = j.creds[i].name
    BY <1>0 DEF Fresh, Collected
  <2>2. \A p \in 1..R : Exists(refs[p]) => \E i \in 1..Len(j.creds) : j.creds[i].name = refs[p]
    BY <1>4 DEF Fresh
  <2>3. \A i, k \in 1..Len(j.creds) : \A p, q \in 1..R :
          i < k /\ refs[p] = j.creds[i].name /\ refs[q] = j.creds[k].name => p < q
    BY <1>0 DEF Collected
  <2> QED
    BY <2>1, <2>2, <2>3 DEF AreCurrent
<1>6. j.creds \in UNION {[1..n -> Resolved] : n \in 0..R}
  <2>1. j.creds \in Seq(Resolved)
    BY JobTypes
  <2>2. Len(j.creds) \in Nat /\ j.creds \in [1..Len(j.creds) -> Resolved]
    BY <2>1
  <2>3. Len(j.creds) <= R
    BY <1>0 DEF Collected
  <2> HIDE DEF R
  <2> QED
    BY <1>3, <2>2, <2>3
<1>7. j.missing = {c \in TargetNames(spec) : ~Exists(c)}
  <2>1. j.missing \subseteq Credentials
    BY JobTypes
  <2>2. \A c \in Credentials : c \in j.missing <=> \E p \in 1..Len(T) : T[p].name = c /\ ~Exists(c)
    BY <1>1 DEF Fresh
  <2>3. \A p \in 1..Len(T) : T[p].name \in Credentials
    <3> HIDE DEF T
    <3>1. \A p \in 1..Len(T) : T[p] \in Target
      BY <1>3, ElementOfSeq
    <3> QED
      BY <3>1 DEF Target
  <2>4. TargetNames(spec) = {T[p].name : p \in 1..Len(T)}
    BY DEF TargetNames
  <2> HIDE DEF T
  <2> QED
    BY <2>1, <2>2, <2>3, <2>4
<1>8. j.gitSecret = GitSecretNow
  BY DEF Fresh
<1> QED
  BY <1>5, <1>6, <1>7, <1>8

LEMMA UpdateSettles ==
  ASSUME TypeOK, JobInv, UpdateStatus, Fresh(job), status' = status
  PROVE  Settled'
<1>1. job \in Jobs /\ job.pc = "status"
  BY IdleOrJob DEF UpdateStatus, JobIs
<1>2. TodoFits(job) /\ Collected(job) /\ Passed(job)
  BY <1>1, JobTypes DEF JobInv
<1>3. /\ spec' = spec /\ credential' = credential /\ deployment' = deployment
      /\ job.spec = spec /\ job.gen = gen
  BY DEF UpdateStatus, users, owned, Fresh
<1>4. status = Decision
  BY <1>3 DEF UpdateStatus
<1>10. Untouched
  BY <1>3 DEF Untouched, GitSecretNow
<1> SUFFICES ASSUME Validate(spec)
             PROVE  StatusSettled /\ PodSettled
  BY <1>3, <1>10, SettledUntouched DEF Settled
<1>5. job.todo = <<>>
  BY <1>1, <1>2, <1>3 DEF Passed
<1>6. /\ AreCurrent(job.creds, spec.credentialRefs)
      /\ job.creds \in UNION {[1..n -> Resolved] : n \in 0..Len(spec.credentialRefs)}
      /\ job.missing = {c \in TargetNames(spec) : ~Exists(c)}
      /\ job.gitSecret = GitSecretNow
  BY <1>1, <1>2, <1>5, AllCurrent
<1>7. Deployable => job.materialized
  BY <1>1, <1>6 DEF Fresh, Deployable
<1>8. StatusSettled
  <2>1. status.missing = job.missing
    BY <1>4 DEF Decision
  <2>2. status.reason = IF job.missing = {} THEN "Resolved" ELSE "ReferenceNotFound"
    BY <1>3, <1>4 DEF Decision
  <2>3. job.materialized => status.claim = (spec.workspace # None)
    BY <1>3, <1>4 DEF Decision
  <2> QED
    BY <1>6, <1>7, <2>1, <2>2, <2>3 DEF StatusSettled
<1>9. PodSettled
  <2>1. job.materialized => deployment = Pod(spec, GitSecretNow, job.modelSecret, job.creds)
    BY <1>6 DEF Fresh
  <2>2. job.modelSecret \in Secrets \union {None}
    BY <1>1, JobTypes
  <2> QED
    BY <1>6, <1>7, <2>1, <2>2 DEF PodSettled
<1> QED
  BY <1>8, <1>9

LEMMA StepAttended ==
  ASSUME TypeOK, JobInv, Attended, [Next]_vars
  PROVE  Attended'
<1> SUFFICES ASSUME "agent" \notin queue'
             PROVE  ((job # Idle /\ Fresh(job)) \/ (job = Idle /\ Settled))'
  BY DEF Attended
<1>1. CASE StartReconcile
  <2>1. job' # Idle
    <3>1. job'.pc # "idle"
      BY <1>1 DEF StartReconcile
    <3> QED
      BY <3>1 DEF Idle
  <2> QED
    BY <1>1, <2>1, FreshStart DEF Idle
<1>2. CASE UpdateStatus
  <2>1. "agent" \notin queue /\ status' = status /\ job' = Idle /\ job.pc = "status"
    BY <1>2 DEF UpdateStatus, JobIs
  <2>2. Fresh(job)
    <3>1. job # Idle
      BY <2>1 DEF Idle
    <3> QED
      BY <2>1, <3>1 DEF Attended
  <2>3. Settled'
    BY <1>2, <2>1, <2>2, UpdateSettles
  <2> QED
    BY <2>1, <2>3 DEF Idle
<1>3. CASE ReadCredential
  <2>1. "agent" \notin queue /\ job.pc = "refs"
    BY <1>3 DEF ReadCredential, JobIs
  <2>2. Fresh(job)
    <3>1. job # Idle
      BY <2>1 DEF Idle
    <3> QED
      BY <2>1, <3>1 DEF Attended
  <2>3. job' # Idle
    <3>1. job' \in Jobs
      BY <1>3, ReadFacts DEF ReadParts
    <3> QED
      BY <3>1, JobTypes
  <2> QED
    BY <1>3, <2>2, <2>3, FreshRead DEF Idle
<1>4. CASE Moves
  <2>1. "agent" \notin queue
    BY <1>4 DEF Moves, RefsDone, ReadModel, ReadModelCredential, ReconcileWorkspace,
       WriteDeployment, WriteService
  <2>2. job \in Jobs
    BY <1>4, MovesKeep
  <2>3. Fresh(job)
    BY <2>1, <2>2, JobTypes DEF Attended
  <2>4. job' # Idle
    <3>1. job'.pc # "idle"
      BY <1>4, <2>2 DEF Moves, RefsDone, ReadModel, ReadModelCredential, ReconcileWorkspace,
         WriteDeployment, WriteService, Jobs
    <3> QED
      BY <3>1 DEF Idle
  <2> QED
    BY <1>4, <2>3, <2>4, FreshMoves DEF Idle
<1>5. CASE /\ "agent" \notin queue /\ Untouched /\ job' = job /\ gen' = gen
           /\ deployment' = deployment /\ status' = status
  <2>1. job # Idle => Fresh(job)'
    BY <1>5, FreshUntouched DEF Attended
  <2>2. job = Idle => Settled'
    BY <1>5, SettledUntouched DEF Attended
  <2> QED
    BY <1>5, <2>1, <2>2 DEF Idle
<1>6. ASSUME NEW c \in Credentials, NEW v, SetCredential(c, v)
      PROVE  /\ "agent" \notin queue /\ Untouched /\ job' = job /\ gen' = gen
             /\ deployment' = deployment /\ status' = status
  <2>1. "agent" \notin queue /\ ~NamesCredential(c)
    BY <1>6 DEF SetCredential
  <2>2. job' = job /\ gen' = gen /\ deployment' = deployment /\ status' = status
    BY <1>6 DEF SetCredential, owned
  <2> QED
    BY <1>6, <2>1, <2>2, UnnamedUntouched
<1>7. ASSUME ModelReconcile \/ UNCHANGED vars
      PROVE  /\ "agent" \notin queue /\ Untouched /\ job' = job /\ gen' = gen
             /\ deployment' = deployment /\ status' = status
  <2>1. "agent" \notin queue
    BY <1>7 DEF ModelReconcile, vars
  <2>2. /\ job' = job /\ gen' = gen /\ deployment' = deployment /\ status' = status
        /\ spec' = spec /\ credential' = credential
    BY <1>7 DEF ModelReconcile, users, owned, vars
  <2> QED
    BY <2>1, <2>2 DEF Untouched, GitSecretNow
<1>8. ~(\E s \in Specs : Apply(s)) /\ ~(\E c \in Credentials \union {None} : SetModel(c))
      /\ ~WriteFails /\ ~OperatorRestart
  BY DEF Apply, SetModel, WriteFails, OperatorRestart
<1> QED
  BY <1>1, <1>2, <1>3, <1>4, <1>5, <1>6, <1>7, <1>8 DEF Next, Reconcile, Moves

-----------------------------------------------------------------------------
(* The theorems.                                                           *)

LEMMA InitIndInv == Init => IndInv
<1> SUFFICES ASSUME Init PROVE IndInv
  OBVIOUS
<1>1. TypeOK
  BY InitType
<1>2. Counted /\ JobInv /\ PodInv /\ Attended
  BY DEF Init, Counted, JobInv, PodInv, Attended
<1> QED
  BY <1>1, <1>2 DEF IndInv

LEMMA StepIndInv == IndInv /\ [Next]_vars => IndInv'
BY StepType, StepJob, StepPod, StepAttended DEF IndInv

\* The inductive invariant.
THEOREM IndInvHolds == Spec => []IndInv
BY InitIndInv, StepIndInv, PTL DEF Spec

\* Every Deployment the Operator ever writes, every status and every Reconcile in
\* progress has its type.
THEOREM TypeCorrect == Spec => []TypeOK
<1>1. IndInv => TypeOK
  BY DEF IndInv
<1> QED
  BY <1>1, IndInvHolds, PTL

\* Whatever specs were applied with and without the webhook, and whatever
\* Deployment was there before: runtimePod, userVolumes and credentialVolumes
\* submit no volume twice, no mount without one, no two mounts in one directory
\* but for a workspace path validation lets through, and one writer of the claim.
THEOREM PodsAreCoherent == Spec => []PodIsCoherent
<1>1. IndInv => PodIsCoherent
  BY DEF IndInv, PodInv, Coherent, PodIsCoherent
<1> QED
  BY <1>1, IndInvHolds, PTL

\* The runtime finds its working directory, its HOME, the git token and its
\* Credentials where the environment says, whatever the Agent's own says.
THEOREM EnvironmentAgrees == Spec => []EnvNamesMounts
<1>1. IndInv => EnvNamesMounts
  BY DEF IndInv, PodInv, EnvAgrees, EnvNamesMounts
<1> QED
  BY <1>1, IndInvHolds, PTL

LEMMA RestIsSettled ==
  ASSUME IndInv, Quiescent
  PROVE  Settled
<1>1. job = Idle /\ "agent" \notin queue
  BY IdleOrJob DEF IndInv, Quiescent, JobIs
<1> QED
  BY <1>1 DEF IndInv, Attended

\* At rest the Agent reports exactly the Credentials that are missing, its
\* workspace's included, and names the claim its pod mounts.
THEOREM StatusConverges == Spec => []StatusIsExact
<1>1. IndInv => StatusIsExact
  BY RestIsSettled DEF Settled, StatusSettled, StatusIsExact, Deployable
<1> QED
  BY <1>1, IndInvHolds, PTL

\* At rest the Deployment that was updated over and over is the one a fresh
\* Agent with this spec and these Credentials would get, but for the model's
\* Secret.
THEOREM PodConverges == Spec => []PodFollowsSpec
<1>1. IndInv => PodFollowsSpec
  <2> SUFFICES ASSUME IndInv, Quiescent, Validate(spec), Deployable
               PROVE  \E modelSecret \in Secrets \union {None} :
                      \E creds \in UNION {[1..n -> Resolved] : n \in 0..Len(spec.credentialRefs)} :
                        /\ AreCurrent(creds, spec.credentialRefs)
                        /\ deployment = Mutate(Blank, spec, GitSecretNow, modelSecret, creds)
    BY DEF PodFollowsSpec, Deployable
  <2>1. PodSettled
    BY RestIsSettled DEF Settled
  <2>2. PICK modelSecret \in Secrets \union {None},
             creds \in UNION {[1..n -> Resolved] : n \in 0..Len(spec.credentialRefs)} :
               /\ AreCurrent(creds, spec.credentialRefs)
               /\ deployment = Pod(spec, GitSecretNow, modelSecret, creds)
    BY <2>1 DEF PodSettled
  <2>3. Inputs(spec, GitSecretNow, modelSecret, creds)
    <3>1. spec \in AgentSpec /\ spec.runtime # None
      BY PodBounds DEF IndInv, TypeOK, Deployable
    <3>2. GitSecretNow \in Secrets \union {None}
      BY <3>1, NeedsGitType DEF IndInv, TypeOK, GitSecretNow
    <3>3. creds \in Seq(Resolved)
      <4>1. PICK n \in 0..Len(spec.credentialRefs) : creds \in [1..n -> Resolved]
        BY <2>2
      <4>2. n \in Nat
        OBVIOUS
      <4> QED
        BY <4>1, <4>2
    <3> QED
      BY <2>2, <3>1, <3>2, <3>3 DEF Inputs
  <2>4. Mutate(Blank, spec, GitSecretNow, modelSecret, creds)
          = Pod(spec, GitSecretNow, modelSecret, creds)
    BY <2>3, FreshIsPod, Zenon
  <2> QED
    BY <2>2, <2>4
<1> QED
  BY <1>1, IndInvHolds, PTL
=============================================================================
