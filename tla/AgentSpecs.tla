----------------------------- MODULE AgentSpecs -----------------------------
(***************************************************************************)
(* The part of an Agent's spec its runtime pod is made of (agent_types.go) *)
(* and its structural validation (validation.go), which both the admission *)
(* webhook and the controller run.                                         *)
(*                                                                         *)
(* A path is the sequence of its segments, whether it is absolute and      *)
(* whether it is written with a slash at the end. A volume's name is a     *)
(* pair of the reserved prefix (or "") and the rest.                       *)
(***************************************************************************)
EXTENDS Naturals, Sequences

CONSTANTS
  Credentials,   \* names of the namespace's Credentials
  Strings,       \* the strings specs and pods are made of
  None           \* a nil pointer, an empty string

Path(segs)     == [segs |-> segs, abs |-> TRUE, slash |-> FALSE]
Under(p, seg)  == Path(Append(p.segs, seg))
Inside(p, dir) == /\ Len(p.segs) > Len(dir.segs)
                  /\ SubSeq(p.segs, 1, Len(dir.segs)) = dir.segs

\* Where the Operator mounts what it manages.
TmpPath         == Path(<<"tmp">>)
GitPath         == Path(<<"agentplane", "git">>)
ModelPath       == Path(<<"agentplane", "model">>)
CredentialsPath == Path(<<"agentplane", "credentials">>)

ReservedMountPaths == {TmpPath, GitPath, ModelPath, CredentialsPath}

Volume(n)           == <<"", n>>
CredentialVolume(c) == <<"credential-", c>>

ReservedVolumeNames ==
  {Volume(n) : n \in {"workspace", "tmp", "git-credential", "model-credential"}}

ReservedRuntimeEnv == {"AGENTPLANE_CREDENTIALS_PATH"}

\* Where the working tree appears, the default when the spec does not say.
WorkspaceMountPath(ws) == IF ws.mountPath = None THEN Path(<<"workspace">>) ELSE ws.mountPath

-----------------------------------------------------------------------------
(* The types. Sizes, images, resources and access modes are left out.      *)

Names == Credentials \union Strings
VolumeName == {"", "credential-"} \X Names
Paths == [segs : Seq(Names), abs : BOOLEAN, slash : BOOLEAN]
Text  == {None} \union Strings

AgentVolume == [name : VolumeName, source : Strings, mountPath : Paths]

AgentRuntimeSpec ==
  [replicas : Nat, port : Nat, env : Seq([name : Strings, value : {None} \union Paths]),
   volumes : Seq(AgentVolume), readinessProbe : Text, runtimeClassName : Text]

AgentWorkspaceSpec ==
  [repository : Text, branch : Text, credentialRef : {None} \union Credentials,
   mountPath : {None} \union Paths]

AgentSpec ==
  [runtime : {None} \union AgentRuntimeSpec, workspace : {None} \union AgentWorkspaceSpec,
   toolRefs : Seq(Names), credentialRefs : Seq(Credentials), expose : BOOLEAN]

-----------------------------------------------------------------------------
(* AgentSpec.Validate. One list stands for the five of capabilities.       *)

HasDuplicate(s) == \E i, j \in 1..Len(s) : i < j /\ s[i] = s[j]

\* The size is left out: one that is no quantity makes a spec invalid like any other.
ValidateWorkspace(spec) ==
  spec.workspace # None =>
    /\ spec.runtime # None
    /\ spec.workspace.repository = None =>
         spec.workspace.branch = None /\ spec.workspace.credentialRef = None
    /\ WorkspaceMountPath(spec.workspace).abs

\* strings.TrimRight(mountPath, "/")
Clean(p) == [p EXCEPT !.slash = FALSE]

\* The workspace's path is reserved as it is written.
ReservedPaths(spec) ==
  ReservedMountPaths \union
    (IF spec.workspace = None THEN {} ELSE {WorkspaceMountPath(spec.workspace)})

\* Mutant: only the credentials directory itself is off limits.
FreeUnlessReserved(spec, v) ==
  /\ v.name \notin ReservedVolumeNames
  /\ v.name[1] # "credential-"
  /\ v.mountPath.abs
  /\ Clean(v.mountPath) \notin ReservedPaths(spec)

\* One of the Agent's own volumes keeps off the Operator's names and paths.
FreeVolume(spec, v) ==
  /\ v.name \notin ReservedVolumeNames
  /\ v.name[1] # "credential-"
  /\ v.mountPath.abs
  /\ Clean(v.mountPath) \notin ReservedPaths(spec)
  /\ ~Inside(Clean(v.mountPath), CredentialsPath)

ValidateVolumes(spec) ==
  spec.runtime # None =>
    LET vols == spec.runtime.volumes IN
    /\ \A i \in 1..Len(vols) : FreeVolume(spec, vols[i])
    /\ ~HasDuplicate([i \in 1..Len(vols) |-> Clean(vols[i].mountPath)])

ValidateRuntimeEnv(spec) ==
  spec.runtime # None =>
    \A i \in 1..Len(spec.runtime.env) : spec.runtime.env[i].name \notin ReservedRuntimeEnv

ValidateExpose(spec) == spec.expose => spec.runtime # None

Validate(spec) ==
  /\ ~HasDuplicate(spec.toolRefs)
  /\ ~HasDuplicate(spec.credentialRefs)
  /\ ValidateWorkspace(spec)
  /\ ValidateVolumes(spec)
  /\ ValidateRuntimeEnv(spec)
  /\ ValidateExpose(spec)
=============================================================================
