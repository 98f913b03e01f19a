--------------------------- MODULE MCPodAssembly ---------------------------
(* PodAssembly on specs that meet in one Deployment: each takes up what    *)
(* another leaves, and seven are invalid, each in a way of its own.        *)
EXTENDS PodAssembly

CONSTANTS gh, lark, s1, s2

Data(segs, slash) == [name |-> Volume("data"), source |-> "emptyDir",
                      mountPath |-> [Path(segs) EXCEPT !.slash = slash]]
Named(name, v)    == [v EXCEPT !.name = name]
DataVolume        == Data(<<"data">>, FALSE)

Runtime   == [replicas |-> 2, port |-> 0, env |-> <<>>, volumes |-> <<>>,
              readinessProbe |-> None, runtimeClassName |-> None]
Bare      == [runtime |-> Runtime, workspace |-> None, toolRefs |-> <<>>,
              credentialRefs |-> <<>>, expose |-> FALSE]
Directory == [repository |-> None, branch |-> None, credentialRef |-> None,
              mountPath |-> None]
Checkout  == [Directory EXCEPT !.repository = "repo", !.credentialRef = gh,
                               !.mountPath = Path(<<"ws">>)]
Slashed   == [Checkout EXCEPT !.mountPath.slash = TRUE]

WithVolumes(sp, vols) == [sp EXCEPT !.runtime.volumes = vols]
OwnHome == << Var("HOME", Path(<<"home">>)), Var("AGENTPLANE_WORKSPACE", None) >>

ValidSpecs ==
  { Bare,
    [Bare EXCEPT !.workspace = Directory, !.runtime.port = 1, !.runtime.env = OwnHome,
                 !.credentialRefs = <<lark>>],
    [Bare EXCEPT !.workspace = Checkout, !.credentialRefs = <<gh, lark>>],
    WithVolumes([Bare EXCEPT !.workspace = Checkout, !.runtime.runtimeClassName = "gvisor"],
                <<DataVolume>>),
    WithVolumes([Bare EXCEPT !.credentialRefs = <<lark>>, !.runtime.readinessProbe = "own",
                             !.runtime.port = 1],
                <<DataVolume, Named(Volume("more"), Data(<<"ws">>, TRUE))>>),
    WithVolumes([Bare EXCEPT !.workspace = Slashed], <<Data(<<"ws">>, FALSE)>>),
    [Bare EXCEPT !.workspace = [Directory EXCEPT !.mountPath = TmpPath]],
    [Bare EXCEPT !.runtime = None] }

InvalidSpecs ==
  { [Bare EXCEPT !.workspace = Checkout, !.runtime = None],
    [Bare EXCEPT !.workspace = [Directory EXCEPT !.branch = "main"]],
    [Bare EXCEPT !.credentialRefs = <<gh, gh>>],
    WithVolumes([Bare EXCEPT !.workspace = Checkout], <<Data(<<"ws">>, TRUE)>>),
    WithVolumes(Bare, <<DataVolume, Named(Volume("more"), Data(<<"data">>, TRUE))>>),
    WithVolumes([Bare EXCEPT !.credentialRefs = <<lark>>],
                <<Data(<<"agentplane", "credentials", lark>>, FALSE)>>),
    WithVolumes([Bare EXCEPT !.credentialRefs = <<lark>>],
                <<Named(CredentialVolume(lark), DataVolume)>>) }

AllStrings ==
  {"tmp", "agentplane", "git", "model", "credentials", "workspace", ".agent-home",
   ".config", "token", "git-credential", "model-credential", "claim", "emptyDir",
   "config", "AGENTPLANE_REGISTRY", "AGENTPLANE_AGENT_NAME", "AGENTPLANE_WORKSPACE",
   "AGENTPLANE_AGENT_HOME", "HOME", "XDG_CONFIG_HOME",
   "AGENTPLANE_GIT_CREDENTIAL_FILE", "GIT_CONFIG_VALUE_0",
   "AGENTPLANE_CREDENTIALS_PATH", "data", "more", "ws", "home", "own", "gvisor",
   "repo", "main"}

AllSpecs == ValidSpecs \union InvalidSpecs
=============================================================================
