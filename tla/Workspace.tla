----------------------------- MODULE Workspace -----------------------------
(***************************************************************************)
(* An Agent's working directory over the life of its pods: the script of   *)
(* the clone init container, command by command, on a volume that outlives *)
(* every pod, and the runtime that works there in between. A pod may be    *)
(* killed between any two commands or inside one, and the script runs      *)
(* again on whatever was left.                                             *)
(*                                                                         *)
(* git, the kubelet (which restarts a failed init container), the          *)
(* Deployment's Recreate rollout and the runtime are external: they are    *)
(* modelled as far as the script relies on them. A unit of work is an edit *)
(* to a tracked file, an untracked file in nobody's way, an untracked file *)
(* whose path another tree tracks ("inway": another branch or repository,  *)
(* or what the remote has by now), a file in HOME or a commit. No          *)
(* repository is taken to track a path below HOME, and the runtime makes   *)
(* no repository of its own in a workspace that names none.                *)
(***************************************************************************)
EXTENDS Naturals, FiniteSets

CONSTANTS
  Repos,         \* clone URLs
  BranchesOf,    \* BranchesOf[r]: the branches repository r has
  Private,       \* the repositories that ask for a password
  DefaultBranch, \* the branch a clone checks out when none is named
  Topic,         \* a branch the runtime makes for its own work
  Work,          \* units of work the runtime does
  None,
  MaxEdits,      \* bound on changes of spec.workspace
  MaxKills,      \* bound on pods that are killed
  MaxOutages     \* bound on fetches and clones that fail on the network

ASSUME WorkspaceBounds == /\ Private \subseteq Repos
                          /\ \A r \in Repos : DefaultBranch \in BranchesOf[r]
                          /\ MaxEdits \in Nat /\ MaxKills \in Nat /\ MaxOutages \in Nat

VARIABLES
  spec,    \* spec.workspace: its repository and its branch
  pod,     \* the one pod (PodAssembly: Recreate, one replica) and where it is
  vol,     \* the volume behind the claim
  place,   \* place[w]: where a unit of work is
  edits, kills, outages

vars    == <<spec, pod, vol, place, edits, kills, outages>>
bounded == <<edits, kills, outages>>

Branches == UNION {BranchesOf[r] : r \in Repos}

\* What validateWorkspace lets through.
WorkspaceSpecs ==
  {[repository |-> None, branch |-> None]} \union
    [repository : Repos, branch : Branches \union {None}]

\* Mutant: the directories of the tools, not HOME.
ToolPatterns == {"/.opencode/**", "/node_modules/**"}

\* What git must not see of the runtime's own directories.
Patterns == {"/.agent-home/**", "/.opencode/**", "/node_modules/**"}

At(p)       == [at |-> p, branch |-> None]
Committed(b) == [at |-> "commit", branch |-> b]

\* A claim's first volume may hold a lost+found.
EmptyVolume(stray) ==
  [git |-> "none", origin |-> None, head |-> None, local |-> {}, known |-> {},
   tree |-> None, locks |-> {}, unmerged |-> FALSE, exclude |-> {}, home |-> "none",
   stray |-> stray, cut |-> FALSE]

NoPod == [pc |-> "none", repository |-> None, branch |-> None]

Init ==
  /\ spec \in WorkspaceSpecs
  /\ pod = NoPod
  /\ vol \in {EmptyVolume(stray) : stray \in BOOLEAN}
  /\ place = [w \in Work |-> At("unmade")]
  /\ edits = 0
  /\ kills = 0
  /\ outages = 0

-----------------------------------------------------------------------------
(* Users, the Deployment controller and the kubelet.                       *)

Apply(s) ==
  /\ edits < MaxEdits
  /\ s # spec
  /\ spec' = s
  /\ edits' = edits + 1
  /\ UNCHANGED <<pod, vol, place, kills, outages>>

StartPod ==
  /\ pod = NoPod
  /\ pod' = [pc |-> "begin", repository |-> spec.repository, branch |-> spec.branch]
  /\ UNCHANGED <<spec, vol, place, bounded>>

IsEmpty(v) == v.git = "none" /\ v.home = "none" /\ ~v.stray

\* Of a clone the directory .git without a remote, with one, with HEAD and with
\* files that were being written.
CutClones ==
  LET cut == [vol EXCEPT !.git = "bare", !.cut = TRUE]
      remote == [vol EXCEPT !.git = "cloned", !.cut = TRUE, !.origin = pod.repository]
      branch == IF pod.branch = None THEN DefaultBranch ELSE pod.branch
      fetched(locks) == [vol EXCEPT !.git = "cloned", !.cut = TRUE, !.origin = pod.repository,
                                    !.known = BranchesOf[pod.repository],
                                    !.head = branch, !.local = {branch}, !.locks = locks]
  IN {cut, remote} \union
     (IF pod.repository \in Private \/ branch \notin BranchesOf[pod.repository] THEN {}
      ELSE {fetched(vol.locks), fetched({"index"})})

\* What a command that is killed leaves: git's lock files, or half a clone.
Interrupted ==
  {vol} \union
  CASE pod.pc = "seturl" -> {[vol EXCEPT !.locks = @ \union {"config"}]}
    [] pod.pc = "fetch" -> {[vol EXCEPT !.locks = @ \union {"refs"}]}
    [] pod.pc \in {"checkout", "reset"} -> {[vol EXCEPT !.locks = @ \union {"index"}]}
    [] pod.pc = "clone" /\ IsEmpty(vol) -> CutClones
    [] OTHER -> {}

\* A crash of the node, an eviction, the kernel running out of memory.
Kill ==
  /\ pod # NoPod
  /\ kills < MaxKills
  /\ kills' = kills + 1
  /\ pod' = NoPod
  /\ vol' \in Interrupted
  /\ UNCHANGED <<spec, place, edits, outages>>

\* A changed template: Recreate ends the old pod before it starts the new one.
Recreate ==
  /\ pod # NoPod
  /\ [repository |-> pod.repository, branch |-> pod.branch] # spec
  /\ pod' = NoPod
  /\ vol' \in Interrupted
  /\ UNCHANGED <<spec, place, bounded>>

-----------------------------------------------------------------------------
(* The script. Under set -eu the first command that fails ends it, and the *)
(* kubelet runs it again from the start.                                   *)

Goto(pc)   == pod' = [pod EXCEPT !.pc = pc]
ScriptIs(pc) == pod.pc = pc
Has(p)     == \E w \in Work : place[w].at = p

Fails == Goto("begin") /\ UNCHANGED <<spec, vol, place, bounded>>

\* The password the clone step's credential helper answers with. It runs
\* cat '$AGENTPLANE_GIT_CREDENTIAL_FILE' with the name in single quotes, which
\* no shell expands, so that there is no such file and the answer is empty.
ClonePassword == None

Authorized(r) == r \notin Private \/ ClonePassword # None

\* Mutant: every pod clones.
CloneAnyway ==
  /\ ScriptIs("begin")
  /\ Goto(IF pod.repository = None THEN "mkdir" ELSE "clone")
  /\ UNCHANGED <<spec, vol, place, bounded>>

\* [ -d "$DIR/.git" ]
Begin ==
  /\ ScriptIs("begin")
  /\ Goto(CASE pod.repository = None -> "mkdir"
            [] pod.repository # None /\ vol.git # "none" -> "seturl"
            [] OTHER -> "clone")
  /\ UNCHANGED <<spec, vol, place, bounded>>

SetURL ==
  /\ ScriptIs("seturl")
  /\ IF vol.git = "bare" \/ "config" \in vol.locks
     THEN Fails
     ELSE /\ vol' = [vol EXCEPT !.origin = pod.repository]
          /\ Goto("fetch")
          /\ UNCHANGED <<spec, place, bounded>>

\* fetch --prune: the remote's branches, and no others, are known afterwards.
Fetch ==
  /\ ScriptIs("fetch")
  /\ IF ~Authorized(pod.repository) \/ "refs" \in vol.locks
     THEN Fails
     ELSE /\ vol' = [vol EXCEPT !.known = BranchesOf[vol.origin]]
          /\ Goto(IF pod.branch # None THEN "checkout" ELSE "mkdir")
          /\ UNCHANGED <<spec, place, bounded>>

\* A branch that is not there, a lock, or an index with conflicts in it.
CheckoutFits ==
  /\ pod.branch \in vol.local \union vol.known
  /\ "index" \notin vol.locks
  /\ ~vol.unmerged

\* On the way from another tree git refuses to overwrite: edits, where they touch
\* a file that differs, and untracked files that are in the way.
InTheWay == vol.head # pod.branch /\ (Has("edit") \/ Has("inway"))

\* Untracked files that git ignores it does overwrite.
Overwritten == IF vol.head # pod.branch THEN {w \in Work : place[w] = At("inway")} ELSE {}

Lose(W) == place' = [w \in Work |-> IF w \in W THEN At("lost") ELSE place[w]]

Checkout ==
  /\ ScriptIs("checkout")
  /\ \/ /\ CheckoutFits
        /\ vol' = [vol EXCEPT !.head = pod.branch,
                              !.local = @ \union {pod.branch},
                              !.tree = IF @ = None THEN pod.repository ELSE @]
        /\ \E W \in SUBSET Overwritten : Lose(W)
        /\ Goto("reset")
        /\ UNCHANGED <<spec, bounded>>
     \/ /\ ~CheckoutFits \/ InTheWay
        /\ Fails

\* Mutant: the tree is made anew, HOME aside.
Recloned(w) == place[w].at \in {"edit", "file", "commit"}

\* What is not in origin's branch is gone: edits to tracked files, and the
\* commits of the local branch.
Discarded(w) == place[w] \in {At("edit"), Committed(pod.branch)}

\* reset --hard origin/<branch>, which overwrites the untracked files in the way
\* of those it tracks.
Reset ==
  /\ ScriptIs("reset")
  /\ IF pod.branch \notin vol.known \/ "index" \in vol.locks
     THEN Fails
     ELSE /\ vol' = [vol EXCEPT !.tree = vol.origin]
          /\ \E W \in SUBSET {w \in Work : place[w] = At("inway")} :
               Lose(W \union {w \in Work : Discarded(w)})
          /\ Goto("mkdir")
          /\ UNCHANGED <<spec, bounded>>

\* Mutant: the branch of the spec, also when it names none.
CloneUnnamed ==
  /\ ScriptIs("clone")
  /\ IF IsEmpty(vol) /\ Authorized(pod.repository)
     THEN /\ vol' = [vol EXCEPT !.git = "cloned", !.origin = pod.repository,
                                !.known = BranchesOf[pod.repository],
                                !.head = pod.branch, !.local = {pod.branch},
                                !.tree = pod.repository, !.exclude = {}]
          /\ Goto("mkdir")
          /\ UNCHANGED <<spec, place, bounded>>
     ELSE Fails

\* git clone: into an empty directory, and nothing is left when it fails.
Clone ==
  LET branch == IF pod.branch = None THEN DefaultBranch ELSE pod.branch IN
  /\ ScriptIs("clone")
  /\ IF IsEmpty(vol) /\ Authorized(pod.repository) /\ branch \in BranchesOf[pod.repository]
     THEN /\ vol' = [vol EXCEPT !.git = "cloned", !.origin = pod.repository,
                                !.known = BranchesOf[pod.repository],
                                !.head = branch, !.local = {branch},
                                !.tree = pod.repository, !.exclude = {}]
          /\ Goto("mkdir")
          /\ UNCHANGED <<spec, place, bounded>>
     ELSE Fails

NetworkDown ==
  /\ pod.pc \in {"fetch", "clone"}
  /\ outages < MaxOutages
  /\ outages' = outages + 1
  /\ Goto("begin")
  /\ UNCHANGED <<spec, vol, place, edits, kills>>

\* Mutant: a HOME that is there is taken to be usable.
MakeNewHome ==
  /\ ScriptIs("mkdir")
  /\ vol' = [vol EXCEPT !.home = IF @ = "none" THEN "root" ELSE @]
  /\ Goto(CASE vol.home = "none" -> "chmod"
            [] vol.home # "none" /\ vol.git # "none" -> "exclude"
            [] OTHER -> "run")
  /\ UNCHANGED <<spec, place, bounded>>

\* mkdir -p: a new directory is root's alone.
MakeHome ==
  /\ ScriptIs("mkdir")
  /\ vol' = [vol EXCEPT !.home = IF @ = "none" THEN "root" ELSE @]
  /\ Goto("chmod")
  /\ UNCHANGED <<spec, place, bounded>>

ChmodHome ==
  /\ ScriptIs("chmod")
  /\ vol' = [vol EXCEPT !.home = "group"]
  /\ Goto(IF vol.git # "none" THEN "exclude" ELSE "run")
  /\ UNCHANGED <<spec, place, bounded>>

\* The loop over info/exclude: one line at a time, each once.
Exclude ==
  /\ ScriptIs("exclude")
  /\ \/ \E p \in Patterns \ vol.exclude :
          vol' = [vol EXCEPT !.exclude = @ \union {p}] /\ UNCHANGED pod
     \/ Patterns \subseteq vol.exclude /\ Goto("run") /\ UNCHANGED vol
  /\ UNCHANGED <<spec, place, bounded>>

Script == \/ Begin \/ SetURL \/ Fetch \/ Checkout \/ Reset \/ Clone
          \/ MakeHome \/ ChmodHome \/ Exclude

-----------------------------------------------------------------------------
(* The runtime.                                                            *)

HasTree == vol.git = "cloned" /\ vol.tree # None

\* The runtime writes to a tracked file, to an untracked one, in the way of another
\* tree or not, or below its HOME.
Write(w) ==
  /\ ScriptIs("run")
  /\ place[w].at = "unmade"
  /\ \E p \in {"file", "inway", "home"} \union (IF HasTree THEN {"edit"} ELSE {}) :
       place' = [place EXCEPT ![w] = At(p)]
  /\ UNCHANGED <<spec, pod, vol, bounded>>

\* git add -A, git commit: all that is not excluded. Conflicts are resolved by it.
Commit ==
  LET added == {"edit", "file", "inway"} \union
                 (IF "/.agent-home/**" \in vol.exclude THEN {} ELSE {"home"})
  IN
  /\ ScriptIs("run")
  /\ HasTree /\ "index" \notin vol.locks
  /\ \E w \in Work : place[w].at \in added
  /\ place' = [w \in Work |->
                 IF place[w].at \in added THEN Committed(vol.head) ELSE place[w]]
  /\ vol' = [vol EXCEPT !.unmerged = FALSE]
  /\ UNCHANGED <<spec, pod, bounded>>

\* git merge: it stops at a conflict with what was committed here.
Conflict ==
  /\ ScriptIs("run")
  /\ HasTree /\ "index" \notin vol.locks /\ ~vol.unmerged
  /\ \E w \in Work : place[w] = Committed(vol.head)
  /\ vol' = [vol EXCEPT !.unmerged = TRUE]
  /\ UNCHANGED <<spec, pod, place, bounded>>

\* The runtime's own helper reads the token: every repository takes a push.
Push ==
  /\ ScriptIs("run")
  /\ \E w \in Work : place[w] = Committed(vol.head)
  /\ place' = [w \in Work |->
                 IF place[w] = Committed(vol.head) THEN At("pushed") ELSE place[w]]
  /\ UNCHANGED <<spec, pod, vol, bounded>>

Switch(b) ==
  /\ ScriptIs("run")
  /\ HasTree /\ "index" \notin vol.locks /\ ~vol.unmerged
  /\ b # vol.head
  /\ b = Topic \/ (b \in vol.local /\ ~Has("edit"))
  /\ vol' = [vol EXCEPT !.head = b, !.local = @ \union {b}]
  /\ UNCHANGED <<spec, pod, place, bounded>>

Next ==
  \/ \E s \in WorkspaceSpecs : Apply(s)
  \/ StartPod
  \/ Kill
  \/ Recreate
  \/ Script
  \/ NetworkDown
  \/ \E w \in Work : Write(w)
  \/ Commit
  \/ Conflict
  \/ Push
  \/ \E b \in Branches \union {Topic} : Switch(b)

\* The kubelet runs the containers, the Deployment controller its rollout.
Fairness == WF_vars(StartPod) /\ WF_vars(Recreate) /\ WF_vars(Script)

Spec == Init /\ [][Next]_vars /\ Fairness

-----------------------------------------------------------------------------
(* Properties.                                                             *)

PCs == {"none", "begin", "seturl", "fetch", "checkout", "reset", "clone",
        "mkdir", "chmod", "exclude", "run"}
Heads   == Branches \union {Topic}
Pods    == [pc : PCs, repository : Repos \union {None}, branch : Branches \union {None}]
Volumes == [git : {"none", "bare", "cloned"}, origin : Repos \union {None},
            head : Heads \union {None}, local : SUBSET Heads, known : SUBSET Branches,
            tree : Repos \union {None}, locks : SUBSET {"config", "refs", "index"},
            unmerged : BOOLEAN, exclude : SUBSET Patterns, home : {"none", "root", "group"},
            stray : BOOLEAN, cut : BOOLEAN]
Places  == {At(p) : p \in {"unmade", "edit", "file", "inway", "home", "pushed", "lost"}}
             \union {Committed(b) : b \in Heads}

\* No value stands for its own absence.
ASSUME NoneIsNoValue == None \notin Repos \union Heads

\* Every variable has its type.
TypeOK ==
  /\ spec \in WorkspaceSpecs
  /\ pod \in Pods
  /\ vol \in Volumes
  /\ place \in [Work -> Places]
  /\ edits \in Nat /\ kills \in Nat /\ outages \in Nat

Survivors == {At("file"), At("home")} \union {Committed(b) : b \in Heads}

\* "its branches ... and the conversation history a runtime keeps under HOME"
\* survive every restart, rollout and kill, of the script too: the only work a
\* pod ever takes away is what its own branch loses to reset --hard and the
\* untracked files in the way of what that branch tracks, so that a workspace
\* that names no branch loses nothing at all.
OnlyOwnBranchIsReset ==
  [][\A w \in Work : place'[w].at = "lost" /\ place[w].at # "lost" =>
       /\ pod.branch # None
       /\ place[w] \notin Survivors \ {Committed(pod.branch)}]_vars

\* The runtime's state is never in a commit, and stays where it is.
HomeIsNeverCommitted ==
  [][\A w \in Work : place[w].at = "home" => place'[w].at = "home"]_vars

\* "it cannot write into it and dies on startup": wherever the script was
\* killed before, a runtime that starts can write to its HOME, git ignores its
\* directories, and the tree is the branch its spec names; without a branch
\* there are files at least, unless the one clone was cut short.
StartsPrepared ==
  [][pod.pc # "run" /\ pod'.pc = "run" =>
       /\ vol'.home = "group"
       /\ vol'.git # "none" => vol'.exclude = Patterns
       /\ pod.branch # None =>
            /\ vol'.head = pod.branch
            /\ vol'.tree = pod.repository
            /\ ~Has("edit")
       /\ pod.repository # None => vol'.tree # None \/ vol'.cut]_vars

\* The states no later run of the script gets out of: a directory that had
\* contents before the repository was named, a clone killed before it wrote its
\* remote, a lock a killed git left, conflicts in the index, a branch the remote
\* does not have, edits or untracked files in the way of another branch, and a
\* repository that asks for a password.
Wedged ==
  /\ spec.repository # None
  /\ \/ vol.git = "none" /\ ~IsEmpty(vol)
     \/ vol.git = "bare"
     \/ vol.locks \intersect {"config", "refs"} # {}
     \/ spec.branch # None /\ ("index" \in vol.locks \/ vol.unmerged)
     \/ spec.branch # None /\ spec.branch \notin BranchesOf[spec.repository]
     \/ spec.branch # None /\ vol.head # spec.branch /\ (Has("edit") \/ Has("inway"))
     \/ ~Authorized(spec.repository)

\* Once nobody changes the spec or kills a pod, the runtime runs, on an empty
\* volume as on one that any number of pods have left, but for those states.
ComesUp == <>[](pod.pc = "run" \/ Wedged)

\* "so a pod restart resumes on the same tree instead of discarding work".
RestartKeepsWork == \A w \in Work : place[w].at # "lost"

\* "The clone step reads it through a credential helper": a private repository
\* whose Credential is mounted, and whose branch exists, is cloned into an empty
\* volume.
PrivateRepositoryIsCloned ==
  [](/\ spec.repository \in Private
     /\ spec.branch \in BranchesOf[spec.repository] \union {None}
     /\ ~vol.stray) => <>(vol.git = "cloned")
=============================================================================
