-------------------------- MODULE WorkspaceProofs --------------------------
(* The clone script and the runtime it prepares, for any repositories,     *)
(* branches, amount of work and number of kills.                           *)
EXTENDS Workspace, TLAPS

\* What holds of the volume, whoever is at work on it: files are there with a
\* branch, unless a clone was cut short, and edits only where there are files.
VolumeInv(v) ==
  /\ v.git = "none" => v.tree = None
  /\ v.git = "cloned" => v.tree # None \/ v.cut = TRUE
  /\ v.tree # None => v.head # None

EditsInv(v) == v.git = "none" => \A w \in Work : place[w].at # "edit"

\* What the commands before the one at pc have made sure of.
RepositoryInv ==
  /\ pod.repository = None => pod.branch = None
  /\ pod.pc \in {"seturl", "fetch", "checkout", "reset", "clone"} => pod.repository # None
  /\ pod.pc \in {"checkout", "reset"} => pod.branch # None
  /\ pod.pc = "seturl" => vol.git # "none"
  /\ pod.pc \in {"fetch", "checkout", "reset"} => vol.git = "cloned" /\ vol.origin = pod.repository
  /\ pod.pc = "reset" => vol.head = pod.branch

TreeInv ==
  pod.pc \in {"mkdir", "chmod", "exclude"} =>
    /\ pod.repository # None => vol.git = "cloned"
    /\ pod.branch # None => /\ vol.head = pod.branch
                            /\ vol.tree = pod.repository
                            /\ \A w \in Work : place[w].at # "edit"

HomeInv ==
  /\ pod.pc = "chmod" => vol.home # "none"
  /\ pod.pc \in {"exclude", "run"} => vol.home = "group"
  /\ pod.pc = "run" => (vol.git # "none" => vol.exclude = Patterns)

IndInv == /\ TypeOK /\ VolumeInv(vol) /\ EditsInv(vol)
          /\ RepositoryInv /\ TreeInv /\ HomeInv

-----------------------------------------------------------------------------

\* What git takes away makes no edit.
LEMMA LosesOnly ==
  ASSUME place \in [Work -> Places], NEW W \in SUBSET Work, Lose(W)
  PROVE  /\ place' \in [Work -> Places]
         /\ \A w \in Work : place'[w].at = "edit" => w \notin W /\ place[w].at = "edit"
<1>1. At("lost") \in Places /\ At("lost").at # "edit"
  BY DEF Places, At
<1> QED
  BY <1>1 DEF Lose

\* A place has one reading.
LEMMA PlaceKinds ==
  ASSUME NEW x \in Places
  PROVE  /\ x.at = "edit" <=> x = At("edit")
         /\ x.at = "home" <=> x = At("home")
         /\ x.at = "inway" <=> x = At("inway")
         /\ x.at = "lost" <=> x = At("lost")
  BY DEF Places, At, Committed

\* Whatever a killed command leaves is a volume, and no better than it was.
LEMMA InterruptedVolume ==
  ASSUME IndInv, NEW v \in Interrupted
  PROVE  v \in Volumes /\ VolumeInv(v) /\ EditsInv(v)
<1> USE DEF IndInv, TypeOK
<1>1. \/ v = vol
      \/ v \in {[vol EXCEPT !.locks = @ \union {l}] : l \in {"config", "refs", "index"}}
      \/ pod.pc = "clone" /\ IsEmpty(vol) /\ v \in CutClones
  BY DEF Interrupted
<1>2. CASE v = vol
  BY <1>2
<1>3. ASSUME NEW l \in {"config", "refs", "index"}, v = [vol EXCEPT !.locks = @ \union {l}]
      PROVE  v \in Volumes /\ VolumeInv(v) /\ EditsInv(v)
  BY <1>3 DEF Volumes, VolumeInv, EditsInv
<1>4. CASE pod.pc = "clone" /\ IsEmpty(vol) /\ v \in CutClones
  <2> DEFINE branch == IF pod.branch = None THEN DefaultBranch ELSE pod.branch
             fetched(locks) ==
               [vol EXCEPT !.git = "cloned", !.cut = TRUE, !.origin = pod.repository,
                           !.known = BranchesOf[pod.repository],
                           !.head = branch, !.local = {branch}, !.locks = locks]
  <2>1. pod.repository \in Repos /\ vol.tree = None /\ vol.git = "none"
    BY <1>4 DEF RepositoryInv, Pods, VolumeInv, IsEmpty
  <2>2. BranchesOf[pod.repository] \subseteq Branches /\ branch \in Branches
    BY <2>1, WorkspaceBounds DEF Branches, Pods
  <2>3. CASE v = [vol EXCEPT !.git = "bare", !.cut = TRUE]
    BY <2>1, <2>3 DEF Volumes, VolumeInv, EditsInv
  <2>4. CASE v = [vol EXCEPT !.git = "cloned", !.cut = TRUE, !.origin = pod.repository]
    BY <2>1, <2>4 DEF Volumes, VolumeInv, EditsInv
  <2> HIDE DEF branch
  <2>5. ASSUME NEW locks \in SUBSET {"config", "refs", "index"}, v = fetched(locks)
        PROVE  v \in Volumes /\ VolumeInv(v) /\ EditsInv(v)
    BY <2>1, <2>2, <2>5 DEF Volumes, VolumeInv, EditsInv, Heads
  <2>6. vol.locks \in SUBSET {"config", "refs", "index"}
    BY DEF Volumes
  <2> HIDE DEF fetched
  <2>7. \/ v = [vol EXCEPT !.git = "bare", !.cut = TRUE]
        \/ v = [vol EXCEPT !.git = "cloned", !.cut = TRUE, !.origin = pod.repository]
        \/ v = fetched(vol.locks) \/ v = fetched({"index"})
    BY <1>4 DEF CutClones, fetched, branch
  <2> QED
    BY <2>3, <2>4, <2>5, <2>6, <2>7
<1> QED
  BY <1>1, <1>2, <1>3, <1>4

LEMMA IndInit == Init => IndInv
<1> SUFFICES ASSUME Init PROVE IndInv
  OBVIOUS
<1>1. PICK stray \in BOOLEAN : vol = EmptyVolume(stray)
  BY DEF Init
<1>2. vol \in Volumes /\ VolumeInv(vol)
  BY <1>1 DEF EmptyVolume, Volumes, VolumeInv
<1>3. pod \in Pods
  BY DEF Init, NoPod, Pods, PCs
<1>4. place \in [Work -> Places] /\ \A w \in Work : place[w].at # "edit"
  BY DEF Init, Places, At
<1> QED
  BY <1>2, <1>3, <1>4 DEF Init, IndInv, TypeOK, EditsInv, RepositoryInv, TreeInv, HomeInv, NoPod

\* A pod that starts, and one that ends.
LEMMA PodStep ==
  ASSUME IndInv, StartPod \/ Kill \/ Recreate
  PROVE  IndInv'
<1> USE DEF IndInv, TypeOK
<1>1. CASE StartPod
  <2>1. spec.repository \in Repos \union {None} /\ spec.branch \in Branches \union {None}
        /\ (spec.repository = None => spec.branch = None)
    BY NoneIsNoValue DEF WorkspaceSpecs
  <2>2. pod' \in Pods /\ pod'.pc = "begin" /\ (pod'.repository = None => pod'.branch = None)
    BY <1>1, <2>1 DEF StartPod, Pods, PCs
  <2> QED
    BY <1>1, <2>2 DEF StartPod, bounded, EditsInv, RepositoryInv, TreeInv, HomeInv
<1>2. CASE Kill \/ Recreate
  <2>1. vol' \in Volumes /\ VolumeInv(vol') /\ EditsInv(vol')
    BY <1>2, InterruptedVolume DEF Kill, Recreate
  <2>2. pod' = NoPod /\ UNCHANGED <<spec, place>> /\ edits' \in Nat /\ kills' \in Nat /\ outages' \in Nat
    BY <1>2 DEF Kill, Recreate, bounded
  <2>3. pod' \in Pods /\ pod'.pc = "none" /\ pod'.branch = None
    BY <2>2 DEF NoPod, Pods, PCs
  <2> QED
    BY <2>1, <2>2, <2>3 DEF EditsInv, RepositoryInv, TreeInv, HomeInv
<1> QED
  BY <1>1, <1>2

\* The script starts over, with the volume as it is.
LEMMA FailsStep ==
  ASSUME IndInv, pod' = [pod EXCEPT !.pc = "begin"], UNCHANGED <<spec, vol, place>>,
         edits' \in Nat /\ kills' \in Nat /\ outages' \in Nat
  PROVE  IndInv'
<1>1. pod' \in Pods /\ pod'.pc = "begin" /\ pod'.repository = pod.repository /\ pod'.branch = pod.branch
  BY DEF IndInv, TypeOK, Pods, PCs
<1> QED
  BY <1>1 DEF IndInv, TypeOK, EditsInv, VolumeInv, RepositoryInv, TreeInv, HomeInv

\* The script up to a tree.
LEMMA TreeStep ==
  ASSUME IndInv, Begin \/ SetURL \/ Fetch \/ Checkout \/ Reset \/ Clone
  PROVE  IndInv'
<1> USE DEF IndInv, TypeOK
<1>1. ASSUME Fails PROVE IndInv'
  BY <1>1, FailsStep DEF Fails, Goto, bounded
<1>2. CASE Begin
  <2> DEFINE pc == CASE pod.repository = None -> "mkdir"
                     [] pod.repository # None /\ vol.git # "none" -> "seturl"
                     [] OTHER -> "clone"
  <2>1. \/ pc = "mkdir" /\ pod.repository = None
        \/ pc = "seturl" /\ pod.repository # None /\ vol.git # "none"
        \/ pc = "clone" /\ pod.repository # None
    OBVIOUS
  <2>2. pod' = [pod EXCEPT !.pc = pc] /\ UNCHANGED <<spec, vol, place, edits, kills, outages>>
    BY <1>2 DEF Begin, Goto, bounded
  <2> HIDE DEF pc
  <2>3. pod' \in Pods /\ pod'.pc = pc /\ pod'.repository = pod.repository /\ pod'.branch = pod.branch
    BY <2>1, <2>2 DEF Pods, PCs
  <2> QED
    BY <2>1, <2>2, <2>3 DEF EditsInv, VolumeInv, RepositoryInv, TreeInv, HomeInv
<1>3. CASE SetURL
  <2>1. CASE vol.git = "bare" \/ "config" \in vol.locks
    BY <1>1, <1>3, <2>1 DEF SetURL
  <2>2. CASE ~(vol.git = "bare" \/ "config" \in vol.locks)
    <3>1. /\ vol' = [vol EXCEPT !.origin = pod.repository] /\ pod' = [pod EXCEPT !.pc = "fetch"]
          /\ pod.pc = "seturl" /\ UNCHANGED <<spec, place, edits, kills, outages>>
      BY <1>3, <2>2 DEF SetURL, Goto, ScriptIs, bounded
    <3>2. pod' \in Pods /\ pod'.pc = "fetch" /\ pod'.repository = pod.repository /\ pod'.branch = pod.branch
      BY <3>1 DEF Pods, PCs
    <3>3. /\ vol' \in Volumes /\ vol'.origin = pod.repository /\ vol'.git = vol.git
          /\ vol'.tree = vol.tree /\ vol'.cut = vol.cut /\ vol'.head = vol.head
          /\ vol'.git = "cloned"
      BY <2>2, <3>1 DEF Volumes, Pods, RepositoryInv
    <3> QED
      BY <3>1, <3>2, <3>3 DEF EditsInv, VolumeInv, RepositoryInv, TreeInv, HomeInv
  <2> QED
    BY <2>1, <2>2
<1>4. CASE Fetch
  <2> DEFINE pc == IF pod.branch # None THEN "checkout" ELSE "mkdir"
  <2>1. CASE Fails
    BY <1>1, <2>1
  <2>2. CASE ~Fails
    <3>1. /\ vol' = [vol EXCEPT !.known = BranchesOf[vol.origin]] /\ pod' = [pod EXCEPT !.pc = pc]
          /\ pod.pc = "fetch" /\ UNCHANGED <<spec, place, edits, kills, outages>>
      BY <1>4, <2>2 DEF Fetch, Goto, ScriptIs, bounded
    <3>2. pod' \in Pods /\ pod'.pc = pc /\ pod'.repository = pod.repository /\ pod'.branch = pod.branch
      BY <3>1 DEF Pods, PCs
    <3>3. BranchesOf[vol.origin] \subseteq Branches
      BY <3>1 DEF RepositoryInv, Pods, Branches
    <3>4. /\ vol' \in Volumes /\ vol'.origin = vol.origin /\ vol'.git = vol.git
          /\ vol'.tree = vol.tree /\ vol'.cut = vol.cut /\ vol'.head = vol.head
      BY <3>1, <3>3 DEF Volumes
    <3> QED
      BY <3>1, <3>2, <3>4 DEF EditsInv, VolumeInv, RepositoryInv, TreeInv, HomeInv
  <2> QED
    BY <2>1, <2>2
<1>5. CASE Checkout
  <2>1. CASE Fails
    BY <1>1, <2>1
  <2>2. CASE ~Fails
    <3>1. /\ vol' = [vol EXCEPT !.head = pod.branch,
                                !.local = vol.local \union {pod.branch},
                                !.tree = IF vol.tree = None THEN pod.repository ELSE vol.tree]
          /\ pod' = [pod EXCEPT !.pc = "reset"]
          /\ pod.pc = "checkout" /\ UNCHANGED <<spec, edits, kills, outages>>
      BY <1>5, <2>2 DEF Checkout, Goto, ScriptIs, bounded
    <3>2. pod' \in Pods /\ pod'.pc = "reset" /\ pod'.repository = pod.repository /\ pod'.branch = pod.branch
      BY <3>1 DEF Pods, PCs
    <3>3. pod.branch \in Heads /\ pod.repository \in Repos
      BY <3>1 DEF RepositoryInv, Pods, Heads
    <3>4. /\ vol' \in Volumes /\ vol'.origin = vol.origin /\ vol'.git = vol.git
          /\ vol'.tree # None /\ vol'.head = pod.branch
      BY <3>1, <3>3, NoneIsNoValue DEF Volumes
    <3>5. PICK W \in SUBSET Work : Lose(W)
      BY <1>5, <2>2 DEF Checkout, Overwritten
    <3>6. /\ place' \in [Work -> Places]
          /\ \A w \in Work : place'[w].at = "edit" => place[w].at = "edit"
      BY <3>5, LosesOnly
    <3> QED
      BY <3>1, <3>2, <3>3, <3>4, <3>6, NoneIsNoValue
      DEF EditsInv, VolumeInv, RepositoryInv, TreeInv, HomeInv
  <2> QED
    BY <2>1, <2>2
<1>6. CASE Reset
  <2>1. CASE Fails
    BY <1>1, <2>1
  <2>2. CASE ~Fails
    <3>1. /\ vol' = [vol EXCEPT !.tree = vol.origin] /\ pod' = [pod EXCEPT !.pc = "mkdir"]
          /\ pod.pc = "reset" /\ UNCHANGED <<spec, edits, kills, outages>>
      BY <1>6, <2>2 DEF Reset, Goto, ScriptIs, bounded
    <3>2. pod' \in Pods /\ pod'.pc = "mkdir" /\ pod'.repository = pod.repository /\ pod'.branch = pod.branch
      BY <3>1 DEF Pods, PCs
    <3>3. /\ vol' \in Volumes /\ vol'.git = vol.git /\ vol'.head = vol.head
          /\ vol'.tree = pod.repository
      BY <3>1 DEF Volumes, RepositoryInv
    <3>4. PICK W \in SUBSET Work : Lose(W \union {w \in Work : Discarded(w)})
      BY <1>6, <2>2 DEF Reset
    <3> DEFINE L == W \union {w \in Work : Discarded(w)}
    <3>5. /\ place' \in [Work -> Places]
          /\ \A w \in Work : place'[w].at = "edit" => w \notin L /\ place[w].at = "edit"
      <4>1. L \in SUBSET Work /\ Lose(L)
        BY <3>4
      <4> HIDE DEF L
      <4> QED
        BY <4>1, LosesOnly
    <3>6. ASSUME NEW w \in Work PROVE place'[w].at # "edit"
      <4>1. place[w].at = "edit" => w \in L
        BY PlaceKinds DEF Discarded
      <4> QED
        BY <3>5, <4>1
    <3>7. pod.repository # None /\ pod.branch # None /\ vol.git = "cloned" /\ vol.head = pod.branch
      BY <3>1 DEF RepositoryInv
    <3> QED
      BY <3>1, <3>2, <3>3, <3>5, <3>6, <3>7 DEF EditsInv, VolumeInv, RepositoryInv, TreeInv, HomeInv
  <2> QED
    BY <2>1, <2>2
<1>7. CASE Clone
  <2> DEFINE branch == IF pod.branch = None THEN DefaultBranch ELSE pod.branch
  <2>1. CASE Fails
    BY <1>1, <2>1
  <2>2. CASE ~Fails
    <3>1. /\ vol' = [vol EXCEPT !.git = "cloned", !.origin = pod.repository,
                                !.known = BranchesOf[pod.repository],
                                !.head = branch, !.local = {branch},
                                !.tree = pod.repository, !.exclude = {}]
          /\ pod' = [pod EXCEPT !.pc = "mkdir"] /\ IsEmpty(vol)
          /\ pod.pc = "clone" /\ UNCHANGED <<spec, place, edits, kills, outages>>
      BY <1>7, <2>2 DEF Clone, Goto, ScriptIs, bounded
    <3>2. pod' \in Pods /\ pod'.pc = "mkdir" /\ pod'.repository = pod.repository /\ pod'.branch = pod.branch
      BY <3>1 DEF Pods, PCs
    <3>3. pod.repository \in Repos
      BY <3>1 DEF RepositoryInv, Pods
    <3>4. branch \in Heads /\ branch # None /\ (pod.branch # None => branch = pod.branch)
          /\ BranchesOf[pod.repository] \subseteq Branches
      BY <3>3, WorkspaceBounds, NoneIsNoValue DEF Pods, Heads, Branches
    <3> HIDE DEF branch
    <3>5. /\ vol' \in Volumes /\ vol'.git = "cloned" /\ vol'.head = branch
          /\ vol'.tree = pod.repository
      BY <3>1, <3>3, <3>4 DEF Volumes
    <3>6. \A w \in Work : place[w].at # "edit"
      BY <3>1 DEF EditsInv, IsEmpty
    <3> QED
      BY <3>1, <3>2, <3>3, <3>4, <3>5, <3>6, NoneIsNoValue
      DEF EditsInv, VolumeInv, RepositoryInv, TreeInv, HomeInv
  <2> QED
    BY <2>1, <2>2
<1> QED
  BY <1>2, <1>3, <1>4, <1>5, <1>6, <1>7

\* The script from HOME to the runtime's start.
LEMMA HomeStep ==
  ASSUME IndInv, MakeHome \/ ChmodHome \/ Exclude
  PROVE  IndInv'
<1> USE DEF IndInv, TypeOK
<1>1. CASE MakeHome
  <2>1. /\ vol' = [vol EXCEPT !.home = IF vol.home = "none" THEN "root" ELSE vol.home]
        /\ pod' = [pod EXCEPT !.pc = "chmod"] /\ pod.pc = "mkdir"
        /\ UNCHANGED <<spec, place, edits, kills, outages>>
    BY <1>1 DEF MakeHome, Goto, ScriptIs, bounded
  <2>2. pod' \in Pods /\ pod'.pc = "chmod" /\ pod'.repository = pod.repository /\ pod'.branch = pod.branch
    BY <2>1 DEF Pods, PCs
  <2>3. /\ vol' \in Volumes /\ vol'.git = vol.git /\ vol'.head = vol.head /\ vol'.tree = vol.tree
        /\ vol'.cut = vol.cut /\ vol'.home # "none"
    BY <2>1 DEF Volumes
  <2> QED
    BY <2>1, <2>2, <2>3 DEF EditsInv, VolumeInv, RepositoryInv, TreeInv, HomeInv
<1>2. CASE ChmodHome
  <2> DEFINE pc == IF vol.git # "none" THEN "exclude" ELSE "run"
  <2>1. /\ vol' = [vol EXCEPT !.home = "group"]
        /\ pod' = [pod EXCEPT !.pc = pc] /\ pod.pc = "chmod"
        /\ UNCHANGED <<spec, place, edits, kills, outages>>
    BY <1>2 DEF ChmodHome, Goto, ScriptIs, bounded
  <2>2. pod' \in Pods /\ pod'.pc = pc /\ pod'.repository = pod.repository /\ pod'.branch = pod.branch
    BY <2>1 DEF Pods, PCs
  <2>3. /\ vol' \in Volumes /\ vol'.git = vol.git /\ vol'.head = vol.head /\ vol'.tree = vol.tree
        /\ vol'.cut = vol.cut /\ vol'.home = "group"
    BY <2>1 DEF Volumes
  <2> QED
    BY <2>1, <2>2, <2>3 DEF EditsInv, VolumeInv, RepositoryInv, TreeInv, HomeInv
<1>3. CASE Exclude
  <2>1. pod.pc = "exclude" /\ UNCHANGED <<spec, place, edits, kills, outages>>
    BY <1>3 DEF Exclude, ScriptIs, bounded
  <2>2. ASSUME NEW p \in Patterns \ vol.exclude,
               vol' = [vol EXCEPT !.exclude = vol.exclude \union {p}], pod' = pod
        PROVE  IndInv'
    <3>1. /\ vol' \in Volumes /\ vol'.git = vol.git /\ vol'.head = vol.head /\ vol'.tree = vol.tree
          /\ vol'.cut = vol.cut /\ vol'.home = vol.home
      BY <2>2 DEF Volumes
    <3> QED
      BY <2>1, <2>2, <3>1 DEF EditsInv, VolumeInv, RepositoryInv, TreeInv, HomeInv
  <2>3. CASE Patterns \subseteq vol.exclude /\ pod' = [pod EXCEPT !.pc = "run"] /\ vol' = vol
    <3>1. pod' \in Pods /\ pod'.pc = "run" /\ pod'.repository = pod.repository /\ pod'.branch = pod.branch
      BY <2>3 DEF Pods, PCs
    <3>2. vol.exclude = Patterns
      BY <2>3 DEF Volumes
    <3> QED
      BY <2>1, <2>3, <3>1, <3>2 DEF EditsInv, VolumeInv, RepositoryInv, TreeInv, HomeInv
  <2> QED
    BY <1>3, <2>2, <2>3 DEF Exclude, Goto
<1> QED
  BY <1>1, <1>2, <1>3

\* The runtime edits and switches only where there are files.
LEMMA RuntimeStep ==
  ASSUME IndInv,
         \/ \E w \in Work : Write(w)
         \/ Commit \/ Conflict \/ Push
         \/ \E b \in Branches \union {Topic} : Switch(b)
  PROVE  IndInv'
<1> USE DEF IndInv, TypeOK
<1>1. pod.pc = "run" /\ UNCHANGED <<spec, pod, edits, kills, outages>>
  BY DEF Write, Commit, Conflict, Push, Switch, ScriptIs, bounded
<1>2. ASSUME NEW w \in Work, Write(w) PROVE IndInv'
  <2>1. PICK p \in {"file", "inway", "home"} \union (IF HasTree THEN {"edit"} ELSE {}) :
          place' = [place EXCEPT ![w] = At(p)]
    BY <1>2 DEF Write
  <2>2. At(p) \in Places /\ At(p).at = p
    BY <2>1 DEF At, Places
  <2>3. vol' = vol /\ place' \in [Work -> Places]
    BY <1>2, <2>1, <2>2 DEF Write
  <2>4. vol.git = "none" => p # "edit"
    BY <2>1 DEF HasTree
  <2>5. EditsInv(vol)'
    BY <2>1, <2>2, <2>3, <2>4 DEF EditsInv
  <2> QED
    BY <1>1, <2>3, <2>5 DEF VolumeInv, RepositoryInv, TreeInv, HomeInv
<1>3. CASE Commit
  <2>1. vol' = [vol EXCEPT !.unmerged = FALSE] /\ HasTree
    BY <1>3 DEF Commit
  <2>2. vol.head \in Heads
    BY <2>1 DEF HasTree, VolumeInv, Volumes
  <2>3. Committed(vol.head) \in Places
    BY <2>2 DEF Places
  <2>4. place' \in [Work -> Places]
    BY <1>3, <2>3 DEF Commit
  <2>5. /\ vol' \in Volumes /\ vol'.git = vol.git /\ vol'.head = vol.head /\ vol'.tree = vol.tree
        /\ vol'.cut = vol.cut /\ vol'.home = vol.home /\ vol'.exclude = vol.exclude
    BY <2>1 DEF Volumes
  <2> QED
    BY <1>1, <2>1, <2>4, <2>5 DEF EditsInv, VolumeInv, RepositoryInv, TreeInv, HomeInv, HasTree
<1>4. CASE Push
  <2>1. vol' = vol
    BY <1>4 DEF Push
  <2>2. At("pushed") \in Places /\ At("pushed").at # "edit"
    BY DEF Places, At
  <2>3. /\ place' \in [Work -> Places]
        /\ \A w \in Work : place'[w].at = "edit" => place[w].at = "edit"
    BY <1>4, <2>2 DEF Push
  <2> QED
    BY <1>1, <2>1, <2>3 DEF EditsInv, VolumeInv, RepositoryInv, TreeInv, HomeInv
<1>5. ASSUME NEW b \in Branches \union {Topic}, Switch(b) PROVE IndInv'
  <2>1. /\ place' = place /\ vol' = [vol EXCEPT !.head = b, !.local = vol.local \union {b}]
    BY <1>5 DEF Switch
  <2>2. /\ vol' \in Volumes /\ vol'.git = vol.git /\ vol'.head = b /\ vol'.tree = vol.tree
        /\ vol'.cut = vol.cut /\ vol'.home = vol.home /\ vol'.exclude = vol.exclude
    BY <2>1 DEF Volumes, Heads
  <2>3. b # None
    BY NoneIsNoValue DEF Heads
  <2> QED
    BY <1>1, <2>1, <2>2, <2>3 DEF EditsInv, VolumeInv, RepositoryInv, TreeInv, HomeInv
<1>6. CASE Conflict
  <2>1. vol' = [vol EXCEPT !.unmerged = TRUE] /\ place' = place
    BY <1>6 DEF Conflict
  <2>2. /\ vol' \in Volumes /\ vol'.git = vol.git /\ vol'.head = vol.head /\ vol'.tree = vol.tree
        /\ vol'.cut = vol.cut /\ vol'.home = vol.home /\ vol'.exclude = vol.exclude
    BY <2>1 DEF Volumes
  <2> QED
    BY <1>1, <2>1, <2>2 DEF EditsInv, VolumeInv, RepositoryInv, TreeInv, HomeInv
<1> QED
  BY <1>2, <1>3, <1>4, <1>5, <1>6

LEMMA IndStep == IndInv /\ [Next]_vars => IndInv'
<1> SUFFICES ASSUME IndInv, [Next]_vars PROVE IndInv'
  OBVIOUS
<1>1. ASSUME NEW s \in WorkspaceSpecs, Apply(s) PROVE IndInv'
  <2>1. spec' \in WorkspaceSpecs /\ edits' \in Nat /\ UNCHANGED <<pod, vol, place, kills, outages>>
    BY <1>1 DEF Apply, IndInv, TypeOK
  <2> QED
    BY <2>1 DEF IndInv, TypeOK, EditsInv, VolumeInv, RepositoryInv, TreeInv, HomeInv
<1>2. CASE NetworkDown
  <2>1. edits' \in Nat /\ kills' \in Nat /\ outages' \in Nat
    BY <1>2 DEF NetworkDown, IndInv, TypeOK
  <2> QED
    BY <1>2, <2>1, FailsStep DEF NetworkDown, Goto
<1>3. CASE UNCHANGED vars
  BY <1>3 DEF vars, IndInv, TypeOK, EditsInv, VolumeInv, RepositoryInv, TreeInv, HomeInv
<1> QED
  BY <1>1, <1>2, <1>3, PodStep, TreeStep, HomeStep, RuntimeStep DEF Next, Script

-----------------------------------------------------------------------------

\* What each command leaves to the next, wherever the one before was killed.
THEOREM IndInvHolds == Spec => []IndInv
<1> QED
  BY IndInit, IndStep, PTL DEF Spec

\* Every variable keeps its type: no half-made volume names a branch or a
\* repository there is not, and every unit of work has one place.
THEOREM TypeCorrect == Spec => []TypeOK
<1>1. IndInv => TypeOK
  BY DEF IndInv
<1> QED
  BY <1>1, IndInvHolds, PTL

\* Only a write, the commit, the push and the script's checkout and reset move
\* work, the last two what git does not keep.
LEMMA WorkMoves ==
  ASSUME IndInv, [Next]_vars, place' # place
  PROVE  \/ (\E w \in Work : Write(w)) \/ Commit \/ Push
         \/ /\ pod.branch # None
            /\ \E W \in SUBSET Work :
                 /\ \A w \in W : place[w] = At("inway") \/ Discarded(w)
                 /\ Lose(W)
<1>1. StartPod \/ Kill \/ Recreate \/ NetworkDown \/ UNCHANGED vars => place' = place
  BY DEF StartPod, Kill, Recreate, NetworkDown, vars
<1>2. Begin \/ SetURL \/ Fetch \/ Clone \/ MakeHome \/ ChmodHome \/ Exclude
        => place' = place
  BY DEF Begin, SetURL, Fetch, Clone, MakeHome, ChmodHome, Exclude, Fails
<1>3. ASSUME Checkout \/ Reset
      PROVE  /\ pod.branch # None
             /\ \E W \in SUBSET Work :
                  /\ \A w \in W : place[w] = At("inway") \/ Discarded(w)
                  /\ Lose(W)
  <2>1. pod.branch # None /\ ~Fails
    BY <1>3 DEF Checkout, Reset, Fails, ScriptIs, IndInv, RepositoryInv
  <2>2. CASE Checkout
    BY <2>1, <2>2 DEF Checkout, Overwritten
  <2>3. CASE Reset
    <3>1. PICK W \in SUBSET {w \in Work : place[w] = At("inway")} :
            Lose(W \union {w \in Work : Discarded(w)})
      BY <2>1, <2>3 DEF Reset
    <3> QED
      BY <2>1, <3>1
  <2> QED
    BY <1>3, <2>2, <2>3
<1>4. ASSUME NEW s \in WorkspaceSpecs, Apply(s) PROVE place' = place
  BY <1>4 DEF Apply
<1>5. ASSUME NEW b \in Branches \union {Topic}, Switch(b) PROVE place' = place
  BY <1>5 DEF Switch
<1>6. Conflict => place' = place
  BY DEF Conflict
<1> QED
  BY <1>1, <1>2, <1>3, <1>4, <1>5, <1>6 DEF Next, Script

\* The only work a pod takes away is what its own branch loses to reset --hard,
\* and untracked files in its way.
THEOREM ResetIsConfined == Spec => OnlyOwnBranchIsReset
<1>1. IndInv /\ [Next]_vars =>
        [\A w \in Work : place'[w].at = "lost" /\ place[w].at # "lost" =>
           /\ pod.branch # None
           /\ place[w] \notin Survivors \ {Committed(pod.branch)}]_vars
  <2> SUFFICES ASSUME IndInv, [Next]_vars, NEW w \in Work,
                      place'[w].at = "lost", place[w].at # "lost"
               PROVE  pod.branch # None /\ place[w] \notin Survivors \ {Committed(pod.branch)}
    OBVIOUS
  <2>1. place \in [Work -> Places]
    BY DEF IndInv, TypeOK
  <2>2. ASSUME NEW v \in Work, Write(v) PROVE FALSE
    BY <2>1, <2>2 DEF Write, At
  <2>3. ~Commit
    BY <2>1 DEF Commit, Committed
  <2>4. ~Push
    BY <2>1 DEF Push, At
  <2>5. pod.branch # None
    BY <2>2, <2>3, <2>4, WorkMoves
  <2>6. PICK W \in SUBSET Work : /\ \A u \in W : place[u] = At("inway") \/ Discarded(u)
                                 /\ Lose(W)
    BY <2>2, <2>3, <2>4, WorkMoves
  <2>7. place[w] \in {At("inway"), At("edit"), Committed(pod.branch)}
    BY <2>6 DEF Lose, Discarded
  <2>8. At("edit") \notin Survivors /\ At("inway") \notin Survivors
    BY DEF Survivors, At, Committed
  <2> QED
    BY <2>5, <2>7, <2>8
<1> QED
  BY <1>1, IndInvHolds, PTL DEF Spec, OnlyOwnBranchIsReset

\* The runtime's own state under HOME is in no commit and never lost.
THEOREM HomeStays == Spec => HomeIsNeverCommitted
<1>1. IndInv /\ [Next]_vars =>
        [\A w \in Work : place[w].at = "home" => place'[w].at = "home"]_vars
  <2> SUFFICES ASSUME IndInv, [Next]_vars, NEW w \in Work, place[w].at = "home"
               PROVE  place'[w].at = "home"
    OBVIOUS
  <2>1. place \in [Work -> Places] /\ place[w] = At("home")
    BY PlaceKinds DEF IndInv, TypeOK
  <2>2. ASSUME NEW v \in Work, Write(v) PROVE place'[w] = place[w]
    BY <2>1, <2>2 DEF Write
  <2>3. ASSUME Commit PROVE place'[w] = place[w]
    <3>1. "/.agent-home/**" \in vol.exclude
      BY <2>3 DEF Commit, HasTree, ScriptIs, IndInv, HomeInv, Patterns
    <3> QED
      BY <2>3, <3>1 DEF Commit
  <2>4. ASSUME Push PROVE place'[w] = place[w]
    BY <2>1, <2>4 DEF Push, At, Committed
  <2>5. ASSUME NEW W \in SUBSET Work, Lose(W),
               \A u \in W : place[u] = At("inway") \/ Discarded(u)
        PROVE  place'[w] = place[w]
    <3>1. w \notin W
      BY <2>1, <2>5 DEF Discarded, At, Committed
    <3> QED
      BY <2>5, <3>1 DEF Lose
  <2> QED
    BY <2>2, <2>3, <2>4, <2>5, WorkMoves
<1> QED
  BY <1>1, IndInvHolds, PTL DEF Spec, HomeIsNeverCommitted

\* Wherever the script was killed before, a runtime that starts can write to
\* its HOME, git ignores its directories, and the tree is its branch's.
THEOREM RuntimeStartsPrepared == Spec => StartsPrepared
<1>1. IndInv /\ [Next]_vars =>
        [pod.pc # "run" /\ pod'.pc = "run" =>
           /\ vol'.home = "group"
           /\ vol'.git # "none" => vol'.exclude = Patterns
           /\ pod.branch # None =>
                /\ vol'.head = pod.branch
                /\ vol'.tree = pod.repository
                /\ ~Has("edit")
           /\ pod.repository # None => vol'.tree # None \/ vol'.cut]_vars
  <2> SUFFICES ASSUME IndInv, [Next]_vars, pod.pc # "run", pod'.pc = "run"
               PROVE  /\ vol'.home = "group"
                      /\ vol'.git # "none" => vol'.exclude = Patterns
                      /\ pod.branch # None =>
                           /\ vol'.head = pod.branch
                           /\ vol'.tree = pod.repository
                           /\ ~Has("edit")
                      /\ pod.repository # None => vol'.tree # None \/ vol'.cut
    OBVIOUS
  <2>1. IndInv'
    BY IndStep
  <2>2. vol'.home = "group" /\ (vol'.git # "none" => vol'.exclude = Patterns)
    BY <2>1 DEF IndInv, HomeInv
  <2>3. pod.pc \in {"chmod", "exclude"} /\ vol'.head = vol.head /\ vol'.tree = vol.tree
        /\ vol'.git = vol.git /\ vol'.cut = vol.cut
    <3> USE DEF IndInv, TypeOK, Pods
    <3>1. ChmodHome \/ Exclude => pod.pc \in {"chmod", "exclude"}
      BY DEF ChmodHome, Exclude, ScriptIs
    <3>2. ChmodHome => /\ vol'.head = vol.head /\ vol'.tree = vol.tree
                       /\ vol'.git = vol.git /\ vol'.cut = vol.cut
      BY DEF ChmodHome, Volumes
    <3>3. Exclude => /\ vol'.head = vol.head /\ vol'.tree = vol.tree
                     /\ vol'.git = vol.git /\ vol'.cut = vol.cut
      BY DEF Exclude, Volumes
    <3>4. \A s \in WorkspaceSpecs : ~Apply(s)
      BY DEF Apply
    <3>5. ~StartPod /\ ~Kill /\ ~Recreate /\ ~NetworkDown
      BY DEF StartPod, Kill, Recreate, NetworkDown, NoPod, Goto
    <3>6. ~Fails
      BY DEF Fails, Goto
    <3>7. ~SetURL /\ ~Fetch /\ ~Checkout /\ ~Reset /\ ~Clone /\ ~MakeHome
      BY <3>6 DEF SetURL, Fetch, Checkout, Reset, Clone, MakeHome, Goto
    <3>8. ~Begin
      <4> DEFINE pc == CASE pod.repository = None -> "mkdir"
                         [] pod.repository # None /\ vol.git # "none" -> "seturl"
                         [] OTHER -> "clone"
      <4>1. pc \in {"mkdir", "seturl", "clone"}
        OBVIOUS
      <4>2. Begin => pod' = [pod EXCEPT !.pc = pc]
        BY DEF Begin, Goto
      <4> HIDE DEF pc
      <4> QED
        BY <4>1, <4>2
    <3>9. /\ \A w \in Work : ~Write(w)
          /\ ~Commit /\ ~Conflict /\ ~Push
          /\ \A b \in Branches \union {Topic} : ~Switch(b)
          /\ ~UNCHANGED vars
      BY DEF Write, Commit, Conflict, Push, Switch, ScriptIs, vars
    <3> QED
      BY <3>1, <3>2, <3>3, <3>4, <3>5, <3>7, <3>8, <3>9 DEF Next, Script
  <2>4. pod.branch # None => /\ vol'.head = pod.branch
                             /\ vol'.tree = pod.repository
                             /\ ~Has("edit")
    BY <2>3 DEF IndInv, TreeInv, Has
  <2>5. pod.repository # None => vol'.tree # None \/ vol'.cut
    BY <2>3 DEF IndInv, TreeInv, VolumeInv
  <2> QED
    BY <2>2, <2>4, <2>5
<1> QED
  BY <1>1, IndInvHolds, PTL DEF Spec, StartsPrepared
=============================================================================
