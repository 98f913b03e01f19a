------------------------ MODULE AgentReconcileProofs ------------------------
(***************************************************************************)
(* What AgentReconcile guarantees for every set of objects, every initial  *)
(* world and every sequence of writes, faults and restarts: when the       *)
(* Operator has come to rest, the status of every Agent and of every       *)
(* object it references says what the API objects say.                     *)
(*                                                                         *)
(* The properties speak of rest only. The invariant says what holds on the *)
(* way there: whatever a controller has not taken into account yet is      *)
(* still announced somewhere - a cache that is behind, an event no handler *)
(* has mapped, a queued request, or a Reconcile that has read nothing      *)
(* stale so far or is bound to end in a conflict.                          *)
(***************************************************************************)
EXTENDS AgentReconcile, TLAPS

\* What a Reconcile of Agent a reads in world w, but for a's peers.
ReadSet(w, a) == {a} \union Targets(EffOf(w, a)) \union ToolsOf(w, a)

HashOf(w, a) == {<<n, w[n].rv>> : n \in Targets(EffOf(w, a))}

\* A status that fits world w. The peers found wanting are some of a's, with a.
VerdictFits(s, violations, hash) ==
  \/ /\ violations # {}
     /\ s.phase = "Degraded" /\ s.reason = "PolicyViolation" /\ s.detail = violations
  \/ /\ violations = {}
     /\ s.phase = "Ready" /\ s.reason = "Reconciled" /\ s.hash = hash

BadPeersFit(bad, peers, a) == bad \subseteq peers /\ (a \in peers => a \in bad)

StatusFits(s, w, a) ==
  \/ /\ ~w[a].spec.valid
     /\ s.phase = "Degraded" /\ s.reason = "InvalidSpec"
  \/ /\ w[a].spec.valid
     /\ s.endpoint = w[a].spec.expose
     /\ MissingOf(w, a) # {}
     /\ s.phase = "Degraded" /\ s.reason = "ReferenceNotFound"
     /\ s.detail = MissingOf(w, a)
  \/ /\ w[a].spec.valid
     /\ s.endpoint = w[a].spec.expose
     /\ MissingOf(w, a) = {}
     /\ \E bad \in SUBSET Agents :
          /\ BadPeersFit(bad, PeersOf(w, a), a)
          /\ VerdictFits(s, ViolationsOf(w, a) \union bad, HashOf(w, a))

\* The reads of job j agree with world w: of the targets in done, of the
\* ToolSets in done, of the Tools in done.
TargetsFit(j, w, done) ==
  /\ j.eff = EffOf(w, j.agent)
  /\ j.refs = {<<n, w[n].rv>> : n \in Present(w, done)}
  /\ j.missing = {n \in done : ~Exists(w, n)} \union ({j.eff.model} \intersect {None})
  /\ j.policies = {w[p].spec : p \in Present(w, done \intersect Policies)}
ToolsFit(j, w, done) ==
  j.tools = j.eff.tools \union UNION {w[s].spec.tools : s \in Present(w, done)}
PeersFit(j, w, done) ==
  j.peers = {w[t].spec.agentRef : t \in Present(w, done)} \ {None}

AllRead(j, w) ==
  /\ TargetsFit(j, w, Targets(j.eff))
  /\ ToolsFit(j, w, j.eff.toolSets)

\* What job j has read so far, by where it is.
Fresh(j, w) ==
  \/ /\ j.pc = "class"
     /\ j.refs = {} /\ j.policies = {} /\ j.peers = {} /\ j.badPeers = {}
  \/ /\ j.pc = "targets"
     /\ j.todo \subseteq Targets(j.eff)
     /\ TargetsFit(j, w, Targets(j.eff) \ j.todo)
     /\ j.peers = {} /\ j.badPeers = {}
  \/ /\ j.pc = "sets"
     /\ j.todo \subseteq j.eff.toolSets
     /\ TargetsFit(j, w, Targets(j.eff))
     /\ ToolsFit(j, w, j.eff.toolSets \ j.todo)
     /\ j.peers = {} /\ j.badPeers = {}
  \/ /\ j.pc = "tools"
     /\ j.todo \subseteq j.tools
     /\ AllRead(j, w)
     /\ PeersFit(j, w, j.tools \ j.todo)
     /\ j.badPeers = {}
  \/ /\ j.pc = "peers"
     /\ j.todo \subseteq j.peers
     /\ AllRead(j, w)
     /\ PeersFit(j, w, j.tools)
     /\ j.missing = {}
     /\ BadPeersFit(j.badPeers, j.peers \ j.todo, j.agent)
  \/ /\ j.pc = "status"
     /\ j.spec.valid => /\ AllRead(j, w)
                        /\ PeersFit(j, w, j.tools)
                        /\ j.missing = {} => BadPeersFit(j.badPeers, j.peers, j.agent)

\* A cached object is a version the API server has had, and the latest when it
\* has the latest resourceVersion.
CacheFollows ==
  \A n \in Objects : cache[n].rv = store[n].rv => cache[n] = store[n]

\* A Reconcile holds a version of its Agent that the cache has had.
JobFollows ==
  job.pc # "idle" =>
    /\ job.agent \in Agents
    /\ job.spec \in AgentSpec /\ job.eff \in AgentSpec
    /\ job.rv <= cache[job.agent].rv
    /\ job.rv = cache[job.agent].rv => job.spec = cache[job.agent].spec
    /\ job.pc # "status" => job.spec.valid

\* What each loop of Reconcile has still to read is of the kinds it reads.
TodoFits ==
  /\ job.pc = "targets" => job.todo \subseteq Deps
  /\ job.pc = "sets" => job.todo \subseteq ToolSets
  /\ job.pc = "tools" => job.todo \subseteq Tools
  /\ job.pc = "peers" => job.todo \subseteq Agents

Announced(n, names) ==
  \/ cache[n] # store[n]
  \/ n \in queue
  \/ notify \intersect names # {}

\* No change an Agent's status depends on is forgotten.
AgentAttended(a) ==
  Exists(store, a) =>
    \/ Announced(a, ReadSet(cache, a))
    \/ job.pc # "idle" /\ job.agent = a /\ (job.rv # store[a].rv \/ Fresh(job, cache))
    \/ StatusFits(status[a], cache, a)

\* Nor one that the status of a Tool, a ToolSet or an AgentClass depends on.
DepAttended(n) ==
  Exists(store, n) =>
    \/ Announced(n, {n} \union RefsOf(n, cache[n].spec))
    \/ depStatus[n] = DepStatus(cache, n)

IndInv ==
  /\ TypeOK
  /\ CacheFollows
  /\ JobFollows
  /\ TodoFits
  /\ \A a \in Agents : AgentAttended(a)
  /\ \A n \in Deps : DepAttended(n)

-----------------------------------------------------------------------------
(* The kinds of objects and the types of worlds.                           *)

WorldOK(w) == DOMAIN w = Objects /\ \A n \in Objects : w[n] \in Version(n)

\* An object is of one kind, and its kind gives its spec.
LEMMA KindSpecs ==
  /\ \A n \in Agents : SpecOf(n) = AgentSpec
  /\ \A n \in Classes : SpecOf(n) = ClassSpec
  /\ \A n \in Tools : SpecOf(n) = [agentRef : Agents \union {None}]
  /\ \A n \in ToolSets : SpecOf(n) = [tools : SUBSET Tools]
  /\ \A n \in Policies : SpecOf(n) = PolicySpec
<1>a. \A n \in Agents : SpecOf(n) = AgentSpec
  BY KindsAssumption, Zenon DEF SpecOf, Deps
<1>c. \A n \in Classes : SpecOf(n) = ClassSpec
  BY KindsAssumption, Zenon DEF SpecOf, Deps
<1>t. \A n \in Tools : SpecOf(n) = [agentRef : Agents \union {None}]
  BY KindsAssumption, Zenon DEF SpecOf, Deps
<1>s. \A n \in ToolSets : SpecOf(n) = [tools : SUBSET Tools]
  BY KindsAssumption, Zenon DEF SpecOf, Deps
<1>p. \A n \in Policies : SpecOf(n) = PolicySpec
  BY KindsAssumption, Zenon DEF SpecOf, Deps
<1> QED BY <1>a, <1>c, <1>t, <1>s, <1>p, Zenon

\* Likewise the references its controller resolves.
LEMMA KindRefs ==
  /\ \A n \in Classes : \A spec : RefsOf(n, spec) = ClassTargets(spec)
  /\ \A n \in Tools : \A spec : RefsOf(n, spec) = ToolTargets(spec)
  /\ \A n \in ToolSets : \A spec : RefsOf(n, spec) = ToolSetTargets(spec)
  /\ \A n \in Models : \A spec : RefsOf(n, spec) = {}
  /\ \A n \in Policies : \A spec : RefsOf(n, spec) = {}
<1>c. \A n \in Classes : \A spec : RefsOf(n, spec) = ClassTargets(spec)
  BY KindsAssumption, Zenon DEF RefsOf
<1>t. \A n \in Tools : \A spec : RefsOf(n, spec) = ToolTargets(spec)
  BY KindsAssumption, Zenon DEF RefsOf
<1>s. \A n \in ToolSets : \A spec : RefsOf(n, spec) = ToolSetTargets(spec)
  BY KindsAssumption, Zenon DEF RefsOf
<1>m. \A n \in Models : \A spec : RefsOf(n, spec) = {}
  BY KindsAssumption, Zenon DEF RefsOf
<1>p. \A n \in Policies : \A spec : RefsOf(n, spec) = {}
  BY KindsAssumption, Zenon DEF RefsOf
<1> QED BY <1>c, <1>t, <1>s, <1>m, <1>p, Zenon

LEMMA WorldParts ==
  ASSUME NEW w, WorldOK(w)
  PROVE  /\ \A n \in Objects : w[n].rv \in Nat /\ w[n].uid \in Nat /\ w[n].gen \in Nat
         /\ \A n \in Agents : Exists(w, n) => w[n].spec \in AgentSpec
         /\ \A n \in Classes : Exists(w, n) => w[n].spec \in ClassSpec
         /\ \A n \in Tools : Exists(w, n) => w[n].spec.agentRef \in Agents \union {None}
         /\ \A n \in ToolSets : Exists(w, n) => w[n].spec.tools \in SUBSET Tools
         /\ \A n \in Policies : Exists(w, n) => w[n].spec \in PolicySpec
<1>1. \A n \in Objects : w[n].rv \in Nat /\ w[n].uid \in Nat /\ w[n].gen \in Nat
  BY DEF WorldOK, Version
<1>2. \A n \in Objects : Exists(w, n) => w[n].spec \in SpecOf(n)
  BY DEF WorldOK, Version, Exists
<1>3. \A n \in Agents : Exists(w, n) => w[n].spec \in AgentSpec
  BY <1>2, KindSpecs DEF Objects, Deps
<1>4. \A n \in Classes : Exists(w, n) => w[n].spec \in ClassSpec
  BY <1>2, KindSpecs DEF Objects, Deps
<1>5. \A n \in Tools : Exists(w, n) => w[n].spec \in [agentRef : Agents \union {None}]
  BY <1>2, KindSpecs DEF Objects, Deps
<1>6. \A n \in ToolSets : Exists(w, n) => w[n].spec \in [tools : SUBSET Tools]
  BY <1>2, KindSpecs DEF Objects, Deps
<1>7. \A n \in Policies : Exists(w, n) => w[n].spec \in PolicySpec
  BY <1>2, KindSpecs DEF Objects, Deps
<1>8. \A n \in Tools : Exists(w, n) => w[n].spec.agentRef \in Agents \union {None}
  BY <1>5
<1>9. \A n \in ToolSets : Exists(w, n) => w[n].spec.tools \in SUBSET Tools
  BY <1>6
<1> QED BY <1>1, <1>3, <1>4, <1>7, <1>8, <1>9

\* No kind's specs hold None.
LEMMA NoneIsNoSpec ==
  /\ Classes # {} => None \notin ClassSpec
  /\ Agents # {} => None \notin AgentSpec
<1>1. Classes # {} => None \notin ClassSpec
  BY NoneAssumption, KindSpecs DEF Objects, Deps
<1>2. Agents # {} => None \notin AgentSpec
  BY NoneAssumption, KindSpecs DEF Objects
<1> QED BY <1>1, <1>2

\* ApplyClassDefaults gives an Agent's spec, with the Agent's class and sets.
LEMMA DefaultsParts ==
  ASSUME NEW spec \in AgentSpec, NEW class \in ClassSpec \union {None}
  PROVE  LET eff == ApplyClassDefaults(spec, class)
         IN /\ eff \in AgentSpec
            /\ eff.class = spec.class
            /\ eff.toolSets = spec.toolSets
            /\ eff.model = spec.model \/ (class # None /\ eff.model = class.model)
            /\ eff.tools = spec.tools \/ (class # None /\ eff.tools = class.tools)
            /\ eff.policies = spec.policies \/ (class # None /\ eff.policies = class.policies)
<1> DEFINE eff == ApplyClassDefaults(spec, class)
<1>1. CASE class = None
  <2>1. eff = spec
    BY <1>1 DEF ApplyClassDefaults
  <2> QED BY <2>1, <1>1
<1>2. CASE class # None
  <2>1. /\ class.model \in Models \union {None}
        /\ class.tools \in SUBSET Tools
        /\ class.policies \in SUBSET Policies
    BY <1>2 DEF ClassSpec
  <2>2. /\ spec.valid \in BOOLEAN /\ spec.class \in Classes \union {None}
        /\ spec.model \in Models \union {None} /\ spec.tools \in SUBSET Tools
        /\ spec.toolSets \in SUBSET ToolSets /\ spec.policies \in SUBSET Policies
        /\ spec.runtime \in BOOLEAN /\ spec.expose \in BOOLEAN
    BY DEF AgentSpec
  <2>3. eff = [spec EXCEPT
                 !.model    = IF spec.model = None THEN class.model ELSE spec.model,
                 !.policies = IF spec.policies = {} THEN class.policies ELSE spec.policies,
                 !.tools    = IF spec.tools = {} THEN class.tools ELSE spec.tools]
    BY <1>2 DEF ApplyClassDefaults
  <2>4. eff \in AgentSpec
    BY <2>1, <2>2, <2>3 DEF AgentSpec
  <2>5. eff.class = spec.class /\ eff.toolSets = spec.toolSets
    BY <2>3 DEF AgentSpec
  <2>6. eff.model = spec.model \/ eff.model = class.model
    BY <2>3 DEF AgentSpec
  <2>7. eff.tools = spec.tools \/ eff.tools = class.tools
    BY <2>3 DEF AgentSpec
  <2>8. eff.policies = spec.policies \/ eff.policies = class.policies
    BY <2>3 DEF AgentSpec
  <2> HIDE DEF eff
  <2>9. /\ eff \in AgentSpec
        /\ eff.class = spec.class
        /\ eff.toolSets = spec.toolSets
        /\ eff.model = spec.model \/ (class # None /\ eff.model = class.model)
        /\ eff.tools = spec.tools \/ (class # None /\ eff.tools = class.tools)
        /\ eff.policies = spec.policies \/ (class # None /\ eff.policies = class.policies)
    BY <2>4, <2>5, <2>6, <2>7, <2>8, <1>2
  <2> QED BY <2>9 DEF eff
<1> QED BY <1>1, <1>2

\* What the class read gives: None, or the spec of the Agent's class.
LEMMA ClassInParts ==
  ASSUME NEW w, WorldOK(w), NEW spec \in AgentSpec
  PROVE  /\ ClassIn(w, spec) \in ClassSpec \union {None}
         /\ ClassIn(w, spec) # None =>
              /\ spec.class \in Classes /\ Exists(w, spec.class)
              /\ ClassIn(w, spec) = w[spec.class].spec
<1>1. spec.class \in Classes \union {None}
  BY DEF AgentSpec
<1>2. \A n \in Classes : Exists(w, n) => w[n].spec \in ClassSpec
  BY WorldParts
<1> QED BY <1>1, <1>2 DEF ClassIn

\* What an Agent reads is of the kinds it should be.
LEMMA TargetsParts ==
  ASSUME NEW eff \in AgentSpec
  PROVE  /\ eff.model \in Models \union {None} /\ eff.class \in Classes \union {None}
         /\ eff.tools \in SUBSET Tools /\ eff.toolSets \in SUBSET ToolSets
         /\ eff.policies \in SUBSET Policies
         /\ Targets(eff) \in SUBSET Deps
         /\ eff.toolSets \subseteq Targets(eff) /\ eff.tools \subseteq Targets(eff)
         /\ eff.policies \subseteq Targets(eff)
         /\ Targets(eff) \intersect Policies = eff.policies
         /\ eff.class # None => eff.class \in Targets(eff)
         /\ eff.model # None => eff.model \in Targets(eff)
<1>1. /\ eff.model \in Models \union {None} /\ eff.class \in Classes \union {None}
      /\ eff.tools \in SUBSET Tools /\ eff.toolSets \in SUBSET ToolSets
      /\ eff.policies \in SUBSET Policies
  BY DEF AgentSpec
<1>2. Targets(eff) \in SUBSET Deps
  BY <1>1 DEF Targets, Deps
<1>3. Targets(eff) \intersect Policies = eff.policies
  BY <1>1, KindsAssumption DEF Targets
<1> QED BY <1>1, <1>2, <1>3 DEF Targets

LEMMA EffParts ==
  ASSUME NEW w, WorldOK(w), NEW a \in Agents, Exists(w, a)
  PROVE  /\ EffOf(w, a) \in AgentSpec
         /\ Targets(EffOf(w, a)) \in SUBSET Deps
         /\ ToolsOf(w, a) \in SUBSET Tools
         /\ PeersOf(w, a) \in SUBSET Agents
         /\ ReadSet(w, a) \in SUBSET Objects
<1>1. w[a].spec \in AgentSpec
  BY WorldParts
<1>2. EffOf(w, a) \in AgentSpec
  BY <1>1, ClassInParts, DefaultsParts DEF EffOf
<1>3. Targets(EffOf(w, a)) \in SUBSET Deps /\ EffOf(w, a).tools \in SUBSET Tools
        /\ EffOf(w, a).toolSets \in SUBSET ToolSets
  BY <1>2, TargetsParts
<1>4. \A s \in Present(w, EffOf(w, a).toolSets) : w[s].spec.tools \in SUBSET Tools
  BY <1>3, WorldParts DEF Present
<1>5. ToolsOf(w, a) \in SUBSET Tools
  BY <1>3, <1>4 DEF ToolsOf
<1>6. \A t \in Present(w, ToolsOf(w, a)) : w[t].spec.agentRef \in Agents \union {None}
  BY <1>5, WorldParts DEF Present
<1>7. PeersOf(w, a) \in SUBSET Agents
  BY <1>6 DEF PeersOf
<1>8. ReadSet(w, a) \in SUBSET Objects
  BY <1>3, <1>5 DEF ReadSet, Objects, Deps
<1> QED BY <1>2, <1>3, <1>5, <1>7, <1>8

-----------------------------------------------------------------------------
(* What a Reconcile finds depends on what it reads.                        *)

\* Worlds that agree on what Agent a reads in one of them give it the same
\* effective spec, tools, peers, missing references, violations and hash.
LEMMA Frame ==
  ASSUME NEW w, WorldOK(w), NEW v, WorldOK(v), NEW a \in Agents, Exists(w, a),
         \A n \in ReadSet(w, a) : v[n] = w[n]
  PROVE  /\ v[a] = w[a]
         /\ EffOf(v, a) = EffOf(w, a)
         /\ ToolsOf(v, a) = ToolsOf(w, a)
         /\ PeersOf(v, a) = PeersOf(w, a)
         /\ MissingOf(v, a) = MissingOf(w, a)
         /\ ViolationsOf(v, a) = ViolationsOf(w, a)
         /\ HashOf(v, a) = HashOf(w, a)
         /\ ReadSet(v, a) = ReadSet(w, a)
<1>1. w[a].spec \in AgentSpec /\ EffOf(w, a) \in AgentSpec
  BY WorldParts, EffParts
<1>2. v[a] = w[a]
  BY DEF ReadSet
<1>3. EffOf(w, a).class = w[a].spec.class
  BY <1>1, ClassInParts, DefaultsParts DEF EffOf
<1>4. ClassIn(v, w[a].spec) = ClassIn(w, w[a].spec)
  <2>1. CASE w[a].spec.class = None
    BY <2>1 DEF ClassIn
  <2>2. CASE w[a].spec.class # None
    <3>1. w[a].spec.class \in ReadSet(w, a)
      BY <2>2, <1>1, <1>3, TargetsParts DEF ReadSet
    <3> QED BY <3>1 DEF ClassIn, Exists
  <2> QED BY <2>1, <2>2
<1>5. EffOf(v, a) = EffOf(w, a)
  BY <1>2, <1>4 DEF EffOf
<1>6. \A n \in Targets(EffOf(w, a)) : v[n] = w[n]
  BY DEF ReadSet
<1>7. EffOf(w, a).toolSets \subseteq Targets(EffOf(w, a))
        /\ EffOf(w, a).policies \subseteq Targets(EffOf(w, a))
  BY <1>1, TargetsParts
<1>8. Present(v, EffOf(w, a).toolSets) = Present(w, EffOf(w, a).toolSets)
  BY <1>6, <1>7 DEF Present, Exists
<1>9. \A s \in Present(w, EffOf(w, a).toolSets) : v[s].spec.tools = w[s].spec.tools
  BY <1>6, <1>7 DEF Present
<1>10. ToolsOf(v, a) = ToolsOf(w, a)
  BY <1>5, <1>8, <1>9 DEF ToolsOf
<1>11. \A t \in ToolsOf(w, a) : v[t] = w[t]
  BY DEF ReadSet
<1>12. Present(v, ToolsOf(w, a)) = Present(w, ToolsOf(w, a))
  BY <1>11 DEF Present, Exists
<1>13. PeersOf(v, a) = PeersOf(w, a)
  BY <1>10, <1>11, <1>12 DEF PeersOf, Present
<1>14. MissingOf(v, a) = MissingOf(w, a)
  BY <1>5, <1>6 DEF MissingOf, Exists
<1>15. {v[p].spec : p \in EffOf(w, a).policies} = {w[p].spec : p \in EffOf(w, a).policies}
  BY <1>6, <1>7
<1>16. ViolationsOf(v, a) = ViolationsOf(w, a)
  BY <1>5, <1>10, <1>15 DEF ViolationsOf
<1>17. HashOf(v, a) = HashOf(w, a)
  BY <1>5, <1>6 DEF HashOf
<1>18. ReadSet(v, a) = ReadSet(w, a)
  BY <1>5, <1>10 DEF ReadSet
<1> QED BY <1>2, <1>5, <1>10, <1>13, <1>14, <1>16, <1>17, <1>18

\* An object an Agent reads is still one it reads when that object changes:
\* its kind is not one of those that lead to it.
LEMMA StillRead ==
  ASSUME NEW w, WorldOK(w), NEW v, WorldOK(v), NEW a \in Agents, Exists(w, a),
         Exists(v, a), NEW n \in ReadSet(w, a),
         \A k \in Objects : k # n => v[k] = w[k]
  PROVE  n \in ReadSet(v, a)
<1>1. CASE n = a
  BY <1>1 DEF ReadSet
<1>2. CASE n # a
  <2>1. v[a] = w[a] /\ w[a].spec \in AgentSpec /\ EffOf(w, a) \in AgentSpec
          /\ EffOf(v, a) \in AgentSpec
    BY <1>2, WorldParts, EffParts DEF Objects
  <2>2. EffOf(w, a).class = w[a].spec.class /\ EffOf(v, a).class = w[a].spec.class
    BY <2>1, ClassInParts, DefaultsParts DEF EffOf
  <2>3. CASE n = w[a].spec.class
    <3>1. n \in Deps
      BY <1>2, EffParts, KindsAssumption DEF ReadSet, Objects, Deps
    <3>2. n # None
      BY <3>1, NoneAssumption DEF Objects
    <3> QED BY <3>2, <2>1, <2>2, <2>3, TargetsParts DEF ReadSet
  <2>4. CASE n # w[a].spec.class
    <3>1. ClassIn(v, w[a].spec) = ClassIn(w, w[a].spec)
      <4>1. w[a].spec.class \in Classes \union {None}
        BY <2>1 DEF AgentSpec
      <4>2. w[a].spec.class # None => v[w[a].spec.class] = w[w[a].spec.class]
        BY <4>1, <2>4 DEF Objects, Deps
      <4> QED BY <4>2 DEF ClassIn, Exists
    <3>2. EffOf(v, a) = EffOf(w, a)
      BY <2>1, <3>1 DEF EffOf
    <3>3. CASE n \in Targets(EffOf(w, a))
      BY <3>2, <3>3 DEF ReadSet
    <3>4. CASE n \in ToolsOf(w, a) \ Targets(EffOf(w, a))
      <4>1. EffOf(w, a).tools \subseteq Targets(EffOf(w, a))
        BY <2>1, TargetsParts
      <4>2. PICK s \in Present(w, EffOf(w, a).toolSets) : n \in w[s].spec.tools
        BY <3>4, <4>1 DEF ToolsOf
      <4>3. n \in Tools /\ s \in ToolSets
        BY <3>4, EffParts, <2>1, TargetsParts DEF Present
      <4>4. v[s] = w[s]
        BY <4>3, KindsAssumption DEF Objects, Deps
      <4>5. s \in Present(v, EffOf(v, a).toolSets) /\ n \in v[s].spec.tools
        BY <4>2, <4>4, <3>2 DEF Present, Exists
      <4> QED BY <4>5 DEF ToolsOf, ReadSet
    <3> QED BY <1>2, <3>3, <3>4 DEF ReadSet
  <2> QED BY <2>3, <2>4
<1> QED BY <1>1, <1>2

\* The watches are precise: whatever an Agent reads, a change of it is mapped
\* to that Agent, along the Agent's own references, its class and its ToolSets.
LEMMA ReadIsRouted ==
  ASSUME WorldOK(cache), NEW a \in Agents, Exists(cache, a), NEW n \in ReadSet(cache, a)
  PROVE  n = a \/ a \in AgentsReferencing(n)
<1> DEFINE spec == cache[a].spec
           eff  == EffOf(cache, a)
<1>1. spec \in AgentSpec /\ eff \in AgentSpec
  BY WorldParts, EffParts
<1>2. spec.class \in Classes \union {None}
  BY <1>1 DEF AgentSpec
<1>3. /\ eff.class = spec.class /\ eff.toolSets = spec.toolSets
      /\ ClassIn(cache, spec) # None =>
              /\ spec.class \in Classes /\ Exists(cache, spec.class)
              /\ ClassIn(cache, spec) = cache[spec.class].spec
      /\ eff.model = spec.model \/ (ClassIn(cache, spec) # None
                                      /\ eff.model = ClassIn(cache, spec).model)
      /\ eff.tools = spec.tools \/ (ClassIn(cache, spec) # None
                                      /\ eff.tools = ClassIn(cache, spec).tools)
      /\ eff.policies = spec.policies \/ (ClassIn(cache, spec) # None
                                      /\ eff.policies = ClassIn(cache, spec).policies)
  BY <1>1, ClassInParts, DefaultsParts DEF EffOf
<1> HIDE DEF eff
<1>4. ClassIn(cache, spec) # None => a \in AgentsNaming(spec.class)
  BY <1>3 DEF AgentsNaming
<1>5. \A s \in spec.toolSets : a \in AgentsNaming(s)
  BY DEF AgentsNaming
<1>6. CASE n \in Targets(eff)
  <2>1. CASE n \in {spec.class, spec.model} \/ n \in spec.tools \union spec.toolSets
                                                   \union spec.policies
    <3>1. a \in AgentsNaming(n)
      BY <2>1 DEF AgentsNaming
    <3> QED BY <3>1 DEF AgentsReferencing
  <2>2. CASE ~(n \in {spec.class, spec.model} \/ n \in spec.tools \union spec.toolSets
                                                   \union spec.policies)
    <3>1. /\ ClassIn(cache, spec) # None
          /\ \/ cache[spec.class].spec.model = n
             \/ n \in cache[spec.class].spec.tools
             \/ n \in cache[spec.class].spec.policies
      BY <1>3, <1>6, <2>2 DEF Targets
    <3>2. spec.class \in {c \in Classes : /\ Exists(cache, c)
                              /\ \/ cache[c].spec.model = n
                                 \/ n \in cache[c].spec.tools
                                 \/ n \in cache[c].spec.policies}
      BY <3>1, <1>3
    <3> QED BY <3>1, <3>2, <1>4 DEF AgentsReferencing
  <2> QED BY <2>1, <2>2
<1>7. CASE n \in ToolsOf(cache, a) \ Targets(eff)
  <2>1. eff.tools \subseteq Targets(eff)
    BY <1>1, TargetsParts DEF eff
  <2>2. PICK s \in Present(cache, eff.toolSets) : n \in cache[s].spec.tools
    BY <1>7, <2>1 DEF ToolsOf, eff
  <2>3. s \in ToolSets
    BY <1>1, TargetsParts DEF Present, eff
  <2>4. s \in {k \in ToolSets : Exists(cache, k) /\ n \in cache[k].spec.tools}
    BY <2>2, <2>3 DEF Present
  <2>5. a \in AgentsNaming(s)
    BY <2>2, <1>3, <1>5 DEF Present
  <2>6. a \in UNION {AgentsNaming(k) : k \in
                     {k \in ToolSets : Exists(cache, k) /\ n \in cache[k].spec.tools}}
    BY <2>4, <2>5
  <2> QED BY <2>6 DEF AgentsReferencing
<1> QED BY <1>6, <1>7 DEF ReadSet, eff

\* What a Reconcile that has read everything holds.
LEMMA AllReadMeans ==
  ASSUME NEW w, NEW j, AllRead(j, w)
  PROVE  /\ j.eff = EffOf(w, j.agent)
         /\ j.tools = ToolsOf(w, j.agent)
         /\ j.missing = MissingOf(w, j.agent)
<1>1. j.eff = EffOf(w, j.agent)
  BY DEF AllRead, TargetsFit
<1>2. j.tools = ToolsOf(w, j.agent)
  BY <1>1 DEF AllRead, ToolsFit, ToolsOf
<1>3. j.missing = MissingOf(w, j.agent)
  BY <1>1 DEF AllRead, TargetsFit, MissingOf
<1> QED BY <1>1, <1>2, <1>3

LEMMA StatusFrame ==
  ASSUME NEW w, WorldOK(w), NEW v, WorldOK(v), NEW a \in Agents, Exists(w, a),
         \A n \in ReadSet(w, a) : v[n] = w[n],
         NEW s, StatusFits(s, w, a)
  PROVE  StatusFits(s, v, a)
<1>1. /\ v[a] = w[a]
      /\ PeersOf(v, a) = PeersOf(w, a)
      /\ MissingOf(v, a) = MissingOf(w, a)
      /\ ViolationsOf(v, a) = ViolationsOf(w, a)
      /\ HashOf(v, a) = HashOf(w, a)
  BY Frame
<1> QED BY <1>1 DEF StatusFits

\* The same for each kind of read.
LEMMA ReadsFrame ==
  ASSUME NEW w, NEW v, NEW j, NEW done, \A n \in done : v[n] = w[n],
         EffOf(v, j.agent) = EffOf(w, j.agent)
  PROVE  /\ TargetsFit(j, w, done) => TargetsFit(j, v, done)
         /\ ToolsFit(j, w, done) => ToolsFit(j, v, done)
         /\ PeersFit(j, w, done) => PeersFit(j, v, done)
<1>1. Present(v, done) = Present(w, done)
        /\ Present(v, done \intersect Policies) = Present(w, done \intersect Policies)
        /\ {n \in done : ~Exists(v, n)} = {n \in done : ~Exists(w, n)}
  BY DEF Present, Exists
<1>2. \A n \in Present(w, done) : v[n] = w[n]
  BY DEF Present
<1>3. \A n \in Present(w, done \intersect Policies) : v[n] = w[n]
  BY DEF Present
<1>4. {<<n, v[n].rv>> : n \in Present(w, done)} = {<<n, w[n].rv>> : n \in Present(w, done)}
  BY <1>2
<1>5. {v[p].spec : p \in Present(w, done \intersect Policies)}
        = {w[p].spec : p \in Present(w, done \intersect Policies)}
  BY <1>3
<1>6. {v[s].spec.tools : s \in Present(w, done)} = {w[s].spec.tools : s \in Present(w, done)}
  BY <1>2
<1>7. {v[t].spec.agentRef : t \in Present(w, done)}
        = {w[t].spec.agentRef : t \in Present(w, done)}
  BY <1>2
<1>8. TargetsFit(j, w, done) => TargetsFit(j, v, done)
  BY <1>1, <1>4, <1>5, Zenon DEF TargetsFit
<1>9. ToolsFit(j, w, done) => ToolsFit(j, v, done)
  BY <1>1, <1>6, Zenon DEF ToolsFit
<1>10. PeersFit(j, w, done) => PeersFit(j, v, done)
  BY <1>1, <1>7, Zenon DEF PeersFit
<1> QED BY <1>8, <1>9, <1>10

\* A change of what the Agent does not read leaves its Reconcile fresh.
LEMMA FreshFrame ==
  ASSUME NEW w, WorldOK(w), NEW v, WorldOK(v), NEW a \in Agents, Exists(w, a),
         \A n \in ReadSet(w, a) : v[n] = w[n],
         NEW j, j.agent = a, Fresh(j, w)
  PROVE  Fresh(j, v)
<1>1. EffOf(v, j.agent) = EffOf(w, j.agent) /\ EffOf(w, a) \in AgentSpec
  BY Frame, EffParts
<1>2. \A n \in Targets(EffOf(w, a)) : v[n] = w[n]
  BY DEF ReadSet
<1>3. EffOf(w, a).toolSets \subseteq Targets(EffOf(w, a))
  BY <1>1, TargetsParts
<1>4. \A n \in ToolsOf(w, a) : v[n] = w[n]
  BY DEF ReadSet
<1>5. \A done : TargetsFit(j, w, done) => j.eff = EffOf(w, a)
  BY DEF TargetsFit
<1>6. ASSUME NEW done, TargetsFit(j, w, done), done \subseteq Targets(j.eff)
      PROVE  TargetsFit(j, v, done)
  <2>1. \A n \in done : v[n] = w[n]
    BY <1>2, <1>5, <1>6
  <2> QED BY <2>1, <1>1, <1>6, ReadsFrame
<1>7. ASSUME NEW done, ToolsFit(j, w, done), done \subseteq j.eff.toolSets,
             j.eff = EffOf(w, a)
      PROVE  ToolsFit(j, v, done)
  <2>1. \A n \in done : v[n] = w[n]
    BY <1>2, <1>3, <1>7
  <2> QED BY <2>1, <1>1, <1>7, ReadsFrame
<1>8. AllRead(j, w) => AllRead(j, v)
  BY <1>5, <1>6, <1>7 DEF AllRead
<1>9. ASSUME NEW done, PeersFit(j, w, done), done \subseteq j.tools, AllRead(j, w)
      PROVE  PeersFit(j, v, done)
  <2>1. j.tools = ToolsOf(w, a)
    BY <1>9, AllReadMeans
  <2>2. \A n \in done : v[n] = w[n]
    BY <2>1, <1>4, <1>9
  <2> QED BY <2>2, <1>1, <1>9, ReadsFrame
<1>10. CASE j.pc = "targets"
  BY <1>6, <1>10 DEF Fresh
<1>11. CASE j.pc = "sets"
  <2>1. TargetsFit(j, w, Targets(j.eff)) /\ ToolsFit(j, w, j.eff.toolSets \ j.todo)
    BY <1>11 DEF Fresh
  <2>2. TargetsFit(j, v, Targets(j.eff)) /\ ToolsFit(j, v, j.eff.toolSets \ j.todo)
    BY <2>1, <1>5, <1>6, <1>7
  <2> QED BY <2>2, <1>11 DEF Fresh
<1>12. CASE j.pc = "tools"
  BY <1>8, <1>9, <1>12 DEF Fresh
<1>13. CASE j.pc = "peers"
  BY <1>8, <1>9, <1>13 DEF Fresh
<1>14. CASE j.pc = "status"
  BY <1>8, <1>9, <1>14 DEF Fresh
<1>15. CASE j.pc = "class"
  BY <1>15 DEF Fresh
<1> QED BY <1>10, <1>11, <1>12, <1>13, <1>14, <1>15 DEF Fresh

-----------------------------------------------------------------------------
(* The invariant holds initially.                                          *)

LEMMA Worlds ==
  ASSUME TypeOK
  PROVE  /\ WorldOK(store) /\ WorldOK(cache)
         /\ \A n \in Objects : cache[n].rv <= store[n].rv
         /\ \A n \in Objects : cache[n].rv \in Nat /\ store[n].rv \in Nat
BY DEF TypeOK, WorldOK, Version

\* The references of an object are objects.
LEMMA RefsParts ==
  ASSUME NEW w, WorldOK(w), NEW n \in Deps, Exists(w, n)
  PROVE  RefsOf(n, w[n].spec) \in SUBSET Objects /\ MissingIn(w, n) \in SUBSET Objects
<1>1. CASE n \in Classes
  <2>1. w[n].spec.model \in Models \union {None} /\ w[n].spec.policies \in SUBSET Policies
    BY <1>1, WorldParts DEF ClassSpec
  <2>2. ClassTargets(w[n].spec) \in SUBSET Objects
    BY <2>1 DEF ClassTargets, Objects, Deps
  <2> QED BY <1>1, <2>2, KindRefs DEF MissingIn
<1>2. CASE n \in Tools
  <2>1. ToolTargets(w[n].spec) \in SUBSET Objects
    BY <1>2, WorldParts DEF ToolTargets, Objects
  <2> QED BY <1>2, <2>1, KindRefs DEF MissingIn
<1>3. CASE n \in ToolSets
  <2>1. ToolSetTargets(w[n].spec) \in SUBSET Objects
    BY <1>3, WorldParts DEF ToolSetTargets, Objects, Deps
  <2> QED BY <1>3, <2>1, KindRefs DEF MissingIn
<1>4. CASE n \in Models \union Policies
  <2>1. RefsOf(n, w[n].spec) = {}
    BY <1>4, KindRefs
  <2> QED BY <2>1 DEF MissingIn
<1> QED BY <1>1, <1>2, <1>3, <1>4 DEF Deps

LEMMA IdleIsJob == Idle \in Job
BY DEF Idle, Job

LEMMA InitHolds == Init => IndInv
<1> SUFFICES ASSUME Init PROVE IndInv
  OBVIOUS
<1>1. \A n \in Objects : store[n] \in Version(n)
  <2> TAKE n \in Objects
  <2>1. InitSpec[n] \in SpecOf(n) \union {None}
    BY InitSpecAssumption
  <2>2. store[n] = IF InitSpec[n] = None THEN Absent(0)
                   ELSE [rv |-> 1, uid |-> 1, gen |-> 1, spec |-> InitSpec[n]]
    BY DEF Init
  <2> QED BY <2>1, <2>2 DEF Absent, Version
<1>2. DOMAIN store = Objects /\ cache = store
  BY DEF Init
<1>3. WorldOK(store) /\ WorldOK(cache)
  BY <1>1, <1>2 DEF WorldOK
<1>4. \A n \in Objects : cache[n].rv <= store[n].rv
  BY <1>1, <1>2 DEF Version
<1>5. status \in [Agents -> Status] /\ \A a \in Agents : status[a] = NoStatus
  BY DEF Init, NoStatus, Status
<1>6. depStatus \in [Deps -> [observed : Nat, missing : SUBSET Objects]]
  <2>1. depStatus = [n \in Deps |-> IF Exists(store, n)
                    THEN [observed |-> 1, missing |-> MissingIn(store, n)]
                    ELSE NoDepStatus]
    BY DEF Init
  <2>2. \A n \in Deps : Exists(store, n) => MissingIn(store, n) \in SUBSET Objects
    BY <1>3, RefsParts
  <2> QED BY <2>1, <2>2 DEF NoDepStatus
<1>7. job = Idle /\ job \in Job /\ job.pc = "idle"
  BY IdleIsJob DEF Init, Idle
<1>8. TypeOK
  <2>1. workloads = {} /\ edits = 0 /\ faults = 0 /\ notify = {}
          /\ queue = {a \in Agents : Exists(store, a)}
    BY DEF Init
  <2>2. queue \subseteq Objects
    BY <2>1 DEF Objects
  <2> QED BY <1>1, <1>2, <1>4, <1>5, <1>6, <1>7, <2>1, <2>2 DEF TypeOK
<1>9. CacheFollows
  BY <1>2 DEF CacheFollows
<1>10. JobFollows /\ TodoFits
  BY <1>7 DEF JobFollows, TodoFits
<1>11. \A a \in Agents : AgentAttended(a)
  <2>1. queue = {a \in Agents : Exists(store, a)}
    BY DEF Init
  <2> QED BY <2>1 DEF AgentAttended, Announced
<1>12. ASSUME NEW n \in Deps, Exists(store, n)
       PROVE  depStatus[n] = DepStatus(cache, n)
  <2>1. store[n] = IF InitSpec[n] = None THEN Absent(0)
                   ELSE [rv |-> 1, uid |-> 1, gen |-> 1, spec |-> InitSpec[n]]
    BY DEF Init, Objects
  <2>2. store[n].gen = 1
    BY <2>1, <1>12 DEF Exists, Absent
  <2>3. depStatus[n] = [observed |-> 1, missing |-> MissingIn(store, n)]
    BY <1>12 DEF Init
  <2> QED BY <2>2, <2>3, <1>2 DEF DepStatus
<1>13. \A n \in Deps : DepAttended(n)
  BY <1>12 DEF DepAttended
<1> QED BY <1>8, <1>9, <1>10, <1>11, <1>13 DEF IndInv

-----------------------------------------------------------------------------
(* The steps of a Reconcile that read: the API objects, the statuses, the  *)
(* caches and the events are left alone, and the job stays fresh.          *)

LEMMA JobStep ==
  ASSUME IndInv, job.pc # "idle",
         UNCHANGED <<store, status, depStatus, edits, faults, cache, notify>>,
         workloads' \subseteq Agents \X {"runtime", "peer"},
         queue \subseteq queue', queue' \subseteq Objects,
         job' \in Job, job'.pc # "idle",
         job'.agent = job.agent, job'.rv = job.rv, job'.spec = job.spec,
         job'.eff \in AgentSpec, job'.pc # "status" => job.spec.valid, TodoFits',
         ( /\ job.agent \in Agents /\ Exists(cache, job.agent)
           /\ job.spec = cache[job.agent].spec
           /\ Fresh(job, cache) ) => Fresh(job', cache)
  PROVE  IndInv'
<1>1. TypeOK /\ CacheFollows /\ JobFollows
  BY DEF IndInv
<1>2. TypeOK'
  BY <1>1 DEF TypeOK, LiveAgents, Exists
<1>3. CacheFollows'
  BY <1>1 DEF CacheFollows
<1>4. JobFollows'
  BY <1>1 DEF JobFollows
<1>5. ASSUME NEW a \in Agents
      PROVE  AgentAttended(a)'
  <2> SUFFICES ASSUME Exists(store, a) PROVE AgentAttended(a)'
    BY DEF AgentAttended, Exists
  <2>1. AgentAttended(a)
    BY DEF IndInv
  <2>2. CASE Announced(a, ReadSet(cache, a))
    <3>1. Announced(a, ReadSet(cache, a))'
      BY <2>2 DEF Announced
    <3> QED BY <3>1 DEF AgentAttended
  <2>3. CASE job.agent = a /\ job.rv # store[a].rv
    BY <2>3 DEF AgentAttended
  <2>4. CASE job.agent = a /\ job.rv = store[a].rv /\ Fresh(job, cache)
    <3>1. job.rv = cache[a].rv
      BY <1>1, <2>4, Worlds DEF JobFollows, Objects
    <3>2. job.spec = cache[a].spec /\ cache[a] = store[a]
      BY <1>1, <2>4, <3>1 DEF JobFollows, CacheFollows, Objects
    <3>3. Fresh(job', cache)
      BY <2>4, <3>2 DEF Exists
    <3> QED BY <2>4, <3>3 DEF AgentAttended
  <2>5. CASE StatusFits(status[a], cache, a)
    BY <2>5 DEF AgentAttended
  <2> QED BY <2>1, <2>2, <2>3, <2>4, <2>5 DEF AgentAttended
<1>6. ASSUME NEW n \in Deps
      PROVE  DepAttended(n)'
  <2>1. DepAttended(n)
    BY DEF IndInv
  <2> QED BY <2>1 DEF DepAttended, Announced, Exists
<1> QED BY <1>2, <1>3, <1>4, <1>5, <1>6 DEF IndInv

LEMMA ReadClassStep == IndInv /\ ReadClass => IndInv'
<1> SUFFICES ASSUME IndInv, ReadClass PROVE IndInv'
  OBVIOUS
<1> DEFINE eff == ApplyClassDefaults(job.spec, ClassIn(cache, job.spec))
<1>1. TypeOK /\ JobFollows /\ job.pc = "class" /\ job \in Job
  BY DEF IndInv, ReadClass, JobIs, TypeOK
<1>2. job.spec \in AgentSpec /\ WorldOK(cache)
  BY <1>1, Worlds DEF JobFollows
<1>3. eff \in AgentSpec
  BY <1>2, ClassInParts, DefaultsParts
<1>4. job' = [job EXCEPT !.pc = "targets", !.eff = eff, !.todo = Targets(eff),
                         !.missing = IF eff.model = None THEN {None} ELSE {}]
  BY DEF ReadClass
<1>5. EffOf(cache, job.agent) = eff \/ job.spec # cache[job.agent].spec
  BY DEF EffOf
<1>6. Targets(eff) \in SUBSET Deps
  BY <1>3, TargetsParts
<1> HIDE DEF eff
<1>7. job' \in Job
  BY <1>1, <1>3, <1>4, <1>6 DEF Job, Objects
<1>8. /\ job'.pc = "targets" /\ job'.agent = job.agent /\ job'.rv = job.rv
      /\ job'.spec = job.spec /\ job'.eff = eff /\ job'.todo = Targets(eff)
      /\ job'.missing = (IF eff.model = None THEN {None} ELSE {})
      /\ job'.refs = job.refs /\ job'.policies = job.policies
      /\ job'.peers = job.peers /\ job'.badPeers = job.badPeers
  BY <1>1, <1>4 DEF Job
<1>9. ASSUME Fresh(job, cache), job.spec = cache[job.agent].spec
      PROVE  Fresh(job', cache)
  <2>1. job.refs = {} /\ job.policies = {} /\ job.peers = {} /\ job.badPeers = {}
    BY <1>1, <1>9 DEF Fresh
  <2>2. Targets(eff) \ Targets(eff) = {}
    OBVIOUS
  <2>3. TargetsFit(job', cache, {})
    BY <2>1, <1>5, <1>8, <1>9 DEF TargetsFit, Present
  <2> QED BY <2>1, <2>2, <2>3, <1>8 DEF Fresh
<1>10. TodoFits'
  BY <1>8, <1>6 DEF TodoFits
<1>11. UNCHANGED <<store, status, depStatus, edits, faults, cache, notify, workloads, queue>>
  BY DEF ReadClass, world
<1>12. job.spec.valid
  BY <1>1 DEF JobFollows
<1> QED BY <1>1, <1>3, <1>7, <1>8, <1>9, <1>10, <1>11, <1>12, JobStep DEF TypeOK

LEMMA ReadTargetStep == IndInv /\ ReadTarget => IndInv'
<1> SUFFICES ASSUME IndInv, ReadTarget PROVE IndInv'
  OBVIOUS
<1>1. TypeOK /\ JobFollows /\ TodoFits /\ job.pc = "targets" /\ job \in Job
  BY DEF IndInv, ReadTarget, JobIs, TypeOK
<1>2. job.spec \in AgentSpec /\ job.eff \in AgentSpec /\ job.spec.valid
  BY <1>1 DEF JobFollows
<1>3. PICK n \in job.todo :
        job' = [job EXCEPT
            !.todo = @ \ {n},
            !.refs = IF Exists(cache, n) THEN @ \union {<<n, cache[n].rv>>} ELSE @,
            !.missing = IF Exists(cache, n) THEN @ ELSE @ \union {n},
            !.policies = IF Exists(cache, n) /\ n \in Policies
                         THEN @ \union {cache[n].spec} ELSE @]
  BY DEF ReadTarget
<1>4. WorldOK(cache) /\ n \in Deps /\ cache[n].rv \in Nat
  BY <1>1, Worlds DEF TodoFits, Objects
<1>5. Exists(cache, n) /\ n \in Policies => cache[n].spec \in PolicySpec
  BY <1>4, WorldParts
<1>6. /\ job'.pc = "targets" /\ job'.agent = job.agent /\ job'.rv = job.rv
      /\ job'.spec = job.spec /\ job'.eff = job.eff /\ job'.todo = job.todo \ {n}
      /\ job'.refs = (IF Exists(cache, n) THEN job.refs \union {<<n, cache[n].rv>>}
                      ELSE job.refs)
      /\ job'.missing = (IF Exists(cache, n) THEN job.missing ELSE job.missing \union {n})
      /\ job'.policies = (IF Exists(cache, n) /\ n \in Policies
                          THEN job.policies \union {cache[n].spec} ELSE job.policies)
      /\ job'.peers = job.peers /\ job'.badPeers = job.badPeers
  BY <1>1, <1>3 DEF Job
<1>7. job' \in Job
  <2>1. job.refs \in SUBSET (Deps \X Nat) /\ job.missing \in SUBSET (Deps \union {None})
          /\ job.policies \in SUBSET PolicySpec /\ job.todo \in SUBSET Objects
    BY <1>1 DEF Job
  <2>2. job'.refs \in SUBSET (Deps \X Nat)
    BY <2>1, <1>4, <1>6
  <2>3. job'.missing \in SUBSET (Deps \union {None})
    BY <2>1, <1>4, <1>6
  <2>4. job'.policies \in SUBSET PolicySpec
    BY <2>1, <1>5, <1>6
  <2>5. job'.todo \in SUBSET Objects
    BY <2>1, <1>6
  <2>6. job' = [job EXCEPT !.todo = job'.todo, !.refs = job'.refs,
                           !.missing = job'.missing, !.policies = job'.policies]
    BY <1>1, <1>3, <1>6
  <2> QED BY <1>1, <2>2, <2>3, <2>4, <2>5, <2>6 DEF Job
<1>8. ASSUME Fresh(job, cache)
      PROVE  Fresh(job', cache)
  <2> DEFINE done == Targets(job.eff) \ job.todo
             done2 == Targets(job.eff) \ (job.todo \ {n})
  <2>1. /\ job.todo \subseteq Targets(job.eff)
        /\ TargetsFit(job, cache, done)
        /\ job.peers = {} /\ job.badPeers = {}
    BY <1>1, <1>8 DEF Fresh
  <2>2. done2 = done \union {n}
    BY <2>1
  <2> HIDE DEF done, done2
  <2>3. job'.refs = {<<k, cache[k].rv>> : k \in Present(cache, done2)}
    <3>1. job.refs = {<<k, cache[k].rv>> : k \in Present(cache, done)}
      BY <2>1 DEF TargetsFit
    <3>2. Present(cache, done2) = IF Exists(cache, n) THEN Present(cache, done) \union {n}
                                  ELSE Present(cache, done)
      BY <2>2 DEF Present
    <3> QED BY <3>1, <3>2, <1>6
  <2>4. job'.missing = {k \in done2 : ~Exists(cache, k)} \union ({job'.eff.model} \intersect {None})
    BY <2>1, <2>2, <1>6 DEF TargetsFit
  <2>5. job'.policies = {cache[p].spec : p \in Present(cache, done2 \intersect Policies)}
    <3>1. job.policies = {cache[p].spec : p \in Present(cache, done \intersect Policies)}
      BY <2>1 DEF TargetsFit
    <3>2. Present(cache, done2 \intersect Policies) =
             IF Exists(cache, n) /\ n \in Policies
             THEN Present(cache, done \intersect Policies) \union {n}
             ELSE Present(cache, done \intersect Policies)
      BY <2>2 DEF Present
    <3> QED BY <3>1, <3>2, <1>6
  <2>6. job'.eff = EffOf(cache, job'.agent)
    BY <2>1, <1>6 DEF TargetsFit
  <2>7. TargetsFit(job', cache, done2)
    BY <2>3, <2>4, <2>5, <2>6 DEF TargetsFit
  <2> QED BY <2>1, <2>7, <1>6 DEF Fresh, done2
<1>9. TodoFits'
  BY <1>1, <1>6 DEF TodoFits
<1>10. UNCHANGED <<store, status, depStatus, edits, faults, cache, notify, workloads, queue>>
  BY DEF ReadTarget, world
<1> QED BY <1>1, <1>2, <1>6, <1>7, <1>8, <1>9, <1>10, JobStep DEF TypeOK

LEMMA TargetsDoneStep == IndInv /\ TargetsDone => IndInv'
<1> SUFFICES ASSUME IndInv, TargetsDone PROVE IndInv'
  OBVIOUS
<1>1. TypeOK /\ JobFollows /\ job.pc = "targets" /\ job \in Job /\ job.todo = {}
  BY DEF IndInv, TargetsDone, JobIs, TypeOK
<1>2. job.spec \in AgentSpec /\ job.eff \in AgentSpec /\ job.spec.valid
  BY <1>1 DEF JobFollows
<1>3. job.eff.toolSets \in SUBSET ToolSets /\ job.eff.tools \in SUBSET Tools
  BY <1>2, TargetsParts
<1>4. job' = [job EXCEPT !.pc = "sets", !.todo = job.eff.toolSets, !.tools = job.eff.tools]
  BY DEF TargetsDone
<1>5. job' \in Job
  BY <1>1, <1>3, <1>4 DEF Job, Objects, Deps
<1>6. /\ job'.pc = "sets" /\ job'.agent = job.agent /\ job'.rv = job.rv
      /\ job'.spec = job.spec /\ job'.eff = job.eff /\ job'.todo = job.eff.toolSets
      /\ job'.refs = job.refs /\ job'.missing = job.missing
      /\ job'.policies = job.policies /\ job'.tools = job.eff.tools
      /\ job'.peers = job.peers /\ job'.badPeers = job.badPeers
  BY <1>1, <1>4 DEF Job
<1>7. ASSUME Fresh(job, cache)
      PROVE  Fresh(job', cache)
  <2>1. TargetsFit(job, cache, Targets(job.eff) \ {}) /\ job.peers = {} /\ job.badPeers = {}
    BY <1>1, <1>7 DEF Fresh
  <2>2. Targets(job.eff) \ {} = Targets(job.eff)
    OBVIOUS
  <2>3. TargetsFit(job', cache, Targets(job'.eff))
    BY <2>1, <2>2, <1>6 DEF TargetsFit
  <2>4. ToolsFit(job', cache, job'.eff.toolSets \ job'.todo)
    BY <1>6 DEF ToolsFit, Present
  <2> QED BY <2>1, <2>3, <2>4, <1>6 DEF Fresh
<1>8. TodoFits'
  BY <1>3, <1>6 DEF TodoFits
<1>9. UNCHANGED <<store, status, depStatus, edits, faults, cache, notify, workloads, queue>>
  BY DEF TargetsDone, world
<1> QED BY <1>1, <1>2, <1>5, <1>6, <1>7, <1>8, <1>9, JobStep DEF TypeOK

LEMMA ReadToolSetStep == IndInv /\ ReadToolSet => IndInv'
<1> SUFFICES ASSUME IndInv, ReadToolSet PROVE IndInv'
  OBVIOUS
<1>1. TypeOK /\ JobFollows /\ TodoFits /\ job.pc = "sets" /\ job \in Job
  BY DEF IndInv, ReadToolSet, JobIs, TypeOK
<1>2. job.spec \in AgentSpec /\ job.eff \in AgentSpec /\ job.spec.valid
  BY <1>1 DEF JobFollows
<1>3. PICK s \in job.todo :
        job' = [job EXCEPT !.todo = @ \ {s},
                  !.tools = IF Exists(cache, s) THEN @ \union cache[s].spec.tools ELSE @]
  BY DEF ReadToolSet
<1>4. s \in ToolSets /\ (Exists(cache, s) => cache[s].spec.tools \in SUBSET Tools)
  BY <1>1, Worlds, WorldParts DEF TodoFits
<1>5. /\ job'.pc = "sets" /\ job'.agent = job.agent /\ job'.rv = job.rv
      /\ job'.spec = job.spec /\ job'.eff = job.eff /\ job'.todo = job.todo \ {s}
      /\ job'.refs = job.refs /\ job'.missing = job.missing
      /\ job'.policies = job.policies
      /\ job'.tools = (IF Exists(cache, s) THEN job.tools \union cache[s].spec.tools
                       ELSE job.tools)
      /\ job'.peers = job.peers /\ job'.badPeers = job.badPeers
  BY <1>1, <1>3 DEF Job
<1>6. job' \in Job
  <2>1. job.tools \in SUBSET Tools /\ job.todo \in SUBSET Objects
    BY <1>1 DEF Job
  <2>2. job'.tools \in SUBSET Tools /\ job'.todo \in SUBSET Objects
    BY <2>1, <1>4, <1>5
  <2>3. job' = [job EXCEPT !.todo = job'.todo, !.tools = job'.tools]
    BY <1>3, <1>5
  <2> QED BY <1>1, <2>2, <2>3 DEF Job
<1>7. ASSUME Fresh(job, cache)
      PROVE  Fresh(job', cache)
  <2> DEFINE done == job.eff.toolSets \ job.todo
             done2 == job.eff.toolSets \ (job.todo \ {s})
  <2>1. /\ job.todo \subseteq job.eff.toolSets
        /\ TargetsFit(job, cache, Targets(job.eff))
        /\ ToolsFit(job, cache, done)
        /\ job.peers = {} /\ job.badPeers = {}
    BY <1>1, <1>7 DEF Fresh
  <2>2. done2 = done \union {s}
    BY <2>1
  <2> HIDE DEF done, done2
  <2>3. TargetsFit(job', cache, Targets(job'.eff))
    BY <2>1, <1>5 DEF TargetsFit
  <2>4. Present(cache, done2) = IF Exists(cache, s) THEN Present(cache, done) \union {s}
                                ELSE Present(cache, done)
    BY <2>2 DEF Present
  <2>5. ToolsFit(job', cache, done2)
    BY <2>1, <2>4, <1>5 DEF ToolsFit
  <2> QED BY <2>1, <2>3, <2>5, <1>5 DEF Fresh, done2
<1>8. TodoFits'
  BY <1>1, <1>5 DEF TodoFits
<1>9. UNCHANGED <<store, status, depStatus, edits, faults, cache, notify, workloads, queue>>
  BY DEF ReadToolSet, world
<1> QED BY <1>1, <1>2, <1>5, <1>6, <1>7, <1>8, <1>9, JobStep DEF TypeOK

LEMMA ToolSetsDoneStep == IndInv /\ ToolSetsDone => IndInv'
<1> SUFFICES ASSUME IndInv, ToolSetsDone PROVE IndInv'
  OBVIOUS
<1>1. TypeOK /\ JobFollows /\ job.pc = "sets" /\ job \in Job /\ job.todo = {}
  BY DEF IndInv, ToolSetsDone, JobIs, TypeOK
<1>2. job.spec \in AgentSpec /\ job.eff \in AgentSpec /\ job.spec.valid
  BY <1>1 DEF JobFollows
<1>3. job.tools \in SUBSET Tools
  BY <1>1 DEF Job
<1>4. job' = [job EXCEPT !.pc = "tools", !.todo = job.tools]
  BY DEF ToolSetsDone
<1>5. job' \in Job
  BY <1>1, <1>3, <1>4 DEF Job, Objects, Deps
<1>6. /\ job'.pc = "tools" /\ job'.agent = job.agent /\ job'.rv = job.rv
      /\ job'.spec = job.spec /\ job'.eff = job.eff /\ job'.todo = job.tools
      /\ job'.refs = job.refs /\ job'.missing = job.missing
      /\ job'.policies = job.policies /\ job'.tools = job.tools
      /\ job'.peers = job.peers /\ job'.badPeers = job.badPeers
  BY <1>1, <1>4 DEF Job
<1>7. ASSUME Fresh(job, cache)
      PROVE  Fresh(job', cache)
  <2>1. /\ TargetsFit(job, cache, Targets(job.eff))
        /\ ToolsFit(job, cache, job.eff.toolSets \ {})
        /\ job.peers = {} /\ job.badPeers = {}
    BY <1>1, <1>7 DEF Fresh
  <2>2. job.eff.toolSets \ {} = job.eff.toolSets
    OBVIOUS
  <2>3. AllRead(job', cache)
    BY <2>1, <2>2, <1>6 DEF AllRead, TargetsFit, ToolsFit
  <2>4. PeersFit(job', cache, job'.tools \ job'.todo)
    BY <2>1, <1>6 DEF PeersFit, Present
  <2> QED BY <2>1, <2>3, <2>4, <1>6 DEF Fresh
<1>8. TodoFits'
  BY <1>3, <1>6 DEF TodoFits
<1>9. UNCHANGED <<store, status, depStatus, edits, faults, cache, notify, workloads, queue>>
  BY DEF ToolSetsDone, world
<1> QED BY <1>1, <1>2, <1>5, <1>6, <1>7, <1>8, <1>9, JobStep DEF TypeOK

LEMMA ReadToolStep == IndInv /\ ReadTool => IndInv'
<1> SUFFICES ASSUME IndInv, ReadTool PROVE IndInv'
  OBVIOUS
<1>1. TypeOK /\ JobFollows /\ TodoFits /\ job.pc = "tools" /\ job \in Job
  BY DEF IndInv, ReadTool, JobIs, TypeOK
<1>2. job.spec \in AgentSpec /\ job.eff \in AgentSpec /\ job.spec.valid
  BY <1>1 DEF JobFollows
<1>3. PICK t \in job.todo :
        job' = [job EXCEPT !.todo = @ \ {t},
                  !.peers = IF Exists(cache, t)
                            THEN @ \union ({cache[t].spec.agentRef} \ {None}) ELSE @]
  BY DEF ReadTool
<1>4. t \in Tools /\ (Exists(cache, t) => cache[t].spec.agentRef \in Agents \union {None})
  BY <1>1, Worlds, WorldParts DEF TodoFits
<1>5. /\ job'.pc = "tools" /\ job'.agent = job.agent /\ job'.rv = job.rv
      /\ job'.spec = job.spec /\ job'.eff = job.eff /\ job'.todo = job.todo \ {t}
      /\ job'.refs = job.refs /\ job'.missing = job.missing
      /\ job'.policies = job.policies /\ job'.tools = job.tools
      /\ job'.peers = (IF Exists(cache, t)
                       THEN job.peers \union ({cache[t].spec.agentRef} \ {None})
                       ELSE job.peers)
      /\ job'.badPeers = job.badPeers
  BY <1>1, <1>3 DEF Job
<1>6. job' \in Job
  <2>1. job.peers \in SUBSET Agents /\ job.todo \in SUBSET Objects
    BY <1>1 DEF Job
  <2>2. job'.peers \in SUBSET Agents /\ job'.todo \in SUBSET Objects
    BY <2>1, <1>4, <1>5
  <2>3. job' = [job EXCEPT !.todo = job'.todo, !.peers = job'.peers]
    BY <1>3, <1>5
  <2> QED BY <1>1, <2>2, <2>3 DEF Job
<1>7. ASSUME Fresh(job, cache)
      PROVE  Fresh(job', cache)
  <2> DEFINE done == job.tools \ job.todo
             done2 == job.tools \ (job.todo \ {t})
  <2>1. /\ job.todo \subseteq job.tools
        /\ AllRead(job, cache)
        /\ PeersFit(job, cache, done)
        /\ job.badPeers = {}
    BY <1>1, <1>7 DEF Fresh
  <2>2. done2 = done \union {t}
    BY <2>1
  <2> HIDE DEF done, done2
  <2>3. AllRead(job', cache)
    BY <2>1, <1>5 DEF AllRead, TargetsFit, ToolsFit
  <2>4. Present(cache, done2) = IF Exists(cache, t) THEN Present(cache, done) \union {t}
                                ELSE Present(cache, done)
    BY <2>2 DEF Present
  <2>5. PeersFit(job', cache, done2)
    BY <2>1, <2>4, <1>5 DEF PeersFit
  <2> QED BY <2>1, <2>3, <2>5, <1>5 DEF Fresh, done2
<1>8. TodoFits'
  BY <1>1, <1>5 DEF TodoFits
<1>9. UNCHANGED <<store, status, depStatus, edits, faults, cache, notify, workloads, queue>>
  BY DEF ReadTool, world
<1> QED BY <1>1, <1>2, <1>5, <1>6, <1>7, <1>8, <1>9, JobStep DEF TypeOK

\* Whatever CreateOrUpdate creates is a workload of the Agent.
LEMMA CreatedParts ==
  ASSUME TypeOK, JobFollows, job.pc # "idle", NEW kinds \in SUBSET {"runtime", "peer"}
  PROVE  workloads \union Created(kinds) \subseteq Agents \X {"runtime", "peer"}
<1>1. job.agent \in Agents /\ workloads \subseteq Agents \X {"runtime", "peer"}
  BY DEF JobFollows, TypeOK
<1> QED BY <1>1 DEF Created

LEMMA MaterializeStep == IndInv /\ Materialize => IndInv'
<1> SUFFICES ASSUME IndInv, Materialize PROVE IndInv'
  OBVIOUS
<1>1. TypeOK /\ JobFollows /\ job.pc = "tools" /\ job \in Job /\ job.todo = {}
  BY DEF IndInv, Materialize, JobIs, TypeOK
<1>2. job.spec \in AgentSpec /\ job.eff \in AgentSpec /\ job.spec.valid /\ job.agent \in Agents
  BY <1>1 DEF JobFollows
<1>3. job.peers \in SUBSET Agents
  BY <1>1 DEF Job
<1>4. job' = [job EXCEPT !.pc = IF job.missing = {} THEN "peers" ELSE "status",
                         !.todo = job.peers]
  BY DEF Materialize
<1>5. job' \in Job
  BY <1>1, <1>3, <1>4 DEF Job, Objects
<1>6. /\ job'.pc = (IF job.missing = {} THEN "peers" ELSE "status")
      /\ job'.agent = job.agent /\ job'.rv = job.rv
      /\ job'.spec = job.spec /\ job'.eff = job.eff /\ job'.todo = job.peers
      /\ job'.refs = job.refs /\ job'.missing = job.missing
      /\ job'.policies = job.policies /\ job'.tools = job.tools
      /\ job'.peers = job.peers /\ job'.badPeers = job.badPeers
  BY <1>1, <1>4 DEF Job
<1>7. ASSUME Fresh(job, cache)
      PROVE  Fresh(job', cache)
  <2>1. /\ AllRead(job, cache)
        /\ PeersFit(job, cache, job.tools \ {})
        /\ job.badPeers = {}
    BY <1>1, <1>7 DEF Fresh
  <2>2. job.tools \ {} = job.tools /\ job.peers \ job.peers = {}
    OBVIOUS
  <2>3. AllRead(job', cache)
    BY <2>1, <1>6 DEF AllRead, TargetsFit, ToolsFit
  <2>4. PeersFit(job', cache, job'.tools)
    BY <2>1, <2>2, <1>6 DEF PeersFit
  <2>5. BadPeersFit(job'.badPeers, job'.peers \ job'.todo, job'.agent)
    BY <2>1, <1>6 DEF BadPeersFit
  <2> QED BY <2>1, <2>3, <2>4, <2>5, <1>6 DEF Fresh
<1>8. TodoFits'
  BY <1>3, <1>6 DEF TodoFits
<1>9. UNCHANGED <<store, status, depStatus, edits, faults, cache, notify>>
  BY DEF Materialize
<1>10. workloads' \subseteq Agents \X {"runtime", "peer"}
  <2>1. Wanted \in SUBSET {"runtime", "peer"}
    BY DEF Wanted
  <2> QED BY <1>1, <2>1, CreatedParts DEF Materialize
<1>11. queue \subseteq queue' /\ queue' \subseteq Objects
  BY <1>1, <1>2 DEF Materialize, TypeOK, Objects
<1> QED BY <1>1, <1>2, <1>5, <1>6, <1>7, <1>8, <1>9, <1>10, <1>11, JobStep

LEMMA ReadPeerStep == IndInv /\ ReadPeer => IndInv'
<1> SUFFICES ASSUME IndInv, ReadPeer PROVE IndInv'
  OBVIOUS
<1>1. TypeOK /\ JobFollows /\ TodoFits /\ job.pc = "peers" /\ job \in Job
  BY DEF IndInv, ReadPeer, JobIs, TypeOK
<1>2. job.spec \in AgentSpec /\ job.eff \in AgentSpec /\ job.spec.valid
  BY <1>1 DEF JobFollows
<1> DEFINE Bad(p) == p = job.agent \/ ~Exists(cache, p) \/ ~cache[p].spec.expose
<1>3. PICK p \in job.todo :
        job' = [job EXCEPT !.todo = @ \ {p},
                           !.badPeers = IF Bad(p) THEN @ \union {p} ELSE @]
  BY DEF ReadPeer
<1>4. p \in Agents
  BY <1>1 DEF TodoFits
<1>5. /\ job'.pc = "peers" /\ job'.agent = job.agent /\ job'.rv = job.rv
      /\ job'.spec = job.spec /\ job'.eff = job.eff /\ job'.todo = job.todo \ {p}
      /\ job'.refs = job.refs /\ job'.missing = job.missing
      /\ job'.policies = job.policies /\ job'.tools = job.tools
      /\ job'.peers = job.peers
      /\ job'.badPeers = (IF Bad(p) THEN job.badPeers \union {p} ELSE job.badPeers)
  BY <1>1, <1>3 DEF Job
<1>6. job' \in Job
  <2>1. job.badPeers \in SUBSET Agents /\ job.todo \in SUBSET Objects
    BY <1>1 DEF Job
  <2>2. job'.badPeers \in SUBSET Agents /\ job'.todo \in SUBSET Objects
    BY <2>1, <1>4, <1>5
  <2>3. job' = [job EXCEPT !.todo = job'.todo, !.badPeers = job'.badPeers]
    BY <1>3, <1>5
  <2> QED BY <1>1, <2>2, <2>3 DEF Job
<1>7. ASSUME Fresh(job, cache)
      PROVE  Fresh(job', cache)
  <2>1. /\ job.todo \subseteq job.peers
        /\ AllRead(job, cache)
        /\ PeersFit(job, cache, job.tools)
        /\ job.missing = {}
        /\ BadPeersFit(job.badPeers, job.peers \ job.todo, job.agent)
    BY <1>1, <1>7 DEF Fresh
  <2>2. AllRead(job', cache)
    BY <2>1, <1>5 DEF AllRead, TargetsFit, ToolsFit
  <2>3. PeersFit(job', cache, job'.tools)
    BY <2>1, <1>5 DEF PeersFit
  <2>4. BadPeersFit(job'.badPeers, job'.peers \ job'.todo, job'.agent)
    BY <2>1, <1>5 DEF BadPeersFit
  <2> QED BY <2>1, <2>2, <2>3, <2>4, <1>5 DEF Fresh
<1>8. TodoFits'
  BY <1>1, <1>5 DEF TodoFits
<1>9. UNCHANGED <<store, status, depStatus, edits, faults, cache, notify, workloads, queue>>
  BY DEF ReadPeer, world
<1> QED BY <1>1, <1>2, <1>5, <1>6, <1>7, <1>8, <1>9, JobStep DEF TypeOK

LEMMA PeersDoneStep == IndInv /\ PeersDone => IndInv'
<1> SUFFICES ASSUME IndInv, PeersDone PROVE IndInv'
  OBVIOUS
<1>1. TypeOK /\ JobFollows /\ job.pc = "peers" /\ job \in Job /\ job.todo = {}
  BY DEF IndInv, PeersDone, JobIs, TypeOK
<1>2. job.spec \in AgentSpec /\ job.eff \in AgentSpec /\ job.spec.valid
  BY <1>1 DEF JobFollows
<1>3. job' = [job EXCEPT !.pc = "status"]
  BY DEF PeersDone
<1>4. job' \in Job
  BY <1>1, <1>3 DEF Job
<1>5. /\ job'.pc = "status" /\ job'.agent = job.agent /\ job'.rv = job.rv
      /\ job'.spec = job.spec /\ job'.eff = job.eff
      /\ job'.refs = job.refs /\ job'.missing = job.missing
      /\ job'.policies = job.policies /\ job'.tools = job.tools
      /\ job'.peers = job.peers /\ job'.badPeers = job.badPeers
  BY <1>1, <1>3 DEF Job
<1>6. ASSUME Fresh(job, cache)
      PROVE  Fresh(job', cache)
  <2>1. /\ AllRead(job, cache)
        /\ PeersFit(job, cache, job.tools)
        /\ BadPeersFit(job.badPeers, job.peers \ {}, job.agent)
    BY <1>1, <1>6 DEF Fresh
  <2>2. AllRead(job', cache)
    BY <2>1, <1>5 DEF AllRead, TargetsFit, ToolsFit
  <2>3. PeersFit(job', cache, job'.tools)
    BY <2>1, <1>5 DEF PeersFit
  <2>4. BadPeersFit(job'.badPeers, job'.peers, job'.agent)
    BY <2>1, <1>5 DEF BadPeersFit
  <2> QED BY <2>2, <2>3, <2>4, <1>5 DEF Fresh
<1>7. TodoFits'
  BY <1>5 DEF TodoFits
<1>8. UNCHANGED <<store, status, depStatus, edits, faults, cache, notify, workloads, queue>>
  BY DEF PeersDone, world
<1> QED BY <1>1, <1>2, <1>4, <1>5, <1>6, <1>7, <1>8, JobStep DEF TypeOK

-----------------------------------------------------------------------------
(* The end of a Reconcile.                                                 *)

LEMMA DecisionIsStatus ==
  ASSUME job \in Job, job.spec \in AgentSpec, job.eff \in AgentSpec, NEW old \in Status
  PROVE  Decision(old) \in Status
<1> DEFINE violations == Violations(job.policies, job.eff.model, job.tools)
                           \union job.badPeers
<1>1. /\ job.gen \in Nat /\ job.missing \in SUBSET (Deps \union {None})
      /\ job.refs \in SUBSET (Deps \X Nat) /\ job.tools \in SUBSET Tools
      /\ job.badPeers \in SUBSET Agents
  BY DEF Job
<1>2. job.spec.expose \in BOOLEAN /\ old.endpoint \in BOOLEAN
  BY DEF AgentSpec, Status
<1>3. job.eff.model \in Models \union {None}
  BY TargetsParts
<1>4. violations \in SUBSET (Objects \union {None})
  BY <1>1, <1>3 DEF Violations, Objects, Deps
<1>5. job.missing \in SUBSET (Objects \union {None})
  BY <1>1 DEF Objects
<1> HIDE DEF violations
<1>6. Degraded("InvalidSpec", {}, old.endpoint) \in Status
  BY <1>1, <1>2 DEF Degraded, Status
<1>7. Degraded("ReferenceNotFound", job.missing, job.spec.expose) \in Status
  BY <1>1, <1>2, <1>5 DEF Degraded, Status
<1>8. Degraded("PolicyViolation", violations, job.spec.expose) \in Status
  BY <1>1, <1>2, <1>4 DEF Degraded, Status
<1>9. [observed |-> job.gen, phase |-> "Ready", reason |-> "Reconciled",
       detail |-> {}, hash |-> job.refs, endpoint |-> job.spec.expose] \in Status
  BY <1>1, <1>2 DEF Status
<1> QED BY <1>6, <1>7, <1>8, <1>9 DEF Decision, violations

\* A Reconcile that has read nothing stale decides what fits its cache.
LEMMA DecisionFits ==
  ASSUME WorldOK(cache), NEW a \in Agents, Exists(cache, a), job.agent = a,
         job \in Job, job.pc = "status", job.spec = cache[a].spec, job.eff \in AgentSpec,
         Fresh(job, cache), NEW old
  PROVE  StatusFits(Decision(old), cache, a)
<1> DEFINE violations == Violations(job.policies, job.eff.model, job.tools)
                           \union job.badPeers
           new == Decision(old)
<1>1. job.spec.valid => /\ AllRead(job, cache)
                        /\ PeersFit(job, cache, job.tools)
                        /\ job.missing = {} => BadPeersFit(job.badPeers, job.peers, a)
  BY DEF Fresh
<1>2. CASE ~job.spec.valid
  <2>1. new = Degraded("InvalidSpec", {}, old.endpoint)
    BY <1>2 DEF Decision
  <2>2. new.phase = "Degraded" /\ new.reason = "InvalidSpec"
    BY <2>1 DEF Degraded
  <2> QED BY <1>2, <2>2 DEF StatusFits
<1>3. CASE job.spec.valid /\ job.missing # {}
  <2>1. new = Degraded("ReferenceNotFound", job.missing, job.spec.expose)
    BY <1>3 DEF Decision
  <2>2. /\ new.phase = "Degraded" /\ new.reason = "ReferenceNotFound"
        /\ new.detail = job.missing /\ new.endpoint = job.spec.expose
    BY <2>1 DEF Degraded
  <2>3. job.missing = MissingOf(cache, a)
    BY <1>1, <1>3, AllReadMeans
  <2> QED BY <1>3, <2>2, <2>3 DEF StatusFits
<1>4. CASE job.spec.valid /\ job.missing = {}
  <2>1. job.eff = EffOf(cache, a) /\ job.tools = ToolsOf(cache, a)
          /\ MissingOf(cache, a) = {}
    BY <1>1, <1>4, AllReadMeans
  <2>2. \A n \in Targets(job.eff) : Exists(cache, n)
    BY <2>1 DEF MissingOf
  <2>3. Present(cache, Targets(job.eff)) = Targets(job.eff)
    BY <2>2 DEF Present
  <2>4. Present(cache, Targets(job.eff) \intersect Policies) = job.eff.policies
    BY <2>2, TargetsParts DEF Present
  <2>5. job.refs = HashOf(cache, a)
    BY <1>1, <1>4, <2>1, <2>3, Zenon DEF AllRead, TargetsFit, HashOf
  <2>6. job.policies = {cache[p].spec : p \in job.eff.policies}
    BY <1>1, <1>4, <2>4, Zenon DEF AllRead, TargetsFit
  <2>7. violations = ViolationsOf(cache, a) \union job.badPeers
    BY <2>1, <2>6, Zenon DEF ViolationsOf
  <2>8. BadPeersFit(job.badPeers, PeersOf(cache, a), a)
    BY <1>1, <1>4, <2>1, Zenon DEF PeersFit, PeersOf
  <2>9. VerdictFits(new, violations, HashOf(cache, a)) /\ new.endpoint = job.spec.expose
    <3> HIDE DEF violations
    <3>1. new = IF violations # {}
                THEN Degraded("PolicyViolation", violations, job.spec.expose)
                ELSE [observed |-> job.gen, phase |-> "Ready", reason |-> "Reconciled",
                      detail |-> {}, hash |-> job.refs, endpoint |-> job.spec.expose]
      BY <1>4 DEF Decision, violations
    <3> QED BY <3>1, <2>5 DEF VerdictFits, Degraded
  <2>10. job.badPeers \in SUBSET Agents
    BY DEF Job
  <2> HIDE DEF violations, new
  <2>11. StatusFits(new, cache, a)
    BY <1>4, <2>1, <2>7, <2>8, <2>9, <2>10 DEF StatusFits
  <2> QED BY <2>11 DEF new
<1> QED BY <1>2, <1>3, <1>4

\* The worker is free again: its request is queued anew, or what it decided
\* stands.
LEMMA JobEnds ==
  ASSUME IndInv, job.pc # "idle", job' = Idle,
         UNCHANGED <<store, status, depStatus, edits, cache, notify>>, faults' \in Nat,
         workloads' \subseteq Agents \X {"runtime", "peer"},
         queue \subseteq queue', queue' \subseteq Objects,
         \/ job.agent \in queue'
         \/ /\ job.rv = store[job.agent].rv
            /\ Fresh(job, cache) => StatusFits(status[job.agent], cache, job.agent)
  PROVE  IndInv'
<1>1. TypeOK /\ CacheFollows /\ JobFollows
  BY DEF IndInv
<1>2. job' \in Job /\ job'.pc = "idle"
  BY IdleIsJob DEF Idle
<1>3. TypeOK'
  BY <1>1, <1>2 DEF TypeOK, LiveAgents, Exists
<1>4. CacheFollows' /\ JobFollows' /\ TodoFits'
  BY <1>1, <1>2 DEF CacheFollows, JobFollows, TodoFits
<1>5. ASSUME NEW a \in Agents
      PROVE  AgentAttended(a)'
  <2> SUFFICES ASSUME Exists(store, a) PROVE AgentAttended(a)'
    BY DEF AgentAttended, Exists
  <2>1. AgentAttended(a)
    BY DEF IndInv
  <2>2. CASE Announced(a, ReadSet(cache, a))
    <3>1. Announced(a, ReadSet(cache, a))'
      BY <2>2 DEF Announced
    <3> QED BY <3>1 DEF AgentAttended
  <2>3. CASE job.agent = a /\ job.agent \in queue'
    <3>1. Announced(a, ReadSet(cache, a))'
      BY <2>3 DEF Announced
    <3> QED BY <3>1 DEF AgentAttended
  <2>4. CASE job.agent = a /\ job.agent \notin queue' /\ Fresh(job, cache)
    BY <2>4 DEF AgentAttended
  <2>5. CASE StatusFits(status[a], cache, a)
    BY <2>5 DEF AgentAttended
  <2> QED BY <2>1, <2>2, <2>3, <2>4, <2>5 DEF AgentAttended
<1>6. ASSUME NEW n \in Deps
      PROVE  DepAttended(n)'
  <2>1. DepAttended(n)
    BY DEF IndInv
  <2> QED BY <2>1 DEF DepAttended, Announced, Exists
<1> QED BY <1>3, <1>4, <1>5, <1>6 DEF IndInv

LEMMA UpdateStatusStep == IndInv /\ UpdateStatus => IndInv'
<1> SUFFICES ASSUME IndInv, UpdateStatus PROVE IndInv'
  OBVIOUS
<1> DEFINE self == job.agent
           new  == Decision(status[self])
<1>1. TypeOK /\ CacheFollows /\ JobFollows /\ job.pc = "status" /\ job \in Job /\ job' = Idle
  BY DEF IndInv, UpdateStatus, JobIs, TypeOK
<1>2. /\ self \in Agents /\ self \in Objects
      /\ job.spec \in AgentSpec /\ job.eff \in AgentSpec
  BY <1>1 DEF JobFollows, Objects
<1>3. UNCHANGED <<depStatus, workloads, edits, faults, cache, notify>>
  BY DEF UpdateStatus
<1>4. CASE store[self].rv # job.rv
  <2>1. UNCHANGED <<store, status>> /\ queue' = queue \union {self}
    BY <1>4 DEF UpdateStatus
  <2> QED BY <2>1, <1>1, <1>2, <1>3, JobEnds DEF TypeOK
<1>5. CASE store[self].rv = job.rv
  <2>1. cache[self] = store[self] /\ job.spec = cache[self].spec
    <3>1. job.rv = cache[self].rv
      BY <1>1, <1>2, <1>5, Worlds DEF JobFollows
    <3> QED BY <3>1, <1>1, <1>2, <1>5 DEF JobFollows, CacheFollows
  <2>2. Exists(cache, self) /\ Exists(store, self) /\ WorldOK(cache)
    BY <2>1, <1>1, <1>2, NoneIsNoSpec, Worlds DEF Exists
  <2>3. queue' = queue
    BY <1>5 DEF UpdateStatus
  <2>4. CASE new = status[self]
    <3>1. UNCHANGED <<store, status>>
      BY <1>5, <2>4 DEF UpdateStatus
    <3>2. Fresh(job, cache) => StatusFits(new, cache, self)
      BY <1>1, <1>2, <2>1, <2>2, DecisionFits
    <3> QED BY <3>1, <3>2, <2>3, <2>4, <1>1, <1>3, <1>5, JobEnds DEF TypeOK
  <2>5. CASE new # status[self]
    <3>1. /\ store' = [store EXCEPT ![self] = NewVersion(@)]
          /\ status' = [status EXCEPT ![self] = new]
      BY <1>5, <2>5 DEF UpdateStatus
    <3>2. /\ store'[self] = NewVersion(store[self]) /\ DOMAIN store' = Objects
          /\ \A n \in Objects : n # self => store'[n] = store[n]
      BY <3>1, <1>1, <1>2 DEF TypeOK
    <3>3. store[self] \in Version(self) /\ cache[self].rv <= store[self].rv
            /\ cache[self].rv \in Nat
      BY <1>1, <1>2 DEF TypeOK, Version
    <3>4. /\ store'[self] \in Version(self) /\ store'[self].spec = store[self].spec
          /\ store'[self].rv = store[self].rv + 1
      BY <3>2, <3>3 DEF NewVersion, Version
    <3>5. cache[self].rv < store'[self].rv /\ cache[self] # store'[self]
      BY <3>3, <3>4 DEF Version
    <3>6. new \in Status
      BY <1>1, <1>2, DecisionIsStatus DEF TypeOK
    <3>7. status' \in [Agents -> Status] /\ \A a \in Agents : a # self => status'[a] = status[a]
      BY <3>1, <3>6, <1>1, <1>2 DEF TypeOK
    <3> HIDE DEF new
    <3>8. \A n \in Objects : Exists(store', n) = Exists(store, n)
      BY <3>2, <3>4 DEF Exists
    <3>9. job' \in Job /\ job'.pc = "idle"
      BY <1>1, IdleIsJob DEF Idle
    <3>10. TypeOK'
      <4>1. \A n \in Objects : /\ store'[n] \in Version(n) /\ cache'[n] \in Version(n)
                               /\ cache'[n].rv <= store'[n].rv
        BY <3>2, <3>3, <3>4, <1>1, <1>3 DEF TypeOK, Version
      <4>2. \A a \in Agents : ~Exists(store', a) => status'[a] = NoStatus
        BY <3>7, <3>8, <2>2, <1>1 DEF TypeOK, LiveAgents, Objects
      <4> QED BY <4>1, <4>2, <3>2, <3>7, <3>9, <2>3, <1>1, <1>3 DEF TypeOK, LiveAgents
    <3>11. CacheFollows'
      BY <3>2, <3>5, <3>3, <3>4, <1>1, <1>3 DEF CacheFollows, Version
    <3>12. JobFollows' /\ TodoFits'
      BY <3>9 DEF JobFollows, TodoFits
    <3>13. ASSUME NEW a \in Agents
           PROVE  AgentAttended(a)'
      <4>1. CASE a = self
        BY <4>1, <3>5, <1>3 DEF AgentAttended, Announced
      <4>2. CASE a # self
        <5>1. AgentAttended(a) /\ a \in Objects
          BY DEF IndInv, Objects
        <5>2. store'[a] = store[a] /\ status'[a] = status[a]
          BY <4>2, <5>1, <3>2, <3>7
        <5> QED BY <4>2, <5>1, <5>2, <2>3, <1>3 DEF AgentAttended, Announced, Exists
      <4> QED BY <4>1, <4>2
    <3>14. ASSUME NEW n \in Deps
           PROVE  DepAttended(n)'
      <4>1. DepAttended(n) /\ n \in Objects /\ n # self
        BY <1>2, KindsAssumption DEF IndInv, Objects
      <4>2. store'[n] = store[n]
        BY <4>1, <3>2
      <4> QED BY <4>1, <4>2, <2>3, <1>3 DEF DepAttended, Announced, Exists
    <3> QED BY <3>10, <3>11, <3>12, <3>13, <3>14 DEF IndInv
  <2> QED BY <2>4, <2>5
<1> QED BY <1>4, <1>5

LEMMA ReconcileErrorStep == IndInv /\ ReconcileError => IndInv'
<1> SUFFICES ASSUME IndInv, ReconcileError PROVE IndInv'
  OBVIOUS
<1>1. TypeOK /\ JobFollows /\ job.pc # "idle"
  BY DEF IndInv, ReconcileError, JobIs
<1>2. job.agent \in Objects
  BY <1>1 DEF JobFollows, Objects
<1>3. /\ faults' \in Nat /\ queue' = queue \union {job.agent} /\ job' = Idle
      /\ UNCHANGED <<store, status, depStatus, edits, cache, notify>>
  BY <1>1 DEF ReconcileError, TypeOK
<1>4. workloads' \subseteq Agents \X {"runtime", "peer"}
  <2>1. CASE UNCHANGED workloads
    BY <2>1, <1>1 DEF TypeOK
  <2>2. ASSUME NEW done \in {{}, Wanted \ {"peer"}}, workloads' = workloads \union Created(done)
        PROVE  workloads' \subseteq Agents \X {"runtime", "peer"}
    <3>1. done \in SUBSET {"runtime", "peer"}
      BY DEF Wanted
    <3> QED BY <3>1, <2>2, <1>1, CreatedParts
  <2> QED BY <2>1, <2>2 DEF ReconcileError
<1> QED BY <1>1, <1>2, <1>3, <1>4, JobEnds DEF TypeOK

\* A restart lists and queues everything.
LEMMA OperatorRestartStep == IndInv /\ OperatorRestart => IndInv'
<1> SUFFICES ASSUME IndInv, OperatorRestart PROVE IndInv'
  OBVIOUS
<1>1. TypeOK
  BY DEF IndInv
<1>2. /\ cache' = store /\ notify' = {} /\ job' = Idle /\ faults' \in Nat
      /\ queue' = {n \in Objects : Exists(store, n)}
      /\ UNCHANGED <<store, status, depStatus, workloads, edits>>
  BY <1>1 DEF OperatorRestart, TypeOK
<1>3. job' \in Job /\ job'.pc = "idle"
  BY <1>2, IdleIsJob DEF Idle
<1>4. TypeOK'
  <2>1. \A n \in Objects : /\ store'[n] \in Version(n) /\ cache'[n] \in Version(n)
                           /\ cache'[n].rv <= store'[n].rv
    BY <1>1, <1>2 DEF TypeOK, Version
  <2> QED BY <2>1, <1>1, <1>2, <1>3 DEF TypeOK, LiveAgents, Exists
<1>5. CacheFollows' /\ JobFollows' /\ TodoFits'
  BY <1>2, <1>3 DEF CacheFollows, JobFollows, TodoFits
<1>6. \A a \in Agents : AgentAttended(a)'
  BY <1>2 DEF AgentAttended, Announced, Exists, Objects
<1>7. \A n \in Deps : DepAttended(n)'
  BY <1>2 DEF DepAttended, Announced, Exists, Objects
<1> QED BY <1>4, <1>5, <1>6, <1>7 DEF IndInv

-----------------------------------------------------------------------------
(* The start of a Reconcile, caches and events.                            *)

LEMMA StartReconcileStep ==
  ASSUME IndInv, NEW a \in Agents, StartReconcile(a)
  PROVE  IndInv'
<1>1. TypeOK /\ CacheFollows /\ job.pc = "idle" /\ WorldOK(cache)
  BY Worlds DEF IndInv, StartReconcile, JobIs
<1>2. /\ UNCHANGED <<store, status, depStatus, workloads, edits, faults, cache, notify>>
      /\ queue' = queue \ {a}
  BY DEF StartReconcile, world
<1>3. CASE ~Exists(cache, a)
  <2>1. job' = Idle /\ job' \in Job /\ job'.pc = "idle"
    BY <1>3, IdleIsJob DEF StartReconcile, Idle
  <2>2. JobFollows' /\ TodoFits'
    BY <2>1 DEF JobFollows, TodoFits
  <2>3. TypeOK' /\ CacheFollows'
    BY <2>1, <1>1, <1>2 DEF TypeOK, CacheFollows, LiveAgents, Exists
  <2>4. ASSUME NEW b \in Agents
        PROVE  AgentAttended(b)'
    <3>1. AgentAttended(b)
      BY DEF IndInv
    <3>2. CASE b = a
      BY <1>2, <1>3, <3>2 DEF AgentAttended, Announced, Exists
    <3>3. CASE b # a
      BY <1>1, <1>2, <3>1, <3>3 DEF AgentAttended, Announced, Exists
    <3> QED BY <3>2, <3>3
  <2>5. ASSUME NEW n \in Deps
        PROVE  DepAttended(n)'
    <3>1. DepAttended(n) /\ n # a
      BY KindsAssumption DEF IndInv
    <3> QED BY <1>2, <3>1 DEF DepAttended, Announced, Exists
  <2> QED BY <2>2, <2>3, <2>4, <2>5 DEF IndInv
<1>4. CASE Exists(cache, a)
  <2>1. cache[a].spec \in AgentSpec /\ cache[a].rv \in Nat /\ cache[a].uid \in Nat
          /\ cache[a].gen \in Nat
    BY <1>1, <1>4, WorldParts DEF Objects
  <2>2. job' = [Idle EXCEPT !.pc = IF cache[a].spec.valid THEN "class" ELSE "status",
                            !.agent = a, !.rv = cache[a].rv, !.uid = cache[a].uid,
                            !.gen = cache[a].gen, !.spec = cache[a].spec,
                            !.eff = cache[a].spec]
    BY <1>4 DEF StartReconcile
  <2>3. job' \in Job
    BY <2>1, <2>2, IdleIsJob DEF Job
  <2>4. /\ job'.pc = (IF cache[a].spec.valid THEN "class" ELSE "status")
        /\ job'.agent = a /\ job'.rv = cache[a].rv
        /\ job'.spec = cache[a].spec /\ job'.eff = cache[a].spec
        /\ job'.refs = {} /\ job'.policies = {} /\ job'.peers = {} /\ job'.badPeers = {}
    BY <2>2 DEF Idle
  <2>5. Fresh(job', cache)
    BY <2>4 DEF Fresh
  <2>6. JobFollows' /\ TodoFits'
    BY <2>1, <2>4, <1>2 DEF JobFollows, TodoFits
  <2>7. TypeOK' /\ CacheFollows'
    BY <2>3, <1>1, <1>2 DEF TypeOK, CacheFollows, LiveAgents, Exists
  <2>8. ASSUME NEW b \in Agents
        PROVE  AgentAttended(b)'
    <3>1. AgentAttended(b)
      BY DEF IndInv
    <3>2. CASE b = a
      BY <1>2, <2>4, <2>5, <3>2 DEF AgentAttended
    <3>3. CASE b # a
      BY <1>1, <1>2, <3>1, <3>3 DEF AgentAttended, Announced, Exists
    <3> QED BY <3>2, <3>3
  <2>9. ASSUME NEW n \in Deps
        PROVE  DepAttended(n)'
    <3>1. DepAttended(n) /\ n # a
      BY KindsAssumption DEF IndInv
    <3> QED BY <1>2, <3>1 DEF DepAttended, Announced, Exists
  <2> QED BY <2>6, <2>7, <2>8, <2>9 DEF IndInv
<1> QED BY <1>3, <1>4

LEMMA CacheSyncStep ==
  ASSUME IndInv, NEW n \in Objects, CacheSync(n)
  PROVE  IndInv'
<1>1. TypeOK /\ CacheFollows /\ JobFollows /\ TodoFits /\ WorldOK(cache) /\ WorldOK(store)
  BY Worlds DEF IndInv
<1>2. /\ UNCHANGED <<store, status, depStatus, workloads, edits, faults, queue, job>>
      /\ notify' = notify \union {n}
      /\ cache' = [cache EXCEPT ![n] = store[n]]
      /\ cache[n] # store[n]
  BY DEF CacheSync, world
<1>3. /\ cache'[n] = store[n] /\ DOMAIN cache' = Objects
      /\ \A k \in Objects : k # n => cache'[k] = cache[k]
  BY <1>1, <1>2 DEF TypeOK
<1>4. cache[n].rv < store[n].rv
  BY <1>1, <1>2, Worlds DEF CacheFollows
<1>5. WorldOK(cache')
  BY <1>1, <1>3 DEF WorldOK
<1>6. TypeOK'
  <2>1. \A k \in Objects : /\ store'[k] \in Version(k) /\ cache'[k] \in Version(k)
                           /\ cache'[k].rv <= store'[k].rv
    BY <1>1, <1>2, <1>3 DEF TypeOK, Version
  <2> QED BY <2>1, <1>1, <1>2, <1>3 DEF TypeOK, LiveAgents, Exists
<1>7. CacheFollows' /\ TodoFits'
  BY <1>1, <1>2, <1>3 DEF CacheFollows, TodoFits
<1>8. JobFollows'
  <2> SUFFICES ASSUME job.pc # "idle" PROVE JobFollows'
    BY <1>2 DEF JobFollows
  <2>1. job.agent \in Objects /\ job.rv \in Nat /\ job.rv <= cache[job.agent].rv
          /\ cache[job.agent].rv \in Nat /\ store[job.agent].rv \in Nat
    BY <1>1, Worlds DEF JobFollows, Objects, TypeOK, Job
  <2>2. CASE job.agent = n
    <3>1. job.rv < cache'[job.agent].rv
      BY <2>1, <2>2, <1>3, <1>4
    <3> QED BY <3>1, <2>1, <1>1, <1>2, <1>3, <2>2 DEF JobFollows
  <2>3. CASE job.agent # n
    <3>1. cache'[job.agent] = cache[job.agent]
      BY <2>1, <2>3, <1>3
    <3> QED BY <3>1, <1>1, <1>2 DEF JobFollows
  <2> QED BY <2>2, <2>3
<1>9. ASSUME NEW a \in Agents
      PROVE  AgentAttended(a)'
  <2> SUFFICES ASSUME Exists(store, a) PROVE AgentAttended(a)'
    BY <1>2 DEF AgentAttended, Exists
  <2>1. AgentAttended(a) /\ a \in Objects
    BY DEF IndInv, Objects
  <2>2. CASE n \in ReadSet(cache', a)
    BY <2>2, <1>2 DEF AgentAttended, Announced
  <2>3. CASE n \notin ReadSet(cache', a)
    <3>1. n # a
      BY <2>3 DEF ReadSet
    <3>2. cache'[a] = cache[a]
      BY <2>1, <3>1, <1>3
    <3>3. CASE cache[a] # store[a]
      BY <3>2, <3>3, <1>2 DEF AgentAttended, Announced
    <3>4. CASE cache[a] = store[a]
      <4>1. Exists(cache, a) /\ Exists(cache', a)
        BY <3>2, <3>4 DEF Exists
      <4>2. n \notin ReadSet(cache, a)
        BY <4>1, <2>3, <1>1, <1>3, <1>5, StillRead
      <4>3. \A k \in ReadSet(cache, a) : cache'[k] = cache[k]
        BY <4>1, <4>2, <1>1, <1>3, EffParts
      <4>4. ReadSet(cache', a) = ReadSet(cache, a)
        BY <4>1, <4>3, <1>1, <1>5, Frame
      <4>5. CASE Announced(a, ReadSet(cache, a))
        BY <4>4, <4>5, <3>4, <1>2 DEF AgentAttended, Announced
      <4>6. CASE job.pc # "idle" /\ job.agent = a /\ job.rv # store[a].rv
        BY <4>6, <1>2 DEF AgentAttended
      <4>7. CASE job.pc # "idle" /\ job.agent = a /\ Fresh(job, cache)
        <5>1. Fresh(job, cache')
          BY <4>1, <4>3, <4>7, <1>1, <1>5, FreshFrame
        <5> QED BY <5>1, <4>7, <1>2 DEF AgentAttended
      <4>8. CASE StatusFits(status[a], cache, a)
        <5>1. StatusFits(status[a], cache', a)
          BY <4>1, <4>3, <4>8, <1>1, <1>5, StatusFrame
        <5> QED BY <5>1, <1>2 DEF AgentAttended
      <4> QED BY <2>1, <4>5, <4>6, <4>7, <4>8 DEF AgentAttended
    <3> QED BY <3>3, <3>4
  <2> QED BY <2>2, <2>3
<1>10. ASSUME NEW d \in Deps
       PROVE  DepAttended(d)'
  <2> SUFFICES ASSUME Exists(store, d) PROVE DepAttended(d)'
    BY <1>2 DEF DepAttended, Exists
  <2>1. DepAttended(d) /\ d \in Objects
    BY DEF IndInv, Objects
  <2>2. CASE n \in {d} \union RefsOf(d, cache'[d].spec)
    BY <2>2, <1>2 DEF DepAttended, Announced
  <2>3. CASE n \notin {d} \union RefsOf(d, cache'[d].spec)
    <3>1. cache'[d] = cache[d]
      BY <2>1, <2>3, <1>3
    <3>2. CASE Announced(d, {d} \union RefsOf(d, cache[d].spec))
      BY <3>1, <3>2, <1>2 DEF DepAttended, Announced
    <3>3. CASE depStatus[d] = DepStatus(cache, d) /\ cache[d] = store[d]
      <4>1. Exists(cache, d) /\ n \notin RefsOf(d, cache[d].spec)
        BY <3>1, <3>3, <2>3 DEF Exists
      <4>2. RefsOf(d, cache[d].spec) \in SUBSET Objects
        BY <4>1, <1>1, RefsParts
      <4>3. \A m \in RefsOf(d, cache[d].spec) : cache'[m] = cache[m]
        BY <4>1, <4>2, <1>3
      <4>4. MissingIn(cache', d) = MissingIn(cache, d)
        BY <4>3, <3>1 DEF MissingIn, Exists
      <4>5. DepStatus(cache', d) = DepStatus(cache, d)
        BY <4>4, <3>1 DEF DepStatus
      <4> QED BY <4>5, <3>3, <1>2 DEF DepAttended
    <3> QED BY <2>1, <3>2, <3>3 DEF DepAttended, Announced
  <2> QED BY <2>2, <2>3
<1> QED BY <1>6, <1>7, <1>8, <1>9, <1>10 DEF IndInv

\* A mapped event reaches every Agent and every object that reads its object.
LEMMA MapEventStep ==
  ASSUME IndInv, NEW n \in Objects, MapEvent(n)
  PROVE  IndInv'
<1>1. TypeOK /\ CacheFollows /\ JobFollows /\ TodoFits /\ WorldOK(cache)
  BY Worlds DEF IndInv
<1>2. /\ UNCHANGED <<store, status, depStatus, workloads, edits, faults, cache, job>>
      /\ notify' = notify \ {n}
      /\ queue' = queue \union {n} \union AgentsReferencing(n) \union DepsReferencing(n)
  BY DEF MapEvent, world
<1>3. AgentsReferencing(n) \subseteq Agents /\ DepsReferencing(n) \subseteq Deps
  BY DEF AgentsReferencing, AgentsNaming, DepsReferencing
<1>4. TypeOK'
  <2>1. queue' \subseteq Objects /\ notify' \subseteq Objects
    BY <1>1, <1>2, <1>3 DEF TypeOK, Objects
  <2> QED BY <2>1, <1>1, <1>2 DEF TypeOK, LiveAgents, Exists
<1>5. CacheFollows' /\ TodoFits' /\ JobFollows'
  BY <1>1, <1>2 DEF CacheFollows, TodoFits, JobFollows
<1>6. ASSUME NEW a \in Agents
      PROVE  AgentAttended(a)'
  <2>1. AgentAttended(a)
    BY DEF IndInv
  <2>2. CASE cache[a] = store[a] /\ Exists(store, a) /\ n \in ReadSet(cache, a)
    <3>1. n = a \/ a \in AgentsReferencing(n)
      BY <2>2, <1>1, ReadIsRouted DEF Exists
    <3>2. a \in queue'
      BY <3>1, <1>2
    <3> QED BY <3>2 DEF AgentAttended, Announced
  <2>3. CASE ~(cache[a] = store[a] /\ Exists(store, a) /\ n \in ReadSet(cache, a))
    BY <2>1, <2>3, <1>2 DEF AgentAttended, Announced, Exists
  <2> QED BY <2>2, <2>3
<1>7. ASSUME NEW d \in Deps
      PROVE  DepAttended(d)'
  <2>1. DepAttended(d)
    BY DEF IndInv
  <2>2. CASE /\ cache[d] = store[d] /\ Exists(store, d)
             /\ n \in {d} \union RefsOf(d, cache[d].spec)
    <3>1. n = d \/ d \in DepsReferencing(n)
      BY <2>2 DEF DepsReferencing, Exists
    <3>2. d \in queue'
      BY <3>1, <1>2
    <3> QED BY <3>2 DEF DepAttended, Announced
  <2>3. CASE ~(/\ cache[d] = store[d] /\ Exists(store, d)
               /\ n \in {d} \union RefsOf(d, cache[d].spec))
    BY <2>1, <2>3, <1>2 DEF DepAttended, Announced, Exists
  <2> QED BY <2>2, <2>3
<1> QED BY <1>4, <1>5, <1>6, <1>7 DEF IndInv

-----------------------------------------------------------------------------
(* The writes of users and of the other controllers.                       *)

LEMMA EditStep ==
  ASSUME IndInv, NEW e \in Edits, Edit(e)
  PROVE  IndInv'
<1> DEFINE n == e.obj
           new == IF e.spec = None THEN Absent(store[n].rv + 1)
                  ELSE [rv |-> store[n].rv + 1, gen |-> store[n].rv + 1, spec |-> e.spec,
                        uid |-> IF Exists(store, n) THEN store[n].uid ELSE store[n].rv + 1]
<1>1. TypeOK /\ CacheFollows /\ JobFollows /\ TodoFits
  BY DEF IndInv
<1>2. n \in Objects /\ e.spec \in SpecOf(n) \union {None}
  BY EditsAssumption
<1>3. /\ UNCHANGED <<faults, cache, notify, queue, job>> /\ edits' = edits + 1
      /\ store' = [store EXCEPT ![n] = new]
  BY Zenon DEF Edit
<1>4. store[n].rv \in Nat /\ store[n].uid \in Nat /\ cache[n].rv \in Nat
        /\ cache[n].rv <= store[n].rv
  BY <1>1, <1>2 DEF TypeOK, Version
<1>5. new \in Version(n) /\ new.rv = store[n].rv + 1 /\ new.spec = e.spec
  BY <1>2, <1>4 DEF Version, Absent
<1> HIDE DEF new
<1>6. /\ store'[n] = new /\ DOMAIN store' = Objects
      /\ \A k \in Objects : k # n => store'[k] = store[k]
  BY <1>1, <1>2, <1>3 DEF TypeOK
<1>7. cache[n].rv < store'[n].rv /\ cache[n] # store'[n]
  BY <1>4, <1>5, <1>6
<1>8. status' = IF e.spec = None /\ n \in Agents
                THEN [status EXCEPT ![n] = NoStatus] ELSE status
  BY DEF Edit
<1>9. depStatus' = IF e.spec = None /\ n \in Deps
                   THEN [depStatus EXCEPT ![n] = NoDepStatus] ELSE depStatus
  BY DEF Edit
<1>10. /\ status' \in [Agents -> Status]
       /\ \A a \in Agents : status'[a] = IF a = n /\ e.spec = None THEN NoStatus ELSE status[a]
  <2>1. status \in [Agents -> Status] /\ NoStatus \in Status
    BY <1>1 DEF TypeOK, NoStatus, Status
  <2> QED BY <2>1, <1>8
<1>11. /\ depStatus' \in [Deps -> [observed : Nat, missing : SUBSET Objects]]
       /\ \A d \in Deps : d # n => depStatus'[d] = depStatus[d]
  <2>1. /\ depStatus \in [Deps -> [observed : Nat, missing : SUBSET Objects]]
        /\ NoDepStatus \in [observed : Nat, missing : SUBSET Objects]
    BY <1>1 DEF TypeOK, NoDepStatus
  <2> QED BY <2>1, <1>9
<1>12. TypeOK'
  <2>1. \A k \in Objects : /\ store'[k] \in Version(k) /\ cache'[k] \in Version(k)
                           /\ cache'[k].rv <= store'[k].rv
    BY <1>1, <1>2, <1>3, <1>4, <1>5, <1>6, <1>7 DEF TypeOK, Version
  <2>2. \A a \in Agents : ~Exists(store', a) => status'[a] = NoStatus
    BY <1>1, <1>5, <1>6, <1>10 DEF TypeOK, LiveAgents, Exists, Objects
  <2>3. workloads' \subseteq Agents \X {"runtime", "peer"}
    BY <1>1 DEF Edit, TypeOK
  <2>4. edits' \in Nat
    BY <1>1, <1>3 DEF TypeOK
  <2> QED BY <2>1, <2>2, <2>3, <2>4, <1>1, <1>3, <1>6, <1>10, <1>11 DEF TypeOK, LiveAgents
<1>13. CacheFollows'
  BY <1>1, <1>3, <1>4, <1>6, <1>7 DEF CacheFollows
<1>14. JobFollows' /\ TodoFits'
  BY <1>1, <1>3 DEF JobFollows, TodoFits
<1>15. ASSUME NEW a \in Agents
       PROVE  AgentAttended(a)'
  <2>1. AgentAttended(a) /\ a \in Objects
    BY DEF IndInv, Objects
  <2>2. CASE a = n
    BY <2>2, <1>3, <1>7 DEF AgentAttended, Announced
  <2>3. CASE a # n
    <3>1. store'[a] = store[a] /\ status'[a] = status[a]
      BY <2>1, <2>3, <1>6, <1>10
    <3> QED BY <3>1, <2>1, <1>3 DEF AgentAttended, Announced, Exists
  <2> QED BY <2>2, <2>3
<1>16. ASSUME NEW d \in Deps
       PROVE  DepAttended(d)'
  <2>1. DepAttended(d) /\ d \in Objects
    BY DEF IndInv, Objects
  <2>2. CASE d = n
    BY <2>2, <1>3, <1>7 DEF DepAttended, Announced
  <2>3. CASE d # n
    <3>1. store'[d] = store[d] /\ depStatus'[d] = depStatus[d]
      BY <2>1, <2>3, <1>6, <1>11
    <3> QED BY <3>1, <2>1, <1>3 DEF DepAttended, Announced, Exists
  <2> QED BY <2>2, <2>3
<1> QED BY <1>12, <1>13, <1>14, <1>15, <1>16 DEF IndInv

LEMMA DepReconcileStep ==
  ASSUME IndInv, NEW n \in Deps, DepReconcile(n)
  PROVE  IndInv'
<1>1. TypeOK /\ CacheFollows /\ JobFollows /\ TodoFits /\ WorldOK(cache)
  BY Worlds DEF IndInv
<1>2. UNCHANGED <<status, workloads, edits, faults, cache, notify, job>> /\ n \in Objects
  BY DEF DepReconcile, Objects
<1>3. store[n] \in Version(n) /\ cache[n].rv \in Nat /\ cache[n].rv <= store[n].rv
  BY <1>1, <1>2 DEF TypeOK, Version
<1>4. /\ queue \ {n} \subseteq queue' /\ queue' \subseteq queue
      /\ \/ n \in queue'
         \/ ~Exists(cache, n)
         \/ depStatus' = [depStatus EXCEPT ![n] = DepStatus(cache, n)]
  BY DEF DepReconcile
<1>5. \/ UNCHANGED depStatus
      \/ Exists(cache, n) /\ depStatus' = [depStatus EXCEPT ![n] = DepStatus(cache, n)]
  BY DEF DepReconcile
<1>6. /\ depStatus' \in [Deps -> [observed : Nat, missing : SUBSET Objects]]
      /\ \A d \in Deps : d # n => depStatus'[d] = depStatus[d]
  <2>1. depStatus \in [Deps -> [observed : Nat, missing : SUBSET Objects]]
    BY <1>1 DEF TypeOK
  <2>2. Exists(cache, n) => MissingIn(cache, n) \in SUBSET Objects
    BY <1>1, RefsParts
  <2>3. cache[n].gen \in Nat
    BY <1>1, <1>2, WorldParts
  <2>4. Exists(cache, n) => DepStatus(cache, n) \in [observed : Nat, missing : SUBSET Objects]
    BY <2>2, <2>3 DEF DepStatus
  <2> QED BY <2>1, <2>4, <1>5
<1>7. \/ UNCHANGED store
      \/ store' = [store EXCEPT ![n] = NewVersion(@)]
  BY DEF DepReconcile
<1>8. /\ DOMAIN store' = Objects
      /\ \A k \in Objects : k # n => store'[k] = store[k]
      /\ store'[n] \in {store[n], NewVersion(store[n])}
  BY <1>1, <1>2, <1>7 DEF TypeOK
<1>9. /\ store'[n] \in Version(n) /\ store'[n].spec = store[n].spec
      /\ store'[n] = store[n] \/ store'[n].rv = store[n].rv + 1
  BY <1>3, <1>8 DEF NewVersion, Version
<1>10. cache[n].rv <= store'[n].rv
         /\ (store'[n] = store[n] \/ cache[n].rv < store'[n].rv)
  BY <1>3, <1>9 DEF Version
<1>11. \A k \in Objects : Exists(store', k) = Exists(store, k)
  BY <1>8, <1>9 DEF Exists
<1>12. TypeOK'
  <2>1. \A k \in Objects : /\ store'[k] \in Version(k) /\ cache'[k] \in Version(k)
                           /\ cache'[k].rv <= store'[k].rv
    BY <1>1, <1>2, <1>8, <1>9, <1>10 DEF TypeOK
  <2>2. \A a \in Agents : ~Exists(store', a) => status'[a] = NoStatus
    BY <1>1, <1>2, <1>11 DEF TypeOK, LiveAgents, Objects
  <2> QED BY <2>1, <2>2, <1>1, <1>2, <1>4, <1>6, <1>8 DEF TypeOK, LiveAgents
<1>13. CacheFollows'
  BY <1>1, <1>2, <1>3, <1>8, <1>10 DEF CacheFollows
<1>14. JobFollows' /\ TodoFits'
  BY <1>1, <1>2 DEF JobFollows, TodoFits
<1>15. ASSUME NEW a \in Agents
       PROVE  AgentAttended(a)'
  <2>1. AgentAttended(a) /\ a \in Objects /\ a # n
    BY KindsAssumption DEF IndInv, Objects
  <2>2. store'[a] = store[a] /\ (a \in queue => a \in queue')
    BY <2>1, <1>4, <1>8
  <2> QED BY <2>1, <2>2, <1>2 DEF AgentAttended, Announced, Exists
<1>16. ASSUME NEW d \in Deps
       PROVE  DepAttended(d)'
  <2>1. DepAttended(d) /\ d \in Objects
    BY DEF IndInv, Objects
  <2>2. CASE d # n
    <3>1. store'[d] = store[d] /\ depStatus'[d] = depStatus[d] /\ (d \in queue => d \in queue')
      BY <2>1, <2>2, <1>4, <1>6, <1>8
    <3> QED BY <3>1, <2>1, <1>2 DEF DepAttended, Announced, Exists
  <2>3. CASE d = n
    <3>1. CASE n \in queue'
      BY <2>3, <3>1 DEF DepAttended, Announced
    <3>2. CASE ~Exists(cache, n)
      BY <2>3, <3>2, <1>2 DEF DepAttended, Announced, Exists
    <3>3. CASE depStatus' = [depStatus EXCEPT ![n] = DepStatus(cache, n)]
      <4>1. depStatus'[n] = DepStatus(cache, n)
        BY <3>3, <1>1 DEF TypeOK
      <4> QED BY <4>1, <2>3, <1>2 DEF DepAttended
    <3> QED BY <3>1, <3>2, <3>3, <1>4
  <2> QED BY <2>2, <2>3
<1> QED BY <1>12, <1>13, <1>14, <1>15, <1>16 DEF IndInv

LEMMA StutterStep == IndInv /\ UNCHANGED vars => IndInv'
<1> SUFFICES ASSUME IndInv, UNCHANGED vars PROVE IndInv'
  OBVIOUS
<1>1. UNCHANGED <<store, status, depStatus, workloads, edits, faults, cache, notify, queue, job>>
  BY DEF vars
<1>2. TypeOK' /\ CacheFollows' /\ JobFollows' /\ TodoFits'
  BY <1>1 DEF IndInv, TypeOK, CacheFollows, JobFollows, TodoFits, LiveAgents, Exists
<1>3. \A a \in Agents : AgentAttended(a)'
  BY <1>1 DEF IndInv, AgentAttended, Announced, Exists
<1>4. \A n \in Deps : DepAttended(n)'
  BY <1>1 DEF IndInv, DepAttended, Announced, Exists
<1> QED BY <1>2, <1>3, <1>4 DEF IndInv

LEMMA NextStep == IndInv /\ [Next]_vars => IndInv'
<1> SUFFICES ASSUME IndInv, [Next]_vars PROVE IndInv'
  OBVIOUS
<1>1. ASSUME NEW e \in Edits, Edit(e) PROVE IndInv'
  BY <1>1, EditStep
<1>2. ASSUME NEW n \in Deps, DepReconcile(n) PROVE IndInv'
  BY <1>2, DepReconcileStep
<1>3. ASSUME NEW n \in Objects, CacheSync(n) PROVE IndInv'
  BY <1>3, CacheSyncStep
<1>4. ASSUME NEW n \in Objects, MapEvent(n) PROVE IndInv'
  BY <1>4, MapEventStep
<1>5. ASSUME NEW a \in Agents, StartReconcile(a) PROVE IndInv'
  BY <1>5, StartReconcileStep
<1>6. CASE Reconcile
  BY <1>6, ReadClassStep, ReadTargetStep, TargetsDoneStep, ReadToolSetStep,
     ToolSetsDoneStep, ReadToolStep, MaterializeStep, ReadPeerStep, PeersDoneStep,
     UpdateStatusStep DEF Reconcile
<1>7. CASE ReconcileError
  BY <1>7, ReconcileErrorStep
<1>8. CASE OperatorRestart
  BY <1>8, OperatorRestartStep
<1>9. CASE UNCHANGED vars
  BY <1>9, StutterStep
<1> QED BY <1>1, <1>2, <1>3, <1>4, <1>5, <1>6, <1>7, <1>8, <1>9 DEF Next

-----------------------------------------------------------------------------
(* The theorems.                                                           *)

\* Every reachable state satisfies the invariant: whatever an Agent's status,
\* or a Tool's, a ToolSet's or a class's, does not say yet is announced in a
\* cache, an event, a queue or a Reconcile.
THEOREM IndInvHolds == Spec => []IndInv
<1>1. Init => IndInv
  BY InitHolds
<1>2. IndInv /\ [Next]_vars => IndInv'
  BY NextStep
<1> QED BY <1>1, <1>2, PTL DEF Spec

\* Every variable keeps its type, no cache is ahead of the API server, and no
\* deleted Agent keeps a status.
THEOREM TypeCorrect == Spec => []TypeOK
<1>1. IndInv => TypeOK
  BY DEF IndInv
<1> QED BY <1>1, IndInvHolds, PTL

\* At rest every status fits the API objects.
LEMMA AtRest ==
  ASSUME IndInv, Quiescent
  PROVE  /\ WorldOK(store)
         /\ \A a \in LiveAgents : StatusFits(status[a], store, a)
         /\ \A n \in Deps : Exists(store, n) => depStatus[n] = DepStatus(store, n)
<1>1. cache = store /\ notify = {} /\ queue = {} /\ job.pc = "idle"
  BY DEF Quiescent, JobIs
<1>2. WorldOK(store)
  BY Worlds DEF IndInv
<1>3. \A a \in LiveAgents : StatusFits(status[a], store, a)
  BY <1>1 DEF IndInv, LiveAgents, AgentAttended, Announced
<1>4. \A n \in Deps : Exists(store, n) => depStatus[n] = DepStatus(store, n)
  BY <1>1 DEF IndInv, DepAttended, Announced
<1> QED BY <1>2, <1>3, <1>4

\* No lost event: at rest a Ready Agent has what it refers to and Policies that
\* permit it, and a peerless Agent that has is Ready, whatever was written
\* between any two reads of any Reconcile, and across faults and restarts.
THEOREM StatusConverges == Spec => []ReadyIffCoherent
<1>1. IndInv => ReadyIffCoherent
  <2> SUFFICES ASSUME IndInv, Quiescent, NEW a \in LiveAgents
               PROVE  /\ status[a].phase = "Ready" => Coherent(a)
                      /\ Coherent(a) /\ PeersOf(store, a) = {} => status[a].phase = "Ready"
    BY DEF ReadyIffCoherent
  <2>1. StatusFits(status[a], store, a)
    BY AtRest
  <2>2. status[a].phase = "Ready" => Coherent(a)
    BY <2>1 DEF StatusFits, VerdictFits, Coherent
  <2>3. Coherent(a) /\ PeersOf(store, a) = {} => status[a].phase = "Ready"
    BY <2>1 DEF StatusFits, VerdictFits, BadPeersFit, Coherent
  <2> QED BY <2>2, <2>3
<1> QED BY <1>1, IndInvHolds, PTL

\* At rest configHash is taken of the current version of every reference, so
\* the Registry and the runtime see every change of one.
THEOREM HashConverges == Spec => []HashIsCurrent
<1>1. IndInv => HashIsCurrent
  <2> SUFFICES ASSUME IndInv, Quiescent, NEW a \in LiveAgents, status[a].phase = "Ready"
               PROVE  status[a].hash = HashOf(store, a)
    BY DEF HashIsCurrent, HashOf
  <2>1. StatusFits(status[a], store, a)
    BY AtRest
  <2> QED BY <2>1 DEF StatusFits, VerdictFits
<1> QED BY <1>1, IndInvHolds, PTL

\* At rest the statuses name exactly the references that are missing now.
THEOREM MissingConverges == Spec => []MissingIsExact
<1>1. IndInv => MissingIsExact
  <2> SUFFICES ASSUME IndInv, Quiescent
               PROVE  /\ \A a \in LiveAgents : status[a].reason = "ReferenceNotFound" =>
                           status[a].detail = MissingOf(store, a)
                      /\ \A n \in Deps : Exists(store, n) => depStatus[n] = DepStatus(store, n)
    BY DEF MissingIsExact
  <2>1. ASSUME NEW a \in LiveAgents, status[a].reason = "ReferenceNotFound"
        PROVE  status[a].detail = MissingOf(store, a)
    <3>1. StatusFits(status[a], store, a)
      BY AtRest
    <3> QED BY <2>1, <3>1 DEF StatusFits, VerdictFits
  <2> QED BY <2>1, AtRest
<1> QED BY <1>1, IndInvHolds, PTL

\* At rest a valid Agent's endpoint is published exactly while it is exposed.
THEOREM EndpointConverges == Spec => []EndpointFollowsExpose
<1>1. IndInv => EndpointFollowsExpose
  <2> SUFFICES ASSUME IndInv, Quiescent, NEW a \in LiveAgents, store[a].spec.valid
               PROVE  status[a].endpoint = store[a].spec.expose
    BY DEF EndpointFollowsExpose
  <2>1. StatusFits(status[a], store, a)
    BY AtRest
  <2> QED BY <2>1 DEF StatusFits
<1> QED BY <1>1, IndInvHolds, PTL

\* At rest no Agent that consults itself is Ready, and a violation message
\* names what the Policies deny now, and besides it only peers.
THEOREM ViolationsConverge == Spec => []ViolationsAreExact
<1>1. IndInv => ViolationsAreExact
  <2> SUFFICES ASSUME IndInv, Quiescent, NEW a \in LiveAgents
               PROVE  /\ status[a].phase = "Ready" => a \notin PeersOf(store, a)
                      /\ status[a].reason = "PolicyViolation" =>
                           /\ ViolationsOf(store, a) \subseteq status[a].detail
                           /\ status[a].detail \subseteq
                                ViolationsOf(store, a) \union PeersOf(store, a)
                           /\ a \in PeersOf(store, a) => a \in status[a].detail
    BY DEF ViolationsAreExact
  <2>1. StatusFits(status[a], store, a)
    BY AtRest
  <2>2. status[a].phase = "Ready" => a \notin PeersOf(store, a)
    BY <2>1 DEF StatusFits, VerdictFits, BadPeersFit
  <2>3. ASSUME status[a].reason = "PolicyViolation"
        PROVE  \E bad \in SUBSET Agents :
                 /\ BadPeersFit(bad, PeersOf(store, a), a)
                 /\ status[a].detail = ViolationsOf(store, a) \union bad
    BY <2>1, <2>3 DEF StatusFits, VerdictFits
  <2> QED BY <2>2, <2>3 DEF BadPeersFit
<1> QED BY <1>1, IndInvHolds, PTL
=============================================================================
