------------------------- MODULE ConfigBuildProofs -------------------------
(* What the runtime loads, and what the conditions say, for every set of   *)
(* kinds and any number of changes.                                        *)
EXTENDS ConfigBuild, SequenceTheorems, TLAPS

\* The hash h names versions the objects o have had, and the one an object has
\* now only while the object exists.
NamesVersions(h, o) ==
  h # None => \A k \in Direct : /\ h[k] <= o[k].rv
                                /\ h[k] = o[k].rv => o[k].spec # None

\* The parts p are not older than the hash h says, hold nothing the objects have
\* not been, and miss only what is unread or gone by now.
FollowsHash(h, p, unread, o) ==
  \A k \in Direct :
    /\ p[k] # None => /\ p[k].rv <= o[k].rv
                      /\ p[k].rv = o[k].rv => p[k].spec = o[k].spec
                      /\ h # None => h[k] <= p[k].rv
    /\ p[k] = None /\ h # None => k \in unread \/ h[k] < o[k].rv

\* Unread is what has its turn to come, and what had it and could not be read.
SoundConfig(c, todo, o) ==
  NamesVersions(c.hash, o) /\ FollowsHash(c.hash, c.parts, todo \union c.missed, o)

\* Every config, finished or not, follows its hash.
ConfigsFollow ==
  /\ NamesVersions(agent.hash, obj)
  /\ \A i \in 1..Len(events) : NamesVersions(events[i].hash, obj)
  /\ \A b \in Builders : SoundConfig(build[b], build[b].todo, obj)
  /\ \A i \in 1..Len(stream.frames) : SoundConfig(stream.frames[i], {}, obj)
  /\ SoundConfig(loaded, {}, obj)

\* A condition is right, or somebody is about to look at it.
StatusAttended ==
  \A k \in Kinds :
    Exists(k) => \/ obj[k].status = Status(k)
                 \/ k \in queue
                 \/ job[k] # None /\ (job[k].rv = obj[k].rv => job[k].status = Status(k))

\* So is the Agent's.
AgentAttended ==
  "agent" \in queue \/ (agent.phase = AgentStatus.phase /\ agent.hash = AgentStatus.hash)

\* A version is the Agent's, if it is not an older one.
IsVersion(v, a) == v.rv <= a.rv /\ (v.rv = a.rv => v.phase = a.phase /\ v.hash = a.hash)

VersionsOfAgent ==
  /\ agent.rv > 0
  /\ \A i \in 1..Len(events) : events[i].rv > 0 /\ IsVersion(events[i], agent)
  /\ \A b \in Builders : IsVersion(build[b], agent)
  /\ \A b \in Builders : build[b] = NoBuild \/ build[b].rv > 0
  /\ \A i \in 1..Len(stream.frames) : IsVersion(stream.frames[i], agent)
  /\ stream.lastRV <= agent.rv

InFlight == \/ \E i \in 1..Len(events) : events[i].rv = agent.rv
            \/ build["informer"].rv = agent.rv
            \/ \E i \in 1..Len(stream.frames) : stream.frames[i].rv = agent.rv

\* The Agent's latest version has reached the runtime, or is in the snapshot
\* being built for it, or is on its way and newer than what was sent.
LatestIsSent ==
  /\ build["snapshot"] # NoBuild => stream.open = FALSE
  /\ \/ /\ stream.open = TRUE
        /\ stream.lastRV = agent.rv
        /\ agent.phase = "Ready" => loaded.hash = agent.hash
     \/ build["snapshot"].rv = agent.rv
     \/ InFlight /\ stream.lastRV < agent.rv

-----------------------------------------------------------------------------
(* Sequences and types.                                                    *)

\* Taking the first element leaves the others, one place further on.
LEMMA TailElements ==
  ASSUME NEW S, NEW s \in Seq(S), s # <<>>
  PROVE  /\ Head(s) = s[1] /\ 1 \in 1..Len(s) /\ Tail(s) \in Seq(S)
         /\ \A i \in 1..Len(Tail(s)) : i + 1 \in 1..Len(s) /\ Tail(s)[i] = s[i + 1]
         /\ \A i \in 1..Len(s) : i # 1 => i - 1 \in 1..Len(Tail(s)) /\ Tail(s)[i - 1] = s[i]
  OBVIOUS

\* An element added at the end moves no other.
LEMMA AppendElements ==
  ASSUME NEW S, NEW s \in Seq(S), NEW e \in S
  PROVE  /\ Append(s, e) \in Seq(S)
         /\ \A i \in 1..Len(s) : i \in 1..Len(Append(s, e)) /\ Append(s, e)[i] = s[i]
         /\ \A i \in 1..Len(Append(s, e)) :
              (i \in 1..Len(s) /\ Append(s, e)[i] = s[i]) \/ Append(s, e)[i] = e
         /\ Len(s) + 1 \in 1..Len(Append(s, e)) /\ Append(s, e)[Len(s) + 1] = e
  OBVIOUS

\* A verdict is one of the reasons the controllers publish.
LEMMA StatusType ==
  ASSUME TypeOK, NEW k \in Kinds
  PROVE  Status(k) \in Statuses
<1>1. Verdict(k) \in Verdicts
  BY DEF Verdict, Verdicts, SkillVerdict, CredentialVerdict, ToolVerdict, ToolPolicyVerdict,
         HolderVerdict
<1> QED
  BY <1>1 DEF TypeOK, Status, Statuses

LEMMA ShapesAreSpecs ==
  ASSUME NEW k \in Kinds
  PROVE  Shapes(k) \subseteq Specs
  BY ConfigBounds DEF Specs

\* What the Agent's Reconcile publishes is a version.
LEMMA AgentStatusType ==
  ASSUME TypeOK
  PROVE  /\ AgentStatus.phase \in Phases /\ AgentStatus.hash \in Hashes
         /\ HashFitsPhase(AgentStatus)
  BY NoneIsNoValue DEF TypeOK, AgentStatus, ConfigHash, Phases, Hashes, HashFitsPhase, Direct

LEMMA TypeInit == Init => TypeOK
<1> SUFFICES ASSUME Init PROVE TypeOK
  OBVIOUS
<1>1. ASSUME NEW k \in Kinds PROVE /\ FirstShape(k) \in Shapes(k) /\ FirstShape(k) \in Specs
                                   /\ FirstObject(k).status \in Statuses
  BY <1>1, ShapesAreSpecs DEF FirstShape, Shapes, FirstObject, Statuses, Verdicts, SkillSpec,
       ToolSpec, ToolPolicySpec, CredentialSpec
<1>2. FirstHash \in Hashes /\ FirstHash # None
  BY NoneIsNoValue DEF FirstHash, Hashes
<1>3. \A k \in Kinds : Read(k) \in Part
  BY <1>1 DEF Init, Read, Part, FirstObject
<1>4. NoBuild \in [todo : SUBSET Kinds, rv : Nat, phase : Phases, hash : Hashes,
                  parts : [Kinds -> Part], missed : SUBSET Kinds]
  BY DEF NoBuild, Phases, Hashes, Part
<1>5. /\ obj \in [Kinds -> [spec : Specs \union {None}, gen : Nat, status : Statuses, rv : Nat]]
      /\ \A k \in Kinds : obj[k].spec \in Shapes(k) \union {None}
  BY <1>1 DEF Init, FirstObject
<1>6. loaded \in Configs /\ agent \in Version
  BY <1>2, <1>3 DEF Init, Configs, Version, Phases
<1>7. HashFitsPhase(agent) /\ HashFitsPhase(loaded) /\ HashFitsPhase(NoBuild)
  BY <1>2 DEF Init, HashFitsPhase, NoBuild
<1>8. behind \in [Backed -> {"nokey", "v1", "v2", None}]
  BY DEF Init
<1>9. job \in [Kinds -> [rv : Nat, status : Statuses] \union {None}]
  BY DEF Init
<1>10. stream \in [open : BOOLEAN, lastRV : Nat, frames : Seq(Configs)] /\ stream.frames = <<>>
  BY DEF Init
<1> QED
  BY <1>4, <1>5, <1>6, <1>7, <1>8, <1>9, <1>10 DEF Init, TypeOK

\* Users' writes.
LEMMA TypeUsers ==
  ASSUME TypeOK, NEW k \in Kinds,
         Delete(k) \/ (\E s \in Shapes(k) : Put(k, s))
                   \/ (k \in Backed /\ \E c \in Contents(k) \union {None} : SetBehind(k, c))
  PROVE  TypeOK'
<1> USE DEF TypeOK
<1>1. Wakes(k) \subseteq Kinds \union {"agent"}
  BY ConfigBounds DEF Wakes, Nested, Holder
<1>2. changes' \in Nat
  BY DEF Change, Delete, Put, SetBehind
<1>3. CASE Delete(k)
  <2>1. obj' = [obj EXCEPT ![k] = Absent(obj[k].rv + 1)]
    BY <1>3 DEF Delete
  <2>2. Absent(obj[k].rv + 1) \in [spec : Specs \union {None}, gen : Nat, status : Statuses, rv : Nat]
    BY DEF Absent, Statuses
  <2>3. \A l \in Kinds : obj'[l].spec \in Shapes(l) \union {None}
    BY <2>1 DEF Absent
  <2> QED
    BY <1>1, <1>2, <1>3, <2>1, <2>2, <2>3 DEF Delete, registry
<1>4. ASSUME NEW s \in Shapes(k), Put(k, s) PROVE TypeOK'
  <2>1. obj' \in [Kinds -> [spec : Specs \union {None}, gen : Nat, status : Statuses, rv : Nat]]
    BY <1>4, ShapesAreSpecs DEF Put
  <2>2. \A l \in Kinds : obj'[l].spec \in Shapes(l) \union {None}
    BY <1>4 DEF Put
  <2> QED
    BY <1>1, <1>2, <1>4, <2>1, <2>2 DEF Put, registry
<1>5. ASSUME k \in Backed, NEW c \in Contents(k) \union {None}, SetBehind(k, c) PROVE TypeOK'
  <2>1. c \in {"nokey", "v1", "v2", None}
    BY DEF Contents
  <2> QED
    BY <1>2, <1>5, <2>1 DEF SetBehind, registry
<1> QED
  BY <1>3, <1>4, <1>5

\* The controllers' and the Agent's Reconcile.
LEMMA TypeOperator == ASSUME TypeOK, Operator PROVE TypeOK'
<1> USE DEF TypeOK
<1>1. ASSUME NEW k \in Kinds, Reconcile(k) PROVE TypeOK'
  BY <1>1, StatusType DEF Reconcile, store, registry
<1>2. ASSUME NEW k \in Kinds, UpdateStatus(k) PROVE TypeOK'
  <2>1. Wakes(k) \subseteq Kinds \union {"agent"}
    BY ConfigBounds DEF Wakes, Nested, Holder
  <2>2. job[k].status \in Statuses
    BY <1>2 DEF UpdateStatus
  <2>3. job' \in [Kinds -> [rv : Nat, status : Statuses] \union {None}]
    BY <1>2 DEF UpdateStatus
  <2>4. queue' \subseteq Kinds \union {"agent"}
    BY <1>2, <2>1 DEF UpdateStatus
  <2>5. /\ obj' \in [Kinds -> [spec : Specs \union {None}, gen : Nat, status : Statuses, rv : Nat]]
        /\ \A l \in Kinds : obj'[l].spec = obj[l].spec
    <3>1. CASE obj' = obj
      BY <3>1
    <3>2. CASE obj' = [obj EXCEPT ![k] = [spec |-> obj[k].spec, gen |-> obj[k].gen,
                                          status |-> job[k].status, rv |-> obj[k].rv + 1]]
      BY <2>2, <3>2
    <3> QED
      BY <1>2, <3>1, <3>2 DEF UpdateStatus
  <2> QED
    BY <1>2, <2>3, <2>4, <2>5 DEF UpdateStatus, registry
<1>3. CASE AgentReconcile
  <2> DEFINE v == [rv |-> agent.rv + 1, phase |-> AgentStatus.phase, hash |-> AgentStatus.hash]
  <2>1. v \in Version /\ HashFitsPhase(v)
    BY AgentStatusType DEF Version, HashFitsPhase
  <2>2. /\ UNCHANGED <<obj, behind, job, build, stream, loaded, changes>>
        /\ queue' = queue \ {"agent"}
        /\ (agent' = agent /\ events' = events) \/ (agent' = v /\ events' = Append(events, v))
    BY <1>3 DEF AgentReconcile
  <2> HIDE DEF v
  <2>3. CASE agent' = v /\ events' = Append(events, v)
    <3>1. events' \in Seq(Version) /\ \A i \in 1..Len(events') : HashFitsPhase(events'[i])
      BY <2>1, <2>3, AppendElements
    <3> QED
      BY <2>1, <2>2, <2>3, <3>1
  <2> QED
    BY <2>2, <2>3
<1> QED
  BY <1>1, <1>2, <1>3 DEF Operator

BuildRecord == [todo : SUBSET Kinds, rv : Nat, phase : Phases, hash : Hashes,
                parts : [Kinds -> Part], missed : SUBSET Kinds]

\* A builder starts from a version of the Agent.
LEMMA TypeStart ==
  ASSUME TypeOK, NEW b \in Builders, NEW v \in Version, HashFitsPhase(v), StartBuild(b, v)
  PROVE  build' \in [Builders -> BuildRecord] /\ \A c \in Builders : HashFitsPhase(build'[c])
<1> DEFINE r == [todo |-> Kinds, rv |-> v.rv, phase |-> v.phase,
                 hash |-> v.hash, parts |-> [k \in Kinds |-> None], missed |-> {}]
<1>1. r \in BuildRecord
  BY DEF BuildRecord, Version, Part
<1>2. HashFitsPhase(r)
  BY DEF HashFitsPhase
<1>3. build' = [build EXCEPT ![b] = r]
  BY DEF StartBuild
<1> HIDE DEF r
<1> QED
  BY <1>1, <1>2, <1>3 DEF TypeOK, BuildRecord

\* So is what it hands on.
LEMMA TypeConfig ==
  ASSUME TypeOK, NEW b \in Builders
  PROVE  Config(b) \in Configs /\ HashFitsPhase(Config(b)) /\ NoBuild \in BuildRecord
         /\ HashFitsPhase(NoBuild)
  BY DEF TypeOK, Config, Configs, HashFitsPhase, NoBuild, BuildRecord, Phases, Hashes, Part

LEMMA TypeLoad ==
  ASSUME TypeOK, NEW c \in Configs, HashFitsPhase(c), Load(c)
  PROVE  loaded' \in Configs /\ loaded'.phase = "Ready" /\ HashFitsPhase(loaded')
  BY DEF TypeOK, Load

\* A read, failed or not, takes one kind off the list and fills its part at most.
LEMMA ReadStep ==
  ASSUME TypeOK, NEW b \in Builders, ReadPart(b) \/ ReadFails(b)
  PROVE  /\ UNCHANGED <<store, queue, job, agent, events, stream, loaded>> /\ changes' \in Nat
         /\ build' \in [Builders -> BuildRecord] /\ build[b] # NoBuild
         /\ \A c \in Builders : /\ build'[c].rv = build[c].rv
                                /\ build'[c].phase = build[c].phase
                                /\ build'[c].hash = build[c].hash
                                /\ c # b => build'[c] = build[c]
         /\ \E k \in build[b].todo :
              /\ build'[b].todo = build[b].todo \ {k}
              /\ \A l \in Kinds : l # k => build'[b].parts[l] = build[b].parts[l]
              /\ \/ /\ build'[b].missed = build[b].missed
                    /\ k \in Direct => build'[b].parts[k] = IF Exists(k) THEN Read(k) ELSE None
                 \/ /\ build'[b].missed = build[b].missed \union {k}
                    /\ build'[b].parts[k] = None
<1>0. PICK k \in build[b].todo : \E part, missed :
        /\ Record(b, k, part, missed)
        /\ \/ /\ missed = build[b].missed
              /\ part = IF Exists(k) /\ IsAsked(b, k) THEN Read(k) ELSE None
           \/ missed = build[b].missed \union {k} /\ part = None
  BY DEF ReadPart, ReadFails
<1>1. PICK part, missed :
        /\ Record(b, k, part, missed)
        /\ \/ /\ missed = build[b].missed
              /\ part = IF Exists(k) /\ IsAsked(b, k) THEN Read(k) ELSE None
           \/ missed = build[b].missed \union {k} /\ part = None
  BY <1>0
<1>2. build \in [Builders -> BuildRecord] /\ build[b] \in BuildRecord /\ k \in Kinds
  BY DEF TypeOK, BuildRecord
<1>3. part \in Part /\ missed \in SUBSET Kinds
  <2>1. Exists(k) => Read(k) \in Part
    BY <1>2, ShapesAreSpecs DEF TypeOK, Exists, Read, Part
  <2> QED
    BY <1>1, <1>2, <2>1 DEF Part, BuildRecord
<1> DEFINE r == [todo |-> build[b].todo \ {k}, rv |-> build[b].rv, phase |-> build[b].phase,
                 hash |-> build[b].hash, parts |-> [build[b].parts EXCEPT ![k] = part],
                 missed |-> missed]
<1>4. build' = [build EXCEPT ![b] = r]
  BY <1>1 DEF Record
<1>5. r \in BuildRecord
  BY <1>2, <1>3 DEF BuildRecord
<1>6. /\ r.todo = build[b].todo \ {k} /\ r.rv = build[b].rv /\ r.phase = build[b].phase
      /\ r.hash = build[b].hash /\ r.missed = missed /\ r.parts[k] = part
      /\ \A l \in Kinds : l # k => r.parts[l] = build[b].parts[l]
  BY <1>2 DEF BuildRecord
<1> HIDE DEF r
<1>7. k \in Direct => IsAsked(b, k)
  BY DEF Direct, IsAsked
<1>8. UNCHANGED <<store, queue, job, agent, events, stream, loaded>> /\ changes' \in Nat
  <2>1. CASE ReadPart(b)
    BY <2>1 DEF ReadPart, TypeOK
  <2>2. CASE ReadFails(b)
    BY <2>2 DEF ReadFails, Change, TypeOK
  <2> QED
    BY <2>1, <2>2
<1>9. build[b] # NoBuild
  BY DEF NoBuild
<1>10. build'[b] = r /\ (\A c \in Builders : c # b => build'[c] = build[c])
       /\ build' \in [Builders -> BuildRecord]
  BY <1>2, <1>4, <1>5
<1> QED
  BY <1>1, <1>6, <1>7, <1>8, <1>9, <1>10

\* The Registry, and the runtime it serves.
LEMMA TypeRegistry ==
  ASSUME TypeOK, Registry \/ Reconnect \/ \E b \in Builders : ReadFails(b)
  PROVE  TypeOK'
<1> USE DEF TypeOK
<1>1. CASE OnAgentChange
  <2>1. Head(events) \in Version /\ HashFitsPhase(Head(events)) /\ Tail(events) \in Seq(Version)
        /\ \A i \in 1..Len(Tail(events)) : HashFitsPhase(Tail(events)[i])
    BY <1>1, TailElements DEF OnAgentChange
  <2>2. build' \in [Builders -> BuildRecord] /\ \A c \in Builders : HashFitsPhase(build'[c])
    BY <1>1, <2>1, TypeStart DEF OnAgentChange, Builders
  <2> QED
    BY <1>1, <2>1, <2>2 DEF OnAgentChange, store, BuildRecord
<1>2. CASE Reconnect
  <2>1. build' \in [Builders -> BuildRecord] /\ \A c \in Builders : HashFitsPhase(build'[c])
    BY <1>2, TypeStart DEF Reconnect, Builders
  <2>2. /\ stream' \in [open : BOOLEAN, lastRV : Nat, frames : Seq(Configs)]
        /\ stream'.frames = <<>>
    BY <1>2 DEF Reconnect
  <2> QED
    BY <1>2, <2>1, <2>2 DEF Reconnect, store, BuildRecord, Change
<1>3. ASSUME NEW b \in Builders, ReadPart(b) \/ ReadFails(b) PROVE TypeOK'
  <2>1. /\ UNCHANGED <<store, queue, job, agent, events, stream, loaded>> /\ changes' \in Nat
        /\ build' \in [Builders -> BuildRecord]
        /\ \A c \in Builders : build'[c].phase = build[c].phase /\ build'[c].hash = build[c].hash
    BY <1>3, ReadStep
  <2>2. \A c \in Builders : HashFitsPhase(build'[c])
    BY <2>1 DEF HashFitsPhase
  <2> QED
    BY <2>1, <2>2 DEF store, BuildRecord
<1>4. CASE Broadcast
  <2>1. Config("informer") \in Configs /\ HashFitsPhase(Config("informer"))
        /\ NoBuild \in BuildRecord /\ HashFitsPhase(NoBuild)
    BY TypeConfig DEF Builders
  <2>2. build' \in [Builders -> BuildRecord] /\ \A c \in Builders : HashFitsPhase(build'[c])
    BY <1>4, <2>1 DEF Broadcast, BuildRecord
  <2>3. stream'.frames = Append(stream.frames, Config("informer"))
        /\ stream' = [stream EXCEPT !.frames = stream'.frames]
    BY <1>4 DEF Broadcast
  <2>4. stream'.frames \in Seq(Configs)
        /\ \A i \in 1..Len(stream'.frames) : HashFitsPhase(stream'.frames[i])
    BY <2>1, <2>3, AppendElements
  <2> QED
    BY <1>4, <2>2, <2>3, <2>4 DEF Broadcast, store, BuildRecord
<1>5. CASE WriteSnapshot
  <2>1. Config("snapshot") \in Configs /\ HashFitsPhase(Config("snapshot"))
        /\ NoBuild \in BuildRecord /\ HashFitsPhase(NoBuild)
    BY TypeConfig DEF Builders
  <2>2. build' \in [Builders -> BuildRecord] /\ \A c \in Builders : HashFitsPhase(build'[c])
    BY <1>5, <2>1 DEF WriteSnapshot, BuildRecord
  <2>3. loaded' \in Configs /\ loaded'.phase = "Ready" /\ HashFitsPhase(loaded')
    BY <1>5, <2>1, TypeLoad DEF WriteSnapshot
  <2>4. stream' \in [open : BOOLEAN, lastRV : Nat, frames : Seq(Configs)]
        /\ stream'.frames = stream.frames
    BY <1>5 DEF WriteSnapshot, Builders
  <2> QED
    BY <1>5, <2>2, <2>3, <2>4 DEF WriteSnapshot, store, BuildRecord
<1>6. CASE Receive
  <2> DEFINE f == Head(stream.frames)
  <2>1. f \in Configs /\ HashFitsPhase(f) /\ Tail(stream.frames) \in Seq(Configs)
        /\ \A i \in 1..Len(Tail(stream.frames)) : HashFitsPhase(Tail(stream.frames)[i])
    BY <1>6, TailElements DEF Receive
  <2>2. loaded' \in Configs /\ loaded'.phase = "Ready" /\ HashFitsPhase(loaded')
    BY <1>6, <2>1, TypeLoad DEF Receive
  <2>3. f.rv \in Nat
    BY <2>1 DEF Configs
  <2>4. stream' \in [open : BOOLEAN, lastRV : Nat, frames : Seq(Configs)]
        /\ stream'.frames = Tail(stream.frames)
    BY <1>6, <2>1, <2>3 DEF Receive
  <2> QED
    BY <1>6, <2>1, <2>2, <2>4 DEF Receive, store
<1> QED
  BY <1>1, <1>2, <1>3, <1>4, <1>5, <1>6 DEF Registry

LEMMA TypeStep == TypeOK /\ [Next]_vars => TypeOK'
<1> SUFFICES ASSUME TypeOK, [Next]_vars PROVE TypeOK'
  OBVIOUS
<1>1. CASE UNCHANGED vars
  BY <1>1 DEF vars, TypeOK
<1> QED
  BY <1>1, TypeUsers, TypeOperator, TypeRegistry DEF Next, Backed

\* Every variable keeps its type, and a hash stands beside "Ready" and nothing
\* else: on the Agent, in the informer's backlog, in the builds and on the
\* stream.
THEOREM TypeCorrect == Spec => []TypeOK
<1> QED
  BY TypeInit, TypeStep, PTL DEF Spec

-----------------------------------------------------------------------------
(* Configs and the hash they carry.                                        *)

\* Between two states an object is what it was, or has a newer version.
MovedOn(o, p) ==
  \A k \in Kinds : \/ p[k].spec = o[k].spec /\ p[k].rv = o[k].rv
                   \/ o[k].rv < p[k].rv

LEMMA ObjectsMoveOn == ASSUME TypeOK, [Next]_vars PROVE MovedOn(obj, obj')
<1>1. ASSUME NEW k \in Kinds, Delete(k) PROVE MovedOn(obj, obj')
  BY <1>1 DEF Delete, Absent, MovedOn, TypeOK
<1>2. ASSUME NEW k \in Kinds, NEW s \in Shapes(k), Put(k, s) PROVE MovedOn(obj, obj')
  BY <1>2 DEF Put, MovedOn, TypeOK
<1>3. ASSUME NEW k \in Kinds, UpdateStatus(k) PROVE MovedOn(obj, obj')
  <2>1. CASE obj' = obj
    BY <2>1 DEF MovedOn
  <2>2. CASE obj' = [obj EXCEPT ![k] = [spec |-> obj[k].spec, gen |-> obj[k].gen,
                                        status |-> job[k].status, rv |-> obj[k].rv + 1]]
    BY <2>2 DEF MovedOn, TypeOK
  <2> QED
    BY <1>3, <2>1, <2>2 DEF UpdateStatus
<1>4. obj' = obj => MovedOn(obj, obj')
  BY DEF MovedOn
<1>5. ASSUME NEW k \in Backed, NEW c \in Contents(k) \union {None}, SetBehind(k, c)
      PROVE  obj' = obj
  BY <1>5 DEF SetBehind
<1>6. ASSUME NEW k \in Kinds, Reconcile(k) PROVE obj' = obj
  BY <1>6 DEF Reconcile, store
<1>7. AgentReconcile \/ Registry \/ Reconnect \/ (\E b \in Builders : ReadFails(b)) => obj' = obj
  BY DEF AgentReconcile, Registry, Reconnect, OnAgentChange, Broadcast, WriteSnapshot, Receive,
         ReadPart, ReadFails, store
<1>8. UNCHANGED vars => obj' = obj
  BY DEF vars
<1> QED
  BY <1>1, <1>2, <1>3, <1>4, <1>5, <1>6, <1>7, <1>8 DEF Next, Operator

Objects == [Kinds -> [spec : Specs \union {None}, gen : Nat, status : Statuses, rv : Nat]]

\* A config that follows its hash still does when objects have moved on.
LEMMA StillSound ==
  ASSUME NEW o \in Objects, NEW p \in Objects, MovedOn(o, p), NEW h \in Hashes
  PROVE  /\ NamesVersions(h, o) => NamesVersions(h, p)
         /\ \A q \in [Kinds -> Part], unread \in SUBSET Kinds :
              FollowsHash(h, q, unread, o) => FollowsHash(h, q, unread, p)
<1>1. ASSUME NEW k \in Direct
      PROVE  /\ k \in Kinds /\ o[k].rv \in Nat /\ p[k].rv \in Nat /\ (h # None => h[k] \in Nat)
             /\ \/ p[k].spec = o[k].spec /\ p[k].rv = o[k].rv
                \/ o[k].rv < p[k].rv
  BY <1>1 DEF Direct, Objects, MovedOn, Hashes
<1>2. NamesVersions(h, o) => NamesVersions(h, p)
  BY <1>1 DEF NamesVersions
<1>3. ASSUME NEW q \in [Kinds -> Part], NEW unread \in SUBSET Kinds, FollowsHash(h, q, unread, o)
      PROVE  FollowsHash(h, q, unread, p)
  <2>1. ASSUME NEW k \in Direct, q[k] # None PROVE q[k].rv \in Nat
    BY <1>1, <2>1 DEF Part
  <2> QED
    BY <1>1, <1>3, <2>1 DEF FollowsHash
<1> QED
  BY <1>2, <1>3

\* The configs there are stay sound; new ones are made of sound ones.
LEMMA ConfigsStep == TypeOK /\ ConfigsFollow /\ [Next]_vars => ConfigsFollow'
<1> SUFFICES ASSUME TypeOK, ConfigsFollow, [Next]_vars PROVE ConfigsFollow'
  OBVIOUS
<1> DEFINE NamesNow(h)       == NamesVersions(h, obj')
           SoundNow(c, todo) == SoundConfig(c, todo, obj')
<1>1. MovedOn(obj, obj') /\ obj \in Objects /\ obj' \in Objects
  BY ObjectsMoveOn, TypeStep DEF TypeOK, Objects
<1>2. \A h \in Hashes : NamesVersions(h, obj) => NamesNow(h)
  BY <1>1, StillSound
<1>3. \A c \in Configs, todo \in SUBSET Kinds : SoundConfig(c, todo, obj) => SoundNow(c, todo)
  BY <1>1, StillSound DEF SoundConfig, Configs
<1>4. NamesNow(agent.hash) /\ \A i \in 1..Len(events) : NamesNow(events[i].hash)
  <2>1. agent.hash \in Hashes /\ \A i \in 1..Len(events) : events[i].hash \in Hashes
    <3>1. agent \in Version /\ \A i \in 1..Len(events) : events[i] \in Version
      BY DEF TypeOK
    <3>2. \A v \in Version : v.hash \in Hashes
      BY DEF Version
    <3> QED
      BY <3>1, <3>2
  <2>2. NamesVersions(agent.hash, obj) /\ \A i \in 1..Len(events) : NamesVersions(events[i].hash, obj)
    BY DEF ConfigsFollow
  <2> HIDE DEF NamesNow
  <2> QED
    BY <1>2, <2>1, <2>2
<1>5. \A b \in Builders : SoundNow(build[b], build[b].todo)
  <2>1. ASSUME NEW b \in Builders PROVE SoundNow(build[b], build[b].todo)
    <3>1. build[b].hash \in Hashes /\ build[b].parts \in [Kinds -> Part]
          /\ build[b].todo \union build[b].missed \in SUBSET Kinds
      BY DEF TypeOK
    <3>2. SoundConfig(build[b], build[b].todo, obj)
      BY DEF ConfigsFollow
    <3> QED
      BY <1>1, <3>1, <3>2, StillSound DEF SoundConfig
  <2> QED
    BY <2>1
<1>6. \A i \in 1..Len(stream.frames) : SoundNow(stream.frames[i], {})
  BY <1>3 DEF ConfigsFollow, TypeOK
<1>7. SoundNow(loaded, {})
  BY <1>3 DEF ConfigsFollow, TypeOK
<1>8. SUFFICES /\ NamesNow(agent'.hash)
               /\ \A i \in 1..Len(events') : NamesNow(events'[i].hash)
               /\ \A b \in Builders : SoundNow(build'[b], build'[b].todo)
               /\ \A i \in 1..Len(stream'.frames) : SoundNow(stream'.frames[i], {})
               /\ SoundNow(loaded', {})
  BY DEF ConfigsFollow
<1>9. SoundNow(NoBuild, NoBuild.todo)
  BY DEF SoundConfig, NoBuild, NamesVersions, FollowsHash, Direct
<1>10. ASSUME NEW b \in Builders, NEW v \in Version, NamesNow(v.hash), StartBuild(b, v)
       PROVE  \A c \in Builders : SoundNow(build'[c], build'[c].todo)
  <2> DEFINE r == [todo |-> Kinds, rv |-> v.rv, phase |-> v.phase,
                   hash |-> v.hash, parts |-> [k \in Kinds |-> None], missed |-> {}]
  <2>1. build' = [build EXCEPT ![b] = r]
    BY <1>10 DEF StartBuild
  <2>2. NamesVersions(r.hash, obj')
    BY <1>10
  <2>3. FollowsHash(r.hash, r.parts, r.todo, obj')
    BY DEF FollowsHash, Direct
  <2>4. SoundNow(r, r.todo)
    BY <2>2, <2>3 DEF SoundConfig
  <2> HIDE DEF r
  <2> QED
    BY <1>5, <2>1, <2>4 DEF TypeOK
<1>11. CASE UNCHANGED <<agent, events, build, stream, loaded>>
  BY <1>4, <1>5, <1>6, <1>7, <1>11
<1>12. CASE AgentReconcile
  <2> DEFINE v == [rv |-> agent.rv + 1, phase |-> AgentStatus.phase, hash |-> AgentStatus.hash]
  <2>1. /\ UNCHANGED <<obj, build, stream, loaded>>
        /\ (agent' = agent /\ events' = events) \/ (agent' = v /\ events' = Append(events, v))
    BY <1>12 DEF AgentReconcile
  <2>2. NamesNow(v.hash)
    BY <2>1 DEF AgentStatus, ConfigHash, NamesVersions, Exists, TypeOK, Direct
  <2>3. v \in Version
    BY AgentStatusType DEF Version, TypeOK
  <2> HIDE DEF v
  <2>4. CASE agent' = v /\ events' = Append(events, v)
    <3>1. \A i \in 1..Len(events') : NamesNow(events'[i].hash)
      BY <1>4, <2>2, <2>3, <2>4, AppendElements DEF TypeOK
    <3> QED
      BY <1>5, <1>6, <1>7, <2>1, <2>2, <2>4, <3>1
  <2> QED
    BY <1>4, <1>5, <1>6, <1>7, <2>1, <2>4
<1>13. CASE OnAgentChange
  <2>1. Head(events) \in Version /\ NamesNow(Head(events).hash)
        /\ \A i \in 1..Len(Tail(events)) : NamesNow(Tail(events)[i].hash)
    BY <1>4, <1>13, TailElements DEF OnAgentChange, TypeOK
  <2>2. \A c \in Builders : SoundNow(build'[c], build'[c].todo)
    BY <1>10, <1>13, <2>1 DEF OnAgentChange, Builders
  <2> QED
    BY <1>4, <1>6, <1>7, <1>13, <2>1, <2>2 DEF OnAgentChange
<1>14. CASE Reconnect
  <2>1. \A c \in Builders : SoundNow(build'[c], build'[c].todo)
    BY <1>4, <1>10, <1>14 DEF Reconnect, Builders, TypeOK
  <2> QED
    BY <1>4, <1>7, <1>14, <2>1 DEF Reconnect
<1>15. ASSUME NEW b \in Builders, ReadPart(b) \/ ReadFails(b)
       PROVE  /\ UNCHANGED <<agent, events, stream, loaded>>
              /\ \A c \in Builders : SoundNow(build'[c], build'[c].todo)
  <2> DEFINE h == build[b].hash
             p == build[b].parts
             q == build'[b].parts
             u == build[b].todo \union build[b].missed
             w == build'[b].todo \union build'[b].missed
  <2>1. UNCHANGED <<obj, agent, events, stream, loaded>>
    BY <1>15, ReadStep DEF store
  <2>2. build'[b].hash = h /\ \A c \in Builders : c # b => build'[c] = build[c]
    BY <1>15, ReadStep
  <2>3. PICK k \in build[b].todo :
          /\ build'[b].todo = build[b].todo \ {k}
          /\ \A l \in Kinds : l # k => q[l] = p[l]
          /\ \/ /\ build'[b].missed = build[b].missed
                /\ k \in Direct => q[k] = IF Exists(k) THEN Read(k) ELSE None
             \/ /\ build'[b].missed = build[b].missed \union {k}
                /\ q[k] = None
    BY <1>15, ReadStep
  <2>4. /\ k \in Kinds /\ h \in Hashes /\ p \in [Kinds -> Part]
        /\ NamesVersions(h, obj) /\ FollowsHash(h, p, u, obj)
    BY DEF TypeOK, ConfigsFollow, SoundConfig
  <2>5. /\ u \ {k} \subseteq w /\ Direct \subseteq Kinds
        /\ k \in Direct => \/ q[k] = Read(k) /\ Exists(k)
                           \/ q[k] = None /\ (k \in w \/ ~Exists(k))
    <3>1. Direct \subseteq Kinds
      BY DEF Direct
    <3>2. CASE /\ build'[b].missed = build[b].missed
               /\ k \in Direct => q[k] = IF Exists(k) THEN Read(k) ELSE None
      <4>1. u \ {k} \subseteq w
        BY <2>3, <3>2
      <4>2. k \in Direct => (q[k] = Read(k) /\ Exists(k)) \/ (q[k] = None /\ ~Exists(k))
        BY <3>2
      <4> QED
        BY <3>1, <4>1, <4>2
    <3>3. CASE build'[b].missed = build[b].missed \union {k} /\ q[k] = None
      <4>1. u \ {k} \subseteq w /\ k \in w
        BY <2>3, <3>3
      <4> QED
        BY <3>1, <3>3, <4>1
    <3> QED
      BY <2>3, <3>2, <3>3
  <2> HIDE DEF h, p, q, u, w
  <2>6. ASSUME NEW l \in Direct
        PROVE  /\ q[l] # None => /\ q[l].rv <= obj[l].rv
                                 /\ q[l].rv = obj[l].rv => q[l].spec = obj[l].spec
                                 /\ h # None => h[l] <= q[l].rv
               /\ q[l] = None /\ h # None => l \in w \/ h[l] < obj[l].rv
    <3>1. CASE l # k
      BY <2>3, <2>4, <2>5, <3>1 DEF FollowsHash
    <3>2. CASE l = k
      <4>1. obj[k].rv \in Nat /\ (h # None => h[k] \in Nat)
        BY <2>4, <3>2 DEF TypeOK, Hashes
      <4>2. CASE q[k] = Read(k) /\ Exists(k)
        BY <2>4, <3>2, <4>1, <4>2, NoneIsNoValue DEF Read, NamesVersions, Exists, TypeOK
      <4>3. CASE q[k] = None
        <5>1. k \in w \/ ~Exists(k) \/ (q[k] = Read(k) /\ Exists(k))
          BY <2>5, <3>2, <4>3
        <5>2. CASE k \in w
          BY <3>2, <4>3, <5>2
        <5>3. CASE ~Exists(k)
          <6>1. obj[k].spec = None
            BY <5>3 DEF Exists
          <6>2. h # None => h[k] < obj[k].rv
            BY <2>4, <3>2, <4>1, <6>1 DEF NamesVersions
          <6> QED
            BY <3>2, <4>3, <6>2
        <5> QED
          BY <4>2, <5>1, <5>2, <5>3
      <4> QED
        BY <2>5, <3>2, <4>2, <4>3
    <3> QED
      BY <3>1, <3>2
  <2>7. FollowsHash(h, q, w, obj)
    BY <2>6 DEF FollowsHash
  <2>8. SoundNow(build'[b], build'[b].todo)
    BY <2>1, <2>2, <2>4, <2>7 DEF SoundConfig, h, q, w
  <2> QED
    BY <1>5, <2>1, <2>2, <2>8
<1>16. ASSUME NEW b \in Builders, Finished(b) PROVE SoundNow(Config(b), {}) /\ Config(b) \in Configs
  BY <1>5, <1>16, TypeConfig DEF Finished, SoundConfig, Config
<1>17. CASE Broadcast
  <2>1. SoundNow(Config("informer"), {}) /\ Config("informer") \in Configs
    BY <1>16, <1>17 DEF Broadcast, Builders
  <2>2. \A c \in Builders : SoundNow(build'[c], build'[c].todo)
    BY <1>5, <1>9, <1>17 DEF Broadcast, TypeOK
  <2>3. stream'.frames = Append(stream.frames, Config("informer"))
    BY <1>17 DEF Broadcast, TypeOK
  <2>4. \A i \in 1..Len(stream'.frames) : SoundNow(stream'.frames[i], {})
    BY <1>6, <2>1, <2>3, AppendElements DEF TypeOK
  <2> QED
    BY <1>4, <1>7, <1>17, <2>2, <2>4 DEF Broadcast
<1>18. CASE WriteSnapshot
  <2>1. SoundNow(Config("snapshot"), {})
    BY <1>16, <1>18 DEF WriteSnapshot, Builders
  <2>2. \A c \in Builders : SoundNow(build'[c], build'[c].todo)
    BY <1>5, <1>9, <1>18 DEF WriteSnapshot, TypeOK
  <2>3. SoundNow(loaded', {})
    BY <1>7, <1>18, <2>1 DEF WriteSnapshot, Load
  <2>4. stream'.frames = stream.frames
    BY <1>18 DEF WriteSnapshot, TypeOK
  <2> QED
    BY <1>4, <1>6, <1>18, <2>2, <2>3, <2>4 DEF WriteSnapshot
<1>19. CASE Receive
  <2>1. SoundNow(Head(stream.frames), {})
        /\ \A i \in 1..Len(Tail(stream.frames)) : SoundNow(Tail(stream.frames)[i], {})
    BY <1>6, <1>19, TailElements DEF Receive, TypeOK
  <2>2. SoundNow(loaded', {})
    BY <1>7, <1>19, <2>1 DEF Receive, Load
  <2>3. stream'.frames = Tail(stream.frames)
    BY <1>19 DEF Receive, TypeOK
  <2> QED
    BY <1>4, <1>5, <1>19, <2>1, <2>2, <2>3 DEF Receive
<1>20. ASSUME NEW k \in Kinds,
              \/ Delete(k) \/ (\E s \in Shapes(k) : Put(k, s)) \/ Reconcile(k) \/ UpdateStatus(k)
              \/ \E c \in Contents(k) \union {None} : SetBehind(k, c)
       PROVE  UNCHANGED <<agent, events, build, stream, loaded>>
  BY <1>20 DEF Delete, Put, Reconcile, UpdateStatus, SetBehind, registry
<1>21. UNCHANGED vars => UNCHANGED <<agent, events, build, stream, loaded>>
  BY DEF vars
<1> QED
  BY <1>4, <1>6, <1>7, <1>11, <1>12, <1>13, <1>14, <1>15, <1>17, <1>18, <1>19, <1>20, <1>21
  DEF Next, Operator, Registry, Backed

-----------------------------------------------------------------------------
(* Conditions.                                                             *)

\* A verdict depends on the spec, on what is behind it when the spec names it,
\* and for a Model or a ToolSet on what it holds.
LEMMA SameVerdict ==
  ASSUME TypeOK, NEW k \in Kinds,
         obj'[k].spec = obj[k].spec, obj'[k].gen = obj[k].gen, Exists(k),
         k \in Backed => behind'[k] = behind[k] \/ ~Names(k, obj[k].spec),
         \A n \in Kinds \intersect Nested : Holder[n] = k => (Exists(n)' <=> Exists(n))
  PROVE  Status(k)' = Status(k)
<1>1. CASE k = "skill"
  <2>1. k \in Backed
    BY <1>1 DEF Backed
  <2>2. obj[k].spec \in {"configmap", "both"} <=> Names(k, obj[k].spec)
    BY <1>1 DEF Names
  <2>3. obj[k].spec \in {"configmap", "inline", "both"}
    BY <1>1 DEF TypeOK, Shapes, SkillSpec, Exists
  <2>4. SkillVerdict(obj[k].spec, behind'[k]) = SkillVerdict(obj[k].spec, behind[k])
    <3>1. CASE behind'[k] = behind[k]
      BY <3>1
    <3>2. CASE obj[k].spec = "inline"
      BY <3>2 DEF SkillVerdict
    <3> QED
      BY <2>1, <2>2, <2>3, <3>1, <3>2
  <2> QED
    BY <1>1, <2>4 DEF Status, Verdict
<1>2. CASE k = "credential"
  <2>1. k \in Backed
    BY <1>2 DEF Backed
  <2>2. CredentialVerdict(obj[k].spec, behind'[k]) = CredentialVerdict(obj[k].spec, behind[k])
    <3>1. CASE behind'[k] = behind[k]
      BY <3>1
    <3>2. CASE ~Names(k, obj[k].spec)
      BY <1>2, <3>2 DEF CredentialVerdict
    <3> QED
      BY <2>1, <3>1, <3>2
  <2> QED
    BY <1>2, <2>2 DEF Status, Verdict
<1>3. CASE k \in {"tool", "member"}
  <2>1. k \in Backed
    BY <1>3 DEF Backed
  <2>2. ToolVerdict(obj[k].spec, behind'[k]) = ToolVerdict(obj[k].spec, behind[k])
    <3>1. CASE behind'[k] = behind[k]
      BY <3>1
    <3>2. CASE ~Names(k, obj[k].spec)
      <4>1. obj[k].spec # "mcp"
        BY <1>3, <3>2 DEF Names
      <4> QED
        BY <4>1 DEF ToolVerdict
    <3> QED
      BY <2>1, <3>1, <3>2
  <2> QED
    BY <1>3, <2>2 DEF Status, Verdict
<1>4. CASE k \in {"model", "toolset"}
  <2>1. HolderVerdict(k)' = HolderVerdict(k)
    BY DEF HolderVerdict
  <2> QED
    BY <1>4, <2>1 DEF Status, Verdict
<1>5. CASE k = "toolpolicy"
  BY <1>5 DEF Status, Verdict
<1>6. CASE k \notin {"skill", "credential", "tool", "member", "model", "toolset", "toolpolicy"}
  BY <1>6 DEF Status, Verdict
<1> QED
  BY <1>1, <1>2, <1>3, <1>4, <1>5, <1>6

\* Whatever makes a condition wrong puts the object's own controller on notice.
LEMMA StatusStep == TypeOK /\ StatusAttended /\ [Next]_vars => StatusAttended'
<1> SUFFICES ASSUME TypeOK, StatusAttended, [Next]_vars,
                    NEW k \in Kinds, Exists(k)'
             PROVE  \/ obj'[k].status = Status(k)'
                    \/ k \in queue'
                    \/ /\ job'[k] # None
                       /\ job'[k].rv = obj'[k].rv => job'[k].status = Status(k)'
  BY DEF StatusAttended
<1> DEFINE Attended == \/ obj[k].status = Status(k)
                       \/ k \in queue
                       \/ job[k] # None /\ (job[k].rv = obj[k].rv => job[k].status = Status(k))
<1>1. Exists(k) => Attended
  BY DEF StatusAttended
<1>2. CASE /\ obj'[k] = obj[k] /\ queue \subseteq queue' /\ job'[k] = job[k]
           /\ Status(k)' = Status(k) \/ k \in queue'
  BY <1>1, <1>2 DEF Exists
<1>3. ASSUME NEW l \in Kinds, Delete(l) \/ (\E s \in Shapes(l) : Put(l, s))
      PROVE  \/ Exists(k) /\ obj'[k] = obj[k] /\ Status(k)' = Status(k)
             \/ k \in queue'
  <2>1. queue' = queue \union Wakes(l)
    BY <1>3 DEF Delete, Put
  <2>2. CASE k = l \/ (l \in Nested /\ k = Holder[l])
    BY <2>1, <2>2 DEF Wakes
  <2>3. CASE k # l /\ ~(l \in Nested /\ k = Holder[l])
    <3>1. obj'[k] = obj[k] /\ behind' = behind
      BY <1>3, <2>3 DEF Delete, Put, TypeOK
    <3>2. \A n \in Kinds \intersect Nested : Holder[n] = k => obj'[n] = obj[n]
      BY <1>3, <2>3 DEF Delete, Put, TypeOK
    <3> QED
      BY <3>1, <3>2, SameVerdict DEF Exists
  <2> QED
    BY <2>2, <2>3
<1>4. ASSUME NEW l \in Kinds, Delete(l) \/ (\E s \in Shapes(l) : Put(l, s))
      PROVE  queue \subseteq queue' /\ job' = job
  BY <1>4 DEF Delete, Put
<1>5. ASSUME NEW l \in Backed, NEW c \in Contents(l) \union {None}, SetBehind(l, c)
      PROVE  /\ obj'[k] = obj[k] /\ queue \subseteq queue' /\ job'[k] = job[k]
             /\ Status(k)' = Status(k) \/ k \in queue'
  <2>1. obj' = obj /\ queue \subseteq queue' /\ job' = job
    BY <1>5 DEF SetBehind
  <2>2. CASE k = l /\ Names(k, obj[k].spec)
    BY <1>5, <2>1, <2>2 DEF SetBehind, Woken, Exists
  <2>3. CASE k # l \/ ~Names(k, obj[k].spec)
    <3>1. k \in Backed => behind'[k] = behind[k] \/ ~Names(k, obj[k].spec)
      BY <1>5, <2>3 DEF SetBehind, TypeOK
    <3> QED
      BY <2>1, <3>1, SameVerdict DEF Exists
  <2> QED
    BY <2>1, <2>2, <2>3
<1>6. obj' = obj /\ behind' = behind => Status(k)' = Status(k)
  BY DEF Status, Verdict, HolderVerdict, Exists
<1>7. ASSUME NEW l \in Kinds, Reconcile(l)
      PROVE  \/ k \in queue'
             \/ obj'[k].status = Status(k)'
             \/ /\ job'[k] # None
                /\ job'[k].rv = obj'[k].rv => job'[k].status = Status(k)'
  <2>1. obj' = obj /\ behind' = behind
    BY <1>7 DEF Reconcile, store
  <2>2. CASE l = k
    <3>1. job' = [job EXCEPT ![k] = [rv |-> obj[k].rv, status |-> Status(k)]]
      BY <1>7, <2>1, <2>2 DEF Reconcile, Exists
    <3>2. [rv |-> obj[k].rv, status |-> Status(k)] # None
      <4>1. obj[k].rv \in Nat /\ Status(k) \in Statuses
        BY StatusType DEF TypeOK
      <4>2. [rv |-> obj[k].rv, status |-> Status(k)] \in [rv : Nat, status : Statuses]
        BY <4>1
      <4> QED
        BY <4>2, NoneIsNoValue
    <3> QED
      BY <1>6, <2>1, <3>1, <3>2 DEF TypeOK
  <2>3. CASE l # k
    <3>1. job'[k] = job[k] /\ (k \in queue => k \in queue')
      BY <1>7, <2>3 DEF Reconcile, TypeOK
    <3> QED
      BY <1>1, <1>6, <2>1, <3>1 DEF Exists
  <2> QED
    BY <2>2, <2>3
<1>8. ASSUME NEW l \in Kinds, UpdateStatus(l)
      PROVE  \/ k \in queue'
             \/ obj'[k].status = Status(k)'
             \/ /\ job'[k] # None
                /\ job'[k].rv = obj'[k].rv => job'[k].status = Status(k)'
  <2>1. queue \subseteq queue' /\ behind' = behind
    BY <1>8 DEF UpdateStatus
  <2>2. \A m \in Kinds : /\ obj'[m].spec = obj[m].spec /\ obj'[m].gen = obj[m].gen
                         /\ m # l => obj'[m] = obj[m]
    BY <1>8 DEF UpdateStatus, TypeOK
  <2>3. Status(k)' = Status(k)
    BY <2>1, <2>2, SameVerdict DEF Exists
  <2>4. CASE l # k
    <3>1. job'[k] = job[k]
      BY <1>8, <2>4 DEF UpdateStatus, TypeOK
    <3> QED
      BY <1>1, <2>1, <2>2, <2>3, <2>4, <3>1 DEF Exists
  <2>5. CASE l = k
    <3>1. CASE obj[k].rv # job[k].rv
      BY <1>8, <2>2, <2>5, <3>1 DEF UpdateStatus, Exists
    <3>2. CASE obj[k].rv = job[k].rv /\ obj[k].status = job[k].status
      BY <1>1, <1>8, <2>1, <2>2, <2>3, <2>5, <3>2 DEF UpdateStatus, Exists
    <3>3. CASE obj[k].rv = job[k].rv /\ obj[k].status # job[k].status
      BY <1>8, <2>5, <3>3 DEF UpdateStatus, Wakes
    <3> QED
      BY <3>1, <3>2, <3>3
  <2> QED
    BY <2>4, <2>5
<1>9. AgentReconcile => obj' = obj /\ behind' = behind /\ job' = job /\ queue' = queue \ {"agent"}
  BY DEF AgentReconcile
<1>10. k # "agent"
  BY ConfigBounds DEF AllKinds
<1>11. Registry \/ Reconnect \/ (\E b \in Builders : ReadFails(b)) \/ UNCHANGED vars
         => obj' = obj /\ behind' = behind /\ job' = job /\ queue' = queue
  BY DEF Registry, Reconnect, OnAgentChange, Broadcast, WriteSnapshot, Receive, ReadPart,
         ReadFails, store, vars
<1>12. CASE obj' = obj /\ behind' = behind /\ job' = job /\ (k \in queue => k \in queue')
  BY <1>1, <1>6, <1>12 DEF Exists
<1>13. CASE \E l \in Kinds : Delete(l) \/ (\E s \in Shapes(l) : Put(l, s))
  BY <1>2, <1>3, <1>4, <1>13
<1>14. CASE \E l \in Backed : \E c \in Contents(l) \union {None} : SetBehind(l, c)
  BY <1>2, <1>5, <1>14
<1> QED
  BY <1>7, <1>8, <1>9, <1>10, <1>11, <1>12, <1>13, <1>14 DEF Next, Operator

-----------------------------------------------------------------------------
(* The Agent's versions.                                                   *)

\* Every write to what the Agent names is an event for the Agent.
LEMMA AgentStep == TypeOK /\ AgentAttended /\ [Next]_vars => AgentAttended'
<1> SUFFICES ASSUME TypeOK, AgentAttended, [Next]_vars PROVE AgentAttended'
  OBVIOUS
<1>1. ASSUME \A k \in Direct : obj'[k] = obj[k] PROVE AgentStatus' = AgentStatus
  BY <1>1 DEF AgentStatus, ConfigHash, Exists
<1>2. CASE (\A k \in Direct : obj'[k] = obj[k]) /\ agent' = agent /\ queue' = queue
  BY <1>1, <1>2 DEF AgentAttended
<1>3. CASE "agent" \in queue'
  BY <1>3 DEF AgentAttended
<1>4. ASSUME NEW k \in Kinds, obj' = [obj EXCEPT ![k] = obj'[k]], agent' = agent,
             queue' = queue \union Wakes(k)
      PROVE  AgentAttended'
  <2>1. CASE k \in Direct
    BY <1>3, <1>4, <2>1 DEF Wakes, Direct, Nested
  <2>2. CASE k \notin Direct
    <3>1. \A l \in Direct : obj'[l] = obj[l]
      BY <1>4, <2>2 DEF Direct, TypeOK
    <3>2. "agent" \in queue => "agent" \in queue'
      BY <1>4
    <3> QED
      BY <1>1, <1>4, <3>1, <3>2 DEF AgentAttended
  <2> QED
    BY <2>1, <2>2
<1>5. ASSUME obj' = obj, agent' = agent, "agent" \in queue => "agent" \in queue'
      PROVE  AgentAttended'
  BY <1>1, <1>5 DEF AgentAttended
<1>6. ASSUME NEW k \in Kinds, Delete(k) \/ (\E s \in Shapes(k) : Put(k, s))
      PROVE  AgentAttended'
  BY <1>4, <1>6 DEF Delete, Put, TypeOK
<1>7. ASSUME NEW k \in Backed, NEW c \in Contents(k) \union {None}, SetBehind(k, c)
      PROVE  AgentAttended'
  BY <1>5, <1>7 DEF SetBehind
<1>8. ASSUME NEW k \in Kinds PROVE k # "agent"
  BY ConfigBounds DEF AllKinds
<1>9. ASSUME NEW k \in Kinds, Reconcile(k) PROVE AgentAttended'
  BY <1>5, <1>8, <1>9 DEF Reconcile, store
<1>10. ASSUME NEW k \in Kinds, UpdateStatus(k) PROVE AgentAttended'
  <2>1. agent' = agent
    BY <1>10 DEF UpdateStatus
  <2>2. CASE obj' = obj
    BY <1>5, <1>10, <2>1, <2>2 DEF UpdateStatus
  <2>3. CASE obj' # obj
    BY <1>4, <1>10, <2>1, <2>3 DEF UpdateStatus, TypeOK
  <2> QED
    BY <2>2, <2>3
<1>11. CASE AgentReconcile
  <2>1. AgentStatus' = AgentStatus
    BY <1>1, <1>11 DEF AgentReconcile
  <2>2. agent'.phase = AgentStatus.phase /\ agent'.hash = AgentStatus.hash
    BY <1>11 DEF AgentReconcile
  <2> QED
    BY <2>1, <2>2 DEF AgentAttended
<1>12. Registry \/ Reconnect \/ (\E b \in Builders : ReadFails(b)) \/ UNCHANGED vars
         => obj' = obj /\ agent' = agent /\ queue' = queue
  BY DEF Registry, Reconnect, OnAgentChange, Broadcast, WriteSnapshot, Receive, ReadPart,
         ReadFails, store, vars
<1> QED
  BY <1>5, <1>6, <1>7, <1>9, <1>10, <1>11, <1>12 DEF Next, Operator

\* What the Registry holds of the Agent are versions the Agent has had.
LEMMA VersionsStep == TypeOK /\ VersionsOfAgent /\ [Next]_vars => VersionsOfAgent'
<1> SUFFICES ASSUME TypeOK, VersionsOfAgent, [Next]_vars PROVE VersionsOfAgent'
  OBVIOUS
<1>1. CASE UNCHANGED <<agent, events, build, stream>>
  BY <1>1 DEF VersionsOfAgent
<1>2. CASE AgentReconcile
  <2> DEFINE v == [rv |-> agent.rv + 1, phase |-> AgentStatus.phase, hash |-> AgentStatus.hash]
  <2>1. /\ UNCHANGED <<build, stream>>
        /\ (agent' = agent /\ events' = events) \/ (agent' = v /\ events' = Append(events, v))
    BY <1>2 DEF AgentReconcile
  <2>2. v \in Version /\ v.rv > agent.rv /\ agent.rv \in Nat
    BY AgentStatusType DEF Version, TypeOK
  <2> HIDE DEF v
  <2>3. CASE agent' = v /\ events' = Append(events, v)
    <3>1. \A u \in Version : IsVersion(u, agent) => IsVersion(u, v)
      BY <2>2 DEF IsVersion, Version
    <3>2. \A i \in 1..Len(events') : events'[i].rv > 0 /\ IsVersion(events'[i], v)
      <4>1. v.rv > 0 /\ IsVersion(v, v)
        BY <2>2 DEF IsVersion, Version
      <4>2. \A i \in 1..Len(events) : events[i].rv > 0 /\ IsVersion(events[i], v)
        BY <3>1 DEF VersionsOfAgent, TypeOK
      <4> QED
        BY <2>2, <2>3, <4>1, <4>2, AppendElements DEF TypeOK
    <3>3. \A b \in Builders : IsVersion(build[b], v)
      BY <2>2 DEF IsVersion, VersionsOfAgent, TypeOK, Version
    <3>4. \A i \in 1..Len(stream.frames) : IsVersion(stream.frames[i], v)
      <4>1. \A c \in Configs : IsVersion(c, agent) => IsVersion(c, v)
        BY <2>2 DEF IsVersion, Configs, Version
      <4> QED
        BY <4>1 DEF VersionsOfAgent, TypeOK
    <3>5. v.rv > 0 /\ stream.lastRV <= v.rv
      BY <2>2 DEF VersionsOfAgent, TypeOK, Version
    <3> QED
      BY <2>1, <2>3, <3>2, <3>3, <3>4, <3>5 DEF VersionsOfAgent
  <2> QED
    BY <1>1, <2>1, <2>3
<1>3. ASSUME NEW b \in Builders, NEW v \in Version, v.rv > 0, IsVersion(v, agent), StartBuild(b, v)
      PROVE  \A c \in Builders : IsVersion(build'[c], agent) /\ (build'[c] = NoBuild \/ build'[c].rv > 0)
  BY <1>3 DEF StartBuild, IsVersion, VersionsOfAgent, TypeOK
<1>4. CASE OnAgentChange
  <2>1. Head(events) \in Version /\ Head(events).rv > 0 /\ IsVersion(Head(events), agent)
        /\ \A i \in 1..Len(Tail(events)) : Tail(events)[i].rv > 0 /\ IsVersion(Tail(events)[i], agent)
    BY <1>4, TailElements DEF OnAgentChange, TypeOK, VersionsOfAgent
  <2>2. UNCHANGED <<agent, stream>> /\ events' = Tail(events) /\ StartBuild("informer", Head(events))
    BY <1>4 DEF OnAgentChange
  <2>3. \A c \in Builders : IsVersion(build'[c], agent) /\ (build'[c] = NoBuild \/ build'[c].rv > 0)
    BY <1>3, <2>1, <2>2 DEF Builders
  <2> QED
    BY <2>1, <2>2, <2>3 DEF VersionsOfAgent
<1>5. CASE Reconnect
  <2>1. \A c \in Builders : IsVersion(build'[c], agent) /\ (build'[c] = NoBuild \/ build'[c].rv > 0)
    <3>1. agent \in Version /\ agent.rv > 0 /\ StartBuild("snapshot", agent)
      BY <1>5 DEF Reconnect, TypeOK, VersionsOfAgent
    <3>2. IsVersion(agent, agent)
      BY <3>1 DEF IsVersion, Version
    <3> QED
      BY <1>3, <3>1, <3>2 DEF Builders
  <2>2. stream'.frames = <<>> /\ stream'.lastRV <= agent.rv
    BY <1>5 DEF Reconnect, VersionsOfAgent, TypeOK, Version
  <2> QED
    BY <1>5, <2>1, <2>2 DEF Reconnect, VersionsOfAgent
<1>6. ASSUME NEW b \in Builders, ReadPart(b) \/ ReadFails(b) PROVE VersionsOfAgent'
  <2>1. UNCHANGED <<agent, events, stream>>
    BY <1>6, ReadStep
  <2>2. \A c \in Builders : /\ build'[c].rv = build[c].rv /\ build'[c].phase = build[c].phase
                            /\ build'[c].hash = build[c].hash /\ (c # b => build'[c] = build[c])
    BY <1>6, ReadStep
  <2>3. build[b] # NoBuild
    BY <1>6, ReadStep
  <2> QED
    BY <2>1, <2>2, <2>3 DEF VersionsOfAgent, IsVersion
<1>7. IsVersion(NoBuild, agent)
  BY DEF IsVersion, NoBuild, VersionsOfAgent, TypeOK, Version
<1>8. CASE Broadcast
  <2>1. stream'.frames = Append(stream.frames, Config("informer")) /\ stream'.lastRV = stream.lastRV
    BY <1>8 DEF Broadcast, TypeOK
  <2>2. Config("informer") \in Configs /\ IsVersion(Config("informer"), agent)
    BY TypeConfig DEF Builders, VersionsOfAgent, IsVersion, Config
  <2>3. \A i \in 1..Len(stream'.frames) : IsVersion(stream'.frames[i], agent)
    BY <2>1, <2>2, AppendElements DEF TypeOK, VersionsOfAgent
  <2>4. \A c \in Builders : IsVersion(build'[c], agent) /\ (build'[c] = NoBuild \/ build'[c].rv > 0)
    BY <1>7, <1>8 DEF Broadcast, VersionsOfAgent, TypeOK
  <2> QED
    BY <1>8, <2>1, <2>3, <2>4 DEF Broadcast, VersionsOfAgent
<1>9. CASE WriteSnapshot
  <2>1. stream'.frames = stream.frames /\ stream'.lastRV <= agent.rv
    BY <1>9 DEF WriteSnapshot, VersionsOfAgent, TypeOK, IsVersion, Builders
  <2>2. \A c \in Builders : IsVersion(build'[c], agent) /\ (build'[c] = NoBuild \/ build'[c].rv > 0)
    BY <1>7, <1>9 DEF WriteSnapshot, VersionsOfAgent, TypeOK
  <2> QED
    BY <1>9, <2>1, <2>2 DEF WriteSnapshot, VersionsOfAgent
<1>10. CASE Receive
  <2>1. IsVersion(Head(stream.frames), agent)
        /\ \A i \in 1..Len(Tail(stream.frames)) : IsVersion(Tail(stream.frames)[i], agent)
    BY <1>10, TailElements DEF Receive, TypeOK, VersionsOfAgent
  <2>2. stream'.frames = Tail(stream.frames) /\ stream'.lastRV <= agent.rv
    BY <1>10, <2>1 DEF Receive, VersionsOfAgent, TypeOK, IsVersion
  <2> QED
    BY <1>10, <2>1, <2>2 DEF Receive, VersionsOfAgent
<1>11. ASSUME NEW k \in Kinds,
              \/ Delete(k) \/ (\E s \in Shapes(k) : Put(k, s)) \/ Reconcile(k) \/ UpdateStatus(k)
              \/ \E c \in Contents(k) \union {None} : SetBehind(k, c)
       PROVE  UNCHANGED <<agent, events, build, stream>>
  BY <1>11 DEF Delete, Put, Reconcile, UpdateStatus, SetBehind, registry
<1>12. UNCHANGED vars => UNCHANGED <<agent, events, build, stream>>
  BY DEF vars
<1> QED
  BY <1>1, <1>2, <1>4, <1>5, <1>6, <1>8, <1>9, <1>10, <1>11, <1>12
  DEF Next, Operator, Registry, Backed

\* The Agent's latest version is never dropped on its way to the runtime.
LEMMA LatestStep ==
  TypeOK /\ VersionsOfAgent /\ LatestIsSent /\ [Next]_vars => LatestIsSent'
<1> SUFFICES ASSUME TypeOK, VersionsOfAgent, LatestIsSent, [Next]_vars PROVE LatestIsSent'
  OBVIOUS
<1>1. agent.rv \in Nat /\ agent.rv > 0 /\ stream.lastRV \in Nat /\ stream.lastRV <= agent.rv
  BY DEF TypeOK, Version, VersionsOfAgent
<1>2. CASE UNCHANGED <<agent, events, build, stream, loaded>>
  BY <1>2 DEF LatestIsSent, InFlight
<1>3. CASE AgentReconcile
  <2> DEFINE v == [rv |-> agent.rv + 1, phase |-> AgentStatus.phase, hash |-> AgentStatus.hash]
  <2>1. /\ UNCHANGED <<build, stream, loaded>>
        /\ (agent' = agent /\ events' = events) \/ (agent' = v /\ events' = Append(events, v))
    BY <1>3 DEF AgentReconcile
  <2>2. v \in Version /\ v.rv = agent.rv + 1
    BY AgentStatusType DEF Version, TypeOK
  <2> HIDE DEF v
  <2>3. CASE agent' = v /\ events' = Append(events, v)
    <3>1. Len(events) + 1 \in 1..Len(events') /\ events'[Len(events) + 1] = v
      BY <2>2, <2>3, AppendElements DEF TypeOK
    <3>2. \E i \in 1..Len(events') : events'[i].rv = agent'.rv
      BY <2>3, <3>1
    <3>3. InFlight'
      BY <3>2 DEF InFlight
    <3> QED
      BY <1>1, <2>1, <2>2, <2>3, <3>3 DEF LatestIsSent
  <2> QED
    BY <1>2, <2>1, <2>3
<1>4. CASE OnAgentChange
  <2>1. /\ UNCHANGED <<agent, stream, loaded>> /\ events' = Tail(events) /\ events # <<>>
        /\ build["informer"] = NoBuild
        /\ build'["snapshot"] = build["snapshot"] /\ build'["informer"].rv = Head(events).rv
    BY <1>4 DEF OnAgentChange, StartBuild, TypeOK, Builders
  <2>2. build["informer"].rv # agent.rv
    BY <1>1, <2>1 DEF NoBuild
  <2>3. ASSUME NEW i \in 1..Len(events), events[i].rv = agent.rv PROVE InFlight'
    <3>1. CASE i = 1
      BY <2>1, <2>3, <3>1, TailElements DEF InFlight, TypeOK
    <3>2. CASE i # 1
      <4>1. i - 1 \in 1..Len(Tail(events)) /\ Tail(events)[i - 1] = events[i]
        BY <2>1, <3>2, TailElements DEF TypeOK
      <4>2. \E j \in 1..Len(events') : events'[j].rv = agent'.rv
        BY <2>1, <2>3, <4>1
      <4> QED
        BY <4>2 DEF InFlight
    <3> QED
      BY <3>1, <3>2
  <2>4. InFlight => InFlight'
    BY <2>1, <2>2, <2>3 DEF InFlight
  <2> QED
    BY <2>1, <2>4 DEF LatestIsSent
<1>5. CASE Reconnect
  <2>1. stream'.open = FALSE /\ agent' = agent
    BY <1>5 DEF Reconnect
  <2>2. build'["snapshot"].rv = agent.rv
    BY <1>5 DEF Reconnect, StartBuild, TypeOK, Builders
  <2> QED
    BY <2>1, <2>2 DEF LatestIsSent
<1>6. ASSUME NEW b \in Builders, ReadPart(b) \/ ReadFails(b) PROVE LatestIsSent'
  <2>1. UNCHANGED <<agent, events, stream, loaded>>
    BY <1>6, ReadStep
  <2>2. \A c \in Builders : build'[c].rv = build[c].rv /\ (c # b => build'[c] = build[c])
    BY <1>6, ReadStep
  <2>3. build[b] # NoBuild
    BY <1>6, ReadStep
  <2>4. InFlight' <=> InFlight
    BY <2>1, <2>2 DEF InFlight, Builders
  <2> QED
    BY <2>1, <2>2, <2>3, <2>4 DEF LatestIsSent, Builders
<1>7. CASE Broadcast
  <2>1. /\ UNCHANGED <<agent, events, loaded>>
        /\ build'["snapshot"] = build["snapshot"]
        /\ stream'.frames = Append(stream.frames, Config("informer"))
        /\ stream'.open = stream.open /\ stream'.lastRV = stream.lastRV
    BY <1>7 DEF Broadcast, TypeOK, Builders
  <2>2. Config("informer") \in Configs /\ Config("informer").rv = build["informer"].rv
    BY TypeConfig DEF Builders, Config
  <2>3. ASSUME NEW i \in 1..Len(stream.frames), stream.frames[i].rv = agent.rv PROVE InFlight'
    <3>1. i \in 1..Len(stream'.frames) /\ stream'.frames[i] = stream.frames[i]
      BY <2>1, <2>2, AppendElements DEF TypeOK
    <3> QED
      BY <2>1, <2>3, <3>1 DEF InFlight
  <2>4. ASSUME build["informer"].rv = agent.rv PROVE InFlight'
    <3>1. Len(stream.frames) + 1 \in 1..Len(stream'.frames)
          /\ stream'.frames[Len(stream.frames) + 1] = Config("informer")
      BY <2>1, <2>2, AppendElements DEF TypeOK
    <3>2. \E j \in 1..Len(stream'.frames) : stream'.frames[j].rv = agent'.rv
      BY <2>1, <2>2, <2>4, <3>1
    <3> QED
      BY <3>2 DEF InFlight
  <2>5. InFlight => InFlight'
    BY <2>1, <2>3, <2>4 DEF InFlight
  <2> QED
    BY <2>1, <2>5 DEF LatestIsSent
<1>8. ASSUME NEW c \in Configs, IsVersion(c, agent), c.rv = agent.rv, Load(c), agent' = agent
      PROVE  agent'.phase = "Ready" => loaded'.hash = agent'.hash
  BY <1>8 DEF IsVersion, Load
<1>9. CASE WriteSnapshot
  <2>1. /\ UNCHANGED <<agent, events>>
        /\ build'["snapshot"] = NoBuild /\ build'["informer"] = build["informer"]
        /\ stream'.frames = stream.frames /\ stream'.open = TRUE
        /\ stream'.lastRV = build["snapshot"].rv
        /\ Load(Config("snapshot")) /\ build["snapshot"] # NoBuild
    BY <1>9 DEF WriteSnapshot, Finished, TypeOK, Builders
  <2>2. Config("snapshot") \in Configs /\ IsVersion(Config("snapshot"), agent)
        /\ Config("snapshot").rv = build["snapshot"].rv
    BY TypeConfig DEF Builders, VersionsOfAgent, IsVersion, Config
  <2>3. CASE build["snapshot"].rv = agent.rv
    BY <1>8, <2>1, <2>2, <2>3 DEF LatestIsSent
  <2>4. CASE build["snapshot"].rv # agent.rv
    <3>1. build["snapshot"].rv < agent.rv
      BY <1>1, <2>4 DEF VersionsOfAgent, IsVersion, TypeOK, Builders
    <3>2. InFlight
      BY <2>1, <2>4 DEF LatestIsSent
    <3>3. InFlight'
      BY <2>1, <3>2 DEF InFlight
    <3> QED
      BY <2>1, <3>1, <3>3 DEF LatestIsSent
  <2> QED
    BY <2>3, <2>4
<1>10. CASE Receive
  <2> DEFINE f == Head(stream.frames)
  <2>1. /\ UNCHANGED <<agent, events, build>>
        /\ stream'.frames = Tail(stream.frames) /\ stream'.open = stream.open
        /\ stream.frames # <<>> /\ stream.open
    BY <1>10 DEF Receive, TypeOK
  <2>2. stream.open = TRUE /\ build["snapshot"] = NoBuild /\ NoBuild.rv # agent.rv
    BY <1>1, <2>1 DEF LatestIsSent, NoBuild, TypeOK
  <2>3. f \in Configs /\ f.rv \in Nat /\ IsVersion(f, agent) /\ f.rv <= agent.rv
        /\ f = stream.frames[1]
    <3>1. f = stream.frames[1] /\ 1 \in 1..Len(stream.frames) /\ f \in Configs
      BY <2>1, TailElements DEF TypeOK
    <3>2. IsVersion(f, agent)
      BY <3>1 DEF VersionsOfAgent
    <3> HIDE DEF f
    <3> QED
      BY <3>1, <3>2 DEF IsVersion, Configs
  <2>4. ASSUME f.rv # agent.rv, InFlight PROVE InFlight'
    <3>1. ASSUME NEW i \in 1..Len(stream.frames), stream.frames[i].rv = agent.rv PROVE InFlight'
      <4>1. i # 1
        BY <2>3, <2>4, <3>1
      <4>2. i - 1 \in 1..Len(Tail(stream.frames)) /\ Tail(stream.frames)[i - 1] = stream.frames[i]
        BY <2>1, <4>1, TailElements DEF TypeOK
      <4>3. \E j \in 1..Len(stream'.frames) : stream'.frames[j].rv = agent'.rv
        BY <2>1, <3>1, <4>2
      <4> QED
        BY <4>3 DEF InFlight
    <3> QED
      BY <2>1, <2>4, <3>1 DEF InFlight
  <2>5. CASE f.rv > stream.lastRV
    <3>1. Load(f) /\ stream'.lastRV = f.rv
      BY <1>10, <2>5 DEF Receive, TypeOK
    <3>2. CASE f.rv = agent.rv
      BY <1>8, <2>1, <2>2, <2>3, <3>1, <3>2 DEF LatestIsSent
    <3>3. CASE f.rv # agent.rv
      <4>1. stream.lastRV # agent.rv
        BY <1>1, <2>3, <2>5, <3>3
      <4>2. InFlight
        BY <2>2, <4>1 DEF LatestIsSent
      <4> QED
        BY <1>1, <2>1, <2>2, <2>3, <2>4, <3>1, <3>3, <4>2 DEF LatestIsSent
    <3> QED
      BY <3>2, <3>3
  <2>6. CASE ~(f.rv > stream.lastRV)
    <3>1. loaded' = loaded /\ stream'.lastRV = stream.lastRV
      BY <1>10, <2>6 DEF Receive, TypeOK
    <3>2. CASE stream.lastRV = agent.rv
      BY <1>1, <2>1, <2>2, <3>1, <3>2 DEF LatestIsSent
    <3>3. CASE stream.lastRV < agent.rv
      <4>1. f.rv # agent.rv
        BY <1>1, <2>3, <2>6, <3>3
      <4>2. InFlight
        BY <1>1, <2>2, <3>3 DEF LatestIsSent
      <4> QED
        BY <2>1, <2>2, <2>4, <3>1, <3>3, <4>1, <4>2 DEF LatestIsSent
    <3> QED
      BY <1>1, <3>2, <3>3
  <2> QED
    BY <2>5, <2>6
<1>11. ASSUME NEW k \in Kinds,
              \/ Delete(k) \/ (\E s \in Shapes(k) : Put(k, s)) \/ Reconcile(k) \/ UpdateStatus(k)
              \/ \E c \in Contents(k) \union {None} : SetBehind(k, c)
       PROVE  UNCHANGED <<agent, events, build, stream, loaded>>
  BY <1>11 DEF Delete, Put, Reconcile, UpdateStatus, SetBehind, registry
<1>12. UNCHANGED vars => UNCHANGED <<agent, events, build, stream, loaded>>
  BY DEF vars
<1> QED
  BY <1>2, <1>3, <1>4, <1>5, <1>6, <1>7, <1>9, <1>10, <1>11, <1>12
  DEF Next, Operator, Registry, Backed

-----------------------------------------------------------------------------
(* The theorems.                                                           *)

IndInv == /\ TypeOK /\ ConfigsFollow /\ StatusAttended
          /\ AgentAttended /\ VersionsOfAgent /\ LatestIsSent

LEMMA IndInit == Init => IndInv
<1> SUFFICES ASSUME Init PROVE IndInv
  OBVIOUS
<1>1. TypeOK
  BY TypeInit
<1>2. \A k \in Kinds : /\ obj[k].spec = FirstShape(k) /\ obj[k].gen = 1 /\ obj[k].rv = 1
                      /\ obj[k].status = << IF k = "skill" THEN "FromConfigMap" ELSE "Ready", 1 >>
                      /\ FirstShape(k) # None
  <2>1. \A k \in Kinds : /\ obj[k].spec = FirstShape(k) /\ obj[k].gen = 1 /\ obj[k].rv = 1
                        /\ obj[k].status = << IF k = "skill" THEN "FromConfigMap" ELSE "Ready", 1 >>
    BY DEF Init, FirstObject
  <2>2. ASSUME NEW k \in Kinds PROVE FirstShape(k) \in Specs
    <3>1. FirstShape(k) \in Shapes(k)
      BY DEF FirstShape, Shapes, SkillSpec, ToolSpec, ToolPolicySpec, CredentialSpec
    <3> QED
      BY <3>1, ShapesAreSpecs
  <2> QED
    BY <2>1, <2>2, NoneIsNoValue
<1>3. \A k \in Kinds : Exists(k)
  BY <1>2 DEF Exists
<1>4. NamesVersions(FirstHash, obj)
  <2>1. ASSUME NEW k \in Direct
        PROVE  FirstHash[k] <= obj[k].rv /\ obj[k].spec # None
    <3>1. k \in Kinds /\ FirstHash[k] = 1
      BY DEF Direct, FirstHash
    <3>2. obj[k].rv = 1 /\ Exists(k)
      BY <1>2, <1>3, <3>1
    <3> QED
      BY <3>1, <3>2 DEF Exists
  <2> QED
    BY <2>1 DEF NamesVersions
<1>5. SoundConfig(loaded, {}, obj)
  <2>1. \A k \in Direct : loaded.parts[k] = Read(k) /\ k \in Kinds /\ loaded.hash[k] = 1
    BY DEF Init, Direct, FirstHash
  <2>2. ASSUME NEW k \in Kinds PROVE Read(k) # None /\ Read(k).rv = 1 /\ Read(k).spec = obj[k].spec
    <3>1. Read(k) \in [spec : Specs, rv : Nat]
      BY <1>1, <1>3, ShapesAreSpecs DEF Read, Exists, TypeOK
    <3> QED
      BY <1>2, <3>1, NoneIsNoValue DEF Read
  <2>3. FollowsHash(loaded.hash, loaded.parts, {}, obj)
    <3>1. ASSUME NEW k \in Direct
          PROVE  /\ loaded.parts[k] # None /\ loaded.parts[k].rv = 1 /\ loaded.hash[k] = 1
                 /\ loaded.parts[k].spec = obj[k].spec /\ obj[k].rv = 1
      <4>1. k \in Kinds /\ loaded.parts[k] = Read(k) /\ loaded.hash[k] = 1
        BY <2>1
      <4>2. obj[k].rv = 1
        BY <1>2, <4>1
      <4> QED
        BY <2>2, <4>1, <4>2
    <3> QED
      BY <3>1 DEF FollowsHash
  <2> QED
    BY <1>4, <2>3 DEF SoundConfig, Init
<1>6. \A b \in Builders : SoundConfig(build[b], build[b].todo, obj)
  BY DEF Init, SoundConfig, NoBuild, NamesVersions, FollowsHash, Direct
<1>7. ConfigsFollow
  <2>1. events = <<>> /\ stream.frames = <<>> /\ agent.hash = FirstHash
    BY DEF Init
  <2> QED
    BY <1>4, <1>5, <1>6, <2>1 DEF ConfigsFollow
<1>8. ASSUME NEW k \in Kinds PROVE obj[k].status = Status(k)
  <2>1. obj[k].spec = FirstShape(k) /\ obj[k].gen = 1
        /\ obj[k].status = << IF k = "skill" THEN "FromConfigMap" ELSE "Ready", 1 >>
    BY <1>2
  <2>2. k \in Backed => behind[k] = "v1"
    BY DEF Init
  <2>3. "v1" # None
    BY NoneIsNoValue
  <2>4. Verdict(k) = IF k = "skill" THEN "FromConfigMap" ELSE "Ready"
    <3>1. CASE k = "skill"
      BY <2>1, <2>2, <2>3, <3>1 DEF Verdict, SkillVerdict, FirstShape, Backed
    <3>2. CASE k = "credential"
      BY <2>1, <2>2, <2>3, <3>2 DEF Verdict, CredentialVerdict, FirstShape, Backed, Names
    <3>3. CASE k \in {"tool", "member"}
      BY <2>1, <2>2, <2>3, <3>3 DEF Verdict, ToolVerdict, FirstShape, Backed
    <3>4. CASE k \in {"model", "toolset"}
      BY <1>3, <3>4 DEF Verdict, HolderVerdict
    <3>5. CASE k = "toolpolicy"
      BY <2>1, <3>5 DEF Verdict, ToolPolicyVerdict, FirstShape
    <3>6. CASE k \notin {"skill", "credential", "tool", "member", "model", "toolset", "toolpolicy"}
      BY <3>6 DEF Verdict
    <3> QED
      BY <3>1, <3>2, <3>3, <3>4, <3>5, <3>6
  <2> QED
    BY <2>1, <2>4 DEF Status
<1>9. AgentAttended
  BY <1>2, <1>3 DEF AgentAttended, AgentStatus, ConfigHash, FirstHash, Init, Direct
<1>10. VersionsOfAgent
  BY DEF VersionsOfAgent, IsVersion, Init, NoBuild
<1>11. LatestIsSent
  BY DEF LatestIsSent, Init, Builders
<1> QED
  BY <1>1, <1>7, <1>8, <1>9, <1>10, <1>11 DEF IndInv, StatusAttended

\* The inductive invariant holds.
THEOREM IndInvHolds == Spec => []IndInv
<1>1. IndInv /\ [Next]_vars => IndInv'
  BY TypeStep, ConfigsStep, StatusStep, AgentStep, VersionsStep, LatestStep DEF IndInv
<1> QED
  BY <1>1, IndInit, PTL DEF Spec

\* No config the runtime loads holds an object older than the version its hash
\* names, although buildConfig reads each object at a time of its own.
THEOREM HashIsNeverAhead == Spec => []HashIsNotAhead
<1>1. IndInv => HashIsNotAhead
  <2> SUFFICES ASSUME IndInv, NEW k \in Direct, loaded.parts[k] # None
               PROVE  loaded.parts[k].rv >= loaded.hash[k]
    BY DEF HashIsNotAhead
  <2>1. loaded.hash # None /\ loaded.hash \in Hashes /\ loaded.parts \in [Kinds -> Part] /\ k \in Kinds
    BY DEF IndInv, TypeOK, HashFitsPhase, Configs, Direct
  <2>2. loaded.hash[k] <= loaded.parts[k].rv
    BY <2>1 DEF IndInv, ConfigsFollow, SoundConfig, FollowsHash
  <2>3. loaded.hash[k] \in Nat /\ loaded.parts[k].rv \in Nat
    BY <2>1 DEF Hashes, Part
  <2> QED
    BY <2>2, <2>3
<1> QED
  BY <1>1, IndInvHolds, PTL

\* At rest every Ready condition is the one the spec and the object behind it
\* call for now, whatever changed between a controller's read and its write.
THEOREM StatusConverges == Spec => []StatusIsCurrent
<1>1. IndInv => StatusIsCurrent
  BY DEF IndInv, StatusAttended, StatusIsCurrent, AtRest
<1> QED
  BY <1>1, IndInvHolds, PTL

\* When all is delivered and the Agent is Ready, the runtime runs the specs
\* there are now of everything the Agent names, but for what could not be read
\* when the config was built.
THEOREM RuntimeConverges == Spec => []RuntimeRunsCurrentConfig
<1>1. IndInv => RuntimeRunsCurrentConfig
  <2> SUFFICES ASSUME IndInv, Delivered, agent.phase = "Ready", NEW k \in Direct
               PROVE  IF loaded.parts[k] = None THEN k \in loaded.missed
                                                ELSE loaded.parts[k].spec = obj[k].spec
    BY DEF RuntimeRunsCurrentConfig
  <2>1. agent.hash = ConfigHash
    BY DEF IndInv, AgentAttended, AgentStatus, Delivered, AtRest
  <2>2. loaded.hash = agent.hash
    <3>1. \A b \in Builders : build[b].rv = 0
      BY DEF Delivered, NoBuild
    <3>2. agent.rv # 0
      BY DEF IndInv, VersionsOfAgent, TypeOK, Version
    <3>3. ~InFlight /\ build["snapshot"].rv # agent.rv
      BY <3>1, <3>2 DEF InFlight, Delivered, Builders
    <3> QED
      BY <3>3 DEF IndInv, LatestIsSent
  <2>3. k \in Kinds /\ obj[k].rv \in Nat /\ loaded.hash[k] = obj[k].rv
    BY <2>1, <2>2 DEF ConfigHash, IndInv, TypeOK, Direct
  <2>4. loaded.hash # None
    BY DEF IndInv, TypeOK, HashFitsPhase
  <2>5. FollowsHash(loaded.hash, loaded.parts, {} \union loaded.missed, obj)
    BY DEF IndInv, ConfigsFollow, SoundConfig
  <2>6. CASE loaded.parts[k] = None
    BY <2>3, <2>4, <2>5, <2>6 DEF FollowsHash
  <2>7. CASE loaded.parts[k] # None
    <3>1. loaded.parts[k].rv \in Nat
      BY <2>3, <2>7 DEF IndInv, TypeOK, Configs, Part
    <3> QED
      BY <2>3, <2>4, <2>5, <2>7, <3>1 DEF FollowsHash
  <2> QED
    BY <2>6, <2>7
<1> QED
  BY <1>1, IndInvHolds, PTL
=============================================================================
