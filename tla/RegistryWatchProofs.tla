------------------------ MODULE RegistryWatchProofs ------------------------
(***************************************************************************)
(* Proofs about RegistryWatch, for every set of Agents and clients, every  *)
(* channel capacity and every bound on the API server's revision.          *)
(***************************************************************************)
EXTENDS RegistryWatch, TLAPS

-----------------------------------------------------------------------------
(* Type correctness.                                                       *)

\* The initial state has the right types.
LEMMA TypeInit == Init => TypeOK
BY AgentOfAssumption, BoundsAssumption DEF Init, TypeOK

\* Every step of the Registry, the API server or a client keeps the types, and
\* no channel grows past its capacity.
LEMMA TypeStep == TypeOK /\ [Next]_vars => TypeOK'
<1> SUFFICES ASSUME TypeOK, [Next]_vars PROVE TypeOK'
  OBVIOUS
<1> USE AgentOfAssumption, BoundsAssumption DEF TypeOK
<1>1. ASSUME NEW k \in Agents, PutAgent(k) PROVE TypeOK'
  BY <1>1 DEF PutAgent, connVars
<1>2. ASSUME NEW k \in Agents, DeleteAgent(k) PROVE TypeOK'
  BY <1>2 DEF DeleteAgent, connVars
<1>3. ASSUME NEW k \in Agents, Relist(k) PROVE TypeOK'
  BY <1>3 DEF Relist, connVars, storeVars
<1>4. ASSUME NEW k \in Agents, Resync(k) PROVE TypeOK'
  BY <1>4 DEF Resync, connVars, storeVars
<1>5. ASSUME NEW k \in Agents, OnAgentChange(k) PROVE TypeOK'
  BY <1>5 DEF OnAgentChange, connVars, storeVars
<1>6. ASSUME Broadcast PROVE TypeOK'
  <2> PICK f \in handling : Broadcast!(f)
    BY <1>6 DEF Broadcast
  <2> USE DEF Subscribers, Full, storeVars
  <2>1. f[2] \in Nat
    OBVIOUS
  <2>2. ch' \in [Clients -> Seq(Nat)]
    BY <2>1
  <2>3. ASSUME NEW c \in Clients PROVE Len(ch'[c]) <= Cap
    <3>1. CASE c \in Subscribers(f[1]) /\ ~Full(c)
      <4>1. ch'[c] = Append(ch[c], f[2])
        BY <3>1
      <4>2. Len(ch'[c]) = Len(ch[c]) + 1 /\ Len(ch[c]) \in Nat
        BY <4>1, <2>1
      <4> QED
        BY <3>1, <4>2
    <3>2. CASE ~(c \in Subscribers(f[1]) /\ ~Full(c))
      BY <3>2
    <3> QED
      BY <3>1, <3>2
  <2> QED
    BY <2>2, <2>3
<1>7. ASSUME NEW c \in Clients, Subscribe(c) PROVE TypeOK'
  BY <1>7 DEF Subscribe, storeVars
<1>8. ASSUME NEW c \in Clients, BuildConfig(c) PROVE TypeOK'
  <2>1. snap' \in [Clients -> Nat]
    <3>1. obj[AgentOf[c]] \in Nat
      OBVIOUS
    <3>2. CASE snap' = [snap EXCEPT ![c] = obj[AgentOf[c]]]
      BY <3>1, <3>2
    <3>3. CASE snap' = [snap EXCEPT ![c] = 0]
      BY <3>3
    <3> QED
      BY <1>8, <3>2, <3>3, Zenon DEF BuildConfig
  <2>2. lost' \subseteq Clients
    BY <1>8 DEF BuildConfig
  <2> QED
    BY <1>8, <2>1, <2>2 DEF BuildConfig, storeVars
<1>9. ASSUME NEW c \in Clients, WriteSnapshot(c) PROVE TypeOK'
  <2> USE <1>9 DEF WriteSnapshot, WriteSSE, storeVars
  <2>1. held' \in [Clients -> Nat]
    OBVIOUS
  <2>2. lastRV' \in [Clients -> Nat]
    OBVIOUS
  <2> QED
    BY <2>1, <2>2
<1>10. ASSUME NEW c \in Clients, Receive(c) PROVE TypeOK'
  <2> USE <1>10 DEF Receive, WriteSSE, storeVars
  <2>1. ch[c] \in Seq(Nat) /\ ch[c] # <<>>
    OBVIOUS
  <2>2. /\ Head(ch[c]) \in Nat /\ Tail(ch[c]) \in Seq(Nat)
        /\ Len(Tail(ch[c])) = Len(ch[c]) - 1
    BY <2>1
  <2>3. held' \in [Clients -> Nat] /\ lastRV' \in [Clients -> Nat]
    BY <2>2
  <2>4. ch' \in [Clients -> Seq(Nat)]
    BY <2>2
  <2>5. ASSUME NEW d \in Clients PROVE Len(ch'[d]) <= Cap
    BY <2>2
  <2> QED
    BY <2>3, <2>4, <2>5
<1>11. ASSUME NEW c \in Clients, Hangup(c) PROVE TypeOK'
  BY <1>11 DEF Hangup, storeVars
<1>12. ASSUME NEW c \in Clients, Unsubscribe(c) PROVE TypeOK'
  BY <1>12 DEF Unsubscribe, storeVars
<1>13. ASSUME NEW c \in Clients, HandleConfig(c) PROVE TypeOK'
  BY <1>13 DEF HandleConfig, storeVars, connVars
<1>14. ASSUME Restart PROVE TypeOK'
  BY <1>14 DEF Restart, Listed, storeVars
<1>15. CASE UNCHANGED vars
  BY <1>15 DEF vars
<1> QED
  BY <1>1, <1>2, <1>3, <1>4, <1>5, <1>6, <1>7, <1>8, <1>9, <1>10, <1>11,
     <1>12, <1>13, <1>14, <1>15 DEF Next

\* The streaming half of the Registry keeps every variable in its type, and
\* every channel within its capacity.
THEOREM TypeCorrect == Spec => []TypeOK
BY TypeInit, TypeStep, PTL DEF Spec

-----------------------------------------------------------------------------
(* Channels.                                                               *)

\* Taking a frame out of a channel shifts the others by one.
LEMMA TailElements ==
  ASSUME NEW s \in Seq(Nat), s # <<>>, NEW i \in 1..Len(Tail(s))
  PROVE  Tail(s)[i] = s[i + 1] /\ i + 1 \in 1..Len(s)
OBVIOUS

-----------------------------------------------------------------------------
(* The inductive invariant, one conjunct at a time.                        *)

\* subscribe and unsubscribe keep the hub's map in step with the connections.
LEMMA SubscribersStep ==
  TypeOK /\ SubscribersAreConnections /\ [Next]_vars
    => SubscribersAreConnections'
<1> SUFFICES ASSUME TypeOK, SubscribersAreConnections, [Next]_vars
             PROVE SubscribersAreConnections'
  OBVIOUS
<1> USE DEF TypeOK, SubscribersAreConnections
<1>1. CASE UNCHANGED <<subs, pc>>
  BY <1>1
<1>2. ASSUME NEW c \in Clients, Subscribe(c) PROVE SubscribersAreConnections'
  BY <1>2 DEF Subscribe
<1>3. ASSUME NEW c \in Clients, BuildConfig(c) PROVE SubscribersAreConnections'
  <2>1. subs' = subs /\ pc' = [pc EXCEPT ![c] = "snapshot"] /\ pc[c] # "idle"
    BY <1>3 DEF BuildConfig
  <2> QED
    BY <2>1
<1>4. ASSUME NEW c \in Clients, WriteSnapshot(c)
      PROVE SubscribersAreConnections'
  <2>1. subs' = subs /\ pc' = [pc EXCEPT ![c] = "streaming"] /\ pc[c] # "idle"
    BY <1>4 DEF WriteSnapshot
  <2> QED
    BY <2>1
<1>5. ASSUME NEW c \in Clients, Unsubscribe(c) PROVE SubscribersAreConnections'
  BY <1>5 DEF Unsubscribe
<1>6. CASE Restart
  BY <1>6 DEF Restart
<1>7. \/ UNCHANGED <<subs, pc>>
      \/ Restart
      \/ \E c \in Clients : \/ Subscribe(c) \/ BuildConfig(c)
                            \/ WriteSnapshot(c) \/ Unsubscribe(c)
  BY DEF Next, vars, connVars, PutAgent, DeleteAgent, Relist, Resync,
         OnAgentChange, Broadcast, Receive, Hangup, HandleConfig
<1> QED
  BY <1>1, <1>2, <1>3, <1>4, <1>5, <1>6, <1>7

\* A write of the Agent is newer than every version of it there was.
LEMMA NeverAheadStore ==
  ASSUME TypeOK, NeverAhead, NEW k \in Agents, PutAgent(k) \/ DeleteAgent(k)
  PROVE  NeverAhead'
<1> USE AgentOfAssumption, BoundsAssumption DEF TypeOK
<1>1. rev' = rev + 1 /\ rev \in Nat
  BY DEF PutAgent, DeleteAgent
<1>2. /\ obj' = [obj EXCEPT ![k] = obj'[k]] /\ obj'[k] \in {0, rev + 1}
      /\ \A l \in Agents : pending'[l] \subseteq pending[l] \union {rev + 1}
      /\ \A l \in Agents : l # k => pending'[l] = pending[l]
  BY DEF PutAgent, DeleteAgent
<1>3. UNCHANGED <<handling, ch, snap, lastRV, held>>
  BY DEF PutAgent, DeleteAgent, connVars
<1>4. \A l \in Agents : /\ Newest(l) \in Nat /\ Newest(l) <= rev
                        /\ Newest(l) <= Newest(l)' /\ Newest(l)' \in Nat
  BY <1>1, <1>2 DEF Newest, NeverAhead
<1>5. Newest(k)' = rev + 1
  BY <1>1, <1>2 DEF Newest
<1>6. \A l \in Agents : obj'[l] <= rev'
  <2> TAKE l \in Agents
  <2>1. CASE l = k
    BY <2>1, <1>1, <1>2
  <2>2. CASE l # k
    <3>1. obj'[l] = obj[l] /\ obj[l] \in Nat /\ obj[l] <= rev
      BY <2>2, <1>2 DEF NeverAhead
    <3> QED
      BY <3>1, <1>1
  <2> QED
    BY <2>1, <2>2
<1>7. \A l \in Agents : \A v \in pending'[l] : v <= Newest(l)'
  <2> TAKE l \in Agents
  <2> TAKE v \in pending'[l]
  <2>1. CASE v = rev + 1 /\ l = k
    BY <2>1, <1>5
  <2>2. CASE v \in pending[l]
    BY <2>2, <1>4 DEF NeverAhead
  <2> QED
    BY <2>1, <2>2, <1>2
<1>8. \A f \in handling' : f[2] <= Newest(f[1])'
  <2> TAKE f \in handling'
  <2>1. f[1] \in Agents /\ f[2] \in Nat /\ f[2] <= Newest(f[1])
    BY <1>3 DEF NeverAhead
  <2> QED
    BY <2>1, <1>4
<1>9. ASSUME NEW c \in Clients
      PROVE  /\ \A i \in 1..Len(ch'[c]) : ch'[c][i] <= Newest(AgentOf[c])'
             /\ snap'[c] <= Newest(AgentOf[c])'
             /\ lastRV'[c] <= Newest(AgentOf[c])'
             /\ held'[c] <= Newest(AgentOf[c])'
  <2> DEFINE n == Newest(AgentOf[c])
             m == Newest(AgentOf[c])'
  <2>1. n \in Nat /\ m \in Nat /\ n <= m
    BY <1>4
  <2>2. snap[c] <= n /\ lastRV[c] <= n /\ held[c] <= n
    BY DEF NeverAhead
  <2>3. ASSUME NEW i \in 1..Len(ch[c]) PROVE ch[c][i] <= n /\ ch[c][i] \in Nat
    BY DEF NeverAhead
  <2> HIDE DEF n, m
  <2>4. \A i \in 1..Len(ch[c]) : ch[c][i] <= m
    BY <2>1, <2>3
  <2>5. snap[c] <= m /\ lastRV[c] <= m /\ held[c] <= m
    BY <2>1, <2>2
  <2> QED
    BY <2>4, <2>5, <1>3 DEF m
<1> QED
  BY <1>6, <1>7, <1>8, <1>9 DEF NeverAhead

\* With the store unchanged every version of an Agent stays below its newest.
LEMMA NeverAheadQuiet ==
  ASSUME TypeOK, NeverAhead, UNCHANGED <<rev, obj>>,
         \A k \in Agents : pending'[k] \subseteq pending[k] \union Listed(k),
         \A f \in handling' : f \in handling
             \/ \E k \in Agents : \E v \in pending[k] : f = <<k, v>>,
         \A c \in Clients : \A i \in 1..Len(ch'[c]) : ch'[c][i] <= Newest(AgentOf[c]),
         \A c \in Clients : snap'[c] <= Newest(AgentOf[c]),
         \A c \in Clients : lastRV'[c] <= Newest(AgentOf[c]),
         \A c \in Clients : held'[c] <= Newest(AgentOf[c])
  PROVE  NeverAhead'
<1> USE AgentOfAssumption DEF TypeOK
<1>1. \A k \in Agents : Newest(k)' = Newest(k)
  BY DEF Newest
<1>2. \A k \in Agents : \A v \in pending'[k] : v <= Newest(k)'
  <2> TAKE k \in Agents
  <2> TAKE v \in pending'[k]
  <2>1. CASE v \in pending[k]
    BY <2>1, <1>1 DEF NeverAhead
  <2>2. CASE v \in Listed(k)
    BY <2>2, <1>1 DEF Listed, Newest
  <2> QED
    BY <2>1, <2>2
<1>3. \A f \in handling' : f[2] <= Newest(f[1])'
  <2> TAKE f \in handling'
  <2>1. CASE f \in handling
    BY <2>1, <1>1 DEF NeverAhead
  <2>2. ASSUME NEW k \in Agents, NEW v \in pending[k], f = <<k, v>>
        PROVE  f[2] <= Newest(f[1])'
    BY <2>2, <1>1 DEF NeverAhead
  <2> QED
    BY <2>1, <2>2
<1> QED
  BY <1>1, <1>2, <1>3 DEF NeverAhead

\* No step lets a version overtake the API server.
LEMMA NeverAheadStep ==
  TypeOK /\ NeverAhead /\ [Next]_vars => NeverAhead'
<1> SUFFICES ASSUME TypeOK, NeverAhead, [Next]_vars PROVE NeverAhead'
  OBVIOUS
<1> USE AgentOfAssumption, BoundsAssumption DEF TypeOK
<1> DEFINE N(c) == Newest(AgentOf[c])
<1>0. \A c \in Clients :
        /\ N(c) \in Nat /\ obj[AgentOf[c]] <= N(c) /\ 0 <= N(c)
        /\ snap[c] <= N(c) /\ lastRV[c] <= N(c) /\ held[c] <= N(c)
        /\ \A i \in 1..Len(ch[c]) : ch[c][i] <= N(c)
  BY DEF NeverAhead, Newest
<1> HIDE DEF N
<1>1. ASSUME NEW k \in Agents, PutAgent(k) \/ DeleteAgent(k) PROVE NeverAhead'
  BY <1>1, NeverAheadStore
<1>2. ASSUME NEW k \in Agents, Relist(k) \/ Resync(k) \/ OnAgentChange(k)
      PROVE NeverAhead'
  <2>1. /\ UNCHANGED <<rev, obj, ch, snap, lastRV, held>>
        /\ \A l \in Agents : pending'[l] \subseteq pending[l] \union Listed(l)
    <3>1. CASE Relist(k)
      BY <3>1 DEF Relist, connVars, storeVars
    <3>2. CASE Resync(k)
      BY <3>2 DEF Resync, Listed, connVars, storeVars
    <3>3. CASE OnAgentChange(k)
      BY <3>3 DEF OnAgentChange, connVars, storeVars
    <3> QED
      BY <1>2, <3>1, <3>2, <3>3
  <2>2. \A f \in handling' : f \in handling
             \/ \E l \in Agents : \E v \in pending[l] : f = <<l, v>>
    BY <1>2 DEF Relist, Resync, OnAgentChange
  <2> QED
    BY <1>0, <2>1, <2>2, NeverAheadQuiet DEF N
<1>3. ASSUME Broadcast PROVE NeverAhead'
  <2> PICK f \in handling : Broadcast!(f)
    BY <1>3 DEF Broadcast
  <2>1. f[2] \in Nat /\ f[2] <= Newest(f[1])
    BY DEF NeverAhead
  <2>2. ASSUME NEW c \in Clients, NEW i \in 1..Len(ch'[c])
        PROVE  ch'[c][i] <= N(c)
    <3>1. CASE ch'[c] = ch[c]
      BY <3>1, <1>0
    <3>2. CASE AgentOf[c] = f[1] /\ ch'[c] = Append(ch[c], f[2])
      <4>1. ch[c] \in Seq(Nat) /\ Len(ch'[c]) = Len(ch[c]) + 1
        BY <3>2, <2>1
      <4>2. CASE i \in 1..Len(ch[c])
        BY <3>2, <4>1, <4>2, <1>0, <2>1
      <4>3. CASE i = Len(ch[c]) + 1
        BY <3>2, <4>1, <4>3, <2>1 DEF N
      <4> QED
        BY <4>1, <4>2, <4>3
    <3> QED
      BY <3>1, <3>2 DEF Subscribers
  <2>3. UNCHANGED <<rev, obj, pending, snap, lastRV, held>> /\ handling' = {}
    BY DEF storeVars
  <2> QED
    BY <1>0, <2>2, <2>3, NeverAheadQuiet DEF N
<1>4. ASSUME NEW c \in Clients,
             Subscribe(c) \/ Hangup(c) \/ Unsubscribe(c) \/ HandleConfig(c)
      PROVE NeverAhead'
  <2>1. UNCHANGED <<rev, obj, pending, handling, snap>>
    BY <1>4 DEF Subscribe, Hangup, Unsubscribe, HandleConfig, storeVars, connVars
  <2>2. /\ \A d \in Clients : ch'[d] = ch[d] \/ ch'[d] = <<>>
        /\ \A d \in Clients : lastRV'[d] \in {lastRV[d], 0}
        /\ \A d \in Clients : held'[d] \in {held[d], obj[AgentOf[d]]}
    BY <1>4 DEF Subscribe, Hangup, Unsubscribe, HandleConfig, storeVars, connVars
  <2>3. \A d \in Clients : /\ lastRV'[d] <= N(d) /\ held'[d] <= N(d)
                           /\ \A i \in 1..Len(ch'[d]) : ch'[d][i] <= N(d)
    <3> TAKE d \in Clients
    <3>1. lastRV'[d] <= N(d) /\ held'[d] <= N(d)
      BY <2>2, <1>0
    <3>2. CASE ch'[d] = ch[d]
      BY <3>1, <3>2, <1>0
    <3>3. CASE ch'[d] = <<>>
      BY <3>1, <3>3
    <3> QED
      BY <2>2, <3>2, <3>3
  <2> QED
    BY <1>0, <2>1, <2>3, NeverAheadQuiet DEF N
<1>5. ASSUME NEW c \in Clients, BuildConfig(c) PROVE NeverAhead'
  <2>1. UNCHANGED <<rev, obj, pending, handling, ch, lastRV, held>>
    BY <1>5 DEF BuildConfig, storeVars
  <2>2. \A d \in Clients : snap'[d] \in {snap[d], obj[AgentOf[d]], 0}
    BY <1>5 DEF BuildConfig
  <2>3. \A d \in Clients : snap'[d] <= N(d)
    BY <2>2, <1>0
  <2> QED
    BY <1>0, <2>1, <2>3, NeverAheadQuiet DEF N
<1>6. ASSUME NEW c \in Clients, WriteSnapshot(c) PROVE NeverAhead'
  <2>1. UNCHANGED <<rev, obj, pending, handling, ch>>
    BY <1>6 DEF WriteSnapshot, storeVars
  <2>2. /\ \A d \in Clients : snap'[d] \in {snap[d], 0}
        /\ \A d \in Clients : lastRV'[d] \in {lastRV[d], snap[d]}
        /\ \A d \in Clients : held'[d] \in {held[d], snap[d]}
    BY <1>6 DEF WriteSnapshot, WriteSSE
  <2>3. \A d \in Clients : snap'[d] <= N(d) /\ lastRV'[d] <= N(d) /\ held'[d] <= N(d)
    BY <2>2, <1>0
  <2> QED
    BY <1>0, <2>1, <2>3, NeverAheadQuiet DEF N
<1>7. ASSUME NEW c \in Clients, Receive(c) PROVE NeverAhead'
  <2>1. UNCHANGED <<rev, obj, pending, handling, snap>>
    BY <1>7 DEF Receive, storeVars
  <2>2. ch[c] \in Seq(Nat) /\ ch[c] # <<>> /\ Head(ch[c]) = ch[c][1] /\ 1 \in 1..Len(ch[c])
    BY <1>7 DEF Receive
  <2>3. Head(ch[c]) <= N(c)
    BY <2>2, <1>0
  <2>4. /\ \A d \in Clients : lastRV'[d] = lastRV[d] \/ (d = c /\ lastRV'[d] = Head(ch[c]))
        /\ \A d \in Clients : held'[d] = held[d] \/ (d = c /\ held'[d] = Head(ch[c]))
    BY <1>7 DEF Receive, WriteSSE
  <2>5. ASSUME NEW d \in Clients, NEW i \in 1..Len(ch'[d]) PROVE ch'[d][i] <= N(d)
    <3>1. CASE d # c
      BY <3>1, <1>7, <1>0 DEF Receive
    <3>2. CASE d = c
      <4>1. ch'[c] = Tail(ch[c])
        BY <1>7 DEF Receive
      <4>2. ch'[c][i] = ch[c][i + 1] /\ i + 1 \in 1..Len(ch[c])
        BY <4>1, <3>2, <2>2, TailElements
      <4> QED
        BY <4>2, <3>2, <1>0
    <3> QED
      BY <3>1, <3>2
  <2>6. \A d \in Clients : lastRV'[d] <= N(d) /\ held'[d] <= N(d)
    BY <2>3, <2>4, <1>0
  <2> QED
    BY <1>0, <2>1, <2>5, <2>6, NeverAheadQuiet DEF N
<1>8. ASSUME Restart PROVE NeverAhead'
  <2>1. /\ UNCHANGED <<rev, obj, held>> /\ handling' = {}
        /\ \A k \in Agents : pending'[k] = Listed(k)
        /\ \A d \in Clients : ch'[d] = <<>> /\ snap'[d] = 0 /\ lastRV'[d] = 0
    BY <1>8 DEF Restart, storeVars
  <2>2. \A d \in Clients : /\ snap'[d] <= N(d) /\ lastRV'[d] <= N(d)
                           /\ \A i \in 1..Len(ch'[d]) : ch'[d][i] <= N(d)
    BY <2>1, <1>0
  <2> QED
    BY <1>0, <2>1, <2>2, NeverAheadQuiet DEF N
<1>9. CASE UNCHANGED vars
  BY <1>9, <1>0, NeverAheadQuiet DEF vars, N
<1> QED
  BY <1>1, <1>2, <1>3, <1>4, <1>5, <1>6, <1>7, <1>8, <1>9 DEF Next

\* No step leaves a connected client above its stream's floor: a snapshot is
\* at least what the client holds because the live read is never behind.
LEMMA FloorStep ==
  TypeOK /\ NeverAhead /\ FloorInv /\ [Next]_vars => FloorInv'
<1> SUFFICES ASSUME TypeOK, NeverAhead, FloorInv, [Next]_vars PROVE FloorInv'
  OBVIOUS
<1> USE AgentOfAssumption, BoundsAssumption DEF TypeOK
<1> DEFINE Ok(c) == /\ pc[c] # "streaming" => lastRV[c] = 0
                    /\ c \notin gone /\ Floor(c) # 0 => held[c] <= Floor(c)
<1>0. \A c \in Clients : Ok(c)
  BY DEF FloorInv
<1>1. ASSUME NEW c \in Clients, UNCHANGED <<pc, snap, lastRV, gone, held>>
      PROVE  Ok(c)'
  BY <1>0, <1>1 DEF Floor
<1>2. ASSUME NEW c \in Clients,
             pc'[c] = pc[c], snap'[c] = snap[c], lastRV'[c] = lastRV[c],
             held'[c] = held[c], c \in gone => c \in gone'
      PROVE  Ok(c)'
  BY <1>0, <1>2 DEF Floor
<1>3. ASSUME NEW c \in Clients, pc'[c] \in {"idle", "subscribed"}, lastRV'[c] = 0
      PROVE  Ok(c)'
  BY <1>3 DEF Floor
<1>4. ASSUME NEW c \in Clients, NEW d \in Clients,
             Subscribe(d) \/ Hangup(d) \/ Unsubscribe(d)
      PROVE  Ok(c)'
  <2>1. CASE Subscribe(d)
    <3>1. CASE c = d
      BY <2>1, <3>1, <1>0, <1>3 DEF Subscribe
    <3>2. CASE c # d
      BY <2>1, <3>2, <1>2 DEF Subscribe
    <3> QED
      BY <3>1, <3>2
  <2>2. CASE Hangup(d)
    BY <2>2, <1>2 DEF Hangup
  <2>3. CASE Unsubscribe(d)
    <3>1. CASE c = d
      BY <2>3, <3>1, <1>3 DEF Unsubscribe
    <3>2. CASE c # d
      BY <2>3, <3>2, <1>2 DEF Unsubscribe
    <3> QED
      BY <3>1, <3>2
  <2> QED
    BY <1>4, <2>1, <2>2, <2>3
<1>5. ASSUME NEW c \in Clients, NEW d \in Clients, BuildConfig(d) PROVE Ok(c)'
  <2>0. /\ pc[d] = "subscribed" /\ pc' = [pc EXCEPT ![d] = "snapshot"]
        /\ UNCHANGED <<lastRV, gone, held>>
        /\ \A e \in Clients : e # d => snap'[e] = snap[e]
        /\ snap'[d] \in {obj[AgentOf[d]], 0}
    BY <1>5 DEF BuildConfig
  <2>1. CASE c = d
    <3>1. obj[AgentOf[d]] # 0 => held[d] <= obj[AgentOf[d]]
      BY DEF NeverAhead, Newest
    <3> QED
      BY <2>0, <2>1, <3>1, <1>0 DEF Floor
  <2>2. CASE c # d
    BY <2>0, <2>2, <1>2
  <2> QED
    BY <2>1, <2>2
<1>6. ASSUME NEW c \in Clients, NEW d \in Clients, WriteSnapshot(d) PROVE Ok(c)'
  <2>1. CASE c # d
    BY <1>6, <2>1, <1>2 DEF WriteSnapshot, WriteSSE
  <2>2. CASE c = d /\ snap[c] = 0
    BY <1>6, <2>2, <1>0 DEF WriteSnapshot, Floor
  <2>3. CASE c = d /\ snap[c] # 0
    <3>1. /\ pc'[c] = "streaming" /\ lastRV'[c] = snap[c] /\ gone' = gone
          /\ c \notin gone => held'[c] = snap[c]
      BY <1>6, <2>3 DEF WriteSnapshot, WriteSSE
    <3> QED
      BY <3>1 DEF Floor
  <2> QED
    BY <2>1, <2>2, <2>3
<1>7. ASSUME NEW c \in Clients, NEW d \in Clients, Receive(d) PROVE Ok(c)'
  <2>1. CASE c # d
    BY <1>7, <2>1, <1>2 DEF Receive, WriteSSE
  <2>2. CASE c = d /\ ~IsNewerRV(Head(ch[c]), lastRV[c])
    BY <1>7, <2>2, <1>2 DEF Receive
  <2>3. CASE c = d /\ IsNewerRV(Head(ch[c]), lastRV[c])
    <3>0. Head(ch[c]) \in Nat
      BY <1>7, <2>3 DEF Receive
    <3>1. /\ pc'[c] = "streaming" /\ lastRV'[c] = Head(ch[c]) /\ gone' = gone
          /\ c \notin gone => held'[c] = Head(ch[c])
      BY <1>7, <2>3, <3>0 DEF Receive, WriteSSE
    <3> QED
      BY <3>0, <3>1 DEF Floor
  <2> QED
    BY <2>1, <2>2, <2>3
<1>8. ASSUME NEW c \in Clients, NEW d \in Clients, HandleConfig(d) PROVE Ok(c)'
  <2>1. CASE c # d
    BY <1>8, <2>1, <1>2 DEF HandleConfig, connVars
  <2>2. CASE c = d
    BY <1>8, <2>2, <1>0, <1>3 DEF HandleConfig, connVars
  <2> QED
    BY <2>1, <2>2
<1>9. ASSUME NEW c \in Clients, Restart PROVE Ok(c)'
  BY <1>9, <1>3 DEF Restart
<1>10. ASSUME NEW c \in Clients PROVE Ok(c)'
  <2>1. \/ UNCHANGED <<pc, snap, lastRV, gone, held>>
        \/ Restart
        \/ \E d \in Clients : \/ Subscribe(d) \/ Hangup(d) \/ Unsubscribe(d)
                              \/ BuildConfig(d) \/ WriteSnapshot(d)
                              \/ Receive(d) \/ HandleConfig(d)
    BY DEF Next, vars, connVars, PutAgent, DeleteAgent, Relist, Resync,
           OnAgentChange, Broadcast
  <2> HIDE DEF Ok
  <2> QED
    BY <2>1, <1>1, <1>4, <1>5, <1>6, <1>7, <1>8, <1>9
<1> QED
  BY <1>10 DEF FloorInv

\* From the live read on, the newest version is written or on its way: a write
\* puts it in the informer's queue, and the informer, onAgentChange, broadcast
\* and the handler's loop hand it on without letting go of it.
LEMMA CoveredStep ==
  TypeOK /\ SubscribersAreConnections /\ CoveredInv /\ [Next]_vars => CoveredInv'
<1> SUFFICES ASSUME TypeOK, SubscribersAreConnections, CoveredInv, [Next]_vars
             PROVE CoveredInv'
  OBVIOUS
<1> USE AgentOfAssumption, BoundsAssumption DEF TypeOK
<1> DEFINE Open(c) == /\ pc[c] \in {"snapshot", "streaming"}
                      /\ c \notin lost
                      /\ obj[AgentOf[c]] # 0
           Cov(c) == Open(c) => Floor(c) >= obj[AgentOf[c]] \/ OnItsWay(c)
           Buffered(c) == \E i \in 1..Len(ch[c]) : ch[c][i] = obj[AgentOf[c]]
<1>0. \A c \in Clients : Cov(c)
  BY DEF CoveredInv
<1>1. ASSUME NEW c \in Clients,
             UNCHANGED <<pc[c], lost, snap[c], lastRV[c]>>,
             obj'[AgentOf[c]] = obj[AgentOf[c]], OnItsWay(c) => OnItsWay(c)'
      PROVE  Cov(c)'
  BY <1>0, <1>1 DEF Floor
<1>2. ASSUME NEW c \in Clients, NEW k \in Agents, PutAgent(k) PROVE Cov(c)'
  <2>1. CASE AgentOf[c] = k
    BY <1>2, <2>1 DEF PutAgent, OnItsWay
  <2>2. CASE AgentOf[c] # k
    <3>1. /\ obj'[AgentOf[c]] = obj[AgentOf[c]]
          /\ pending'[AgentOf[c]] = pending[AgentOf[c]]
          /\ UNCHANGED <<handling, ch, pc, lost, snap, lastRV>>
      BY <1>2, <2>2 DEF PutAgent, connVars
    <3> QED
      BY <3>1, <1>1 DEF OnItsWay
  <2> QED
    BY <2>1, <2>2
<1>3. ASSUME NEW c \in Clients, NEW k \in Agents, DeleteAgent(k) PROVE Cov(c)'
  <2>1. CASE AgentOf[c] = k
    BY <1>3, <2>1 DEF DeleteAgent
  <2>2. CASE AgentOf[c] # k
    <3>1. /\ obj'[AgentOf[c]] = obj[AgentOf[c]]
          /\ UNCHANGED <<pending, handling, ch, pc, lost, snap, lastRV>>
      BY <1>3, <2>2 DEF DeleteAgent, connVars
    <3> QED
      BY <3>1, <1>1 DEF OnItsWay
  <2> QED
    BY <2>1, <2>2
<1>4. ASSUME NEW c \in Clients, NEW k \in Agents, Relist(k) \/ Resync(k)
      PROVE  Cov(c)'
  <2>1. UNCHANGED <<obj, handling, ch, pc, lost, snap, lastRV>>
    BY <1>4 DEF Relist, Resync, connVars, storeVars
  <2>2. ASSUME obj[AgentOf[c]] # 0, obj[AgentOf[c]] \in pending[AgentOf[c]]
        PROVE  obj[AgentOf[c]] \in pending'[AgentOf[c]]
    <3>1. CASE AgentOf[c] # k
      BY <1>4, <2>2, <3>1 DEF Relist, Resync
    <3>2. CASE AgentOf[c] = k /\ Relist(k)
      BY <2>2, <3>2 DEF Relist, Listed
    <3>3. CASE AgentOf[c] = k /\ Resync(k)
      BY <2>2, <3>3 DEF Resync
    <3> QED
      BY <1>4, <3>1, <3>2, <3>3
  <2>3. CASE obj[AgentOf[c]] = 0
    BY <2>1, <2>3
  <2>4. CASE obj[AgentOf[c]] # 0
    BY <2>1, <2>2, <2>4, <1>1 DEF OnItsWay
  <2> QED
    BY <2>3, <2>4
<1>5. ASSUME NEW c \in Clients, NEW k \in Agents, OnAgentChange(k) PROVE Cov(c)'
  <2>1. UNCHANGED <<obj, ch, pc, lost, snap, lastRV>> /\ handling = {}
    BY <1>5 DEF OnAgentChange, connVars, storeVars
  <2>2. ASSUME obj[AgentOf[c]] \in pending[AgentOf[c]]
        PROVE  \/ obj[AgentOf[c]] \in pending'[AgentOf[c]]
               \/ <<AgentOf[c], obj[AgentOf[c]]>> \in handling'
    BY <1>5, <2>2 DEF OnAgentChange
  <2>3. OnItsWay(c) => OnItsWay(c)'
    BY <2>1, <2>2 DEF OnItsWay
  <2> QED
    BY <2>1, <2>3, <1>1
<1>6. ASSUME NEW c \in Clients, Broadcast PROVE Cov(c)'
  <2> PICK f \in handling : Broadcast!(f)
    BY <1>6 DEF Broadcast
  <2>1. UNCHANGED <<obj, pending, pc, snap, lastRV>> /\ handling' = {} /\ lost \subseteq lost'
    BY DEF storeVars
  <2>2. Buffered(c) => Buffered(c)'
    <3>1. CASE ch'[c] = ch[c]
      BY <3>1, <2>1
    <3>2. CASE ch'[c] = Append(ch[c], f[2])
      <4>1. f[2] \in Nat
        OBVIOUS
      <4>2. \A i \in 1..Len(ch[c]) : i \in 1..Len(ch'[c]) /\ ch'[c][i] = ch[c][i]
        BY <3>2, <4>1
      <4> QED
        BY <4>2, <2>1
    <3> QED
      BY <3>1, <3>2
  <2>3. ASSUME Open(c)', <<AgentOf[c], obj[AgentOf[c]]>> \in handling
        PROVE  Buffered(c)'
    <3>1. f = <<AgentOf[c], obj[AgentOf[c]]>>
      BY <2>3
    <3>2. c \in Subscribers(f[1])
      BY <2>1, <2>3, <3>1 DEF SubscribersAreConnections, Subscribers
    <3>3. ~Full(c)
      BY <2>3, <3>2
    <3>4. ch'[c] = Append(ch[c], obj[AgentOf[c]])
      BY <3>1, <3>2, <3>3
    <3>5. /\ Len(ch[c]) + 1 \in 1..Len(ch'[c])
          /\ ch'[c][Len(ch[c]) + 1] = obj[AgentOf[c]]
      BY <3>4
    <3> QED
      BY <3>5, <2>1
  <2> QED
    BY <2>1, <2>2, <2>3, <1>0 DEF OnItsWay, Floor
<1>7. ASSUME NEW c \in Clients, NEW d \in Clients,
             Subscribe(d) \/ Hangup(d) \/ Unsubscribe(d) \/ HandleConfig(d)
      PROVE  Cov(c)'
  <2>1. UNCHANGED <<obj, pending, handling, snap>>
    BY <1>7 DEF Subscribe, Hangup, Unsubscribe, HandleConfig, storeVars, connVars
  <2>2. CASE pc'[c] \in {"idle", "subscribed"}
    BY <2>2
  <2>3. CASE pc'[c] \notin {"idle", "subscribed"}
    <3>1. /\ pc'[c] = pc[c] /\ lastRV'[c] = lastRV[c] /\ ch'[c] = ch[c]
          /\ c \in lost <=> c \in lost'
      BY <1>7, <2>3 DEF Subscribe, Hangup, Unsubscribe, HandleConfig, connVars
    <3> QED
      BY <2>1, <3>1, <1>0 DEF OnItsWay, Floor
  <2> QED
    BY <2>2, <2>3
<1>8. ASSUME NEW c \in Clients, NEW d \in Clients, BuildConfig(d) PROVE Cov(c)'
  <2>1. /\ UNCHANGED <<obj, pending, handling, ch, lastRV>>
        /\ pc' = [pc EXCEPT ![d] = "snapshot"]
        /\ \A e \in Clients : e # d => (snap'[e] = snap[e] /\ (e \in lost <=> e \in lost'))
        /\ snap'[d] = obj[AgentOf[d]] \/ d \in lost'
    BY <1>8 DEF BuildConfig, storeVars
  <2>2. CASE c = d
    BY <2>1, <2>2 DEF Floor
  <2>3. CASE c # d
    BY <2>1, <2>3, <1>0 DEF Floor, OnItsWay
  <2> QED
    BY <2>2, <2>3
<1>9. ASSUME NEW c \in Clients, NEW d \in Clients, WriteSnapshot(d) PROVE Cov(c)'
  <2>1. /\ UNCHANGED <<obj, pending, handling, ch, lost>>
        /\ pc[d] = "snapshot" /\ pc' = [pc EXCEPT ![d] = "streaming"]
        /\ snap[d] # 0 => lastRV' = [lastRV EXCEPT ![d] = snap[d]]
        /\ snap[d] = 0 => lastRV' = lastRV
        /\ \A e \in Clients : e # d => snap'[e] = snap[e]
    BY <1>9 DEF WriteSnapshot, storeVars
  <2>2. CASE c = d
    <3>1. OnItsWay(c)' <=> OnItsWay(c)
      BY <2>1 DEF OnItsWay
    <3>2. Open(c)' => Open(c)
      BY <2>1, <2>2
    <3>3. Floor(c) = snap[c] /\ Floor(c)' = lastRV'[c]
      BY <2>1, <2>2 DEF Floor
    <3>4. snap[c] # 0 => lastRV'[c] = snap[c]
      BY <2>1, <2>2
    <3>5. lastRV'[c] \in Nat /\ snap[c] \in Nat /\ obj[AgentOf[c]] \in Nat
      BY <2>1, <2>2
    <3>6. obj'[AgentOf[c]] = obj[AgentOf[c]]
      BY <2>1
    <3> HIDE DEF Open
    <3>7. SUFFICES ASSUME Open(c)' PROVE Floor(c)' >= obj'[AgentOf[c]] \/ OnItsWay(c)'
      OBVIOUS
    <3>8. obj[AgentOf[c]] # 0 /\ (Floor(c) >= obj[AgentOf[c]] \/ OnItsWay(c))
      BY <3>2, <3>7, <1>0 DEF Open
    <3> QED
      BY <3>1, <3>3, <3>4, <3>5, <3>6, <3>8
  <2>3. CASE c # d
    BY <2>1, <2>3, <1>0 DEF Floor, OnItsWay
  <2> QED
    BY <2>2, <2>3
<1>10. ASSUME NEW c \in Clients, NEW d \in Clients, Receive(d) PROVE Cov(c)'
  <2>1. /\ UNCHANGED <<obj, pending, handling, pc, snap, lost>>
        /\ pc[d] = "streaming" /\ ch[d] # <<>> /\ ch' = [ch EXCEPT ![d] = Tail(@)]
    BY <1>10 DEF Receive, storeVars
  <2>2. CASE c # d
    <3>1. ch'[c] = ch[c] /\ lastRV'[c] = lastRV[c]
      BY <1>10, <2>2 DEF Receive
    <3> QED
      BY <2>1, <2>2, <3>1, <1>1 DEF OnItsWay
  <2>3. CASE c = d
    <3>1. ch[c] \in Seq(Nat) /\ Head(ch[c]) = ch[c][1] /\ ch[c][1] \in Nat
      BY <2>1, <2>3
    <3>2. lastRV'[c] >= lastRV[c] /\ lastRV'[c] >= ch[c][1] /\ lastRV'[c] \in Nat
      BY <1>10, <2>3, <3>1 DEF Receive, IsNewerRV
    <3>3. ASSUME NEW i \in 1..Len(ch[c]), ch[c][i] = obj[AgentOf[c]]
          PROVE  lastRV'[c] >= obj[AgentOf[c]] \/ Buffered(c)'
      <4>1. CASE i = 1
        BY <3>2, <3>3, <4>1
      <4>2. CASE i # 1
        <5>1. i - 1 \in 1..Len(ch'[c]) /\ ch'[c][i - 1] = ch[c][i]
          BY <2>1, <2>3, <3>1, <4>2
        <5> QED
          BY <5>1, <3>3, <2>1
      <4> QED
        BY <4>1, <4>2
    <3>4. CASE lastRV[c] >= obj[AgentOf[c]]
      BY <2>1, <2>3, <3>2, <3>4 DEF Floor
    <3>5. CASE ~(lastRV[c] >= obj[AgentOf[c]])
      BY <2>1, <2>3, <3>3, <3>5, <1>0 DEF Floor, OnItsWay
    <3> QED
      BY <3>4, <3>5
  <2> QED
    BY <2>2, <2>3
<1>11. ASSUME NEW c \in Clients, Restart PROVE Cov(c)'
  BY <1>11 DEF Restart
<1>12. ASSUME NEW c \in Clients, UNCHANGED vars PROVE Cov(c)'
  BY <1>12, <1>0 DEF vars, Floor, OnItsWay
<1>13. ASSUME NEW c \in Clients PROVE Cov(c)'
  <2> HIDE DEF Cov
  <2> QED
    BY <1>2, <1>3, <1>4, <1>5, <1>6, <1>7, <1>8, <1>9, <1>10, <1>11, <1>12
    DEF Next
<1> QED
  BY <1>13 DEF CoveredInv

-----------------------------------------------------------------------------
(* The theorems.                                                           *)

\* The inductive invariant holds in every reachable state.
THEOREM IndInvHolds == Spec => []IndInv
<1>1. Init => IndInv
  <2> SUFFICES ASSUME Init PROVE IndInv
    OBVIOUS
  <2>1. TypeOK
    BY TypeInit
  <2>2. SubscribersAreConnections /\ FloorInv /\ CoveredInv
    BY DEF Init, SubscribersAreConnections, FloorInv, CoveredInv, Floor
  <2>3. NeverAhead
    BY AgentOfAssumption DEF Init, NeverAhead, Newest
  <2> QED
    BY <2>1, <2>2, <2>3 DEF IndInv
<1>2. IndInv /\ [Next]_vars => IndInv'
  BY TypeStep, SubscribersStep, NeverAheadStep, FloorStep, CoveredStep
  DEF IndInv
<1> QED
  BY <1>1, <1>2, PTL DEF Spec

\* No subscriber is left behind by a handler that returned, and no connected
\* handler is without one (hub.subscribe, hub.unsubscribe).
THEOREM SubscribersCorrect == Spec => []SubscribersAreConnections
<1>1. IndInv => SubscribersAreConnections
  BY DEF IndInv
<1> QED
  BY <1>1, IndInvHolds, PTL

\* No version of an Agent is ahead of what a live read returns.
THEOREM NeverAheadHolds == Spec => []NeverAhead
<1>1. IndInv => NeverAhead
  BY DEF IndInv
<1> QED
  BY <1>1, IndInvHolds, PTL

\* "No change in that window can be missed": on a stream whose snapshot read
\* worked and whose channel never overflowed, the newest version was written or
\* is on its way, for any channel capacity.
THEOREM NoChangeMissed == Spec => []NoMissedChange
<1>1. IndInv => NoMissedChange
  BY DEF IndInv, CoveredInv, NoMissedChange, Floor
<1> QED
  BY <1>1, IndInvHolds, PTL

\* "A client can only ever move forward", over reconnects and restarts, but for
\* streams that started without a snapshot.
THEOREM ClientsMoveForward == Spec => ForwardUnlessNoSnapshot
<1>1. IndInv /\ [Next]_vars => [ForwardStep]_vars
  <2> SUFFICES ASSUME IndInv, Next, NEW c \in Clients
               PROVE  held'[c] >= held[c] \/ (pc[c] = "streaming" /\ lastRV[c] = 0)
    BY DEF ForwardStep
  <2> USE AgentOfAssumption DEF IndInv, TypeOK
  <2>1. CASE held'[c] = held[c]
    BY <2>1
  <2>2. ASSUME NEW d \in Clients, HandleConfig(d), held'[c] # held[c]
        PROVE  held'[c] >= held[c]
    BY <2>2 DEF HandleConfig, NeverAhead, Newest
  <2>3. ASSUME NEW d \in Clients, WriteSnapshot(d), held'[c] # held[c]
        PROVE  held'[c] >= held[c]
    <3>1. /\ c = d /\ c \notin gone /\ snap[c] # 0
          /\ held'[c] = snap[c] /\ pc[c] = "snapshot"
      BY <2>3 DEF WriteSnapshot, WriteSSE
    <3> QED
      BY <3>1 DEF FloorInv, Floor
  <2>4. ASSUME NEW d \in Clients, Receive(d), held'[c] # held[c], lastRV[c] # 0
        PROVE  held'[c] >= held[c]
    <3>1. Receive(c) /\ c \notin gone /\ IsNewerRV(Head(ch[c]), lastRV[c])
      BY <2>4 DEF Receive, WriteSSE
    <3>2. held'[c] = Head(ch[c]) /\ pc[c] = "streaming" /\ Head(ch[c]) \in Nat
      BY <3>1 DEF Receive, WriteSSE
    <3>3. Head(ch[c]) > lastRV[c]
      BY <3>1, <2>4 DEF IsNewerRV
    <3>4. held[c] <= lastRV[c]
      BY <3>1, <3>2, <2>4 DEF FloorInv, Floor
    <3> QED
      BY <3>2, <3>3, <3>4
  <2>5. ASSUME NEW d \in Clients, Receive(d), held'[c] # held[c]
        PROVE  pc[c] = "streaming"
    BY <2>5 DEF Receive, WriteSSE
  <2>6. \/ held' = held
        \/ \E d \in Clients : HandleConfig(d) \/ WriteSnapshot(d) \/ Receive(d)
    BY DEF Next, PutAgent, DeleteAgent, Relist, Resync, OnAgentChange,
           Broadcast, Subscribe, BuildConfig, Hangup, Unsubscribe, Restart
  <2> QED
    BY <2>1, <2>2, <2>3, <2>4, <2>5, <2>6
<1> QED
  BY <1>1, IndInvHolds, PTL DEF Spec, ForwardUnlessNoSnapshot
=============================================================================
