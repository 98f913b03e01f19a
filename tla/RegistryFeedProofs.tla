------------------------- MODULE RegistryFeedProofs -------------------------
(* The safety half of the refinement: whatever the Registry does, clients  *)
(* see the abstract version feed.                                          *)
EXTENDS RegistryFeed, RegistryWatchProofs

\* A frame always carries a version: the informer hands over objects that
\* exist, and a failed read is never broadcast.
FramesHaveVersions ==
  /\ \A k \in Agents : 0 \notin pending[k]
  /\ \A f \in handling : f[2] # 0
  /\ \A c \in Clients : \A i \in 1..Len(ch[c]) : ch[c][i] # 0

-----------------------------------------------------------------------------

\* Only lists, resyncs and writes put versions into the informer, only the
\* informer into a handler, and only a handler into a channel.
LEMMA VersionsStep == TypeOK /\ FramesHaveVersions /\ [Next]_vars => FramesHaveVersions'
<1> SUFFICES ASSUME TypeOK, FramesHaveVersions, [Next]_vars PROVE FramesHaveVersions'
  OBVIOUS
<1> USE BoundsAssumption DEF TypeOK, FramesHaveVersions
<1>1. ASSUME NEW k \in Agents, PutAgent(k) PROVE FramesHaveVersions'
  BY <1>1 DEF PutAgent, connVars
<1>2. ASSUME NEW k \in Agents, DeleteAgent(k) \/ Relist(k) \/ Resync(k)
      PROVE  FramesHaveVersions'
  <2>1. UNCHANGED <<handling, ch>>
    BY <1>2 DEF DeleteAgent, Relist, Resync, connVars
  <2>2. ASSUME NEW l \in Agents PROVE 0 \notin pending'[l]
    <3>1. CASE DeleteAgent(k)
      BY <3>1, <2>2 DEF DeleteAgent
    <3>2. CASE Relist(k)
      BY <3>2, <2>2 DEF Relist
    <3>3. CASE Resync(k)
      BY <3>3, <2>2 DEF Resync
    <3> QED
      BY <1>2, <3>1, <3>2, <3>3
  <2> QED
    BY <2>1, <2>2
<1>3. ASSUME NEW k \in Agents, OnAgentChange(k) PROVE FramesHaveVersions'
  BY <1>3 DEF OnAgentChange, connVars
<1>4. CASE Broadcast
  <2>1. PICK f \in handling :
          ch' = [c \in Clients |-> IF c \in Subscribers(f[1]) /\ ~Full(c)
                                   THEN Append(ch[c], f[2]) ELSE ch[c]]
    BY <1>4 DEF Broadcast
  <2>2. f[2] \in Nat /\ f[2] # 0
    OBVIOUS
  <2>3. ASSUME NEW c \in Clients, NEW i \in 1..Len(ch'[c]) PROVE ch'[c][i] # 0
    <3>1. CASE ch'[c] = ch[c]
      BY <3>1, <2>3
    <3>2. CASE ch'[c] = Append(ch[c], f[2])
      BY <3>2, <2>2, <2>3
    <3> QED
      BY <2>1, <3>1, <3>2
  <2> QED
    BY <1>4, <2>3 DEF Broadcast
<1>5. ASSUME NEW c \in Clients, Receive(c) PROVE FramesHaveVersions'
  <2>1. ASSUME NEW d \in Clients, NEW i \in 1..Len(ch'[d]) PROVE ch'[d][i] # 0
    <3>1. CASE d = c
      BY <1>5, <2>1, <3>1, TailElements DEF Receive
    <3>2. CASE d # c
      BY <1>5, <2>1, <3>2 DEF Receive
    <3> QED
      BY <3>1, <3>2
  <2> QED
    BY <1>5, <2>1 DEF Receive
<1>6. ASSUME NEW c \in Clients, Unsubscribe(c) PROVE FramesHaveVersions'
  BY <1>6 DEF Unsubscribe
<1>7. CASE Restart
  BY <1>7 DEF Restart, Listed
<1>8. CASE UNCHANGED <<pending, handling, ch>>
  BY <1>8
<1>9. ASSUME NEW c \in Clients,
             \/ Subscribe(c) \/ BuildConfig(c) \/ WriteSnapshot(c)
             \/ Hangup(c) \/ HandleConfig(c)
      PROVE  UNCHANGED <<pending, handling, ch>>
  BY <1>9 DEF Subscribe, BuildConfig, WriteSnapshot, Hangup, HandleConfig, connVars
<1>10. UNCHANGED vars => UNCHANGED <<pending, handling, ch>>
  BY DEF vars
<1> QED
  BY <1>1, <1>2, <1>3, <1>4, <1>5, <1>6, <1>7, <1>8, <1>9, <1>10 DEF Next

\* No frame is ever built from nothing.
THEOREM VersionsHold == Spec => []FramesHaveVersions
<1>1. Init => FramesHaveVersions
  BY DEF Init, FramesHaveVersions
<1> QED
  BY <1>1, VersionsStep, TypeCorrect, PTL DEF Spec

-----------------------------------------------------------------------------

\* A version that may be written to c may be shown to it.
LEMMA WriteIsShow ==
  ASSUME IndInv, NEW c \in Clients, NEW v \in Nat, v # 0, v <= Newest(AgentOf[c]),
         v >= held[c] \/ (pc[c] = "streaming" /\ lastRV[c] = 0),
         WriteSSE(c, v) \/ held' = [held EXCEPT ![c] = v],
         UNCHANGED <<rev, obj>>
  PROVE  [Feed!Next]_(Feed!feed)
<1>1. v \in Feed!Showable(c)
  BY AgentOfAssumption DEF Feed!Showable, Fresh, Newest, IndInv, TypeOK
<1>2. CASE held' = held
  BY <1>2 DEF Feed!feed
<1>3. CASE held' = [held EXCEPT ![c] = v]
  BY <1>1, <1>3 DEF Feed!Next, Feed!Show
<1> QED
  BY <1>2, <1>3 DEF WriteSSE

\* Every step of the Registry is a step of the feed or changes nothing in it.
LEMMA FeedStep == IndInv /\ FramesHaveVersions /\ [Next]_vars => [Feed!Next]_(Feed!feed)
<1> SUFFICES ASSUME IndInv, FramesHaveVersions, [Next]_vars PROVE [Feed!Next]_(Feed!feed)
  OBVIOUS
<1> USE AgentOfAssumption, BoundsAssumption DEF IndInv, TypeOK
<1>1. ASSUME NEW k \in Agents, PutAgent(k) PROVE Feed!Next
  BY <1>1 DEF PutAgent, Feed!Next, Feed!Publish
<1>2. ASSUME NEW k \in Agents, DeleteAgent(k) PROVE Feed!Next
  BY <1>2 DEF DeleteAgent, Feed!Next, Feed!Withdraw
<1>3. ASSUME NEW c \in Clients, WriteSnapshot(c) PROVE [Feed!Next]_(Feed!feed)
  <2>1. UNCHANGED <<rev, obj>>
    BY <1>3 DEF WriteSnapshot, storeVars
  <2>2. CASE snap[c] = 0
    BY <1>3, <2>1, <2>2 DEF WriteSnapshot, Feed!feed
  <2>3. CASE snap[c] # 0 /\ c \in gone
    BY <1>3, <2>1, <2>3 DEF WriteSnapshot, WriteSSE, Feed!feed
  <2>4. CASE snap[c] # 0 /\ c \notin gone
    <3>1. WriteSSE(c, snap[c]) /\ pc[c] = "snapshot"
      BY <1>3, <2>4 DEF WriteSnapshot
    <3>2. snap[c] \in Nat /\ snap[c] <= Newest(AgentOf[c]) /\ snap[c] >= held[c]
      BY <2>4, <3>1 DEF NeverAhead, FloorInv, Floor
    <3> QED
      BY <2>1, <2>4, <3>1, <3>2, WriteIsShow
  <2> QED
    BY <2>2, <2>3, <2>4
<1>4. ASSUME NEW c \in Clients, Receive(c) PROVE [Feed!Next]_(Feed!feed)
  <2> DEFINE v == Head(ch[c])
  <2>1. UNCHANGED <<rev, obj>> /\ pc[c] = "streaming" /\ ch[c] # <<>>
    BY <1>4 DEF Receive, storeVars
  <2>2. v = ch[c][1] /\ 1 \in 1..Len(ch[c]) /\ v \in Nat
    BY <2>1
  <2>3. v # 0 /\ v <= Newest(AgentOf[c])
    BY <2>2 DEF FramesHaveVersions, NeverAhead
  <2>4. CASE ~IsNewerRV(v, lastRV[c])
    BY <1>4, <2>1, <2>4 DEF Receive, Feed!feed
  <2>5. CASE IsNewerRV(v, lastRV[c]) /\ c \in gone
    BY <1>4, <2>1, <2>5 DEF Receive, WriteSSE, Feed!feed
  <2>6. CASE IsNewerRV(v, lastRV[c]) /\ c \notin gone
    <3>1. WriteSSE(c, v)
      BY <1>4, <2>6 DEF Receive
    <3>2. v >= held[c] \/ lastRV[c] = 0
      <4>1. lastRV[c] # 0 => held[c] <= lastRV[c]
        BY <2>1, <2>6 DEF FloorInv, Floor
      <4>2. v > lastRV[c] \/ lastRV[c] = 0
        BY <2>6 DEF IsNewerRV
      <4>3. held[c] \in Nat /\ lastRV[c] \in Nat
        OBVIOUS
      <4> HIDE DEF v
      <4> QED
        BY <2>2, <4>1, <4>2, <4>3
    <3> QED
      BY <2>1, <2>2, <2>3, <3>1, <3>2, WriteIsShow
  <2> QED
    BY <2>4, <2>5, <2>6
<1>5. ASSUME NEW c \in Clients, HandleConfig(c) PROVE [Feed!Next]_(Feed!feed)
  <2> DEFINE v == obj[AgentOf[c]]
  <2>1. /\ UNCHANGED <<rev, obj>> /\ v # 0 /\ v \in Nat
        /\ held' = [held EXCEPT ![c] = v]
    BY <1>5 DEF HandleConfig, storeVars
  <2>2. v <= Newest(AgentOf[c]) /\ v >= held[c]
    BY <2>1 DEF NeverAhead, Newest
  <2> QED
    BY <2>1, <2>2, WriteIsShow
<1>6. CASE UNCHANGED <<rev, obj, held>>
  BY <1>6 DEF Feed!feed
<1>7. ASSUME NEW k \in Agents, Relist(k) \/ Resync(k) \/ OnAgentChange(k)
      PROVE  UNCHANGED <<rev, obj, held>>
  BY <1>7 DEF Relist, Resync, OnAgentChange, storeVars
<1>8. ASSUME NEW c \in Clients,
             Subscribe(c) \/ BuildConfig(c) \/ Hangup(c) \/ Unsubscribe(c)
      PROVE  UNCHANGED <<rev, obj, held>>
  BY <1>8 DEF Subscribe, BuildConfig, Hangup, Unsubscribe, storeVars
<1>9. Broadcast \/ Restart \/ UNCHANGED vars => UNCHANGED <<rev, obj, held>>
  BY DEF Broadcast, Restart, vars, storeVars
<1> QED
  BY <1>1, <1>2, <1>3, <1>4, <1>5, <1>6, <1>7, <1>8, <1>9 DEF Next

\* handleWatch's "no change in that window can be missed" and "a client can
\* only ever move forward" as a refinement, for any Agents, clients and channel
\* capacity: what clients hold changes only by being shown a version of their
\* own Agent that was published, and only forward unless their stream has
\* written nothing yet. (That a whole stream shows the newest in the end is
\* ImplementsFeed's other half, which TLC checks.)
THEOREM ImplementsSafeFeed == Spec => Feed!Safe
<1>1. Init => Feed!Init
  BY DEF Init, Feed!Init
<1> QED
  BY <1>1, FeedStep, IndInvHolds, VersionsHold, PTL DEF Spec, Feed!Safe
=============================================================================
