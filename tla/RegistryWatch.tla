--------------------------- MODULE RegistryWatch ---------------------------
(***************************************************************************)
(* The Registry's streaming half (cmd/registry/main.go): the Agent         *)
(* informer, its change handler, the hub that fans frames out to           *)
(* subscribers, and the /watch and /config handlers.                       *)
(*                                                                         *)
(* A config is abstracted to the resourceVersion of the Agent it was built *)
(* from; the dependencies read while it is built belong to ConfigBuild.    *)
(* A resourceVersion is the decimal etcd revision isNewerRV parses, so it  *)
(* is a natural number; 0 is the empty string (no version).                *)
(***************************************************************************)
EXTENDS Integers, Sequences

CONSTANTS
  Agents,      \* keys "namespace/name" of the Agents
  Clients,     \* runtimes; each watches one Agent
  AgentOf,     \* the Agent a runtime watches
  Cap,         \* capacity of a subscriber's channel (8 in the code)
  MaxRev,      \* bound on the number of writes to the API server
  FlakyReads   \* whether a live read may fail although the Agent exists

ASSUME AgentOfAssumption == AgentOf \in [Clients -> Agents]
ASSUME BoundsAssumption  == /\ Cap \in Nat \ {0}
                            /\ MaxRev \in Nat
                            /\ FlakyReads \in BOOLEAN

VARIABLES
  rev,       \* the API server's revision
  obj,       \* obj[k]: resourceVersion of Agent k, 0 when it does not exist
  pending,   \* pending[k]: versions of k the informer has still to deliver
  handling,  \* the event onAgentChange is building a config for ({} or one)
  subs,      \* hub.subs: the clients whose subscriber is registered
  ch,        \* ch[c]: the frames buffered in c's channel
  pc,        \* where c's handleWatch is; "idle" when c has no connection
  snap,      \* snap[c]: version buildConfig read, 0 when it returned an error
  lastRV,    \* lastRV[c] of handleWatch, 0 for ""
  gone,      \* clients whose request context is done
  held,      \* held[c]: version of the last config c received on any request
  lost       \* history: streams whose snapshot read failed or whose channel
             \* overflowed since they subscribed

storeVars == <<rev, obj>>
connVars  == <<subs, ch, pc, snap, lastRV, gone, lost>>
vars == <<rev, obj, pending, handling, subs, ch, pc, snap, lastRV, gone,
          held, lost>>

Init ==
  /\ rev = 0
  /\ obj = [k \in Agents |-> 0]
  /\ pending = [k \in Agents |-> {}]
  /\ handling = {}
  /\ subs = {}
  /\ ch = [c \in Clients |-> <<>>]
  /\ pc = [c \in Clients |-> "idle"]
  /\ snap = [c \in Clients |-> 0]
  /\ lastRV = [c \in Clients |-> 0]
  /\ gone = {}
  /\ held = [c \in Clients |-> 0]
  /\ lost = {}

-----------------------------------------------------------------------------
(* The API server and the informer's watch on it (client-go).              *)

\* A create, a spec update or a status update: one more version of Agent k.
PutAgent(k) ==
  /\ rev < MaxRev
  /\ rev' = rev + 1
  /\ obj' = [obj EXCEPT ![k] = rev + 1]
  /\ pending' = [pending EXCEPT ![k] = @ \union {rev + 1}]
  /\ UNCHANGED <<handling, held, connVars>>

\* No DeleteFunc is registered: a deletion reaches nobody.
DeleteAgent(k) ==
  /\ rev < MaxRev
  /\ obj[k] # 0
  /\ rev' = rev + 1
  /\ obj' = [obj EXCEPT ![k] = 0]
  /\ UNCHANGED <<pending, handling, held, connVars>>

\* The versions a list shows: the current one, if there is one.
Listed(k) == {obj[k]} \ {0}

\* The informer's watch breaks and it lists again: versions it had not
\* received yet are skipped, the current one is not.
Relist(k) ==
  /\ pending[k] # Listed(k)
  /\ pending' = [pending EXCEPT ![k] = @ \intersect Listed(k)]
  /\ UNCHANGED <<storeVars, handling, held, connVars>>

\* The periodic resync hands the current object to UpdateFunc once more.
Resync(k) ==
  /\ pending[k] = {}
  /\ obj[k] # 0
  /\ pending' = [pending EXCEPT ![k] = {obj[k]}]
  /\ UNCHANGED <<storeVars, handling, held, connVars>>

-----------------------------------------------------------------------------
(* onAgentChange and the hub.                                              *)

\* AddFunc/UpdateFunc: one goroutine takes the events of an Agent in order
\* and starts building the config of the object it was handed.
OnAgentChange(k) ==
  /\ handling = {}
  /\ \E v \in pending[k] :
       /\ \A w \in pending[k] : v <= w
       /\ handling' = {<<k, v>>}
       /\ pending' = [pending EXCEPT ![k] = @ \ {v}]
  /\ UNCHANGED <<storeVars, held, connVars>>

\* Mutant: a hub that does not look at the key.
EverySubscriber(k) == subs

Subscribers(k) == {c \in subs : AgentOf[c] = k}

\* Mutant: one frame more than the channel holds.
FullOffByOne(c) == Len(ch[c]) > Cap

Full(c) == Len(ch[c]) >= Cap

\* hub.broadcast: a non-blocking send to every subscriber of the key, under
\* the hub's mutex; a full channel keeps what it holds.
Broadcast ==
  \E f \in handling :
    /\ handling' = {}
    /\ ch' = [c \in Clients |->
                IF c \in Subscribers(f[1]) /\ ~Full(c)
                THEN Append(ch[c], f[2])
                ELSE ch[c]]
    /\ lost' = lost \union {c \in Subscribers(f[1]) : Full(c)}
    /\ UNCHANGED <<storeVars, pending, subs, pc, snap, lastRV, gone, held>>

-----------------------------------------------------------------------------
(* handleWatch, one goroutine per connection.                              *)

\* writeSSE and Flush: the bytes reach the client unless it has gone.
WriteSSE(c, v) == held' = IF c \in gone THEN held ELSE [held EXCEPT ![c] = v]

\* hub.subscribe, before the snapshot is built: a fresh channel and lastRV "",
\* which is what Init, Unsubscribe and Restart leave in an idle client's slots.
Subscribe(c) ==
  /\ pc[c] = "idle"
  /\ subs' = subs \union {c}
  /\ pc' = [pc EXCEPT ![c] = "subscribed"]
  /\ UNCHANGED <<storeVars, pending, handling, ch, snap, lastRV, gone, held,
                 lost>>

\* buildConfig's live Get of the Agent. NotFound when there is no Agent; any
\* other failure (a timeout, a cancelled request) leaves the same empty result.
BuildConfig(c) ==
  /\ pc[c] = "subscribed"
  /\ pc' = [pc EXCEPT ![c] = "snapshot"]
  /\ \/ /\ snap' = [snap EXCEPT ![c] = obj[AgentOf[c]]]
        /\ lost' = lost
     \/ /\ FlakyReads \/ c \in gone
        /\ snap' = [snap EXCEPT ![c] = 0]
        /\ lost' = lost \union {c}
  /\ UNCHANGED <<storeVars, pending, handling, subs, ch, lastRV, gone, held>>

\* Mutant: frames that arrived while the snapshot was built are discarded.
WriteSnapshotDrains(c) ==
  /\ pc[c] = "snapshot"
  /\ pc' = [pc EXCEPT ![c] = "streaming"]
  /\ IF snap[c] # 0
     THEN /\ WriteSSE(c, snap[c])
          /\ lastRV' = [lastRV EXCEPT ![c] = snap[c]]
     ELSE UNCHANGED <<held, lastRV>>
  /\ snap' = [snap EXCEPT ![c] = 0]
  /\ ch' = [ch EXCEPT ![c] = <<>>]
  /\ UNCHANGED <<storeVars, pending, handling, subs, gone, lost>>

\* The snapshot is written when it could be built; then the loop starts.
WriteSnapshot(c) ==
  /\ pc[c] = "snapshot"
  /\ pc' = [pc EXCEPT ![c] = "streaming"]
  /\ IF snap[c] # 0
     THEN /\ WriteSSE(c, snap[c])
          /\ lastRV' = [lastRV EXCEPT ![c] = snap[c]]
     ELSE UNCHANGED <<held, lastRV>>
  /\ snap' = [snap EXCEPT ![c] = 0]
  /\ UNCHANGED <<storeVars, pending, handling, subs, ch, gone, lost>>

\* Mutant: every frame is written.
EveryFrame(rv, floor) == TRUE

\* isNewerRV; an empty floor lets every frame through.
IsNewerRV(rv, floor) == floor = 0 \/ rv > floor

\* One frame out of the channel: written when newer than what was written
\* last, dropped otherwise.
Receive(c) ==
  /\ pc[c] = "streaming"
  /\ ch[c] # <<>>
  /\ ch' = [ch EXCEPT ![c] = Tail(@)]
  /\ IF IsNewerRV(Head(ch[c]), lastRV[c])
     THEN /\ WriteSSE(c, Head(ch[c]))
          /\ lastRV' = [lastRV EXCEPT ![c] = Head(ch[c])]
     ELSE UNCHANGED <<held, lastRV>>
  /\ UNCHANGED <<storeVars, pending, handling, subs, pc, snap, gone, lost>>

\* The client closes the connection: the handler only sees it in its loop.
Hangup(c) ==
  /\ pc[c] # "idle"
  /\ c \notin gone
  /\ gone' = gone \union {c}
  /\ UNCHANGED <<storeVars, pending, handling, subs, ch, pc, snap, lastRV,
                 held, lost>>

\* Mutant: the handler returns without the deferred unsubscribe.
ReturnOnly(c) ==
  /\ pc[c] = "streaming"
  /\ c \in gone
  /\ ch' = [ch EXCEPT ![c] = <<>>]
  /\ pc' = [pc EXCEPT ![c] = "idle"]
  /\ lastRV' = [lastRV EXCEPT ![c] = 0]
  /\ gone' = gone \ {c}
  /\ lost' = lost \ {c}
  /\ UNCHANGED <<storeVars, pending, handling, subs, snap, held>>

\* r.Context().Done(): return, and the deferred hub.unsubscribe removes the
\* subscriber and closes its channel under the mutex.
Unsubscribe(c) ==
  /\ pc[c] = "streaming"
  /\ c \in gone
  /\ subs' = subs \ {c}
  /\ ch' = [ch EXCEPT ![c] = <<>>]
  /\ pc' = [pc EXCEPT ![c] = "idle"]
  /\ lastRV' = [lastRV EXCEPT ![c] = 0]
  /\ gone' = gone \ {c}
  /\ lost' = lost \ {c}
  /\ UNCHANGED <<storeVars, pending, handling, snap, held>>

\* handleConfig: a one-shot read; 404 leaves the client with what it had.
HandleConfig(c) ==
  /\ pc[c] = "idle"
  /\ obj[AgentOf[c]] # 0
  /\ held' = [held EXCEPT ![c] = obj[AgentOf[c]]]
  /\ UNCHANGED <<storeVars, pending, handling, connVars>>

-----------------------------------------------------------------------------
\* The Registry process restarts: every connection and channel is gone and
\* the new informer's first list hands every Agent to AddFunc.
Restart ==
  /\ pending' = [k \in Agents |-> Listed(k)]
  /\ handling' = {}
  /\ subs' = {}
  /\ ch' = [c \in Clients |-> <<>>]
  /\ pc' = [c \in Clients |-> "idle"]
  /\ snap' = [c \in Clients |-> 0]
  /\ lastRV' = [c \in Clients |-> 0]
  /\ gone' = {}
  /\ lost' = {}
  /\ UNCHANGED <<storeVars, held>>

Next ==
  \/ \E k \in Agents : \/ PutAgent(k) \/ DeleteAgent(k)
                       \/ Relist(k) \/ Resync(k) \/ OnAgentChange(k)
  \/ Broadcast
  \/ \E c \in Clients : \/ Subscribe(c) \/ BuildConfig(c) \/ WriteSnapshot(c)
                        \/ Receive(c) \/ Hangup(c) \/ Unsubscribe(c)
                        \/ HandleConfig(c)
  \/ Restart

\* The informer's goroutine and the handlers run; clients, the API server's
\* writers and crashes owe nothing. One goroutine hands the events of all
\* Agents to onAgentChange in the order they came, so that another Agent's
\* events delay one but never keep it waiting: strong fairness.
Fairness ==
  /\ \A k \in Agents : SF_vars(OnAgentChange(k))
  /\ WF_vars(Broadcast)
  /\ \A c \in Clients : /\ WF_vars(BuildConfig(c))
                        /\ WF_vars(WriteSnapshot(c))
                        /\ WF_vars(Receive(c))
                        /\ WF_vars(Unsubscribe(c))

Spec == Init /\ [][Next]_vars

FairSpec == Spec /\ Fairness

-----------------------------------------------------------------------------
(* Properties.                                                             *)

\* Every variable has its type; handling is one event at most, a channel
\* never holds more than make(chan frame, Cap) allows.
TypeOK ==
  /\ rev \in 0..MaxRev
  /\ obj \in [Agents -> Nat]
  /\ pending \in [Agents -> SUBSET Nat]
  /\ handling \subseteq Agents \X Nat
  /\ \A f, g \in handling : f = g
  /\ subs \subseteq Clients
  /\ ch \in [Clients -> Seq(Nat)]
  /\ \A c \in Clients : Len(ch[c]) <= Cap
  /\ pc \in [Clients -> {"idle", "subscribed", "snapshot", "streaming"}]
  /\ snap \in [Clients -> Nat]
  /\ lastRV \in [Clients -> Nat]
  /\ gone \subseteq Clients
  /\ held \in [Clients -> Nat]
  /\ lost \subseteq Clients

Streaming(c) == pc[c] = "streaming" /\ c \notin gone

\* A stream either owns a registered subscriber or has none: after the handler
\* returns or the process restarts no subscriber is left behind (broadcast
\* would send on the channel unsubscribe closed), and none is missing.
SubscribersAreConnections == subs = {c \in Clients : pc[c] # "idle"}

\* The newest version of k there can be: the object a live read returns, or
\* any version so far when the Agent is deleted.
Newest(k) == IF obj[k] # 0 THEN obj[k] ELSE rev

\* A live read is never behind what a client was given: no version of an Agent
\* in the informer, in onAgentChange, in a channel or in a client's hands is
\* newer than the object the API server returns. (A frame delivered under
\* another Agent's key would break it.)
NeverAhead ==
  /\ \A k \in Agents : obj[k] <= rev
  /\ \A k \in Agents : \A v \in pending[k] : v <= Newest(k)
  /\ \A f \in handling : f[2] <= Newest(f[1])
  /\ \A c \in Clients :
       /\ \A i \in 1..Len(ch[c]) : ch[c][i] <= Newest(AgentOf[c])
       /\ snap[c] <= Newest(AgentOf[c])
       /\ lastRV[c] <= Newest(AgentOf[c])
       /\ held[c] <= Newest(AgentOf[c])

\* Some place where the newest version of c's Agent still waits for c.
OnItsWay(c) ==
  LET k == AgentOf[c] IN
    \/ obj[k] \in pending[k]
    \/ <<k, obj[k]>> \in handling
    \/ \E i \in 1..Len(ch[c]) : ch[c][i] = obj[k]

\* handleWatch's "no change in that window can be missed": on a stream whose
\* snapshot read worked and whose channel never overflowed, the newest version
\* was either written or is on its way, whatever happened between subscribe,
\* the live read and the write, and across relists of the informer.
NoMissedChange ==
  \A c \in Clients :
    (pc[c] = "streaming" /\ c \notin lost /\ obj[AgentOf[c]] # 0)
      => lastRV[c] >= obj[AgentOf[c]] \/ OnItsWay(c)

\* handleWatch's "a client can only ever move forward", over reconnects,
\* Registry restarts and deletion followed by re-creation: a config older than
\* the one the client holds is only ever written on a stream that started
\* without a snapshot.
ForwardStep ==
  \A c \in Clients : held'[c] >= held[c] \/ (pc[c] = "streaming" /\ lastRV[c] = 0)
ForwardUnlessNoSnapshot == [][ForwardStep]_vars

\* A handler whose client hung up ends and gives its subscriber back.
HangupIsCleanedUp ==
  \A c \in Clients : (c \in gone /\ c \in subs) ~> (c \notin subs)

\* The version below which handleWatch drops frames, the snapshot's once it is
\* read and lastRV in the loop.
Floor(c) == IF pc[c] = "snapshot" THEN snap[c] ELSE lastRV[c]

\* A connected client never holds more than its stream's floor, so a frame
\* above the floor moves it forward.
FloorInv ==
  \A c \in Clients :
    /\ pc[c] # "streaming" => lastRV[c] = 0
    /\ c \notin gone /\ Floor(c) # 0 => held[c] <= Floor(c)

\* NoMissedChange from the moment the snapshot is read.
CoveredInv ==
  \A c \in Clients :
    ( /\ pc[c] \in {"snapshot", "streaming"}
      /\ c \notin lost
      /\ obj[AgentOf[c]] # 0 )
    => Floor(c) >= obj[AgentOf[c]] \/ OnItsWay(c)

\* The inductive invariant of the proofs: what makes a snapshot taken between
\* two broadcasts, and frames that lag it, fit together.
IndInv == /\ TypeOK
          /\ SubscribersAreConnections
          /\ NeverAhead
          /\ FloorInv
          /\ CoveredInv

=============================================================================
