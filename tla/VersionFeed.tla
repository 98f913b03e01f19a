---------------------------- MODULE VersionFeed ----------------------------
(***************************************************************************)
(* What the Registry promises a runtime, without hub, channels, informer   *)
(* or handlers: versions of an Agent are published, and a runtime is shown *)
(* some of them, never an older one after a newer one, never one that was  *)
(* not published, and in the end the newest. The two exceptions of the     *)
(* code are parameters: a stream that has shown nothing yet may start      *)
(* anywhere, and only a stream that lost nothing owes the newest version.  *)
(***************************************************************************)
EXTENDS Naturals

CONSTANTS
  Agents, Clients,
  AgentOf        \* the Agent a client follows

VARIABLES
  top,      \* the last revision
  newest,   \* newest[k]: the version of Agent k, 0 when there is none
  known,    \* known[c]: the version client c was shown last, 0 at first
  fresh,    \* clients whose stream has shown nothing yet
  whole     \* clients that are connected to a stream that lost nothing

feed == <<top, newest, known>>

Init ==
  /\ top = 0
  /\ newest = [k \in Agents |-> 0]
  /\ known = [c \in Clients |-> 0]

\* A new version of Agent k.
Publish(k) ==
  /\ top' = top + 1
  /\ newest' = [newest EXCEPT ![k] = top + 1]
  /\ UNCHANGED known

\* Agent k is deleted.
Withdraw(k) ==
  /\ newest[k] # 0
  /\ top' = top + 1
  /\ newest' = [newest EXCEPT ![k] = 0]
  /\ UNCHANGED known

\* The versions c may be shown.
Showable(c) ==
  {v \in 1..(IF newest[AgentOf[c]] = 0 THEN top ELSE newest[AgentOf[c]]) :
     v >= known[c] \/ c \in fresh}

Show(c) ==
  /\ \E v \in Showable(c) : known' = [known EXCEPT ![c] = v]
  /\ UNCHANGED <<top, newest>>

Next ==
  \/ \E k \in Agents : Publish(k) \/ Withdraw(k)
  \/ \E c \in Clients : Show(c)

\* What a client is owed: the version that is the newest now.
ShowNewest(c) ==
  /\ c \in whole
  /\ newest[AgentOf[c]] # 0
  /\ known' = [known EXCEPT ![c] = newest[AgentOf[c]]]
  /\ UNCHANGED <<top, newest>>

Safe == Init /\ [][Next]_feed

Spec == Safe /\ \A c \in Clients : WF_feed(ShowNewest(c))
=============================================================================
