-------------------------- MODULE MCAgentReconcile --------------------------
(* AgentReconcile on small worlds.                                         *)
EXTENDS AgentReconcile

CONSTANTS a, b, c, m, t, s, p

Write(o, sp) == [obj |-> o, spec |-> sp]

\* Agents: the least there can be, one that inherits model and policies from
\* class c and gets a tool through set s, one that answers peers, and one that
\* consults a peer.
Plain    == [valid |-> TRUE, class |-> None, model |-> m, tools |-> {},
             toolSets |-> {}, policies |-> {}, runtime |-> FALSE, expose |-> FALSE]
Inherits == [Plain EXCEPT !.class = c, !.model = None, !.toolSets = {s},
                          !.runtime = TRUE]
Exposed  == [Plain EXCEPT !.expose = TRUE, !.runtime = TRUE]
Consults == [Plain EXCEPT !.toolSets = {s}, !.policies = {p}]

Class      == [model |-> m, tools |-> {}, policies |-> {p}]
OpenPolicy == [models |-> NoRule, tools |-> [allow |-> {}, deny |-> {}]]
DenyTool   == [models |-> NoRule, tools |-> [allow |-> {}, deny |-> {t}]]
PlainTool  == [agentRef |-> None]
PeerTool   == [agentRef |-> b]

World(agentA, agentB, tool) ==
  [n \in Objects |->
     CASE n = a -> agentA
       [] n = b -> agentB
       [] n = c -> Class
       [] n = m -> "model"
       [] n = t -> tool
       [] n = s -> [tools |-> {t}]
       [] n = p -> OpenPolicy]

\* What an Agent inherits, and what it reaches through a ToolSet, is changed,
\* deleted and created again.
RouteWorld == World(Inherits, None, PlainTool)
RouteEdits ==
  { Write(c, [Class EXCEPT !.policies = {}]), Write(c, None),
    Write(m, "model"), Write(m, None), Write(p, DenyTool),
    Write(s, [tools |-> {}]), Write(t, None) }

\* The Agent itself is rewritten, broken, deleted and created again.
RewriteWorld == World(Plain, None, None)
RewriteEdits ==
  { Write(a, Plain), Write(a, Exposed), Write(a, [Exposed EXCEPT !.valid = FALSE]),
    Write(a, [Plain EXCEPT !.model = None]), Write(a, None), Write(m, None) }

\* A consults b through a peer tool in set s, which its Policy may come to deny.
PeerWorld == World(Consults, Exposed, PeerTool)
PeerEdits == { Write(b, Exposed), Write(b, Plain), Write(b, None),
               Write(t, PeerTool), Write(t, [agentRef |-> a]), Write(p, DenyTool) }
=============================================================================
