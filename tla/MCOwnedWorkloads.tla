-------------------------- MODULE MCOwnedWorkloads --------------------------
(* OwnedWorkloads on an MCPServer and a Trigger whose Deployments have the  *)
(* same name, as an MCPServer lark-adapter and a Trigger lark have.         *)
EXTENDS OwnedWorkloads

CONSTANTS x, y, ag, cr, url, s1, s2

Write(o, sp) == [obj |-> o, spec |-> sp]

SameName == [o \in Owners |-> "lark-adapter"]

Image  == [external |-> None, port |-> 0, replicas |-> 1]
Moved  == [Image EXCEPT !.port = 9000]
Vendor == [Image EXCEPT !.external = url]
Lark   == [valid |-> TRUE, agent |-> ag, credential |-> cr, replicas |-> 1]

\* The MCPServer alone; the Trigger with all it names, or before its Credential.
McpWorld     == [n \in Objects |-> IF n = x THEN Image ELSE None]
TriggerWorld == [n \in Objects |-> CASE n = x -> None
                                     [] n = y -> Lark
                                     [] n = ag -> [port |-> 8080]
                                     [] n = cr -> [secret |-> s1]]
Worlds == {McpWorld, TriggerWorld, [TriggerWorld EXCEPT ![cr] = None]}

AllEdits ==
  { Write(x, Moved), Write(x, Vendor),
    Write(y, [Lark EXCEPT !.valid = FALSE]), Write(y, [Lark EXCEPT !.credential = None]),
    Write(y, None), Write(ag, [port |-> 9000]), Write(ag, [port |-> None]),
    Write(cr, [secret |-> s2]), Write(cr, None) }
=============================================================================
