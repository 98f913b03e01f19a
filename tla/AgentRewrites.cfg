CONSTANTS
  a = a
  b = b
  c = c
  m = m
  t = t
  s = s
  p = p
  None = None
  Wildcard = Wildcard
  NoRule = NoRule
  Names = {m, t, Wildcard}
  Agents = {a}
  Classes = {}
  Models = {m}
  Tools = {}
  ToolSets = {}
  Policies = {}
  InitSpec <- RewriteWorld
  Edits <- RewriteEdits
  MaxEdits = 2
  MaxFaults = 1
SPECIFICATION FairSpec
CHECK_DEADLOCK FALSE
INVARIANTS TypeOK HashIsCurrent EndpointFollowsExpose
PROPERTY ComesToRest
