CONSTANTS
  a = a
  b = b
  c = c
  m = m
  t = t
  s = s
  p = p
  None = None
  Wildcard = Wildcard
  NoRule = NoRule
  Names = {m, t, Wildcard}
  Agents = {a}
  Classes = {c}
  Models = {m}
  Tools = {t}
  ToolSets = {s}
  Policies = {p}
  InitSpec <- RouteWorld
  Edits <- RouteEdits
  MaxEdits = 2
  MaxFaults = 0
SPECIFICATION Spec
CHECK_DEADLOCK FALSE
INVARIANTS ReadyIffCoherent HashIsCurrent MissingIsExact
