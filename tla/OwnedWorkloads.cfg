CONSTANTS
  x = x
  y = y
  ag = ag
  cr = cr
  url = url
  s1 = s1
  s2 = s2
  None = None
  MCPServers = {x}
  Triggers = {y}
  Agents = {ag}
  Credentials = {cr}
  Ports = {8080, 9000}
  URLs = {url}
  Secrets = {s1, s2}
  NameOf <- SameName
  InitSpecs <- Worlds
  Edits <- AllEdits
  MaxReplicas = 1
  MaxEdits = 1
  MaxFaults = 1
SPECIFICATION Spec
CHECK_DEADLOCK FALSE
INVARIANTS TypeOK McpServesItsEndpoint AdapterIsCurrent
PROPERTIES NoTakeover Settles
