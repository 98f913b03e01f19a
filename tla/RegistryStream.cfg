CONSTANTS
  a1 = a1
  a2 = a2
  c1 = c1
  Agents = {a1, a2}
  Clients = {c1}
  AgentOf <- OneAgent
  Cap = 2
  MaxRev = 4
  FlakyReads = TRUE
SPECIFICATION FairSpec
INVARIANTS TypeOK NoMissedChange SubscribersAreConnections NeverAhead
PROPERTIES ForwardUnlessNoSnapshot ImplementsFeed HangupIsCleanedUp
