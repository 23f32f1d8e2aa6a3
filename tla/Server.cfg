SPECIFICATION Spec
CONSTANTS
  s1 = s1
  s2 = s2
  None = None
  Unread = Unread
  Servers = {s1, s2}
  Requests = {1, 2}
  Scenes <- MCScenes
  Tables = 4
  ProductTable = 3
  MaxTokens = 2
  RefillRate = 1
  IdleTime = 2
  Buffer = 1
  MaxDeaths = 1
  MaxFaults = 1
INVARIANTS
  TypeOK
  ProductionIsSafe
  ServesTheCatalog
  TrailIsKept
  BurstsBounded
