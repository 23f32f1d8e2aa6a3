SPECIFICATION Spec
CONSTANTS
  p1 = p1  p2 = p2  a = a  b = b  c = c  k1 = k1  k2 = k2
  Projects <- MCProjects
  Resources <- MCResources
  ObjectKeys <- MCObjectKeys
  KeyOf <- MCKeyOf
  SizeOf <- MCSizeOf
  Contents <- MCContents
  Tokens = {k1, k2}
  Plans = {"none", "monthly"}
  QuotaOf <- MCQuotaOf
  Syncs = {"s"}
  Commits = {"c", "d"}
  SessionTTL = 0
  MaxSessions = 2
  MaxTime = 1
SYMMETRY Symmetry
INVARIANTS
  TypeOK
  CommitsAreWhole
  QuotaOverrun
