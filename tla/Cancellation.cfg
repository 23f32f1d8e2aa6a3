SPECIFICATION FairSpec
CONSTANTS
  k1 = k1
  k2 = k2
  r1 = r1
  r2 = r2
  w1 = w1
  w2 = w2
  Never = Never
  NoKey = NoKey
  Workers = {w1, w2}
  Scripts <- MCScripts
  Period = 2
  MaxTime = 4
  MaxFaults = 3
INVARIANTS
  TypeOK
  AnswerIsTrue
  OneActiveRow
PROPERTIES
  ProviderFirst
  EveryCallSettles
CHECK_DEADLOCK FALSE
