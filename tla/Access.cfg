SPECIFICATION Spec
CONSTANTS
  k1 = k1
  k2 = k2
  k3 = k3
  e1 = e1
  e2 = e2
  d1 = d1
  d2 = d2
  q1 = q1
  q2 = q2
  v1 = v1
  v2 = v2
  Emails = {e1}
  Devices = {d1, d2}
  Keys = {k1, k2, k3}
  KeyOf <- MCKeyOf
  Tried = {k1}
  Creators = {q1, q2}
  Verifiers = {v1, v2}
  Overlapping = {"right"}
  MaxDevices = 1
  MaxAttempts = 2
  MaxPerEmail = 1
  MaxPerIP = 1
  TTL = 1
  Window = 1
  MaxTime = 2
  MaxFaults = 1
SYMMETRY Symmetry
INVARIANTS
  TypeOK
  LimitsHold
PROPERTIES
  OneSessionPerChallenge
CHECK_DEADLOCK FALSE
