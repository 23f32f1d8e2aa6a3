SPECIFICATION FairSpec
CONSTANTS
  o1 = o1
  o2 = o2
  p1 = p1
  p2 = p2
  wrong = wrong
  c1 = c1
  r1 = r1
  d1 = d1
  x1 = x1
  legacy = legacy
  None = None
  Nil = None
  Workers = {w1, w2}
  Events = {p1, d1, c1, legacy}
  Reprocessable = {p1}
  Orders = {o1, o2}
  CheckoutOrders = {o1}
  Rules = {g1}
  EventOf <- MCEventOf
  Policy <- ReviewPolicy
  RefundWindow = 0
  MaxTime = 0
  MaxFaults = 1
  MaxAborts = 0
INVARIANTS
  DisputeLeavesFlag
PROPERTIES
  NoEventStuck
  PaymentIsDelivered
CHECK_DEADLOCK FALSE
