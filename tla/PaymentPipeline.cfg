SPECIFICATION Spec
CONSTANTS
  o1 = o1
  o2 = o2
  p1 = p1
  p2 = p2
  wrong = wrong
  c1 = c1
  r1 = r1
  d1 = d1
  x1 = x1
  legacy = legacy
  None = None
  Nil = None
  Workers = {w1, w2}
  Events = {p1, wrong, r1, x1}
  Reprocessable = {p1, r1}
  Orders = {o1}
  CheckoutOrders = {o1}
  Rules = {g1, g2}
  EventOf <- MCEventOf
  Policy <- MixedPolicy
  RefundWindow = 0
  MaxTime = 1
  MaxFaults = 1
  MaxAborts = 1
SYMMETRY Symmetry
INVARIANTS
  TypeOK
  PaidIsDelivered
PROPERTIES
  ImplementsPurchase
CHECK_DEADLOCK FALSE
