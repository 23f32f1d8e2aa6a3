SPECIFICATION RenewalLife
CONSTANTS
  c0 = c0
  s0 = s0
  s1 = s1
  l1 = l1
  f1 = f1
  x1 = x1
  None = None
  Nil = None
  Checkout = Checkout
  Requests = {w1, w2}
  Events = {c0, s0, s1, f1}
  EventOf <- MCEventOf
  BillingPeriod = 3
  Tolerance = 1
  GracePeriod = 1
  ExpiredAction = "expire_grace"
  Deadlines = {1, 2}
  LastTime = 4
  MaxFailures = 1
  MaxAborts = 1
SYMMETRY Symmetry
INVARIANTS
  RenewalsTyped
  PaidPeriodsAreGiven
  RenewalsAgree
CHECK_DEADLOCK FALSE
