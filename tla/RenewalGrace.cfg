SPECIFICATION FairRenewalLife
CONSTANTS
  c0 = c0
  s0 = s0
  s1 = s1
  l1 = l1
  f1 = f1
  x1 = x1
  None = None
  Nil = None
  Checkout = Checkout
  Requests = {w1, w2}
  Events = {c0, f1, x1, l1}
  EventOf <- MCEventOf
  BillingPeriod = 3
  Tolerance = 1
  GracePeriod = 2
  ExpiredAction = "expire_grace"
  Deadlines = {1, 2, 4, 5}
  LastTime = 5
  MaxFailures = 1
  MaxAborts = 0
PROPERTIES
  GraceRunsItsCourse
  EventsConverge
CHECK_DEADLOCK FALSE
