SPECIFICATION FairSpec
CONSTANTS
  km = km
  kl = kl
  Never = Never
  Keys = {km, kl}
  SkuOf <- MCSkuOf
  Tries = {1, 2}
  Clients <- MCClients
  Hooks = {1}
  Kinds <- MCKinds
  Period = 1
  MaxTime = 1
  MaxFaults = 1
  MaxRows = 1
  MaxSessions = 3
INVARIANTS
  TypeOK
  PaymentIsKept
PROPERTIES
  CheckoutOpens
CHECK_DEADLOCK FALSE
