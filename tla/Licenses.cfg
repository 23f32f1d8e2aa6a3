SPECIFICATION Spec
CONSTANTS
  w1 = w1
  w2 = w2
  mac = mac
  pc = pc
  Workers = {w1, w2}
  Devices = {mac, pc}
  Providers = {"alipay"}
  Validities = {"monthly", "lifetime"}
  MonthLength = 1
  YearLength = 2
  Grace = 1
  Never = Never
  NoLicense = NoLicense
  MaxTime = 2
  MaxOrders = 2
  MaxSwaps = 1
  MaxFaults = 1
INVARIANTS
  TypeOK
  PaidIsGiven
SYMMETRY Symmetry
CHECK_DEADLOCK FALSE
