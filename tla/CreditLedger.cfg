CONSTANTS
  Users = {u1, u2}
  Keys = {k1, k2}
  Orders = {o1, o2}
  GrantAmounts = {3}
  HoldAmounts = {2}
  HoldExpiries = {2}
  SweepTimes = {1, 2}
  OrderTerms <- MCOrderTerms
  Limits = {0, 1}
  MaxTime = 2
  MaxBuckets = 2
  LegacyBalance <- MCLegacyBalance
  Never = Never
SYMMETRY Symmetry
SPECIFICATION Spec
INVARIANTS
  TypeOK
  LedgerExplainsBalance
  CreditsAddUp
PROPERTIES
  SpendsEarliestFirst
  ImplementsWallet
CHECK_DEADLOCK FALSE
