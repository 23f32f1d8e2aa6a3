SPECIFICATION UserLife
CONSTANTS
  Never = Never
  TrialLength = 1
  Period = 2
  GraceLength = 1
  ManualGoods = {"cloud_storage"}
  ManualEnds <- MCManualEnds
  LastDay = 3
  MaxOrders = 2
  MaxRows = 2
  MaxManual = 1
INVARIANTS
  RowsTyped
  OneStory
  OfferedIsAccepted
CHECK_DEADLOCK FALSE
