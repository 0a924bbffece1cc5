CONSTANTS
  portwatch = portwatch
  berthmaster = berthmaster
  Writers = {portwatch, berthmaster}
  Skew <- OneClock
  Decisions = {"a"}
  MaxRecords = 4
  MaxNow = 6
  MaxDamage = 2
SPECIFICATION Spec
CHECK_DEADLOCK FALSE
INVARIANTS ChainVerifies BreakIsFirstDamage
