CONSTANTS
  Days <- MCDays
  MaxSteps = 5
  Windows = {1, 2, 3}
SPECIFICATION Spec
CHECK_DEADLOCK FALSE
INVARIANTS DistanceUndoesMove RollStaysInWindow
