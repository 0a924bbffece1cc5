CONSTANTS
  Instances = {p1}
  Names = {n1}
  Contents = {c1}
  NoContent = NoContent
  QuietScans = 1
  ChanCap = 1
  Habits = {}
  FaultKinds = {"crash"}
  MaxWrites = 2
  MaxIds = 3
  MaxFaults = 1
SPECIFICATION Spec
SYMMETRY PortSymmetry
CHECK_DEADLOCK FALSE
INVARIANT SuppressedWasPublished
