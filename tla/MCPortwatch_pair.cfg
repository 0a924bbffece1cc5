CONSTANTS
  Instances = {p1, p2}
  Names = {n1}
  Contents = {c1, c2}
  NoContent = NoContent
  QuietScans = 1
  ChanCap = 1
  Habits = {"remove"}
  FaultKinds = {"crash", "error"}
  MaxWrites = 4
  MaxIds = 4
  MaxFaults = 1
SPECIFICATION Spec
SYMMETRY PortSymmetry
CHECK_DEADLOCK FALSE
INVARIANT TypeOK
PROPERTY ImplementsIntake
