CONSTANTS
  Instances = {p1}
  Names = {n1}
  Contents = {c1, c2}
  NoContent = NoContent
  QuietScans = 2
  ChanCap = 1
  Habits = {"overwrite"}
  FaultKinds = {}
  MaxWrites = 4
  MaxIds = 6
  MaxFaults = 0
SPECIFICATION FairSpec
CHECK_DEADLOCK FALSE
PROPERTY LandedIsPublished
