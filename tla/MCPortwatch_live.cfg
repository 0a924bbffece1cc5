CONSTANTS
  Instances = {p1}
  Names = {n1, n2}
  Contents = {c1, c2}
  NoContent = NoContent
  QuietScans = 2
  ChanCap = 1
  Habits = {}
  FaultKinds = {}
  MaxWrites = 5
  MaxIds = 6
  MaxFaults = 0
SPECIFICATION FairSpec
CHECK_DEADLOCK FALSE
INVARIANTS ContentPublishedOnce PublishedIsWhole SuppressedWasPublished EmittedIsKept
PROPERTY LandedIsPublished
