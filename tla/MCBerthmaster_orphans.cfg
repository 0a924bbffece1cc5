CONSTANTS
  a1 = a1 a2 = a2 a3 = a3 s1 = s1 s2 = s2 ghost = ghost o1 = o1
  NoArrival = NoArrival
  Arrivals = {a1}
  Slots = {s1}
  HasClient = {s1}
  HasExpectation = {s1}
  FirstDay <- MCFirstDay
  LastDay <- MCLastDay
  Messages <- OneFileMessages
  OneShots = {o1}
  MaxMsgs = 4
  MaxNow = 1
  MaxCrashes = 1
  MaxSweepFails = 0
SPECIFICATION Spec
CHECK_DEADLOCK FALSE
INVARIANT OrphansAccounted
