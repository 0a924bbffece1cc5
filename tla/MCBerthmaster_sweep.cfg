CONSTANTS
  a1 = a1 a2 = a2 a3 = a3 s1 = s1 s2 = s2 ghost = ghost o1 = o1
  NoArrival = NoArrival
  Arrivals = {a1, a2}
  Slots = {s1, s2}
  HasClient = {s1, s2}
  HasExpectation = {s1, s2}
  FirstDay <- MCFirstDay
  LastDay <- MCLastDay
  Messages <- TwoSlotMessages
  OneShots = {o1}
  MaxMsgs = 3
  MaxNow = 3
  MaxCrashes = 0
  MaxSweepFails = 1
SPECIFICATION Spec
CHECK_DEADLOCK FALSE
INVARIANTS MissingIsAlerted OrphansAccounted
PROPERTY NothingForgotten
