CONSTANTS
  a1 = a1 a2 = a2 a3 = a3 s1 = s1 s2 = s2 ghost = ghost o1 = o1
  NoArrival = NoArrival
  Arrivals = {a1, a2}
  Slots = {s1}
  HasClient = {s1}
  HasExpectation = {s1}
  FirstDay <- MCFirstDay
  LastDay <- MCLastDay
  Messages <- OneSlotMessages
  OneShots = {}
  MaxMsgs = 3
  MaxNow = 2
  MaxCrashes = 1
  MaxSweepFails = 0
SPECIFICATION Spec
SYMMETRY ArrivalSymmetry
CHECK_DEADLOCK FALSE
INVARIANTS VoidIsOwed SupersessionOrder AssignmentsTraceable StateMatchesSides
