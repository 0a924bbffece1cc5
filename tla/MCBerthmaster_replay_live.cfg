CONSTANTS
  a1 = a1 a2 = a2 a3 = a3 s1 = s1 s2 = s2 ghost = ghost o1 = o1
  NoArrival = NoArrival
  Arrivals = {a1, a2}
  Slots = {s1, ghost}
  HasClient = {s1}
  HasExpectation = {s1}
  FirstDay <- MCFirstDay
  LastDay <- MCLastDay
  Messages <- OddMessages
  OneShots = {}
  MaxMsgs = 3
  MaxNow = 0
  MaxCrashes = 1
  MaxSweepFails = 0
SPECIFICATION FairSpec
CHECK_DEADLOCK FALSE
INVARIANT CommittedIsAudited
PROPERTIES EveryMessageHandled VoidedIsReplaced
