CONSTANTS
  s1 = s1 a1 = a1 a2 = a2 a3 = a3 a4 = a4 k1 = k1 k2 = k2 r1 = r1 r2 = r2 usd = usd blank = blank
  Slots = {s1}
  Sides <- MCSides
  Arrivals = {a1, a2, a3, a4}
  NoAssignment = 0
  Content <- MCContent
  Named = {}
  Fields = {"net_amount", "currency"}
  Null = Null
  Texts = {usd, blank}
  Blank = blank
  MaxStubCrashes = 1
  Reviewers = {r1, r2}
  Nobody = Nobody
  MaxBoardCrashes = 1
  MaxSkips = 1
  Mentioned = {a1, a2}
  Pairings <- MCPairings
  Quotas <- StubQuotas
SPECIFICATION StubSpec
CHECK_DEADLOCK FALSE

PROPERTY EveryAssignmentReconciled
