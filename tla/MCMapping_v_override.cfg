CONSTANTS
  Headers <- MCHeaders
  Fields <- MCFields
  NoField = NoField
  Norm <- MCNorm
  StripNoise <- MCStripNoise
  AliasIndex <- MCAliasIndex
  Clients = {"c1"}
  NoClient = NoClient
  Overrides <- MCOverrides
  PriceHint <- MCPriceHint
  SettlementWords <- MCSettlementWords
  TradeWords <- MCTradeWords
  SettlementPreference <- MCPreference
  TradePreference <- MCTradePreference
  Fuzzy <- MCFuzzy
  Semantic <- MCSemantic
  FakeRules <- MCFakeRules
  Tables <- MCTables
  Replies <- MCReplies
  NotIterable = NotIterable
  Workers = {w1, w2}
  MaxAttempts = 2
  MaxFiles = 2
  MaxCrashes = 1
SPECIFICATION Spec
CHECK_DEADLOCK FALSE
INVARIANT ConfigurationOutranksInference
