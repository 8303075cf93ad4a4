CONSTANTS
  m1 = m1
  m2 = m2
  NoMarket = NoMarket
  ActiveMarket = m1
  Prices <- MCPrices
  Books <- MCBooks
  Transit = 1
  CancelTransit = 1
  MaxSize = 2
  MaxTime = 2
  Markets = {m1, m2}
  NumSlots = 1
  Requests <- TwoMarketRequests
  TradeSizes = {1, 3}
  LevelSizes = {1, 3}
  QueueModels = {"CONSERVATIVE", "REALISTIC", "AGGRESSIVE"}
  MaxOid = 2
SPECIFICATION Spec
INVARIANT LimitRespected
CHECK_DEADLOCK FALSE
