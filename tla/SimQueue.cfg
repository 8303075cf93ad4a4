CONSTANTS
  m1 = m1
  m2 = m2
  NoMarket = NoMarket
  ActiveMarket = m1
  Prices <- MCPrices
  Books <- MCBooks
  Transit = 1
  CancelTransit = 1
  MaxSize = 2
  MaxTime = 2
  Markets = {m1}
  NumSlots = 2
  Requests <- OneMarketRequests
  TradeSizes = {1, 3}
  LevelSizes = {1, 3}
  QueueModels = {"REALISTIC"}
  MaxOid = 2
SPECIFICATION Spec
INVARIANT TypeOK
INVARIANT SharesConserved
INVARIANT QueueAccounted
INVARIANT NothingBeforeArrival
PROPERTY TradesServeTheQueue
PROPERTY ImplementsOpenOrders
CHECK_DEADLOCK FALSE
