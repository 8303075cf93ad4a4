CONSTANTS
  RiskCfg <- MCRiskCfg
  PriceScale = 1
  OneSecond = 1
  MaxOps = 1
  MaxUnhedged = 1
  MaxRecords = 2
  Sizes = {2}
  MaxTicks = 2
  MaxTime = 2
  MaxRestarts = 1
SPECIFICATION TradingSpec
INVARIANT TradingTypeOK
INVARIANT FillsTraced
INVARIANT CompletedOnSettlement
 
INVARIANT CountersNest
INVARIANT ArbMgrUninformed
PROPERTY KillStopsStrategies
CHECK_DEADLOCK FALSE
