CONSTANTS
  Values = {v1, v2}
  NoValue = none
  Capacity = 4
  MaxDropped = 2
  MaxOps = 2
  MaxUnhedged = 1
  Targets = {2}
  MaxArbs = 2
  MaxWorking = 3
  ArbEnd = 2
  RiskCfg <- MCRiskCfg
  PriceScale = 4
  OneSecond = 2
  Offers <- MCOffers
  Exposures = {0, 1}
  Results <- MCResults
  Notionals = {1}
  RiskEnd = 4
  MaxReports = 2
  MaxApproved = 3
  MaxAdverse = 3
  Horizons = {1, 2}
  Tokens = {yes, no}
  NoToken = none
  AdvEnd = 2
  MaxFills = 5
  MaxLevels = 2
  Prices = {1, 2, 3}
  LevelSizes = {0, 1, 2}
  Snapshots <- MCSnapshots
  MaxRecorded = 2
  MaxRuns = 2
  Markets = {m1, m2}
  NoMarket = none
  ReadMax = 2
  BufMax = 3
  MaxConnects = 1
  MaxQueue = 4
  MaxFaults = 2
SPECIFICATION PartsSpec
INVARIANT PartsTypeOK
INVARIANT StateFollowsFills
 
 
 
 
PROPERTY RingIsFifo
 
 
 
PROPERTY ApprovedFits
 
 
CHECK_DEADLOCK FALSE
