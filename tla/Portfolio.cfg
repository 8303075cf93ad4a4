CONSTANTS
  Markets = {m1}
  NoMarket = NoMarket
  NoStrategy = NoStrategy
  Strategies = {PARITY5M}
  Signals = {0, 7, 8}
  Prices = {2, 3}
  Dollar = 5
  Bids = {4}
  Sizes = {1, 2}
  MaxPositions = 2
  Grain = 6
  MaxShares = 3
  MaxFills = 3
SPECIFICATION Spec
INVARIANT TypeOK
INVARIANT LedgerBalances
INVARIANT ExposureFollowsPositions
INVARIANT RealizedIsAttributed
INVARIANT AttributionUnique
INVARIANT NothingHeldCostsNothing
PROPERTY SettledForGood
CHECK_DEADLOCK FALSE
