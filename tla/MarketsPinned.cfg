CONSTANTS
  c1 = c1
  c2 = c2
  c3 = c3
  NoCond = NoCond
  NoToken = NoToken
  OtherToken = OtherToken
  Conds = {c1, c2, c3}
  Ids = {1, 2, 3}
  Announced <- Pinned
  Five = {c1, c2}
  Fifteen = {c3}
  Start <- MCStart
  End <- MCEnd
  Result <- MCResult
  Epoch = 0
  Cutoff = 1
  MaxMarkets = 2
  MaxOrders = 2
  MaxTime = 2
SPECIFICATION Spec
INVARIANT PaidByOwnResult
