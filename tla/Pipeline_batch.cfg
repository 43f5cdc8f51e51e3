SPECIFICATION FairSpec
CONSTANTS
  u1 = u1
  u2 = u2
  t1 = t1
  t2 = t2
  Users <- TwoUsers
  Tickers <- OneTicker
  MaxRequests = 2
  MaxFaults = 1
INVARIANTS TypeOK NoDoubleSend ComputedForAll
PROPERTIES AddedStockShown RemovedStockForgotten
