SPECIFICATION Spec
CONSTANTS
  u1 = u1
  u2 = u2
  t1 = t1
  t2 = t2
  Users <- TwoUsers
  Tickers <- OneTicker
  MaxRequests = 2
  MaxFaults = 0
PROPERTIES OnDemandHarmless
