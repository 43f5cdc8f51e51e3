SPECIFICATION Spec
CONSTANTS
  u1 = u1
  u2 = u2
  t1 = t1
  t2 = t2
  Users <- OneUser
  Tickers <- OneTicker
  MaxRequests = 2
  MaxFaults = 1
INVARIANTS NoDoubleSendAcrossRetries
