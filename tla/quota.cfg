SPECIFICATION FairSpec
CONSTANTS
  Clients = {c1, c2, c3}
  Rate <- MCRate
  Unit <- MCUnit
  MaxSkew = 1
  None = None
  MaxTime = 5
  MaxCalls = 5
  MaxFaults = 1
INVARIANT SavesOverWhatItRead
INVARIANT RateRespected
INVARIANT ServedInOrder
INVARIANT LockIsCollected
PROPERTY RetryIsGranted
PROPERTY EveryCallReturns
