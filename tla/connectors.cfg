SPECIFICATION FairSpec
CONSTANTS
  Workers = {w1, w2}
  None = None
  Steps <- MCSteps
  MaxTime = 100
  MaxSetBack = 100
  Manifests <- MCManifests
  Prefilled <- MCPrefilled
  MaxCalls = 3
  MaxFaults = 1
INVARIANT LeasesWithinBudget
INVARIANT RequestsAreLeased
PROPERTY RetryIsGranted
PROPERTY EveryCallReturns
