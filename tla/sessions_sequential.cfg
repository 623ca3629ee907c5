SPECIFICATION Spec
CONSTANTS
  Callers = {c1}
  Sessions = {s1, s2}
  Approvals = {a1, a2}
  Disclosures = {d1}
  Reviews = {r1}
  Profiles <- MCProfiles
  Batches <- MCBatches
  NoId = NoId
  ReuseIds = FALSE
  MaxCalls = 5
  MaxFaults = 0
INVARIANT StreamAgrees
INVARIANT StatusAgrees
PROPERTY AwaitedSteps
PROPERTY ImplementsPython
