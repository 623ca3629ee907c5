SPECIFICATION RunningSpec
CONSTANTS
  Callers = {c1, c2}
  Sessions = {s1}
  Approvals = {a1, a2}
  Disclosures = {d1}
  Reviews = {r1}
  Profiles <- MCStrict
  Batches <- MCBatches
  NoId = NoId
  ReuseIds = FALSE
  MaxCalls = 3
  MaxFaults = 1
SYMMETRY Symmetry
INVARIANT CompletionGate
INVARIANT WaitingNamesRequest
INVARIANT ProducerOrder
INVARIANT BundleListsClosing
INVARIANT AuditTrailComplete
PROPERTY ProfileSnapshotKept
