SPECIFICATION Spec
CONSTANTS
  Producers = {p1}
  Batches = {b1, b2}
  NoBatch = NoBatch
  Keyed = {b1}
  Size = 2
  RetryableStatusCodes <- MCStatuses
  Statuses <- MCStatuses
  MaxAttempts = 2
  MaxPollAttempts = 1
  Workers = {w1, w2}
  Overlap = FALSE
  MaxSends = 2
  MaxFaults = 1
SYMMETRY Symmetry
INVARIANT StoredOnce
INVARIANT BatchOrder
INVARIANT ToldIsStored
PROPERTY StreamKept
