SPECIFICATION FairRunningSpec
CONSTANTS
  Callers = {c1, c2}
  Sessions = {s1}
  Approvals = {a1}
  Disclosures = {}
  Reviews = {}
  Profiles <- MCLax
  Batches <- MCNoBatches
  NoId = NoId
  ReuseIds = TRUE
  MaxCalls = 3
  MaxFaults = 0
PROPERTY TerminalGetsBundle
