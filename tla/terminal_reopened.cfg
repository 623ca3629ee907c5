SPECIFICATION Spec
CONSTANTS
  Callers = {c1}
  Sessions = {s1}
  Approvals = {a1, a2}
  Disclosures = {}
  Reviews = {}
  Profiles <- MCLax
  Batches <- MCNoBatches
  NoId = NoId
  ReuseIds = FALSE
  MaxCalls = 5
  MaxFaults = 0
PROPERTY TerminalFinal
