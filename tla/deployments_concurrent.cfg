SPECIFICATION CreatedSpec
CONSTANTS
  Operators = {o1, o2}
  Deployments = {d1}
  Blueprints = {b1, b2}
  Kinds = {k1}
  Artifacts = {a1}
  Runs = {r1}
  NoId = NoId
  ReuseIds = TRUE
  MaxCalls = 3
  MaxFaults = 1
SYMMETRY Symmetry
INVARIANT AuditExplainsState
PROPERTY GatedActivation
