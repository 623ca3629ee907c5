SPECIFICATION Spec
CONSTANTS
  Operators = {o1}
  Deployments = {d1}
  Blueprints = {b1, b2}
  Kinds = {k1, k2}
  Artifacts = {a1, a2}
  Runs = {r1}
  NoId = NoId
  ReuseIds = FALSE
  MaxCalls = 6
  MaxFaults = 0
SYMMETRY Symmetry
INVARIANT TypeOK
PROPERTY OneOperator
PROPERTY ImplementsPython
