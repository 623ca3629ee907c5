SPECIFICATION MCSpec
CONSTANTS
  t1 = t1
  t2 = t2
  cd1 = cd1
  cd2 = cd2
  cred1 = cred1
  cb1 = cb1
  p1 = p1
  p2 = p2
  g1 = g1
  b1 = b1
  b2 = b2
  d1 = d1
  d2 = d2
  s1 = s1
  s2 = s2
  c1 = c1
  c2 = c2
  k = k
  None = None
  Callers = {c1, c2}
  Tenants = {t1, t2}
  ConnectorDefinitions = {cd1, cd2}
  CredentialBindings = {cred1}
  ConnectorBindings = {cb1}
  PolicyPacks = {p1, p2}
  Guardrails = {g1}
  Blueprints = {b1, b2}
  Deployments = {d1, d2}
  Sessions = {s1, s2}
  Keys = {k}
  Named = {9}
  MaxCalls = 2
  MaxFaults = 1
INVARIANT TenantIsolation
INVARIANT DependenciesPinned
 
INVARIANT AuditComplete
PROPERTY NextVersionIsNew
