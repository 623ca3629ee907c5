SPECIFICATION Spec
CONSTANTS
  Workers = {w1, w2}
  None = None
  Steps <- MCSteps
  MaxTime = 4
  MaxSetBack = 1
  MaxCalls = 4
  Refs = {r1}
  Providers = {aws}
  EnvKey <- MCEnvKey
  Environ = {"VAR"}
  StubValues <- MCStubValues
  CacheTtlMs = 2
  MaxVersions = 3
SYMMETRY Symmetry
INVARIANT SecretFresh
