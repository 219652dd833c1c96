SPECIFICATION Spec
CONSTANTS
  r1 = r1
  r2 = r2
  m1 = m1
  m2 = m2
  Revisions = {r1, r2}
  Configs <- FewConfigs
  FirstConfig <- Base
  Models = {m1, m2}
  None = None
  HostIsStill = TRUE
  MaxAttempts = 2
  MaxCensuses = 1
  MaxEdits = 2
  MaxFaults = 2
SYMMETRY Symmetric
INVARIANTS PoolsBalance CallsAreAuthorized
CHECK_DEADLOCK FALSE
