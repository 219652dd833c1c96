SPECIFICATION FairSpec
CONSTANTS
  Workers = {w1}
  Observations = {o1, o2}
  MaxAttempts = 2
  ConfigReturns = FALSE
  None = None
  MaxEpoch = 2
  MaxConfig = 2
  MaxRestores = 0
INVARIANTS UnfinishedIsActive SettledBeforeComplete
PROPERTIES ExtractionEnds RecoveryConverges
