SPECIFICATION Spec
CONSTANTS
  Workers = {w1, w2}
  Observations = {o1}
  MaxAttempts = 1
  ConfigReturns = FALSE
  None = None
  MaxEpoch = 2
  MaxConfig = 1
  MaxRestores = 1
SYMMETRY Symmetry
CONSTRAINT OneBesideRestores
INVARIANTS OneOwner ReadersSeeCommits
PROPERTY CompleteIsFinal
