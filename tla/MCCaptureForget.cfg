SPECIFICATION Spec
CONSTANTS
  o1 = o1
  o2 = o2
  Observations = {o1, o2}
  None = None
  Findings <- Both
  Members <- Alone
  OthersWait = TRUE
  MaxForgets = 2
  MaxFaults = 1
  MaxScans = 1
  MaxRestores = 1
INVARIANTS
  ForgottenStaysGone
  
  
CHECK_DEADLOCK FALSE
