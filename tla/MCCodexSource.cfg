SPECIFICATION Spec
CONSTANTS
  None = None
  s1 = s1
  a1 = a1
  t1 = t1
  t2 = t2
  Sessions <- TheSessions
  Archived <- TheArchived
  Openings <- TheOpenings
  Lines <- TheLines
  Scanners = {p}
  Start = 2
  End = 4
  Unarchives = FALSE
  TargetLimit = 16
  HardLimit = 18
  MinPrefix = 3
  MaxAccepted = 2
  MaxEdits = 2
  MaxScans = 2
  MaxForgets = 1
  MaxFaults = 1
INVARIANTS FoundOrReported ForgottenIsUncached
PROPERTIES LoadedTurnIsWhole
CHECK_DEADLOCK FALSE
