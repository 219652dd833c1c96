SPECIFICATION ReportsSpec
CONSTANTS
  s1 = s1
  r1 = r1
  r2 = r2
  Hashes = {r1, r2}
  Unassessed = Unassessed
  Revisions = {r1, r2}
  Versions <- OneChanges
  Hooked = {r1}
  Scanners = {s1}
  None = None
  MaxAttempts = 1
  RetryIsApart = TRUE
  MaxScans = 2
  MaxFaults = 1
  MaxCalls = 1
  MaxEvents = 3
INVARIANTS ViewIsTruth ReportsAreTrue
PROPERTY ScanLosesNothing
CHECK_DEADLOCK FALSE
