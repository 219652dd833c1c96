SPECIFICATION PartsSpec
CONSTANTS
  Procs = {p1}
  Ids = {"m1"}
  Kinds = {"goal"}
  Sources = {s1, s2}
  Txs = {t1, t2, t3}
  Statuses = {"active", "historical"}
  Absent = Absent
  None = None
  Nobody = Nobody
  Dead = Dead
  AsyncExceptions = TRUE
  MaxOrphans = 1
  Findings = {1, 2, 3}
  CapturedAt <- TwoRuns
  Tasks = {h1, h2}
  Filters <- Everything
  Threshold = 2
  BatchLimit = 2
  PageLimit = 1
  MaxMishaps = 1
CONSTRAINTS ListingApart OneForgotten
INVARIANTS AnswersHold DispatchedOnce ListingIsWhole
PROPERTY QueueMovesOn
