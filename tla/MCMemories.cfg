SPECIFICATION MemoriesSpec
CONSTANTS
  p1 = p1  p2 = p2  s1 = s1  s2 = s2  s3 = s3  t1 = t1  t2 = t2  t3 = t3 
  m1 = m1  m2 = m2  m3 = m3  f1 = f1  f2 = f2
  Procs = {p1, p2}
  Ids = {"m1"}
  Kinds = {"goal", "pattern"}
  Sources = {s1, s2, s3}
  Txs = {t1, t2, t3}
  Statuses = {"active", "historical"}
  Absent = Absent
  None = None
  Nobody = Nobody
  Dead = Dead
  AsyncExceptions = FALSE
  MaxOrphans = 0
  MemoryIds = {"m1"}
  Drafts <- Documents
  Days = {"2026-08-13", "yesterday"}
  Dates = {"2026-08-13"}
  Budget = 3
  NoValue = NoValue
  Memories = {m1, m2, m3}
  LegacySources = {f1, f2}
  SourceOf <- OneShared
  TextOf <- OwnTexts
  Migrators = {p1, p2}
  Missing = Missing
  MaxFaults = 2
  MaxTouches = 1
SYMMETRY Symmetric
INVARIANTS OnePending StoredIsSound ForgottenIsGone NothingIsStuck
PROPERTIES CommitIsFinal ImplementsAtomicStore
CHECK_DEADLOCK FALSE
