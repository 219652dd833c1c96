SPECIFICATION PartsSpec
CONSTANTS
  l1 = l1
  l2 = l2
  l3 = l3
  r1 = r1
  Procs = {l1, l2, l3, r1}
  Foreign = {r1}
  Absent = Absent
  Unread = Unread
  LoneReclaimer = TRUE
  OwnersOutlive = TRUE
  MaxDeaths = 2
  e1 = e1
  e2 = e2
  u = u
  d1 = d1
  d2 = d2
  Free = Free
  Evaluators = {e1, e2}
  Users = {u}
  Dirs = {d1, d2}
  OutputsOf <- SameOrOther
  DependsOn <- TwoSteps
  MaxMishaps = 1
  Unset = Unset
INVARIANTS  NoResultOutlivesForget SentOnce
PROPERTY CleanupEnds
