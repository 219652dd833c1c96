SPECIFICATION FairSpec
CONSTANTS
  p1 = p1
  p2 = p2
  m1 = m1
  m2 = m2
  s1 = s1
  s2 = s2
  c1 = c1
  o1 = o1
  o2 = o2
  Procs = {p1, p2}
  Ids = {m1}
  Sources = {s1, s2}
  Candidates = {c1}
  Observations = {o1, o2}
  Requests <- ManyRequests
  Session <- Sessions
  Day <- Days
  Absent = Absent
  MaxFaults = 1
  Width <- Widths
INVARIANTS  BatchesAreWhole 
PROPERTY ReviewsCatchUp
