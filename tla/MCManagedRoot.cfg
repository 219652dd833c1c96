SPECIFICATION FairSpec
CONSTANTS
  a = a
  b = b
  s1 = s1
  s2 = s2
  z = z
  r = r
  Ids = {a, b}
  Sources = {s1, s2}
  Slots = {z}
  Requests = {r}
  Absent = Absent
  TextMentions <- BMentionsA
  CardMentions <- None
  Recreate = FALSE
  MaxCalls = 5
  MaxFaults = 1
INVARIANTS ForgetIsExact RestoreIsWhole 
PROPERTY ForgetConverges
