CONSTANTS
  s1 = s1
  s2 = s2
  Servers = {s1, s2}
  Preferred = {s2}
  Platform = "boost"
  Attempts = 3
  Rounds = 3
  None = none
SPECIFICATION FairSpec
CHECK_DEADLOCK FALSE
PROPERTIES RemoveAllReturns
