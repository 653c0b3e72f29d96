CONSTANTS
  MemberNames <- TheNames
  Inputs <- TheInputs
  Metas <- TheMetas
  MaxDepth = 3
  s1 = s1
  s2 = s2
  Servers = {s1, s2}
  Preferred = {s2}
  Platform = "win"
  Attempts = 3
  Rounds = 3
  None = none
SPECIFICATION MCSpec
CHECK_DEADLOCK FALSE
INVARIANTS TextInv MetaArrives PoolSafe FinderInv
PROPERTIES SkipStopsAtItsEnd RemoveAllReturns
