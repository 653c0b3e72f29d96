CONSTANTS
  Workers = {w1, w2}
  None = none
  NumVars = 2
  MaxTrend = 2
  MaxTick = 2
  MaxBuild = 2
  DaqNames = {d1, d2}
  SwitchesVar = FALSE
  ServerStopsFirst = TRUE
SPECIFICATION Spec
CHECK_DEADLOCK FALSE
INVARIANT FeedsOnlyAnArray
