CONSTANTS
  Workers = {w1, w2}
  Main = main
  NoThread = none
  MaxSession = 1
  Lifetime = 3
  RequestTicks = 1
  LateRequests = TRUE
  OverlappingPolls = TRUE
  CallbackFires = FALSE
  ShutdownPossible = TRUE
SPECIFICATION FairSpec
CHECK_DEADLOCK FALSE
INVARIANTS SafeInv
PROPERTIES DeleteCompletes AbandonedReclaimed ShutdownReturns
