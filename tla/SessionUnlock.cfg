CONSTANTS
  Workers = {w1, w2}
  Main = main
  NoThread = none
  MaxSession = 1
  Lifetime = 4
  RequestTicks = 2
  LateRequests = FALSE
  OverlappingPolls = FALSE
  CallbackFires = FALSE
  ShutdownPossible = FALSE
SPECIFICATION Spec
CHECK_DEADLOCK FALSE
INVARIANTS MutexFreeWhenDestroyed
