CONSTANTS
  Names = {"a", "b"}
  Trend = "trend"
  List = "list"
  VarLists <- SomeLists
  NoList = nolist
  Unknown = "nil"
  Cycles = {50}
  DefaultCycle = 200
  MaxObject = 2
  MaxPut = 2
  NameClashes = FALSE
  ExternalTimer = TRUE
SPECIFICATION Spec
CHECK_DEADLOCK FALSE
INVARIANTS DaqInv
PROPERTIES AnswersMatchRequest
