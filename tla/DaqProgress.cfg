CONSTANTS
  Names = {"a", "b"}
  Trend = "trend"
  List = "list"
  VarLists <- NoLists
  NoList = nolist
  Unknown = "nil"
  Cycles = {}
  DefaultCycle = 200
  MaxObject = 2
  MaxPut = 2
  NameClashes = FALSE
  ExternalTimer = FALSE
SPECIFICATION FairSpec
CHECK_DEADLOCK FALSE
PROPERTIES DeleteReturns TransferReaches
