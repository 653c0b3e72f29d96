CONSTANTS
  t1 = t1
  t2 = t2
  Threads = {t1, t2}
  Uses <- OneWriter
  Writer = t1
  None = none
  MaxCalls = 3
  Wrap = 1
  TransferEnd = 1
  Weight <- Weights
  MaxLate = 1
  c1 = c1
  c2 = c2
  Conns = {c1, c2}
  Request <- TheRequests
  OptionUrls <- TheOptions
  Size <- TheSizes
  NoOption = none
  SendBuffer = 2
  RxBuffer = 2
  Slash = 0
  Plus = 50
  Space = 51
  Escape = 100
SPECIFICATION MCSpec
CHECK_DEADLOCK FALSE
INVARIANTS ResultsAreTrue RecordsInOrder SetValueSticks ServerInv ResponsesInOrder
PROPERTIES EveryRequestIsAnswered StopReturns
