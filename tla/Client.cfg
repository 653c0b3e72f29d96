CONSTANTS
  Platforms = {"boost", "atl"}
  Lives <- OneLife
  Daqs = {d1, d2}
  None = none
  MaxEvents = 2
  MaxFail = 2
SPECIFICATION FairSpec
CHECK_DEADLOCK FALSE
INVARIANTS ClientInv EventsInOrder
PROPERTIES AtlTidyUpDeletesSession TidyUpEnds
