CONSTANTS
  Senders = {t1, t2}
  Nobody = nobody
  MaxSession = 2
  ClassOf <- OneClass
  MaxEvents = 2
  Lossy = TRUE
  Leave = TRUE
  KnownVars = {"Speed"}
  FormOf <- TheForms
  Reloads <- TheReloads
  Texts = {"typed"}
  Calls <- TheCalls
  CallWeight <- Weights
  MaxFired = 2
  MaxEntered = 3
  NoForm = noform
SPECIFICATION MCSpec
CHECK_DEADLOCK FALSE
INVARIANTS DeliveryInv SameOrderEverywhere OnePrimaryPerClass FormsInv LastRequestIsShown EventsAreUnderstood
PROPERTIES ChannelHolds EventsLeave
