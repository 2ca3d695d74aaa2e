CONSTANTS
  e1 = e1
  e2 = e2
  e3 = e3
  e4 = e4
  e5 = e5
  Event = {e1, e2, e3, e4}
  Size <- MixedSizes
  Puller = {t1, t2}
  Capacity = 4
  AllowIpcBatching = TRUE
SPECIFICATION FairSpec
INVARIANTS
  TypeOK
  NoLostWakeup
  PullEventsIsLoop
PROPERTY
  EventReachesLibrary
CHECK_DEADLOCK FALSE
