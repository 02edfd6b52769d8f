CONSTANTS
  e1 = e1
  e2 = e2
  e3 = e3
  Null = Null
  Events = {e1, e2, e3}
  Pri <- Mixed
  RunLimit = 3
  MinDelay = 1
  MaxDelay = 2
SPECIFICATION FairSpec
INVARIANTS TypeOK LinksExact
PROPERTIES Implements Served
CHECK_DEADLOCK FALSE
