CONSTANTS
  Buffers = {0, 1, 2}
  NumPorts = 2
  BufSize = 0
  MaxAsked = 2
  QueueSize = 2
  ChanOf <- MCChanOf
SPECIFICATION PathSpec
INVARIANTS
  TypeOK
  NoPortIdle
  PeersAgree
  LibraryHasRoom
  NoAssertionTrips
  RestsOnlyBlocked
CHECK_DEADLOCK FALSE
