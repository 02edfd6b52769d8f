CONSTANTS
  Chans = {0, 1}
  Packets = {"r1", "r2", "r3", "w1", "r4"}
  Addrs = {"A", "B", "C"}
  PktAddr <- Addr
  PktChan <- Chan
  PktWrite <- Write
  ChanOf <- Map
  QueueSize = 1
  Polite = TRUE
SPECIFICATION FairSpec
INVARIANTS
  TypeOK
  NoAssertionFails
  RecordsMatch
PROPERTIES  RetryComes
