CONSTANTS
  Chans = {0}
  Packets = {"r1", "r2"}
  Addrs = {"A"}
  PktAddr <- TwoAddr
  PktChan <- TwoChan
  PktWrite <- TwoWrite
  ChanOf <- TwoMap
  QueueSize = 1
  Polite = TRUE
SPECIFICATION FairSpec
PROPERTY ResponseReturned
