SPECIFICATION Spec
CONSTANTS
  NumBanks = 1
  NumUp = 2
  BufSize = 1
  Packets <- ReadPackets
  Addrs = {"A", "B"}
  PktAddr <- ReadAddr
  PktBank <- ReadBank
  PktUp <- ReadUp
  PktWrite <- ReadWrite
INVARIANT RetryGoesToWaiter
