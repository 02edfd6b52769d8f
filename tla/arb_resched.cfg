SPECIFICATION Spec
CONSTANTS
  NumBanks = 2
  NumUp = 2
  BufSize = 2
  Packets <- TwoBankPackets
  Addrs = {"A", "B"}
  PktAddr <- TwoBankAddr
  PktBank <- TwoBankBank
  PktUp <- TwoBankUp
  PktWrite <- TwoBankWrite
INVARIANT PendingRescheduled
