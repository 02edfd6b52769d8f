SPECIFICATION FairSpec
CONSTANTS
  NumBanks = 1
  NumUp = 2
  BufSize = 2
  Packets <- LivePackets
  Addrs = {"A", "B"}
  PktAddr <- LiveAddr
  PktBank <- LiveBank
  PktUp <- LiveUp
  PktWrite <- LiveWrite
PROPERTY ReadsAnswered
