SPECIFICATION Spec
CONSTANTS
  NumBanks = 2
  NumUp = 2
  BufSize = 2
  Packets <- MixedPackets
  Addrs = {"A", "B"}
  PktAddr <- MixedAddr
  PktBank <- MixedBank
  PktUp <- MixedUp
  PktWrite <- MixedWrite
INVARIANTS
  TypeOK
  Capacity
  ToIssuer
  Accounting
  ResponseExpected
  AnsweredOnce
  ResponseWakeup
  RetryHasRoom
  LastBankServed
