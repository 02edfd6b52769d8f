SPECIFICATION Spec
CONSTANTS
  BankGroups = 1
  BanksPerGroup = 1
  ActivateLimit = 1
  Ranks = 2
  T <- MCTiming
  RowHitLimit = 1
  CmdQueueSize = 2
  Geometry <- MCGeometry
  Addrs <- MCAddrs
  Configs <- MCConfigs
  TransQueueSize = 2
  DrainMark = 0
  SrefThreshold = 2
  MaxTrans = 3
INVARIANTS
  TypeOK
  NoAbort
  
  Tracked
  RefreshKeepsUp
  DrainBounded
  RefusesOnlyWhenFull
PROPERTIES
  WriteAfterRead
  Implements
  ReadsReturn
