SPECIFICATION Spec
CONSTANTS
  BankGroups = 1
  BanksPerGroup = 1
  ActivateLimit = 1
  Ranks = 2
  T <- MCTiming
  RowHitLimit = 1
  CmdQueueSize = 2
  Geometry <- MCGeometry
  Addrs <- MCAddrs
  Configs <- MainConfig
  TransQueueSize = 2
  DrainMark = 1
  SrefThreshold = 2
  MaxTrans = 3
PROPERTIES
  ReadsReturnAlways
