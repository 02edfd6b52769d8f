SPECIFICATION Spec
CONSTANTS
  Links = 2
  QueueDepth = 1
  BlockSize = 32
  PsPerLogic = 2
  PsPerDram = 3
  Vaults = 2
  VaultOf <- MCVaultOf
  VaultRoom = 1
  Latencies = {1, 3}
  MaxTrans = 3
INVARIANTS
  TypeOK
  AgesMatch
  Recorded
PROPERTIES
  Implements
  
