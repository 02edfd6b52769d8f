CONSTANTS
  Buffers = {0}
  NumPorts = 2
  BufSize = 1
  MaxAsked = 2
SPECIFICATION FairSpec
PROPERTY RefusedRetried
