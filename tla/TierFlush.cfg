SPECIFICATION FairSpec
CONSTANTS
  c1 = c1
  c2 = c2
  k1 = k1
  k2 = k2
  NoKey = NoKey
  Worker = Worker
  Clients <- OneClient
  Writers <- OneClient
  Readers <- OneClient
  Keys <- OneKey
  Folders <- AllOne
  Pixels <- OnePixelOne
  Header = 1
  L1Max = 1
  L2Max = 2
  MaxInserts = 1
  Flushes = TRUE
PROPERTIES
  FlushReturns
