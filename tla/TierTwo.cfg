SPECIFICATION Spec
CONSTANTS
  c1 = c1
  c2 = c2
  k1 = k1
  k2 = k2
  NoKey = NoKey
  Worker = Worker
  Clients <- TwoClients
  Writers <- OneClient
  Readers <- OtherClient
  Keys <- TwoKeys
  Folders <- AllKeys
  Pixels <- TwoPixels
  Header = 1
  L1Max = 2
  L2Max = 2
  MaxInserts = 2
  Flushes = TRUE
INVARIANTS
  TypeOK
  L1WithinBudget
  NoJobSleptOver
PROPERTIES
  DiskNeverGoesBack
