SPECIFICATION FairSpec
CONSTANTS
  d1 = d1
  d2 = d2
  k1 = k1
  k2 = k2
  k3 = k3
  Dirs <- TwoDirs
  Changes <- TwoChanges
  Again <- TwoChanges
  ReadFaults = TRUE
  MaxStarts = 1
INVARIANTS
  TypeOK
  NothingIsLost
PROPERTIES
  ChangeIsReported
  StopReturns
