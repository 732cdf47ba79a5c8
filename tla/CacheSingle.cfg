SPECIFICATION Spec
CONSTANTS
  c1 = c1
  c2 = c2
  i1 = i1
  NoKey = NoKey
  NoHash = NoHash
  EmptyKey = NoHash
  Images <- OneImage
  Paths <- TwoPaths
  Caches <- OneCache
  Keys <- ThreeKeys
  Rank <- RankThree
  Sizes <- OneOrTwo
  MaxBytes = 3
  MaxClock = 2
  EpochGap = 5
  Faults <- NoFaults
INVARIANTS
  TypeOK
  IndexMirrorsDirectory
PROPERTIES
  CleanupKeepsLimit
  EvictsOnlyAsNeeded
  EvictsLeastRecentlyUsed
