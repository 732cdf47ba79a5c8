SPECIFICATION Spec
CONSTANTS
  c1 = c1
  c2 = c2
  i1 = i1
  NoKey = NoKey
  NoHash = NoHash
  EmptyKey = 1
  Images <- OneImage
  Paths <- TwoPaths
  Caches <- TwoCaches
  Keys <- TwoKeys
  Rank <- RankTwo
  Sizes <- OneOrTwo
  MaxBytes = 1
  MaxClock = 0
  EpochGap = 5
  Faults <- SharedFaults
SYMMETRY CacheSymmetry
INVARIANTS
  BytesCoverEntries
