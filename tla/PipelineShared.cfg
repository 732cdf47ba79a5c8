SPECIFICATION Spec
CONSTANTS
  t1 = t1
  t2 = t2
  c1 = c1
  c2 = c2
  f1 = f1
  NoMeta = NoMeta
  NoKey = NoKey
  NoHash = NoHash
  EmptyKey = NoHash
  Threads <- TwoThreads
  Caches <- TwoCaches
  CacheOf <- EachItsOwn
  Files <- OneFile
  Dims <- OneDims
  Reported <- AsRequestedOne
  MaxVer = 1
  Rank <- RankOfKeys
  Sizes <- OneSize
  MaxBytes = 1
  MaxClock = 0
  EpochGap = 1
  Faults <- FileFaults
INVARIANTS
  FreshHit
  BytesCoverEntries
