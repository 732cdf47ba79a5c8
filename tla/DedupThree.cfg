SPECIFICATION FairSpec
CONSTANTS
  c1 = c1
  c2 = c2
  c3 = c3
  e1 = e1
  e2 = e2
  e3 = e3
  f = f
  g = g
  Callers <- ThreeCallers
  Paths <- TwoPaths
  Entries <- FourEntries
  NoEntry = NoEntry
  NoPath = NoPath
  e4 = e4
INVARIANTS
  TypeOK
  OneDecodePerPath
  SharesItsFile
  CountsInflight
  NoLostWakeup
PROPERTIES
  JoinedReturn
CHECK_DEADLOCK FALSE
