SPECIFICATION Spec
CONSTANTS
  p1 = p1
  p2 = p2
  Keys <- SomeKeys
  Looked <- LargeFirst
  MaxEntries = 2
  Share = 2
  TTL = 0
  Strategies <- AllStrategies
  Faults <- SomeFaults
  MaxClock = 2
  MaxPuts = 3
INVARIANTS
  TypeOK
  AnswersLatest
PROPERTIES
  PutKeepsLimit
