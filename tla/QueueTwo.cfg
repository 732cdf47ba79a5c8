SPECIFICATION FairSpec
CONSTANTS
  p1 = p1
  p2 = p2
  w1 = w1
  w2 = w2
  Producers <- TwoProducers
  Workers <- TwoWorkers
  Tasks = 3
  Capacity = 2
INVARIANTS
  TypeOK
  SlotHasOneThread
  DrainedWhenQuiet
PROPERTIES
  Implements
  AcceptedIsDelivered
