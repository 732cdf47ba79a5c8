SPECIFICATION FairSpec
CONSTANTS
  c1 = c1
  c2 = c2
  Clients <- TwoClients
  FailureThreshold = 2
  SuccessThreshold = 2
  HalfOpenMaxAttempts = 2
  MaxRestarts = 1
  JobFaults = TRUE
INVARIANTS
  TypeOK
  NotStuck
  Trips
  StoppedHasNoProcess
PROPERTIES
  NeverRefusesForEver
  CrashIsNoticed
