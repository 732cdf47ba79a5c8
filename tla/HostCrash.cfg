SPECIFICATION Spec
CONSTANTS
  c1 = c1
  c2 = c2
  Clients <- OneClient
  FailureThreshold = 2
  SuccessThreshold = 2
  HalfOpenMaxAttempts = 2
  MaxRestarts = 1
  JobFaults = FALSE
INVARIANT HostSurvives
