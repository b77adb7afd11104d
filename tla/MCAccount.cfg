SPECIFICATION BothSpec
CONSTANTS
  m1 = m1
  m2 = m2
  q1 = q1
  None = None
  Mutators <- MCMutators
  Queriers <- MCQueriers
  Requests <- MCRequests
  MaxRetries = 1
  MaxConns = 2
  MaxFaults = 2
  Nil = Nil
  MaxTries = 1
  MaxSockets = 4
  MaxCloses = 3
INVARIANTS
  OneMutationAtATime
  CallsExecuteOnce
  HealthyOrHandled
PROPERTIES
  
  AccountWorkEnds

CHECK_DEADLOCK FALSE
