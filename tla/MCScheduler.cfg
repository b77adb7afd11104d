SPECIFICATION Spec
CONSTANTS
  o1 = o1
  o2 = o2
  k1 = k1
  None = None
  MaxEnvelopes = 4
  Owners <- MCOwners
  Continuations <- MCContinuations
  EnvelopeIds <- MCEnvelopeIds
  MaxBatch = 2
  MaxGeneration = 3
INVARIANTS
  PausedIffPreempted
PROPERTIES
  StaleClaimsStayStale
  InterruptPrecedence
  ImplementsExclusiveExecution
CHECK_DEADLOCK FALSE
