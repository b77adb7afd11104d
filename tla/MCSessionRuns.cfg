SPECIFICATION SafetySpec
CONSTANTS
  r1 = r1
  r2 = r2
  runner1 = runner1
  None = None
  Script = Script
  MaxEnvelopes = 3
  EnvelopeIds <- MCEnvelopeIds
  Continuations <- MCEnvelopeIds
  Runs <- MCRuns
  Owners <- MCOwners
  Runner = runner1
  Hosts <- MCNoHosts
  MaxBatch = 1
  MaxScript = 0
  MaxGeneration = 4
  MaxHalts = 1
  MaxOverrides = 1
SYMMETRY MCSymmetry
INVARIANTS
  AcceptedWorkHasRunner

  
CHECK_DEADLOCK FALSE
