SPECIFICATION Spec
CONSTANTS
  r1 = r1
  r2 = r2
  runner = runner
  host = host
  None = None
  Script = Script
  MaxEnvelopes = 3
  EnvelopeIds <- MCEnvelopeIds
  Continuations <- MCEnvelopeIds
  Runs <- MCRuns
  Owners <- MCOwners
  Runner = runner
  Hosts <- MCNoHosts
  MaxBatch = 2
  MaxScript = 2
  MaxGeneration = 3
SYMMETRY MCSymmetry
INVARIANTS
  ClaimAgreement
  WorkIsOwned
PROPERTIES
  SuccessIsEarned
  ResultCreditsItsAction
  OverridesComeFirst
CHECK_DEADLOCK FALSE
