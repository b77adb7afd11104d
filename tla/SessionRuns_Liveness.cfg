SPECIFICATION LiveSpec
CONSTANTS
  r1 = r1
  r2 = r2
  runner1 = runner1
  None = None
  Script = Script
  MaxEnvelopes = 3
  EnvelopeIds <- MCEnvelopeIds
  Continuations <- MCEnvelopeIds
  Runs <- MCRuns
  Owners <- MCOwners
  Runner = runner1
  Hosts <- MCNoHosts
  MaxBatch = 1
  MaxScript = 0
  MaxGeneration = 3
  MaxHalts = 0
  MaxOverrides = 1
PROPERTY RunsAndRunnersEnd
CHECK_DEADLOCK FALSE
