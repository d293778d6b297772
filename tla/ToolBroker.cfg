SPECIFICATION BFairSpec
CONSTANTS
  Bytes <- MCBytes
  Nfc <- MCNfc
  ControlTexts = {"tab"}
  SecretTexts = {"sk-key"}
  SensitiveKeys = {"credential"}
  Indices = {"[0]", "[1]"}
  MaxArguments = 4
  Deployments <- MCDeployments
  Nothing = nothing
  r1 = r1
  r2 = r2
  w1 = w1
  Reads = {r1, r2}
  Gated = {w1}
  Sizes = {1, 2, 3}
  MaxRounds = 2
  MaxCalls = 3
  MaxRepeats = 2
  MaxBytes = 4
  MaxBatch = 3
  MaxResumes = 1
INVARIANTS CallsBounded BytesBounded ResultsInOrder EffectsAsDeclared ResultsAsDeclared BooksTruthful
PROPERTY LoopEnds
CHECK_DEADLOCK FALSE
