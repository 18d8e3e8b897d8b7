SPECIFICATION Spec
CONSTANTS
  Worker = {w1}
  Restorer = restorer
  Credential = {c1, c2, c3}
  v1 = v1
  v2 = v2
  Version = {v1, v2}
  Requires <- SecondNeedsMore
  Operations <- AllOperations
  OneAtATime = TRUE
  NoRecord = NoRecord
  NoContainer = NoContainer
  NoCredential = NoCredential
  NoVersion = NoVersion
  MaxConfig = 2
  MaxFaults = 0
  MaxOutages = 1
  MaxExits = 0
SYMMETRY Permute
INVARIANTS UninstallIsFull
CHECK_DEADLOCK FALSE
