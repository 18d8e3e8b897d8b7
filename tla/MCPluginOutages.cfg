SPECIFICATION Spec
CONSTANTS
  Worker = {w1}
  Restorer = restorer
  Credential = {c1, c2, c3}
  v1 = v1
  v2 = v2
  Version = {v1, v2}
  Requires <- SecondNeedsMore
  Operations = {"install", "start", "stop", "config", "upgrade"}
  OneAtATime = TRUE
  NoRecord = NoRecord
  NoContainer = NoContainer
  NoCredential = NoCredential
  NoVersion = NoVersion
  MaxConfig = 2
  MaxFaults = 1
  MaxOutages = 1
  MaxExits = 0
SYMMETRY Permute
INVARIANTS CredentialsAgree
CHECK_DEADLOCK FALSE
