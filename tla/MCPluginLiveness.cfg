SPECIFICATION Spec
CONSTANTS
  Worker = {w1}
  Restorer = restorer
  Credential = {c1, c2, c3}
  v1 = v1
  v2 = v2
  Version = {v1}
  Requires <- SecondNeedsMore
  Operations = {"start", "uninstall"}
  OneAtATime = FALSE
  NoRecord = NoRecord
  NoContainer = NoContainer
  NoCredential = NoCredential
  NoVersion = NoVersion
  MaxConfig = 1
  MaxFaults = 0
  MaxOutages = 1
  MaxExits = 1
INVARIANTS TypeOK StartIsDriven CredentialsAgree
PROPERTIES StartEnds LapseIsNoticed
CHECK_DEADLOCK FALSE
