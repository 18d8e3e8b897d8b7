SPECIFICATION Spec
CONSTANTS
  v1 = v1
  v2 = v2
  Version = {v1, v2}
  Queues <- TwoVersions
  Password = {c1, c2, c3, c4}
  NoPassword = NoPassword
  NoInfo = NoInfo
  NoRecord = NoRecord
  MaxFaults = 2
  MaxRestarts = 2
SYMMETRY Permute
INVARIANTS TeardownIsFull
CHECK_DEADLOCK FALSE
