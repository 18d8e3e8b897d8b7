SPECIFICATION Spec
CONSTANTS
  d1 = d1  d2 = d2
  Proc = {d1}
  NoKey = NoKey  Partial = Partial  Plain = Plain  Nobody = Nobody
  MaxSecrets = 1
  MaxFaults = 0
  MaxMeddling = 0
  MaxRefusals = 1
INVARIANTS
  CustomNameIsUsed
CHECK_DEADLOCK FALSE
