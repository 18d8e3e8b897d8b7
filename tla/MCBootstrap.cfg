SPECIFICATION FairSpec
CONSTANTS
  d1 = d1  d2 = d2
  Proc = {d1, d2}
  NoKey = NoKey  Partial = Partial  Plain = Plain  Nobody = Nobody
  MaxSecrets = 3
  MaxFaults = 2
  MaxMeddling = 1
  MaxRefusals = 1
INVARIANTS
  TypeOK KeyOpensDatabase ServesItsOwn
PROPERTIES
  ForeignIsLeftAlone BootHeals
CHECK_DEADLOCK FALSE
