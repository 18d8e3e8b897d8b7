SPECIFICATION ConfigSpec
CONSTANTS
  a = a  b = b  p1 = p1  p2 = p2  tab1 = tab1  tab2 = tab2
  Tab = {tab1, tab2}
  Account = {a, b}
  Password = {p1, p2}
  Malformed = Malformed  Masked = Masked  Absent = Absent
  MinItems = 0
  MaxItems = 2
  MaxFormEdits = 2
  MaxSaves = 2
  MaxFaults = 0
  MaxUpgrades = 0

INVARIANTS
  EachItsOwnPassword
CHECK_DEADLOCK FALSE
