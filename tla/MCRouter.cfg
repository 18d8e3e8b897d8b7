SPECIFICATION FairSpec
CONSTANTS
  m1 = m1  p = p  q = q  cap = cap  left = left
  NoSlot = NoSlot  NoMajor = NoMajor
  Request = {m1}
  Key = {cap}
  Slot = {NoSlot, left}
  Provider = {p, q}
  RouteTables <- Tables
  Declared <- SameMajor
  Installed = {p, q}
  MaxConnections = 3
  MaxLosses = 1
  MaxEdits = 1
INVARIANTS
  TypeOK AckedIsAnswered AtMostOnce
PROPERTIES
  Reconnected RequestEnds
CHECK_DEADLOCK FALSE
