SPECIFICATION Spec
CONSTANTS
  m1 = m1  p = p  q = q  cap = cap  left = left
  NoSlot = NoSlot  NoMajor = NoMajor
  Request = {m1}
  Key = {cap}
  Slot = {NoSlot, left}
  Provider = {p, q}
  RouteTables <- Tables
  Declared <- Majors
  Installed = {p, q}
  MaxConnections = 1
  MaxLosses = 0
  MaxEdits = 1
PROPERTIES
  PrimaryInterfaceOnly
CHECK_DEADLOCK FALSE
