SPECIFICATION Spec
CONSTANTS
  admin = admin  joe = joe  t1 = t1  t2 = t2  t3 = t3  w1 = w1  w2 = w2
  User = {admin, joe}
  Token = {t1, t2, t3}
  Worker = {w1, w2}
  Operator = admin
  Requests <- AllRequests
  TTL = {1, 2}
  MaxAttempts = 2
  MaxIds = 3
  MaxRequests = 3
  MaxFaults = 1
SYMMETRY Permute
INVARIANTS
  TypeOK LiveIsListed LastAdmin
PROPERTIES
  SavesOnlyItsChange
CHECK_DEADLOCK FALSE
