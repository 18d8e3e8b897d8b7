SPECIFICATION Spec
CONSTANTS
  Handler = {h1, h2}
  Watchdog = watchdog
  Health = health
  a = a
  b = b
  c = c
  d = d
  e = e
  f = f
  g = g
  j = j
  k = k
  u = u
  v = v
  dangling = dangling
  Exit = Exit
  Node = {a, b}
  Entry = a
  Kind <- LineKind
  NextNodes <- LineNext
  LoopLimit <- NoLimits
  MaxLoopIterations = 0
  HasTriggerPlugin = TRUE
  ChannelMayClose = TRUE
  MaxStoreErrors = 1
  MaxRedeliveries = 1
  MaxCrashes = 1
SYMMETRY Permute
PROPERTIES PromiseIsSafe
CHECK_DEADLOCK FALSE
