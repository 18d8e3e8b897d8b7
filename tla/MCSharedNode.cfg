SPECIFICATION FairSpec
CONSTANTS
  Handler = {h1, h2}
  Watchdog = watchdog
  Health = health
  a = a
  b = b
  c = c
  d = d
  e = e
  f = f
  g = g
  j = j
  k = k
  u = u
  v = v
  dangling = dangling
  Exit = Exit
  Node = {a, b, c, d}
  Entry = a
  Kind <- LineKind
  NextNodes <- SharedNext
  LoopLimit <- NoLimits
  MaxLoopIterations = 0
  HasTriggerPlugin = TRUE
  ChannelMayClose = FALSE
  MaxStoreErrors = 0
  MaxRedeliveries = 0
  MaxCrashes = 0
PROPERTIES EventuallyTerminal
CHECK_DEADLOCK FALSE
