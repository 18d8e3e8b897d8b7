SPECIFICATION FairSpec
CONSTANTS
  Handler = {h1, h2}
  Watchdog = watchdog
  Health = health
  a = a
  b = b
  c = c
  d = d
  e = e
  f = f
  g = g
  j = j
  k = k
  u = u
  v = v
  dangling = dangling
  Exit = Exit
  Node = {a, b, c, d, e, f, g, j, k, u, v}
  Entry = a
  Kind <- BuiltinKind
  NextNodes <- BuiltinNext
  LoopLimit <- NoLimits
  MaxLoopIterations = 2
  HasTriggerPlugin = TRUE
  ChannelMayClose = FALSE
  MaxStoreErrors = 0
  MaxRedeliveries = 0
  MaxCrashes = 0
PROPERTIES PromiseKept
CHECK_DEADLOCK FALSE
