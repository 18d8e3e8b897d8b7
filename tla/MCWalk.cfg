SPECIFICATION Spec
CONSTANTS
  Handler = {h1, h2, h3}
  Watchdog = watchdog
  Health = health
  a = a
  b = b
  c = c
  d = d
  e = e
  f = f
  g = g
  j = j
  k = k
  u = u
  v = v
  dangling = dangling
  Exit = Exit
  Node = {a, b, c, d, e, j}
  Entry = a
  Kind <- LoopKind
  NextNodes <- LoopNext
  LoopLimit <- LoopTwice
  MaxLoopIterations = 0
  HasTriggerPlugin = TRUE
  ChannelMayClose = TRUE
  MaxStoreErrors = 1
  MaxRedeliveries = 0
  MaxCrashes = 0
SYMMETRY Permute
INVARIANTS TypeOK BranchAccounting CompletedLeavesNothing InFlightIsWatched LoopBodyRunsExactly
PROPERTIES JoinMergesEveryEdge
CHECK_DEADLOCK FALSE
