SPECIFICATION Spec
CONSTANTS
  Worker = {w1, w2}
  v1 = v1
  v2 = v2
  v3 = v3
  Version = {v1, v2, v3}
  app = app
  db = db
  queue = queue
  appImage = appImage
  newAppImage = newAppImage
  dbImage = dbImage
  queueImage = queueImage
  Main = app
  SpecOf <- ThreeVersions
  Files <- TwoFiles
  Listed <- OfTheSubServices
  Official <- OfGriffinGuard
  NoRecord = NoRecord
  NoContainer = NoContainer
  MaxFaults = 0
  MaxCrashes = 0
  MaxRevocations = 0
INVARIANTS RecordHasItsPackage
