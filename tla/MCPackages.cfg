SPECIFICATION Spec
CONSTANTS
  Worker = {w1}
  v1 = v1
  v2 = v2
  v3 = v3
  Version = {v1, v2, v3}
  app = app
  db = db
  queue = queue
  appImage = appImage
  newAppImage = newAppImage
  dbImage = dbImage
  queueImage = queueImage
  Main = app
  SpecOf <- ThreeVersions
  Files <- TwoFiles
  Listed <- OfTheSubServices
  Official <- OfGriffinGuard
  NoRecord = NoRecord
  NoContainer = NoContainer
  MaxFaults = 2
  MaxCrashes = 1
  MaxRevocations = 1
INVARIANTS TypeOK RecordHasItsPackage NoLeftovers
PROPERTIES DependenciesFirst
