SPECIFICATION Spec
CONSTANTS
  Worker = {w1, w2}
  u1 = u1
  u2 = u2
  User = {u1, u2}
  Key = {1, 2}
  p = p
  q = q
  Plugin = {p, q}
  v1 = v1
  v2 = v2
  Version = {v1, v2}
  Manifest <- SomeManifests
  Seeded <- OneInterface
  Draft <- ThreeDrafts
  Builtin = Builtin
  NoRef = NoRef
  NoSchema = NoSchema
  NoManifest = NoManifest
  NoBlueprint = NoBlueprint
  NoUser = NoUser
  MaxChanges = 0
  MaxFaults = 0
  MaxCreations = 2
SYMMETRY Permute
INVARIANTS ListedNewestFirst
CHECK_DEADLOCK FALSE
