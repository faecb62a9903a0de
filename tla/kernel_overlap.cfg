SPECIFICATION FairSpec
CONSTANTS
  v1 = v1
  v2 = v2
  v3 = v3
  Kernel = {xray}
  Version = {v1, v2}
  Key = {ka, kb}
  OpId = {o1, o2}
  Builtin = Builtin
  Down = Down
  NoOp = NoOp
  StartTime = 2
  InitialAge <- MCFirstAge
  KeepVersions = 1
  Overlap = TRUE
  MaxPersistFailures = 1
  MaxCrashes = 1
CHECK_DEADLOCK FALSE
INVARIANT CurrentInstalled
INVARIANT OneOperationPerKey
PROPERTY EndedOperationIsServed
PROPERTY ImplementsContract
PROPERTY AdmittedOperationSettles
