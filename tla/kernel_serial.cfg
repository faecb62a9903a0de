SPECIFICATION Spec
CONSTANTS
  v1 = v1
  v2 = v2
  v3 = v3
  Kernel = {xray}
  Version = {v1, v2, v3}
  Key = {ka, kb}
  OpId = {o1, o2}
  Builtin = Builtin
  Down = Down
  NoOp = NoOp
  StartTime = 2
  InitialAge <- MCInitialAge
  KeepVersions = 2
  Overlap = FALSE
  MaxPersistFailures = 0
  MaxCrashes = 2
CHECK_DEADLOCK FALSE
SYMMETRY MCSymmetry
INVARIANT UnprovenCurrentIsReported
PROPERTY RollbackRestoresPrevious
PROPERTY RecoveryUndoesOnlyItsTarget
