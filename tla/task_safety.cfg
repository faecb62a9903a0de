SPECIFICATION Spec
CONSTANTS
  a = a
  b = b
  i1 = i1
  i2 = i2
  i3 = i3
  Item = {i1, i2}
  Node = {a, b}
  NodeOf <- MCApart
  Canary = a
  NoNode = NoNode
  Absent = Absent
  Legacy = {b}
  Slots = 1
  LongErrors = FALSE
  RetryWhileRunning = FALSE
  MaxAttempts = 2
  MaxRuns = 2
  MaxRestarts = 1
  MaxFaults = 1
CHECK_DEADLOCK FALSE
INVARIANT OneRunPerItem
INVARIANT ResultIsTheOperations
INVARIANT EndedTaskIsSettled
INVARIANT RemovalExcludesTask
PROPERTY CanaryGate
