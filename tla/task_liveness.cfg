SPECIFICATION FairSpec
CONSTANTS
  a = a
  b = b
  i1 = i1
  i2 = i2
  i3 = i3
  Item = {i1, i2}
  Node = {a}
  NodeOf <- MCTwin
  Canary = NoNode
  NoNode = NoNode
  Absent = Absent
  Legacy = {}
  Slots = 2
  LongErrors = FALSE
  RetryWhileRunning = TRUE
  MaxAttempts = 2
  MaxRuns = 2
  MaxRestarts = 1
  MaxFaults = 0
CHECK_DEADLOCK FALSE
PROPERTY ItemSettles
