SPECIFICATION FairSpec
CONSTANTS
  Account = {a, b}
  Pass = {p1, p2}
  Removal = {r}
  Collector = {c1}
  Present = {a}
  GroupSize = 50
  Quota = 2
  MaxUse = 1
  MaxEvents = 3
CHECK_DEADLOCK FALSE
INVARIANT ChargedOnce
PROPERTY AccountsSettle
