SPECIFICATION FairSpec
CONSTANTS
  Node = {n1, n2}
  CA = {c1, c2}
  Generation = {g1, g2, g3, g4}
  None = None
  FirstCA = c1
  FirstGeneration = g1
  MaxFaults = 1
  MaxChanges = 2
CHECK_DEADLOCK FALSE
INVARIANT AuthorityOpens
PROPERTY NobodyIsStranded
PROPERTY RotationCompletes
