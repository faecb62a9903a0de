SPECIFICATION FairSpec
CONSTANTS
  Node = {n1}
  Receipt = {r1, r2}
  None = None
  MaxPanelCrashes = 1
  MaxServiceCrashes = 1
  MaxLost = 1
  MaxRepairs = 1
CHECK_DEADLOCK FALSE
INVARIANT DeletedOnlyAfterUninstall
INVARIANT ReceiptOutlivesOutbox
INVARIANT UsableMeansUntouched
INVARIANT UpdateRequestIsAlone
PROPERTY CleanupCompletes
