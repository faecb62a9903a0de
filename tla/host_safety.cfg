SPECIFICATION Spec
CONSTANTS
  Job = {j1, j2}
  KernelOp = {k1}
  Cli = Cli
  Service = Service
  Agent = Agent
  Uninstaller = Uninstaller
  Nobody = Nobody
  MaxServiceCrashes = 1
  MaxWorkerCrashes = 1
  MaxCliCrashes = 1
  MaxAgentCrashes = 1
CHECK_DEADLOCK FALSE
SYMMETRY MCSymmetry
INVARIANT UpdateExcludesRemoval
INVARIANT MarkerCoversSwitch
PROPERTY ImplementsContract
