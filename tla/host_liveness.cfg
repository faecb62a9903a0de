SPECIFICATION FairSpec
CONSTANTS
  Job = {j1}
  KernelOp = {k1}
  Cli = Cli
  Service = Service
  Agent = Agent
  Uninstaller = Uninstaller
  Nobody = Nobody
  MaxServiceCrashes = 1
  MaxWorkerCrashes = 0
  MaxCliCrashes = 0
  MaxAgentCrashes = 0
CHECK_DEADLOCK FALSE
PROPERTY AdmissionReopens
