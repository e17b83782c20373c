SPECIFICATION Spec
CONSTANTS
  Hosts = {h1}
  Serving = {h1}
  Null = Null
  NoDeploy = 0
  Stages <- ShortStages
  MaxDeploy = 4
  MaxParallel = 1
  Rollbacks = TRUE
  Slots = {1}
  Ops = {"PAUSE_ENV", "CAPACITY", "PAUSED_BY_USER", "STOP", "RESET"}
  MaxOps = 2
  Faults = {}
  MaxFaults = 0
INVARIANTS CountedIsInstalled StoppedWasStopping
PROPERTY FailedStaysPaused
