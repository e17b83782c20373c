SPECIFICATION Spec
CONSTANTS
  Hosts = {h1, h2}
  Serving = {h1, h2}
  Null = Null
  NoDeploy = 0
  Stages <- ShortStages
  MaxDeploy = 2
  MaxParallel = 1
  Rollbacks = FALSE
  Slots = {1}
  Ops = {"CAPACITY", "RESET", "PAUSE_ENV"}
  MaxOps = 2
  Faults = {"WRITE"}
  MaxFaults = 1
SYMMETRY Symmetry
INVARIANT ParallelLimit
