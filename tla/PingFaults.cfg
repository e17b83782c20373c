SPECIFICATION Spec
CONSTANTS
  Hosts = {h1}
  Serving = {}
  Null = Null
  NoDeploy = 0
  Stages <- ShortStages
  MaxDeploy = 2
  MaxParallel = 1
  Rollbacks = FALSE
  Slots = {1, 2}
  Ops = {"EXPIRE", "UNREACHABLE", "NORMAL"}
  MaxOps = 1
  Faults = {"LATE", "CRASH", "WRITE"}
  MaxFaults = 2
INVARIANTS TypeOK CountedIsInstalled
