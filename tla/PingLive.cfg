SPECIFICATION FairSpec
CONSTANTS
  Hosts = {h1, h2}
  Serving = {h1}
  Null = Null
  NoDeploy = 0
  Stages <- ShortStages
  MaxDeploy = 2
  MaxParallel = 1
  Rollbacks = FALSE
  Slots = {1}
  Ops = {}
  MaxOps = 0
  Faults = {"LATE", "CRASH", "WRITE", "DISK"}
  MaxFaults = 1
INVARIANT CountedIsInstalled
PROPERTY Converges
