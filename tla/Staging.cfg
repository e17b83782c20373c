SPECIFICATION FairSpec
CONSTANTS
  e1 = e1
  e2 = e2
  b1 = b1
  b2 = b2
  b3 = b3
  None = None
  Envs = {e1, e2}
  BuildsOf <- OwnBuilds
  Checksums = TRUE
  MaxDeploys = 3
  MaxFaults = 3
INVARIANTS TypeOK TargetIsWhole 
PROPERTY Staged
\* Every deploy may be done.
CHECK_DEADLOCK FALSE
