SPECIFICATION Spec
CONSTANTS
  Deploys = {d1, d2}
  Deployers = {p1, p2}
  Workers = {w1}
  NoDeploy = NoDeploy
  Free = Free
  AcceptType = "AUTO"
  Verdicts = {}
  PutStates = {}
  AllowDelete = FALSE
  MaxCrashes = 0
INVARIANT NoOrphan
