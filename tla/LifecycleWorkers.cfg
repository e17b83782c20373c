SPECIFICATION Spec
CONSTANTS
  Deploys = {d1, d2}
  Deployers = {p1}
  Workers = {w1, w2}
  NoDeploy = NoDeploy
  Free = Free
  AcceptType = "AUTO"
  Verdicts = {"ACCEPTED"}
  PutStates = {}
  AllowDelete = FALSE
  MaxCrashes = 1
SYMMETRY Symmetry
INVARIANTS IInv HooksBounded HeldInside NoOrphan
PROPERTY ImplementsContract
