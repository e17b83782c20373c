SPECIFICATION Spec
CONSTANTS
  Deploys = {d1, d2, d3}
  Deployers = {p1, p2}
  Workers = {w1}
  NoDeploy = NoDeploy
  Free = Free
  AcceptType = "AUTO"
  Verdicts = {}
  PutStates = {}
  AllowDelete = TRUE
  MaxCrashes = 0
SYMMETRY Symmetry
INVARIANTS TypeOK CurrentIsActive SucceededHasDate
PROPERTY FinalStaysFinal
