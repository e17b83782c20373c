SPECIFICATION FairSpec
CONSTANTS
  Promoters = {p1, p2}
  Users = {u1}
  QueueSize = 2
  PageSize = 2
  FailPolicies = {"DISABLE", "ROLLBACK"}
  DisablePolicies = {"AUTO"}
  MaxDate = 5
  MaxOps = 1
  Free = Free
INVARIANTS TypeOK ReplacedOnce LateByOne
PROPERTIES Promotes FailureHandled
CHECK_DEADLOCK FALSE
