SPECIFICATION FairSpec
CONSTANTS
  Checkers = {w1, w2}
  MaxChecks = 1
  MaxHosts = 2
  MaxAmi = 2
  Envs = 1
  MaxFaults = 1
  Null = Null
INVARIANTS TypeOK AmiWasVerified
PROPERTIES ChecksSettle HostsTerminated
CHECK_DEADLOCK FALSE
