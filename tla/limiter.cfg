SPECIFICATION Spec
CONSTANTS
  Steady = {r1, r2}
  Ips = {i1}
  Emails = {e1, e2}
  Requests <- MCRequests
  Workload <- MCWorkload
  Faulty = {x1}
  LoginMax = 1
  LoginWindow = 1
  ResetMax = 1
  ResetWindow = 1
  MaxAttempts <- MCMaxAttempts
  Window <- MCWindow
  PurgeAfter = 1
  PoolSize = 2
  MaxClock = 2
  NoRow = NoRow
  Nobody = Nobody
SYMMETRY Symmetry
CHECK_DEADLOCK FALSE
INVARIANTS
  TypeOK
  OvershootIsBounded
PROPERTIES
  BlockedStaysBlocked
