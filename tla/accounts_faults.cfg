SPECIFICATION Spec
CONSTANTS
  Logins = {}
  Registers = {n1, n2}
  Forgots = {f1}
  Forms = {}
  Resets = {x1}
  Pages = {}
  Logouts = {}
  Users = {u1}
  Passwords = {p1, p2}
  Requests <- MCRequests
  Workload <- MCWorkload
  Faulty = {f1, x1}
  MayExpire <- EveryLink
  MayDisable = {u1}
  NoRow = NoRow
  Nobody = Nobody
SYMMETRY Symmetry
CHECK_DEADLOCK FALSE
INVARIANTS
  RollbackLeavesNoTrace
  OneAccountPerEmail
