SPECIFICATION Spec
CONSTANTS
  Logins = {}
  Registers = {}
  Forgots = {f1}
  Forms = {}
  Resets = {x1, x2}
  Pages = {}
  Logouts = {}
  Users = {u1}
  Passwords = {p1, p2}
  Requests <- MCRequests
  Workload <- MCWorkload
  Faulty <- NoRequest
  MayExpire <- NoCredential
  MayDisable = {}
  NoRow = NoRow
  Nobody = Nobody
SYMMETRY Symmetry
CHECK_DEADLOCK FALSE
INVARIANTS
  SingleUse
