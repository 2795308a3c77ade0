SPECIFICATION Spec
CONSTANTS
  Logins = {l1}
  Registers = {}
  Forgots = {f1}
  Forms = {g1}
  Resets = {x1}
  Pages = {g1}
  Logouts = {o1}
  Users = {u1}
  Passwords = {p1, p2}
  Requests <- MCRequests
  Workload <- MCWorkload
  Faulty <- NoRequest
  MayExpire <- NoCredential
  MayDisable = {}
  NoRow = NoRow
  Nobody = Nobody
SYMMETRY Symmetry
CHECK_DEADLOCK FALSE
INVARIANTS
  TypeOK
  ResetEndsEarlierSessions
  EndedIsRefused
PROPERTIES
  EndedStaysEnded
