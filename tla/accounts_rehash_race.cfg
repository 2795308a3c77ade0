SPECIFICATION FairSpec
CONSTANTS
  Logins = {l1}
  Registers = {}
  Forgots = {f1}
  Forms = {}
  Resets = {x1}
  Pages = {}
  Logouts = {}
  Users = {u1}
  Passwords = {p1, p2}
  Requests <- MCRequests
  Workload <- MCWorkload
  Faulty <- NoRequest
  MayExpire <- NoCredential
  MayDisable = {}
  NoRow = NoRow
  Nobody = Nobody
CHECK_DEADLOCK FALSE
PROPERTIES
  LoginKeepsPassword
