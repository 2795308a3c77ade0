SPECIFICATION FairSpec
CONSTANTS
  Logins = {}
  Registers = {}
  Forgots = {f1, f2}
  Forms = {}
  Resets = {x1, x2}
  Pages = {}
  Logouts = {}
  Users = {u1}
  Passwords = {p1}
  Requests <- MCRequests
  Workload <- MCWorkload
  Faulty <- NoRequest
  MayExpire <- NoCredential
  MayDisable = {}
  NoRow = NoRow
  Nobody = Nobody
CHECK_DEADLOCK FALSE
INVARIANTS
  EarlierLinksEnd
PROPERTIES
  EveryRequestEnds
