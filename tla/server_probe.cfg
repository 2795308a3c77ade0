SPECIFICATION Spec
CONSTANTS
  Requests = {r1, r2, r3, r4}
  Browsers = {b1}
  Users = {u1}
  Me1 = u1
  Logins = {}
  Creates = {}
  Deletes = {}
  Lists = {r1, r2, r3}
  Homes = {}
  Consents = {}
  Probes = {r4}
  User <- MCUser
  Destinations = {}
  Workload <- MCWorkload
  Faulty = {}
  Forgetful = {}
  Threads = 2
  Pool = 1
  Earlier = Earlier
  NoRow = NoRow
  Nobody = Nobody
CHECK_DEADLOCK FALSE
INVARIANTS
  ProbeNeedsNoConnection
