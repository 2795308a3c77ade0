SPECIFICATION FairSpec
CONSTANTS
  Requests = {r1, r2, r3}
  Browsers = {b1}
  Users = {u1, u2}
  Me1 = u1
  Logins = {r1}
  Creates = {r1}
  Deletes = {r2, r3}
  Lists = {r1}
  Homes = {r3}
  Consents = {r3}
  Probes = {}
  User <- MCUser
  Destinations = {ga4}
  Workload <- MCWorkload
  Faulty = {r1}
  Forgetful = {b1}
  Threads = 2
  Pool = 2
  Earlier = Earlier
  NoRow = NoRow
  Nobody = Nobody
CHECK_DEADLOCK FALSE
INVARIANTS
  TypeOK
  OnlyTheDoneCounts
  NothingKept
  RefusedForAReason
  SignedIsLetIn
  AnalyticsIsHarmless
PROPERTIES
  NotesLeaveByOwner
  EveryRequestEnds
