SPECIFICATION FairSpec
CONSTANTS
  Upgrades = {m1, m2}
  Downgrades = {m1}
  Seeds = {m1, m2, s1}
  Procs <- MCProcs
  Workload <- MCWorkload
  Killable = {m1}
  NoRow = NoRow
  Nobody = Nobody
CHECK_DEADLOCK FALSE
INVARIANTS
  TypeOK
  SchemaMatchesVersion
  AloneSucceeds
PROPERTIES
  SeedGrants
  EveryCommandEnds
