SPECIFICATION FairSpec
CONSTANTS
  Edits = {c1, c2}
  Inits = {}
  Builds = {}
  Watches = {w1}
  Procs <- MCProcs
  Workload <- MCWorkload
  Crashy = {}
  Offline = {}
  Together = 1
  MaxSaves = 0
  Fonts <- MCFonts
  Libs <- MCLibs
  NoFile = NoFile
  Empty = Empty
  Torn = Torn
CHECK_DEADLOCK FALSE
INVARIANTS
  FontsWholeAtRest
PROPERTIES
  WatchCatchesUp
