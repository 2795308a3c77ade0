SPECIFICATION Spec
CONSTANTS
  Edits = {c1}
  Inits = {}
  Builds = {}
  Watches = {}
  Procs <- MCProcs
  Workload <- MCWorkload
  Crashy = {}
  Offline = {}
  Together = 1
  MaxSaves = 1
  Fonts <- MCFonts
  Libs <- MCLibs
  NoFile = NoFile
  Empty = Empty
  Torn = Torn
SYMMETRY Symmetry
CHECK_DEADLOCK FALSE
PROPERTIES
  OutsideLeftAlone
