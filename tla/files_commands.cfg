SPECIFICATION Spec
CONSTANTS
  Edits = {c1, c2}
  Inits = {c1, c2}
  Builds = {b1}
  Watches = {}
  Procs <- MCProcs
  Workload <- MCWorkload
  Crashy <- Everyone
  Offline <- Everyone
  Together = 1
  MaxSaves = 1
  Fonts <- MCFonts
  Libs <- MCLibs
  NoFile = NoFile
  Empty = Empty
  Torn = Torn
SYMMETRY Symmetry
CHECK_DEADLOCK FALSE
INVARIANTS
  TypeOK
  FontsBeforeCss
  NothingHalfWritten
  SuccessIsComplete
PROPERTIES
  EditsOneValue
