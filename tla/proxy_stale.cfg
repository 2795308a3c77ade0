SPECIFICATION Spec
CONSTANTS
  Threads = {t1, t2}
  Modes = {TRUE}
  Broken = {}
  MaxVersion = 1
  MaxCalls = 2
  NoStamp = NoStamp
  Default = Default
SYMMETRY Symmetry
CHECK_DEADLOCK FALSE
INVARIANTS
  ShowsUpOnNextRequest
