SPECIFICATION Spec
CONSTANTS
  Threads = {t1}
  Modes = {TRUE, FALSE}
  Broken = {1}
  MaxVersion = 2
  MaxCalls = 3
  NoStamp = NoStamp
  Default = Default
CHECK_DEADLOCK FALSE
INVARIANTS
  TypeOK
  ShowsUpOnNextRequest
PROPERTIES
  ResolvedOnce
