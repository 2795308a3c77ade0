SPECIFICATION Spec
CONSTANTS
  Chosen <- MCChosen
  Seconds <- MCSeconds
INVARIANTS
  EveryPaletteReads
  SuggestionsEnd
CHECK_DEADLOCK FALSE
