SPECIFICATION Spec
CONSTANTS
  Contracts <- MCContracts
  Preset <- MCPreset
  CssEdits = {"words", "drop", "theme", "anchor"}
  MaxEdits = 2
  NoFile = NoFile
  Invalid = Invalid
INVARIANTS
  BuildSettles
  PassedCheckIsShipped
  NoticeKeepsUp
PROPERTIES
  OwnTextStays
