SPECIFICATION Spec
CONSTANTS
  Focus <- AllFocus
  BoardKeys = {154}
  Patterns <- AllPatterns
  Paths <- AllPaths
  Slots <- TwoSlots
  MaxOps = 4
INVARIANTS
  FieldsKept
  ReadsArrive
  SettingsReadBack
  CommandsAnswered
CHECK_DEADLOCK FALSE
