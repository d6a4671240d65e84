SPECIFICATION Spec
CONSTANTS
  Focus <- ResetFocus
  BoardKeys = {154, 5}
  Patterns <- AllPatterns
  Paths <- AllPaths
  Slots <- TwoSlots
  MaxOps = 4
INVARIANTS
  FieldsKept
CHECK_DEADLOCK FALSE
