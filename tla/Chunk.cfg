SPECIFICATION Spec
CONSTANTS
  Chunks <- AllChunks
  Cost = {5, 31, 40, 49}
  Capacity = {31, 63, 76, 78, 79, 80, 81, 82, 83, 84, 88, 92, 93, 94, 95, 96, 98, 100, 102, 104, 120, 140}
  Modes = {"raw", "diff", "model"}
  Updates = {"none", "separate", "in_place"}
  Unknown = "unknown"
  BadClock = TRUE
  CMP_ENTITY_MAX_SIZE = 140
  UINT16_MAX = 68
INVARIANTS
  TypeOK
  BoundSuffices
  NoOverrun
  QueryExact
  Parseable
  ModelTracks
