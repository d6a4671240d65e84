SPECIFICATION Spec
CONSTANTS
  Chunks <- ModelChunks
  Cost = {5, 49}
  Capacity = {104}
  Modes = {"model"}
  Updates = {"none", "in_place"}
  Unknown = "unknown"
  BadClock = FALSE
  CMP_ENTITY_MAX_SIZE = 140
  UINT16_MAX = 68
PROPERTIES
  QueryReadsOnly
