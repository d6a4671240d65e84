SPECIFICATION Spec
CONSTANTS
  Regs = {4, 8}
  Bits = {3, 4}
  Par = {1, 2, 3, 5}
  Round = {0, 1}
  Weight = {7, 16}
  Models = {0, 6}
  Samples = 2
INVARIANTS
  RoundTrip
  ModelsAgree
  CodeWordsFit
CHECK_DEADLOCK FALSE
