SPECIFICATION Spec
CONSTANTS
  SRAM_SIZE = 16
  W = 128
  RegMax = 23
  Layouts <- MCLayouts
  Sam = {0, 1, 3, 64}
INVARIANT StartedApart
INVARIANT TransfersApart
INVARIANT TransferNeverRefused
