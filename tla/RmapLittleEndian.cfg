SPECIFICATION Spec
CONSTANTS
  TRANS_LOG_SIZE = 2
  ReadReg = {r1}
  WriteReg = {w1}
  Sram = {}
  Word = {1, 2, 3}
  Null = null
  ByteSwap <- MCByteSwap
  Checksum = {0, 1}
  Crc8 <- MCCrc8
  LittleEndian = TRUE
  Faults = {}
  CallerWaits = TRUE
  ResetBacklog = 0
INVARIANTS
  SyncComplete
