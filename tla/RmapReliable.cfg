SPECIFICATION FairSpec
CONSTANTS
  TRANS_LOG_SIZE = 2
  ReadReg = {r1}
  WriteReg = {w1}
  Sram = {s1}
  Word = {1, 2}
  Null = null
  ByteSwap <- MCByteSwap
  Checksum = {0, 1}
  Crc8 <- MCCrc8
  LittleEndian = FALSE
  Faults = {}
  CallerWaits = TRUE
  ResetBacklog = 0
INVARIANTS
  TypeOK
  SyncComplete
  StatusMeansPending
PROPERTIES
  Answered
