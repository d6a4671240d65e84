SPECIFICATION Spec
CONSTANTS
  TRANS_LOG_SIZE = 2
  ReadReg = {r1}
  WriteReg = {w1}
  Sram = {s1}
  Word = {1, 2, 3}
  Null = null
  ByteSwap <- MCByteSwap
  Checksum = {0, 1}
  Crc8 <- MCCrc8
  LittleEndian = FALSE
  Faults = {"lost_command", "rejected", "lost_reply", "garbled", "bad_length", "corrupt", "damaged_header", "no_memory", "no_command", "tx_error"}
  CallerWaits = FALSE
  ResetBacklog = 1
INVARIANTS
  OneOwner
  PendingCount
PROPERTIES
  RxDelivers
VIEW MCView
