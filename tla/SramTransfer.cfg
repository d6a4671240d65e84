SPECIFICATION FairSpec
CONSTANTS
  SRAM_SIZE = 16
  W = 36
  TRANS_LOG_SIZE = 2
  Addr <- SomeAddr
  Size <- SomeSize
  Mtu = {2, 4, 8}
  Faults = {"lost", "error", "dropped"}
INVARIANT TypeOK
INVARIANT Within
INVARIANT PacketsTile
INVARIANT Complete
INVARIANT NoStray
INVARIANT LogHolds
PROPERTY Returns
