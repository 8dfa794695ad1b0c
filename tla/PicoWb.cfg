SPECIFICATION FairSpec
CONSTANTS
  COMPRESSED_ISA = TRUE
  Addrs = {a1, a2}
  Data = {d1}
  None = None
PROPERTIES
  WbCycleHeld
  ServesNative
  TransfersAnswered
