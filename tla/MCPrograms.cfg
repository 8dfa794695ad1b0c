SPECIFICATION Spec
CONSTANTS
  W = 4
  STEPS_AT_ONCE = 1
  CARRY_CHAIN = 4
  ResetEdges = 2
  None = None
  BITMAP_SIZE = 64
  Checksum <- SieveChecksum
  Rounds = 5
  CycleCounts = {7, 300, 655, 700}
  InstrCounts = {1, 7, 123}
  CounterBits = 16
  ResetRounds = {0}
  Number_Of_Runs = 100
  HeapSize = 1024
  RecSize = 48
  Times = {40000}
  Insns = {9000}
  BYTES = 2
  BITS = 3
  Chars = {1, 4, 7}
  Garbage = {1, 7}
  Length = 3
  MaxFormat = 4
  MaxBehind = 2
INVARIANTS
  NoErrorReported
  ConsoleRight
  AnsweredOnce
  ResultsRight
  DhrystoneRight
  StdlibRight
PROPERTIES
  FirmwareEnds
CHECK_DEADLOCK FALSE
