SPECIFICATION Spec
CONSTANTS
  COMPRESSED_ISA = TRUE
  ENABLE_REGS_DUALPORT = TRUE
  TWO_CYCLE_COMPARE = FALSE
  TWO_CYCLE_ALU = FALSE
  WITH_PCPI = FALSE
  ENABLE_IRQ = FALSE
  Irqs = {0, 1, 2}
  MASKED_IRQ = {}
  LATCHED_IRQ = {0, 1, 2}
  IrqInputs = {{}}
  PROGADDR_RESET = 0
  PROGADDR_IRQ = 2
  PcN = 6
  Programs <- AnyProgram
  DataWords <- OneDataWord
  Kinds = {"jal", "imm", "branch", "jalr", "load", "store", "shift", "ecall"}
  JumpOffsets = {3, 4}
  MaxShift = 1
  MaxTimer = 0
  PcpiTimeoutMax = 1
  ResetInputs = {TRUE}
INVARIANTS
  RequestsExclusive
  TransferMatchesRequest
  DecoderKeepsInsn
  BufferHoldsNextHalf
PROPERTIES
  ImplementsISA
  BusStable
  TransferAnnounced
  LookAheadReadAsserted
