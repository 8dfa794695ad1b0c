SPECIFICATION Spec
CONSTANTS
  COMPRESSED_ISA = TRUE
  ENABLE_REGS_DUALPORT = TRUE
  TWO_CYCLE_COMPARE = FALSE
  TWO_CYCLE_ALU = FALSE
  WITH_PCPI = FALSE
  ENABLE_IRQ = TRUE
  Irqs = {0, 1, 2}
  MASKED_IRQ = {1, 2}
  LATCHED_IRQ = {0, 1, 2}
  IrqInputs = {{}, {0}}
  PROGADDR_RESET = 0
  PROGADDR_IRQ = 2
  PcN = 4
  Programs <- AnyProgram
  DataWords <- OneDataWord
  Kinds = {"imm", "waitirq"}
  JumpOffsets = {3}
  MaxShift = 1
  MaxTimer = 0
  PcpiTimeoutMax = 1
  ResetInputs = {TRUE}
PROPERTIES
  LookAheadReadAsserted
