SPECIFICATION Spec
CONSTANTS
  COMPRESSED_ISA = FALSE
  ENABLE_REGS_DUALPORT = FALSE
  TWO_CYCLE_COMPARE = TRUE
  TWO_CYCLE_ALU = TRUE
  WITH_PCPI = TRUE
  ENABLE_IRQ = TRUE
  Irqs = {0, 1, 2}
  MASKED_IRQ = {1}
  LATCHED_IRQ = {0, 2}
  IrqInputs = {{}}
  PROGADDR_RESET = 0
  PROGADDR_IRQ = 2
  PcN = 4
  Programs <- WideProgram
  DataWords <- OneDataWord
  Kinds = {"jal", "reg", "shift", "shiftimm", "simple", "load", "store", "timer", "retirq", "maskirq", "setq", "pcpi"}
  JumpOffsets = {2, 3}
  MaxShift = 5
  MaxTimer = 3
  PcpiTimeoutMax = 2
  ResetInputs = {TRUE, FALSE}
INVARIANTS
  TypeOK
  PcpiTimeoutFresh
PROPERTIES
  MasterContract
