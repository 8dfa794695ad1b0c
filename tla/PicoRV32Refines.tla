--------------------------- MODULE PicoRV32Refines ---------------------------
(***************************************************************************)
(* The core implements the instruction set machine of PicoRV32ISA: every   *)
(* clock edge is one step of it, or none.  On its memory side it           *)
(* implements the master of NativeBus.                                     *)
(***************************************************************************)
EXTENDS PicoRV32Props

waiting == cpu_state = "fetch"
idle == cpu_state = "trap" \/ (waiting /\ ~decoder_trigger /\ ~do_waitirq)
entering == waiting /\ irq_state = 1   \* reg_next_pc holds the return address

isa_pc == IF waiting THEN current_pc ELSE reg_pc

LengthOf(p, a) == IF COMPRESSED_ISA /\ ~p[a] THEN 1 ELSE 2

\* The halfwords of src that the instruction read for address a consists of.
Halfwords(src, a) ==
  CASE ~Fetchable(a)                                        -> <<>>
    [] Fetchable(a) /\ (COMPRESSED_ISA /\ ~Wide(src[1]))  -> <<src[1]>>
    [] Fetchable(a) /\ ~(COMPRESSED_ISA /\ ~Wide(src[1])) -> src

\* The instruction the main state machine works on.  In stmem and ldmem the
\* decoder may already hold the next one.
decoded ==
  [kind |-> insn.kind, at |-> Halfwords(insn.src, isa_pc), imm |-> insn.imm]
current(kind) ==
  [kind |-> kind, at |-> Halfwords(<<reg_pc, PcPlus(reg_pc, 1)>>, reg_pc), imm |-> 0]

isa_op ==
  CASE idle -> [kind |-> "none", at |-> <<>>, imm |-> 0]
    [] cpu_state = "stmem" -> current("store")
    [] cpu_state = "ldmem" -> current("load")
    [] ~idle /\ cpu_state \notin {"stmem", "ldmem"} -> decoded
isa_busy == ~waiting /\ cpu_state # "trap"
isa_irq_active == irq_active \/ entering
isa_delay == irq_delay /\ ~irq_active
isa_q0 ==
  CASE entering -> reg_next_pc
    [] waiting /\ latched_store /\ ~latched_branch /\ latched_rd = "q0" -> reg_out
    [] OTHER -> q0

ISA == INSTANCE PicoRV32ISA WITH
  pc <- isa_pc,
  op <- isa_op,
  busy <- isa_busy,
  irq_active <- isa_irq_active,
  delay <- isa_delay,
  q0 <- isa_q0,
  halted <- cpu_state = "trap",
  KindsOf <- LAMBDA p, a : IF LengthOf(p, a) = 1 THEN Kinds \cap CompressedKinds ELSE Kinds,
  Length <- LengthOf,
  Plus <- PcPlus,
  Faulting <- {"pcpi", "ecall", "load", "store"},
  Misfetch <- LAMBDA a : ~Fetchable(a)

\* The core executes the program: in order, one instruction at a time, with
\* precise interrupts that do not nest (README.md:495-571 for the interrupts).
ImplementsISA == ISA!Spec

------------------------------------------------------------------------------
Bus == INSTANCE NativeBus WITH
  Addrs <- Words \cup DataWords,
  Data <- {TRUE},
  None <- FALSE,
  request <- [instr |-> mem_instr, addr |-> mem_addr, write |-> mem_wstrb],
  performed <- <<>>

\* The core keeps the contract that its memories and bus bridges rely on: a
\* transfer stays unchanged until mem_ready or reset, the next one starts after
\* a cycle without mem_valid unless it continues a straddling instruction, and
\* while there is none nothing turns into a write.
MasterContract == Bus!MasterSpec
==============================================================================
