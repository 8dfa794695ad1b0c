---------------------------- MODULE PicoRV32State ----------------------------
(***************************************************************************)
(* The registers, inputs and combinational wires of the picorv32 core      *)
(* (picorv32.v).  The other PicoRV32* modules describe how one rising edge *)
(* of clk changes them: a step of the specification is a clock edge, the   *)
(* unprimed variables are the values before the edge and the inputs        *)
(* sampled by it, the primed ones the values after it.                     *)
(*                                                                         *)
(* Abstractions.  A program counter is a halfword number modulo PcN (the   *)
(* hardware: 2^31).  A memory word is known by its address: the word at    *)
(* address a holds the halfwords 2a and 2a+1, and all that is known of a   *)
(* halfword is whether its low two bits are 2'b11 (prog).  So an           *)
(* instruction word in flight is the pair of halfword addresses it was     *)
(* read from, and fetching the wrong bytes is visible as a wrong pair.     *)
(* Register contents are not represented, except those that are used as    *)
(* a program counter; X stands for every value that is not one ('bx too).  *)
(* CATCH_ILLINSN and CATCH_MISALIGN are 1, LATCHED_MEM_RDATA is 0,         *)
(* ENABLE_IRQ_QREGS is 1 and STACKADDR is unset, as by default.            *)
(***************************************************************************)
EXTENDS Integers

CONSTANTS
  COMPRESSED_ISA, ENABLE_REGS_DUALPORT, TWO_CYCLE_COMPARE, TWO_CYCLE_ALU,
  WITH_PCPI, ENABLE_IRQ,        \* the parameters of the Verilog module
  MASKED_IRQ, LATCHED_IRQ,      \* sets of interrupt numbers
  PROGADDR_RESET, PROGADDR_IRQ, \* halfword addresses
  Irqs,            \* interrupt numbers; 0, 1 and 2 are timer, ebreak, buserror
  PcN,             \* number of halfwords of the program, an even number
  Programs,        \* the programs to run: which halfwords end in 2'b11
  DataWords,       \* word addresses of loads and stores, outside the program
  Kinds,           \* the kinds of instruction the programs use
  JumpOffsets,     \* bound: how far a jal, branch, jalr or setq q0 may point
  MaxShift,        \* bound: largest shift amount
  MaxTimer,        \* bound: largest value written to the timer
  PcpiTimeoutMax,  \* value the PCPI timeout counter starts from (15)
  ResetInputs,     \* values resetn may take: {TRUE} or BOOLEAN
  IrqInputs        \* sets of irq lines that may be high together

PC == 0 .. PcN - 1
Words == 0 .. (PcN \div 2) - 1
X == -1

\* Instructions by the path they take through the main state machine; "imm"
\* and "reg" are the ALU operations with one and two register operands,
\* "simple" the ones that finish in ld_rs1 (rdcycle, rdinstr, getq), "pcpi"
\* everything the core does not decode itself.
AllKinds == {"jal", "imm", "reg", "branch", "jalr", "load", "store", "shift",
             "shiftimm", "simple", "setq", "maskirq", "timer", "retirq",
             "waitirq", "pcpi", "ecall"}
CompressedKinds == {"jal", "imm", "reg", "branch", "jalr", "load", "store",
                    "shiftimm", "pcpi", "ecall"}
IrqKinds == {"setq", "maskirq", "timer", "retirq", "waitirq"}

ASSUME ParamAssumption ==
  /\ {COMPRESSED_ISA, ENABLE_REGS_DUALPORT, TWO_CYCLE_COMPARE, TWO_CYCLE_ALU,
      WITH_PCPI, ENABLE_IRQ} \subseteq BOOLEAN
  /\ ResetInputs \subseteq BOOLEAN
  /\ Kinds \subseteq AllKinds
  /\ ~ENABLE_IRQ => Kinds \cap IrqKinds = {}

ASSUME IrqAssumption ==
  /\ Irqs \subseteq Nat /\ 1 \in Irqs /\ 2 \in Irqs /\ 0 \in Irqs
  /\ MASKED_IRQ \subseteq Irqs /\ LATCHED_IRQ \subseteq Irqs
  /\ IrqInputs \subseteq SUBSET Irqs

ASSUME AddressAssumption ==
  /\ PcN \in Nat \ {0} /\ PcN % 2 = 0
  /\ PROGADDR_RESET \in PC /\ PROGADDR_IRQ \in PC
  /\ Programs \subseteq [PC -> BOOLEAN]
  /\ JumpOffsets \subseteq PC
  /\ DataWords \subseteq Nat
  /\ \A a \in DataWords : a \notin Words

ASSUME BoundAssumption ==
  /\ MaxShift \in Nat /\ MaxTimer \in Nat /\ PcpiTimeoutMax \in Nat \ {0}

VARIABLES
  prog,              \* which halfwords of the program end in 2'b11
  \* inputs of the core, as sampled by the next clock edge
  resetn, mem_ready, irq, pcpi_int_wait, pcpi_int_ready,
  \* native memory interface
  mem_valid, mem_instr, mem_addr, mem_wstrb, mem_state,
  mem_do_prefetch, mem_do_rinst, mem_do_rdata, mem_do_wdata,
  mem_la_secondword, mem_la_firstword_reg, last_mem_valid,
  prefetched_high_word, clear_prefetched_high_word_q,
  mem_16bit_buffer,  \* halfword address of the buffered half
  mem_rdata_q,       \* halfword addresses of the latched word
  \* instruction decoder
  insn,              \* the instruction of decoder stage 1: source and kind
  insn_q,            \* source of the instruction of decoder stage 2
  decoder_trigger, decoder_pseudo_trigger,
  \* main state machine
  cpu_state, trap, reg_pc, reg_next_pc, reg_out, alu_out_q,
  alu_out_0,         \* outcome of a comparison, fixed by its operands
  alu_wait, alu_wait_2, reg_sh,
  reg_op1,           \* word address of a load or store
  misaligned,        \* the low bits of reg_op1 do not fit mem_wordsize
  latched_store, latched_stalu, latched_branch, latched_rd,
  \* co-processor interface
  pcpi_valid, pcpi_timeout_counter, pcpi_timeout,
  \* interrupts
  irq_state, irq_active, irq_delay, irq_mask, irq_pending, eoi, timer,
  do_waitirq, q0, q1

inputs == <<resetn, mem_ready, irq, pcpi_int_wait, pcpi_int_ready>>
bus == <<mem_valid, mem_instr, mem_addr, mem_wstrb, mem_state>>
requests == <<mem_do_prefetch, mem_do_rinst, mem_do_rdata, mem_do_wdata>>
fetchUnit == <<mem_la_secondword, mem_la_firstword_reg, last_mem_valid,
               prefetched_high_word, clear_prefetched_high_word_q,
               mem_16bit_buffer, mem_rdata_q>>
decoder == <<insn, insn_q, decoder_trigger, decoder_pseudo_trigger>>
datapath == <<reg_out, alu_out_q, alu_out_0, alu_wait, alu_wait_2, reg_sh,
              reg_op1, misaligned>>
latches == <<latched_store, latched_stalu, latched_branch, latched_rd>>
pcpi == <<pcpi_valid, pcpi_timeout_counter, pcpi_timeout>>
interrupts == <<irq_state, irq_active, irq_delay, irq_mask, irq_pending, eoi,
                timer, do_waitirq, q0, q1>>
vars == <<prog, inputs, bus, requests, fetchUnit, decoder, cpu_state, trap,
          reg_pc, reg_next_pc, datapath, latches, pcpi, interrupts>>

CpuStates == {"trap", "fetch", "ld_rs1", "ld_rs2", "exec", "shift", "stmem",
              "ldmem"}
Sources == (PC \cup {X}) \X (PC \cup {X})

Odd(pc) == pc % 2 = 1                \* the pc addresses the high halfword
Wide(h) == h \in PC /\ prog[h]       \* the first half of a 32 bit instruction
Halves(a) == IF a \in Words THEN <<2 * a, 2 * a + 1>> ELSE <<X, X>>
PcPlus(pc, n) == (pc + n) % PcN

------------------------------------------------------------------------------
(* The wires.                                                              *)

next_pc == IF latched_store /\ latched_branch THEN reg_out ELSE reg_next_pc

mem_la_firstword ==
  /\ COMPRESSED_ISA /\ (mem_do_prefetch \/ mem_do_rinst)
  /\ Odd(next_pc) /\ ~mem_la_secondword

\* Wrong variants: a branch, or an interrupt, keeps the buffered half word.
clear_not_on_irq ==
  IF latched_branch \/ ~resetn
    THEN COMPRESSED_ISA
    ELSE prefetched_high_word /\ clear_prefetched_high_word_q
clear_not_on_branch ==
  IF irq_state # 0 \/ ~resetn
    THEN COMPRESSED_ISA
    ELSE prefetched_high_word /\ clear_prefetched_high_word_q

clear_prefetched_high_word ==
  IF latched_branch \/ irq_state # 0 \/ ~resetn
    THEN COMPRESSED_ISA
    ELSE prefetched_high_word /\ clear_prefetched_high_word_q

mem_la_use_prefetched_high_word ==
  mem_la_firstword /\ prefetched_high_word /\ ~clear_prefetched_high_word

mem_xfer ==
  \/ mem_valid /\ mem_ready
  \/ mem_la_use_prefetched_high_word /\ mem_do_rinst

\* The memory answers a transfer with the word at mem_addr.
mem_rdata == Halves(mem_addr)

mem_rdata_latched ==
  LET word == IF mem_xfer THEN mem_rdata ELSE mem_rdata_q
  IN  CASE mem_la_use_prefetched_high_word       -> <<mem_16bit_buffer, X>>
        [] COMPRESSED_ISA /\ mem_la_secondword   -> <<mem_16bit_buffer, word[1]>>
        [] mem_la_firstword /\ ~mem_la_use_prefetched_high_word
                                                 -> <<word[2], X>>
        [] OTHER                                 -> word

\* Wrong variant: a store is never done.
mem_done_reading ==
  /\ resetn
  /\ \/ mem_xfer /\ mem_state # 0 /\ (mem_do_rinst \/ mem_do_rdata)
     \/ mem_state = 3 /\ mem_do_rinst
  /\ mem_la_firstword => mem_xfer /\ ~Wide(mem_rdata_latched[1])

mem_done ==
  /\ resetn
  /\ \/ mem_xfer /\ mem_state # 0 /\ (mem_do_rinst \/ mem_do_rdata \/ mem_do_wdata)
     \/ mem_state = 3 /\ mem_do_rinst
  /\ mem_la_firstword => mem_xfer /\ ~Wide(mem_rdata_latched[1])

mem_la_firstword_xfer ==
  /\ COMPRESSED_ISA /\ mem_xfer
  /\ IF last_mem_valid THEN mem_la_firstword_reg ELSE mem_la_firstword

mem_la_write == resetn /\ mem_state = 0 /\ mem_do_wdata

\* Wrong variants: a prefetch is not announced; a read is announced although
\* the buffer holds the half word.
mem_la_read_on_demand ==
  /\ resetn
  /\ \/ ~mem_la_use_prefetched_high_word /\ mem_state = 0 /\ (mem_do_rinst \/ mem_do_rdata)
     \/ mem_la_firstword_xfer /\ ~mem_la_secondword /\ Wide(mem_rdata_latched[1])

mem_la_read_despite_buffer ==
  /\ resetn
  /\ \/ mem_state = 0 /\ (mem_do_rinst \/ mem_do_prefetch \/ mem_do_rdata)
     \/ mem_la_firstword_xfer /\ ~mem_la_secondword /\ Wide(mem_rdata_latched[1])
mem_la_read ==
  /\ resetn
  /\ \/ /\ ~mem_la_use_prefetched_high_word /\ mem_state = 0
        /\ mem_do_rinst \/ mem_do_prefetch \/ mem_do_rdata
     \/ mem_la_firstword_xfer /\ ~mem_la_secondword /\ Wide(mem_rdata_latched[1])

mem_la_addr ==
  IF mem_do_prefetch \/ mem_do_rinst
    THEN ((next_pc \div 2) + IF mem_la_firstword_xfer THEN 1 ELSE 0) % (PcN \div 2)
    ELSE reg_op1

compressed_instr == COMPRESSED_ISA /\ ~Wide(insn.src[1])

current_pc ==
  CASE latched_branch /\ latched_store /\ latched_stalu  -> alu_out_q
    [] latched_branch /\ latched_store /\ ~latched_stalu -> reg_out
    [] ~latched_branch /\ ~latched_store /\ irq_state = 1 -> PROGADDR_IRQ
    [] OTHER                                              -> reg_next_pc

\* An interrupt the core raises itself is taken as an interrupt only outside
\* the handler and when it is not masked; otherwise the core traps.
IrqEnabled(n) == ENABLE_IRQ /\ n \notin irq_mask /\ ~irq_active

MisalignedAccess ==
  /\ resetn
  /\ \/ (mem_do_rdata \/ mem_do_wdata) /\ misaligned
     \/ mem_do_rinst /\ ~COMPRESSED_ISA /\ Odd(reg_pc)

launch_next_insn ==
  /\ cpu_state = "fetch" /\ decoder_trigger
  /\ ENABLE_IRQ => irq_delay \/ irq_active \/ irq_pending \ irq_mask = {}
==============================================================================
