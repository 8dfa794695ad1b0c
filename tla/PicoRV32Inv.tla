----------------------------- MODULE PicoRV32Inv -----------------------------
(***************************************************************************)
(* The inductive invariants behind the properties of PicoRV32Props: what   *)
(* the state of one machine of the core says about the state of another.   *)
(***************************************************************************)
EXTENDS PicoRV32Refines

\* Why they do: which requests each state of the main state machine may have
\* open.  ld_rs1 starts a prefetch that stmem and ldmem wait for before they
\* issue their own request, and an instruction is never handed over while its
\* fetch is still asked for.
RequestInv ==
  /\ {mem_do_prefetch, mem_do_rinst, mem_do_rdata, mem_do_wdata, decoder_trigger}
       \subseteq BOOLEAN
  /\ cpu_state \in CpuStates
  /\ mem_do_wdata => ~mem_do_prefetch /\ ~mem_do_rinst /\ ~mem_do_rdata
  /\ mem_do_rdata => ~mem_do_prefetch /\ ~mem_do_rinst
  /\ mem_do_wdata => cpu_state \in {"stmem", "trap"}
  /\ mem_do_rdata => cpu_state \in {"ldmem", "trap"}
  /\ decoder_trigger => ~mem_do_rinst
  /\ cpu_state \in {"ld_rs1", "ld_rs2"} => ~mem_do_rinst
  /\ cpu_state = "ld_rs1" /\ insn.kind \notin {"jalr", "retirq"} => mem_do_prefetch
  /\ cpu_state = "ld_rs2" => mem_do_prefetch
  /\ cpu_state \in {"stmem", "ldmem"} => (mem_do_rinst => mem_do_prefetch)

\* What the latches hold: a jump target where cpu_state_fetch will jump, and
\* nothing of an earlier instruction while the next one is executed.
LatchInv ==
  /\ cpu_state = "fetch" /\ latched_store /\ latched_branch =>
       IF latched_stalu THEN alu_out_q \in PC ELSE reg_out \in PC
  /\ cpu_state = "fetch" /\ latched_store /\ ~latched_branch /\ latched_rd = "q0" =>
       reg_out \in PC
  /\ cpu_state \notin {"fetch", "trap"} => ~latched_stalu /\ latched_rd = "rd"
  /\ cpu_state \notin {"fetch", "exec", "trap"} => ~latched_branch
  /\ cpu_state = "exec" /\ latched_branch => latched_store /\ reg_out \in PC
  /\ irq_state # 0 =>
       ENABLE_IRQ /\ cpu_state \in {"fetch", "trap"} /\ ~latched_store /\ ~latched_branch

TypeInv == TypeOK /\ RequestInv /\ LatchInv

\* The entry into the handler: which register each of its cycles writes, and
\* that what caused it stays pending until the cycle that reports it.  And the
\* return: the delay that follows it does not outlive the next launch.
IrqInv ==
  /\ irq_pending # {} => ENABLE_IRQ
  /\ MASKED_IRQ \subseteq irq_mask
  /\ irq_state = 1 => ~irq_active /\ latched_rd = "q0"
  /\ irq_state = 2 => latched_rd = "q1"
  /\ LATCHED_IRQ = Irqs /\ irq_state # 0 => irq_pending \ irq_mask # {}
  /\ cpu_state \in {"ld_rs1", "ld_rs2"} /\ irq_delay => irq_active

\* Behind PcpiTimeoutFresh: the counter is full again when the next instruction
\* is handed over, one edge before the timeout is gone, and pcpi_valid never
\* outlives the instruction it offers.
TimerInv ==
  WITH_PCPI =>
    /\ pcpi_valid => PcpiStage /\ insn.kind = "pcpi"
    /\ cpu_state = "fetch" /\ decoder_trigger => pcpi_timeout_counter = PcpiTimeoutMax
    /\ cpu_state \in {"ld_rs1", "ld_rs2"} /\ ~pcpi_valid =>
         ~pcpi_timeout /\ pcpi_timeout_counter = PcpiTimeoutMax

------------------------------------------------------------------------------
(* Behind TransferMatchesRequest: the memory interface and the main state  *)
(* machine keep in step.                                                   *)

NoRequests == ~mem_do_prefetch /\ ~mem_do_rinst /\ ~mem_do_rdata /\ ~mem_do_wdata

\* What each state of the main state machine knows of the memory interface.
StepInv ==
  /\ cpu_state = "fetch" /\ (decoder_trigger \/ do_waitirq) =>
       mem_state = 0 /\ NoRequests /\ ~latched_branch
  /\ cpu_state = "fetch" /\ latched_branch => mem_state = 0 /\ ~mem_do_prefetch
  /\ irq_state # 0 =>
       /\ mem_state = 0 /\ ~mem_do_prefetch /\ ~decoder_trigger /\ ~do_waitirq
       /\ irq_state = 1 => ~mem_do_rinst
  /\ cpu_state \in {"ld_rs1", "exec"} /\ insn.kind \in {"jalr", "retirq"} =>
       mem_state = 0 /\ NoRequests
  /\ cpu_state \in {"ld_rs2", "shift"} =>
       mem_do_prefetch /\ ~mem_do_rinst /\ mem_state \in {1, 3}
  /\ cpu_state = "exec" /\ insn.kind # "jalr" /\ ~latched_branch =>
       mem_do_prefetch /\ mem_state \in {1, 3} /\ mem_do_rinst = ~ExecWaits
  /\ cpu_state = "exec" /\ latched_branch =>
       /\ insn.kind = "branch" /\ alu_out_0 /\ ~ExecWaits /\ mem_do_rinst
       /\ reg_out = PcPlus(reg_pc, insn.imm)
  /\ cpu_state \in {"stmem", "ldmem"} =>
       /\ mem_do_prefetch = mem_do_rinst
       /\ mem_do_prefetch = ~(mem_do_rdata \/ mem_do_wdata)
       /\ mem_do_prefetch => mem_state \in {1, 3}

\* What each state of the memory interface knows of the requests, and where the
\* two halves of an instruction that straddles two words are.
TransferInv ==
  /\ mem_state = 0 => ~mem_valid
  /\ mem_state = 1 =>
       /\ mem_do_prefetch \/ mem_do_rinst \/ mem_do_rdata
       /\ mem_instr = (mem_do_prefetch \/ mem_do_rinst)
       /\ mem_valid = ~mem_la_use_prefetched_high_word
       /\ ~mem_wstrb
       /\ last_mem_valid /\ mem_la_firstword_reg => mem_la_firstword
       /\ last_mem_valid => mem_valid
  /\ mem_state = 2 => mem_do_wdata /\ mem_wstrb /\ mem_valid
  /\ mem_state = 3 =>
       /\ mem_do_prefetch /\ ~mem_wstrb /\ ~mem_valid /\ ~latched_branch
       /\ COMPRESSED_ISA => ~Odd(reg_next_pc)
       /\ COMPRESSED_ISA /\ ~Wide(mem_rdata_q[1]) => prefetched_high_word
  /\ mem_la_secondword => mem_state = 1 /\ mem_valid /\ mem_do_rinst /\ COMPRESSED_ISA

\* The other half of the word is in the buffer where the next instruction
\* begins in the middle of a word that has been read already.
BufferInv ==
  COMPRESSED_ISA =>
    /\ /\ mem_do_prefetch /\ ~latched_branch /\ Odd(reg_next_pc)
       /\ ~mem_la_secondword /\ mem_state \in {0, 1}
       => prefetched_high_word
    /\ /\ \/ cpu_state = "fetch" /\ decoder_trigger
          \/ cpu_state \in {"stmem", "ldmem"} /\ ~mem_do_prefetch
       /\ Odd(PcPlus(reg_next_pc, InsnLength))
       => prefetched_high_word

FetchInv ==
  /\ trap => cpu_state = "trap"
  /\ prefetched_high_word => COMPRESSED_ISA /\ ~clear_prefetched_high_word_q
  /\ Running => StepInv /\ TransferInv /\ BufferInv

------------------------------------------------------------------------------
(* Behind LaunchedFromPc, DecoderKeepsInsn and BufferHoldsNextHalf: what   *)
(* is on its way belongs to the program counter it will be used at.        *)

\* A taken branch that waits in exec for the end of a fetch it will drop.
BranchPending == cpu_state = "exec" /\ latched_branch
Asked == mem_do_prefetch \/ mem_do_rinst
Awaiting == cpu_state = "fetch" /\ ~decoder_trigger /\ ~do_waitirq

\* An instruction is there, but the one before it or an interrupt is waited for.
Handed ==
  \/ cpu_state = "fetch" /\ (decoder_trigger \/ do_waitirq)
  \/ cpu_state \in {"stmem", "ldmem"} /\ ~mem_do_prefetch
Executing ==
  \/ cpu_state \in {"ld_rs1", "ld_rs2", "exec", "shift"}
  \/ cpu_state \in {"stmem", "ldmem"} /\ mem_do_prefetch

\* A fetch reads the word of the next pc, or the word after it once the first
\* half is in the buffer.
AddressInv ==
  mem_state = 1 /\ Asked /\ ~BranchPending /\ cpu_state # "trap" =>
    /\ mem_valid =>
         IF mem_la_secondword
           THEN /\ Odd(next_pc) /\ Wide(next_pc) /\ mem_16bit_buffer = next_pc
                /\ mem_addr = (next_pc \div 2 + 1) % (PcN \div 2)
           ELSE mem_addr = next_pc \div 2
    /\ last_mem_valid => mem_la_firstword_reg = mem_la_firstword

\* What is in the buffer, before a fetch and once the instruction is there.
UseInv ==
  /\ prefetched_high_word /\ ~clear_prefetched_high_word /\ ~mem_la_secondword
  /\ Asked \/ Awaiting
  /\ Odd(next_pc)
  => mem_16bit_buffer = next_pc
NextHalfInv ==
  prefetched_high_word /\ Handed /\ Odd(PcPlus(reg_next_pc, InsnLength)) =>
    mem_16bit_buffer = PcPlus(reg_next_pc, InsnLength)
WordInv ==
  mem_state = 3 =>
    /\ mem_rdata_q = Halves(reg_next_pc \div 2)
    /\ COMPRESSED_ISA /\ prefetched_high_word /\ ~Wide(reg_next_pc) =>
         mem_16bit_buffer = PcPlus(reg_next_pc, 1)

\* Which address the instruction in each stage of the decoder was read from.
ExecutedInv ==
  Executing =>
    /\ ~decoder_trigger
    /\ Fetchable(reg_pc) => FetchedFrom(insn.src, reg_pc) /\ FetchedFrom(insn_q, reg_pc)
HandedInv ==
  Handed =>
    /\ Fetchable(reg_next_pc) => FetchedFrom(insn.src, reg_next_pc)
    /\ decoder_trigger =>
         /\ Fetchable(reg_next_pc) =>
              FetchedFrom(IF decoder_pseudo_trigger THEN insn_q ELSE mem_rdata_q, reg_next_pc)
         /\ cpu_state # "fetch" => mem_state = 0 /\ ~decoder_pseudo_trigger
    /\ cpu_state # "fetch" /\ ~decoder_trigger /\ Fetchable(reg_next_pc) =>
         FetchedFrom(insn_q, reg_next_pc)
    /\ cpu_state = "fetch" /\ do_waitirq => WaitTaken
JumpInv == cpu_state = "fetch" /\ latched_branch /\ latched_stalu => ~mem_do_rinst

SourceInv ==
  Running => /\ AddressInv /\ UseInv /\ NextHalfInv /\ WordInv
             /\ ExecutedInv /\ HandedInv /\ JumpInv

------------------------------------------------------------------------------
(* Behind ImplementsISA: what the core knows of the instruction it works   *)
(* on, and that a misaligned one is only executed in the delay after a     *)
(* return from the handler.                                                *)

Instruction(kind, imm) ==
  /\ kind \in IF compressed_instr THEN Kinds \cap CompressedKinds ELSE Kinds
  /\ kind \notin {"jal", "branch"} => imm = 0
InsnInv == Handed \/ Executing => Instruction(insn.kind, insn.imm)

\* What is executed where: jal and waitirq are over once they are launched.
StageInv ==
  /\ cpu_state \in {"ld_rs1", "ld_rs2"} => insn.kind \notin {"jal", "waitirq"}
  /\ cpu_state = "exec" => insn.kind \in {"imm", "jalr", "reg", "branch"}
  /\ cpu_state = "shift" => insn.kind \in {"shift", "shiftimm"}

Working == cpu_state \notin {"fetch", "trap"}

\* The next instruction follows the one that is executed, until that jumps.
FollowingInv == Working => reg_next_pc = PcPlus(reg_pc, LengthOf(prog, reg_pc))

\* The delay ends where the handler is entered or an instruction started.
DelayInv ==
  /\ Working => irq_delay = irq_active
  /\ irq_state = 1 => ~irq_delay

\* The bus error of a misaligned fetch is pending when the instruction is
\* there; the core checks the pc of the last instruction while it fetches the
\* next, which matters only if it jumps from a misaligned address to another.
MisfetchInv ==
  ~COMPRESSED_ISA =>
    /\ Handed /\ Odd(reg_next_pc) => 2 \in irq_pending \ irq_mask /\ ~irq_active
    /\ waiting /\ do_waitirq => ~Odd(reg_next_pc)
    /\ waiting /\ mem_do_rinst /\ Odd(reg_pc) =>
         Odd(current_pc) \/ (latched_branch /\ IrqEnabled(2))
    /\ waiting /\ mem_do_rinst /\ Odd(reg_next_pc) => Odd(reg_pc) \/ latched_branch

\* A bus error stays pending while a load or store delays the next instruction.
BusErrorLatched == COMPRESSED_ISA \/ ~ENABLE_IRQ \/ 2 \in LATCHED_IRQ

OrderInv == Running => InsnInv /\ StageInv /\ FollowingInv /\ DelayInv /\ MisfetchInv
==============================================================================
