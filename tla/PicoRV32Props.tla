---------------------------- MODULE PicoRV32Props ----------------------------
(***************************************************************************)
(* What must be true of the picorv32 core at every clock edge: the         *)
(* assertions the Verilog source carries, the safety of the prefetch and   *)
(* of the half-word buffer, the native memory interface as its users see   *)
(* it, and the interrupt and co-processor handshakes.                      *)
(***************************************************************************)
EXTENDS PicoRV32

InputTypeOK ==
  /\ prog \in [PC -> BOOLEAN]
  /\ resetn \in BOOLEAN /\ mem_ready \in BOOLEAN /\ irq \in SUBSET Irqs
  /\ pcpi_int_wait \in BOOLEAN /\ pcpi_int_ready \in BOOLEAN

MemTypeOK ==
  /\ mem_valid \in BOOLEAN /\ mem_instr \in BOOLEAN /\ mem_wstrb \in BOOLEAN
  /\ mem_addr \in Words \cup DataWords /\ mem_state \in 0 .. 3
  /\ mem_la_secondword \in BOOLEAN /\ mem_la_firstword_reg \in BOOLEAN
  /\ last_mem_valid \in BOOLEAN
  /\ prefetched_high_word \in BOOLEAN /\ clear_prefetched_high_word_q \in BOOLEAN
  /\ mem_16bit_buffer \in PC \cup {X} /\ mem_rdata_q \in Sources

DecoderTypeOK ==
  /\ insn \in [src : Sources, kind : AllKinds, imm : JumpOffsets \cup {0}]
  /\ insn_q \in Sources

TriggerTypeOK == decoder_trigger \in BOOLEAN /\ decoder_pseudo_trigger \in BOOLEAN
RequestTypeOK ==
  /\ mem_do_prefetch \in BOOLEAN /\ mem_do_rinst \in BOOLEAN
  /\ mem_do_rdata \in BOOLEAN /\ mem_do_wdata \in BOOLEAN
StateTypeOK == cpu_state \in CpuStates /\ trap \in BOOLEAN
PcTypeOK ==
  /\ reg_pc \in PC /\ reg_next_pc \in PC
  /\ reg_out \in PC \cup {X} /\ alu_out_q \in PC \cup {X}
OperandTypeOK ==
  /\ alu_out_0 \in BOOLEAN /\ alu_wait \in BOOLEAN /\ alu_wait_2 \in BOOLEAN
  /\ reg_sh \in 0 .. MaxShift
AccessTypeOK == reg_op1 \in DataWords /\ misaligned \in BOOLEAN
LatchTypeOK ==
  /\ latched_store \in BOOLEAN /\ latched_stalu \in BOOLEAN
  /\ latched_branch \in BOOLEAN /\ latched_rd \in {"rd", "q0", "q1"}

PcpiTypeOK ==
  /\ pcpi_timeout \in BOOLEAN /\ pcpi_timeout_counter \in 0 .. PcpiTimeoutMax

EntryTypeOK ==
  /\ irq_state \in 0 .. 2 /\ irq_delay \in BOOLEAN /\ do_waitirq \in BOOLEAN
IrqTypeOK ==
  /\ irq_active \in BOOLEAN /\ irq_mask \in SUBSET Irqs
  /\ irq_pending \in SUBSET Irqs /\ eoi \in SUBSET Irqs /\ q1 \in SUBSET Irqs
  /\ timer \in 0 .. MaxTimer /\ q0 \in PC

\* Every register keeps to the values its width and its coding allow; in
\* particular no counter wraps: timer, the PCPI timeout counter and reg_sh stop
\* at 0 and never exceed what they were loaded with, and the program counters
\* never take the undefined result of an instruction that is not a jump.
TypeOK ==
  /\ InputTypeOK /\ MemTypeOK /\ DecoderTypeOK /\ TriggerTypeOK /\ RequestTypeOK
  /\ StateTypeOK /\ PcTypeOK /\ OperandTypeOK /\ AccessTypeOK /\ LatchTypeOK
  /\ pcpi_valid \in BOOLEAN /\ PcpiTypeOK /\ EntryTypeOK /\ IrqTypeOK

------------------------------------------------------------------------------
(* The memory interface.                                                   *)

Running == resetn /\ ~trap

\* The requests of the main state machine exclude each other: an instruction
\* fetch, a load and a store are never asked for together (assertions at
\* picorv32.v:548-558).
RequestsExclusive ==
  Running =>
    /\ mem_do_wdata => ~mem_do_prefetch /\ ~mem_do_rinst /\ ~mem_do_rdata
    /\ mem_do_rdata => ~mem_do_prefetch /\ ~mem_do_rinst

\* In every state of the memory interface the request it is serving is still
\* there and the bus shows it (assertions at picorv32.v:560-561, 596-599,
\* 622-623 and 630-631); the main state machine may not change its mind while
\* a transfer is under way.
TransferMatchesRequest ==
  Running =>
    /\ mem_state = 1 =>
         /\ mem_do_prefetch \/ mem_do_rinst \/ mem_do_rdata
         /\ mem_instr = (mem_do_prefetch \/ mem_do_rinst)
         /\ mem_valid = ~mem_la_use_prefetched_high_word
         /\ ~mem_wstrb
    /\ mem_state = 2 => mem_do_wdata /\ mem_wstrb /\ mem_valid
    /\ mem_state = 3 => mem_do_prefetch /\ ~mem_wstrb

\* A transfer that waits for mem_ready is not changed or withdrawn, whatever
\* the core does meanwhile, a trap included; only reset cancels it.
BusStable ==
  [][mem_valid /\ ~mem_ready /\ resetn =>
       mem_valid' /\ UNCHANGED <<mem_addr, mem_instr, mem_wstrb>>]_vars

\* Every transfer is announced on the look-ahead interface in the cycle before
\* it starts, with the address and direction it then has (README.md:435-437).
TransferAnnounced ==
  [][mem_valid' /\ (~mem_valid \/ mem_ready) =>
       /\ mem_la_read \/ mem_la_write
       /\ mem_addr' = mem_la_addr
       /\ mem_wstrb' = (mem_la_write /\ ~mem_la_read)]_vars

\* The converse, the assertion at picorv32.v:2148-2149: a read announced on the
\* look-ahead interface starts in the next cycle.
LookAheadReadAsserted == [][mem_la_read => mem_valid']_vars

\* The buffered half word is used in place of a memory read only when it is
\* the half word the pc points to.
BufferHoldsNextHalf ==
  Running /\ mem_la_use_prefetched_high_word /\ mem_do_rinst => mem_16bit_buffer = next_pc

------------------------------------------------------------------------------
(* Instruction flow.                                                       *)

FetchedFrom(src, pc) ==
  src[1] = pc /\ ((COMPRESSED_ISA /\ ~Wide(pc)) \/ src[2] = PcPlus(pc, 1))
Fetchable(pc) == COMPRESSED_ISA \/ ~Odd(pc)

\* An instruction handed to the main state machine was read from the address
\* the pc has, all of it, whatever was prefetched before a branch, an
\* interrupt or a return went elsewhere.
LaunchedFromPc ==
  Running /\ cpu_state = "fetch" /\ (decoder_trigger \/ do_waitirq) /\ Fetchable(current_pc) =>
    /\ FetchedFrom(insn.src, current_pc)
    /\ FetchedFrom(mem_rdata_q, current_pc) \/ decoder_pseudo_trigger \/ do_waitirq

\* Both decoder stages keep the instruction until it no longer needs them: the
\* prefetch of the next one never overtakes it.
DecoderKeepsInsn ==
  LET executing == \/ cpu_state \in {"ld_rs1", "ld_rs2", "exec", "shift"}
                   \/ cpu_state = "ldmem" /\ mem_do_prefetch
                   \/ cpu_state = "stmem" /\ mem_do_prefetch
  IN  Running /\ executing /\ Fetchable(reg_pc) =>
        FetchedFrom(insn.src, reg_pc) /\ FetchedFrom(insn_q, reg_pc)

------------------------------------------------------------------------------
(* Interrupts.                                                             *)

\* A latched interrupt stays pending until the handler is told of it: the bit
\* only leaves irq_pending in the cycle that copies it to eoi and to q1.
LatchedIrqKept ==
  [][\A n \in LATCHED_IRQ \ MASKED_IRQ :
       resetn /\ n \in irq_pending /\ n \notin irq_pending' =>
         irq_state = 2 /\ n \in eoi' /\ n \in q1']_vars

\* The handler is entered outside the handler only and, when every line is
\* latched, with something to handle.
IrqEntryHasCause ==
  LATCHED_IRQ = Irqs /\ resetn =>
    /\ irq_state = 1 => ~irq_active
    /\ irq_state # 0 => irq_pending \ irq_mask # {}

\* An illegal instruction, ecall or ebreak that may interrupt does so before
\* the next instruction: the delay that follows a return from the handler is
\* over when it is executed, and then nothing is launched while its interrupt
\* is pending.
FaultBeforeNextInsn ==
  [][Running =>
       /\ cpu_state \in {"ld_rs1", "ld_rs2"} /\ instr_trap /\ IrqEnabled(1) => ~irq_delay'
       /\ cpu_state = "fetch" /\ 1 \in irq_pending \ irq_mask
            /\ (cpu_state' = "ld_rs1" \/ latched_branch')
          => irq_active \/ irq_delay]_vars

------------------------------------------------------------------------------
(* Co-processors.                                                          *)

PcpiStage == cpu_state = (IF ENABLE_REGS_DUALPORT THEN "ld_rs1" ELSE "ld_rs2")

\* A timeout belongs to the instruction it ran for: when a co-processor
\* instruction reaches the handshake the counter is full and the timeout of
\* the one before it is gone, and pcpi_valid is only up in the handshake.
PcpiTimeoutFresh ==
  WITH_PCPI /\ Running =>
    /\ PcpiStage /\ insn.kind = "pcpi" /\ ~pcpi_valid =>
         ~pcpi_timeout /\ pcpi_timeout_counter = PcpiTimeoutMax
    /\ pcpi_valid => PcpiStage /\ insn.kind = "pcpi"

------------------------------------------------------------------------------
(* Progress.  The clock keeps running, whether interrupts come or not; a   *)
(* memory answers every transfer in the end (README.md:391-393); a         *)
(* co-processor that asserts pcpi_wait again and again asserts pcpi_ready  *)
(* in the end (README.md:473-477).                                         *)

Fairness ==
  /\ WF_vars(UNCHANGED irq /\ Next)
  /\ WF_vars(mem_ready' = TRUE /\ Next)
  /\ SF_vars(pcpi_int_wait /\ pcpi_int_ready' = TRUE /\ Next)
FairSpec == Spec /\ Fairness

\* The core never wedges: again and again it has an instruction to launch,
\* unless it trapped or waits for an interrupt.
CoreProgresses == []<>(decoder_trigger \/ do_waitirq \/ cpu_state = "trap")

\* An interrupt that is pending and not masked is served, or an instruction
\* masks it or traps first.  Only a program that after a return from the
\* handler executes nothing but waitirq could put it off for ever: waitirq
\* does not end irq_delay.
IrqServed ==
  []<>~irq_delay =>
    (irq_pending \ irq_mask # {} ~>
       irq_active \/ irq_pending \ irq_mask = {} \/ cpu_state = "trap")
==============================================================================
