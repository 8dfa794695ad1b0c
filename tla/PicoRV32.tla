------------------------------- MODULE PicoRV32 -------------------------------
(***************************************************************************)
(* The picorv32 core, one clock edge at a time: instruction decoder, main  *)
(* state machine, interrupt logic and co-processor handshake, on top of    *)
(* the memory interface of PicoRV32Mem.  One action per branch of the main *)
(* always block; the assignments every edge makes are in Clock.            *)
(***************************************************************************)
EXTENDS PicoRV32Mem

------------------------------------------------------------------------------
(* Logic that runs on every edge, whatever the main state machine does.    *)

\* Stage 1 decodes the word that completes a fetch; what the word says is
\* unknown, so any instruction of that length may be found in it.
Decoded(src) ==
  LET kinds == IF COMPRESSED_ISA /\ ~Wide(src[1]) THEN Kinds \cap CompressedKinds
                                                  ELSE Kinds
  IN  [src : {src}, kind : kinds \cap {"jal", "branch"}, imm : JumpOffsets]
        \cup [src : {src}, kind : kinds \ {"jal", "branch"}, imm : {0}]

\* A pseudo trigger hands over an instruction both stages have seen already.
\* Wrong variant: decode it again, from a register that now holds data.
DecodeEveryTrigger == decoder_trigger
DecodeStage2 == decoder_trigger /\ ~decoder_pseudo_trigger

\* Stage 2 decodes the registered copy of the word one cycle later.
Decoder ==
  /\ IF mem_do_rinst /\ mem_done THEN insn' \in Decoded(mem_rdata_latched)
                                 ELSE UNCHANGED insn
  /\ insn_q' = IF DecodeStage2 THEN mem_rdata_q ELSE insn_q

\* The counter runs while a co-processor neither answers nor asks to wait.
\* Wrong variant: also between two instructions.
CountAlways == resetn /\ ~pcpi_int_wait
Counting == resetn /\ pcpi_valid /\ ~pcpi_int_wait
PcpiTimer ==
  /\ pcpi_timeout_counter' =
       IF Counting
         THEN IF pcpi_timeout_counter > 0 THEN pcpi_timeout_counter - 1 ELSE 0
         ELSE PcpiTimeoutMax
  /\ pcpi_timeout' = (resetn /\ pcpi_timeout_counter = 0)

\* The inputs the next edge will sample.  The core ignores mem_ready unless
\* mem_valid; co-processors are taken to answer only while pcpi_valid.
Inputs ==
  /\ resetn' \in ResetInputs
  /\ mem_ready' \in {FALSE, mem_valid'}
  /\ irq' \in IrqInputs
  /\ pcpi_int_wait' \in {FALSE, pcpi_valid'}
  /\ pcpi_int_ready' \in {FALSE, pcpi_valid'}

Clock == MemInterface /\ Decoder /\ PcpiTimer /\ UNCHANGED prog

\* irq_pending after this edge: the bits kept and the bits the instruction
\* raises, then the irq inputs, the timer and a bus error; masked lines last.
Pending(kept, raised) ==
  LET expired  == IF timer = 1 THEN {0} ELSE {}
      buserror == IF MisalignedAccess /\ IrqEnabled(2) THEN {2} ELSE {}
  IN  irq_pending' = IF ENABLE_IRQ
                       THEN (kept \cup raised \cup irq \cup expired \cup buserror)
                              \ MASKED_IRQ
                       ELSE {}
LatchedPending == irq_pending \cap LATCHED_IRQ

\* Wrong variant: no stop at zero.
CountOn == timer' = timer - 1
CountDown == timer' = IF timer > 0 THEN timer - 1 ELSE 0

\* A misaligned access that cannot interrupt overrides the next state.
GoTo(state) ==
  cpu_state' = IF MisalignedAccess /\ ~IrqEnabled(2) THEN "trap" ELSE state

Trigger == /\ decoder_trigger' = (mem_do_rinst /\ mem_done)
           /\ decoder_pseudo_trigger' = FALSE

Latch(store, stalu, branch) ==
  /\ latched_store' = store /\ latched_stalu' = stalu /\ latched_branch' = branch
Operands(wait, wait_2, taken, shift) ==
  /\ alu_wait' = wait /\ alu_wait_2' = wait_2
  /\ alu_out_0' = taken /\ reg_sh' = shift
NoOperands == Operands(FALSE, FALSE, FALSE, 0)

------------------------------------------------------------------------------
(* Reset and trap.                                                         *)

Reset ==
  /\ ~resetn
  /\ cpu_state' = "fetch" /\ trap' = FALSE
  /\ reg_pc' = PROGADDR_RESET /\ reg_next_pc' = PROGADDR_RESET
  /\ mem_do_prefetch' = FALSE /\ mem_do_rinst' = FALSE
  /\ mem_do_rdata' = FALSE /\ mem_do_wdata' = FALSE
  /\ Trigger
  /\ Latch(FALSE, FALSE, FALSE)
  /\ NoOperands
  /\ reg_out' = X /\ alu_out_q' = X
  /\ pcpi_valid' = FALSE
  /\ Pending({}, {})
  /\ irq_mask' = Irqs
  /\ irq_active' = FALSE /\ irq_delay' = FALSE /\ irq_state' = 0
  /\ eoi' = {} /\ timer' = 0 /\ do_waitirq' = FALSE
  /\ UNCHANGED <<latched_rd, reg_op1, misaligned, q0, q1>>

Trapped ==
  /\ resetn /\ cpu_state = "trap"
  /\ cpu_state' = "trap" /\ trap' = TRUE
  /\ Requests(mem_do_prefetch, mem_do_rinst, "none")
  /\ Trigger
  /\ NoOperands
  /\ reg_out' = X /\ alu_out_q' = X
  /\ Pending(LatchedPending, {})
  /\ CountDown
  /\ do_waitirq' = FALSE
  /\ UNCHANGED <<reg_pc, reg_next_pc, latches, reg_op1, misaligned,
                 pcpi_valid, irq_mask, irq_active, irq_delay, irq_state, eoi,
                 q0, q1>>

------------------------------------------------------------------------------
(* cpu_state_fetch: retire what the last instruction left in latched_*,    *)
(* enter an interrupt, wait for one, launch an instruction, or wait for it.*)

\* Wrong variants: inside the handler; masked lines too; only while the line
\* is high.
IrqTakenNested ==
  /\ ENABLE_IRQ
  /\ irq_state # 0 \/ (decoder_trigger /\ ~irq_delay /\ irq_pending \ irq_mask # {})
IrqTakenMasked ==
  /\ ENABLE_IRQ
  /\ irq_state # 0 \/ (decoder_trigger /\ ~irq_active /\ ~irq_delay /\ irq_pending # {})
IrqTakenOnLine ==
  /\ ENABLE_IRQ
  /\ irq_state # 0 \/ (decoder_trigger /\ ~irq_active /\ ~irq_delay /\ irq \ irq_mask # {})

IrqTaken ==
  /\ ENABLE_IRQ
  /\ \/ irq_state # 0
     \/ decoder_trigger /\ ~irq_active /\ ~irq_delay /\ irq_pending \ irq_mask # {}
WaitTaken ==
  ENABLE_IRQ /\ (decoder_trigger \/ do_waitirq) /\ insn.kind = "waitirq"

\* What the register file write port and the interrupt entry do in this
\* cycle; the latched result of the last instruction comes first.
Slot == CASE latched_branch                    -> "branch"
          [] latched_store /\ ~latched_branch  -> "store"
          [] ~latched_store /\ ~latched_branch /\ irq_state = 1 -> "q0"
          [] ~latched_store /\ ~latched_branch /\ irq_state = 2 -> "q1"
          [] OTHER                             -> "none"

\* What stays pending when the handler is told of the others.
\* Wrong variant: the masked lines are dropped.
NothingPending == {}
StillPending == LatchedPending \cap irq_mask

\* The assignments every cycle of the state makes; next, store and branch are
\* the values of reg_next_pc, latched_store and latched_branch after it.
Fetch(next, store, branch) ==
  LET ready == irq_pending \ irq_mask
  IN  /\ resetn /\ cpu_state = "fetch"
      /\ trap' = FALSE
      /\ reg_pc' = current_pc /\ reg_next_pc' = next /\ reg_out' = X
      /\ Latch(store, FALSE, branch)
      /\ irq_active' = (irq_active \/ Slot = "q0")
      /\ q0' = CASE Slot = "store" /\ latched_rd = "q0" -> reg_out
                 [] Slot = "q0" /\ latched_rd = "q0"    -> reg_next_pc
                 [] OTHER                               -> q0
      /\ q1' = IF Slot = "q1" /\ latched_rd = "q1" THEN ready ELSE q1
      /\ eoi' = IF Slot = "q1" THEN ready ELSE eoi
      /\ Pending(IF Slot = "q1" THEN StillPending ELSE LatchedPending, {})
      /\ Trigger
      /\ NoOperands
      /\ CountDown
      /\ alu_out_q' = X /\ misaligned' = FALSE
      /\ UNCHANGED <<reg_op1, pcpi_valid, irq_mask>>

\* mem_do_rinst when nothing later in the same cycle assigns it.
KeepFetching == ~decoder_trigger /\ ~do_waitirq

\* Three cycles: stop before the decoded instruction, save its address in q0
\* and turn to the handler, publish the interrupts to handle in q1 and eoi.
EnterIrq ==
  /\ IrqTaken
  /\ Fetch(current_pc, FALSE, FALSE)
  /\ latched_rd' = IF irq_state = 1 THEN "q1" ELSE "q0"
  /\ irq_state' = (irq_state + 1) % 3
  /\ Requests(mem_do_prefetch, KeepFetching \/ Slot = "q0", "none")
  /\ do_waitirq' = FALSE
  /\ GoTo("fetch")
  /\ UNCHANGED irq_delay

NoIrq == ~IrqTaken /\ latched_rd' = "rd" /\ UNCHANGED irq_state

WaitIrq ==
  /\ NoIrq /\ WaitTaken /\ irq_pending = {}
  /\ Fetch(current_pc, FALSE, FALSE)
  /\ Requests(mem_do_prefetch, KeepFetching, "none")
  /\ do_waitirq' = TRUE
  /\ GoTo("fetch")
  /\ UNCHANGED irq_delay

\* Wrong variant: compressed instructions as long as the others.
InsnLengthWide == 2
InsnLength == IF compressed_instr THEN 1 ELSE 2

WaitIrqDone ==
  /\ NoIrq /\ WaitTaken /\ irq_pending # {}
  /\ Fetch(PcPlus(current_pc, InsnLength), TRUE, FALSE)
  /\ Requests(mem_do_prefetch, TRUE, "none")
  /\ do_waitirq' = FALSE
  /\ GoTo("fetch")
  /\ UNCHANGED irq_delay

LaunchJal ==
  /\ NoIrq /\ ~WaitTaken /\ decoder_trigger /\ insn.kind = "jal"
  /\ Fetch(PcPlus(current_pc, insn.imm), FALSE, TRUE)
  /\ Requests(mem_do_prefetch, TRUE, "none")
  /\ do_waitirq' = FALSE
  /\ irq_delay' = irq_active
  /\ GoTo("fetch")

Launch ==
  /\ NoIrq /\ ~WaitTaken /\ decoder_trigger /\ insn.kind # "jal"
  /\ Fetch(PcPlus(current_pc, InsnLength), FALSE, FALSE)
  /\ Requests(insn.kind \notin {"jalr", "retirq"}, FALSE, "none")
  /\ do_waitirq' = FALSE
  /\ irq_delay' = irq_active
  /\ GoTo("ld_rs1")

AwaitInsn ==
  /\ NoIrq /\ ~WaitTaken /\ ~decoder_trigger
  /\ Fetch(current_pc, FALSE, FALSE)
  /\ Requests(mem_do_prefetch, KeepFetching, "none")
  /\ do_waitirq' = FALSE
  /\ GoTo("fetch")
  /\ UNCHANGED irq_delay

------------------------------------------------------------------------------
(* The states an instruction passes through after it is launched.          *)

\* Where a jalr may go: any address, kept to a few by JumpOffsets.
JumpTargets == {PcPlus(reg_pc, offset) : offset \in JumpOffsets}

\* alu_out_q follows the ALU, whose result is an address in a jalr only.
Step(state) ==
  /\ resetn /\ cpu_state = state
  /\ trap' = FALSE
  /\ do_waitirq' = FALSE
  /\ alu_out_q' \in IF state = "exec" /\ insn.kind = "jalr" THEN JumpTargets ELSE {X}
  /\ UNCHANGED <<reg_pc, reg_next_pc, irq_state, irq_delay, q0, q1>>
KeepIrqState == UNCHANGED <<irq_active, irq_mask, eoi>> /\ CountDown
NoFault == Pending(LatchedPending, {})

instr_trap == insn.kind \in {"pcpi", "ecall"}

\* An illegal instruction or ecall interrupts, or halts the core.
IllegalInsn ==
  /\ Pending(LatchedPending, IF IrqEnabled(1) THEN {1} ELSE {})
  /\ GoTo(IF IrqEnabled(1) THEN "fetch" ELSE "trap")

LdRs1Illegal ==
  /\ Step("ld_rs1") /\ instr_trap /\ ~WITH_PCPI
  /\ IllegalInsn
  /\ reg_out' = X
  /\ Requests(mem_do_prefetch, mem_do_rinst, "none")
  /\ Trigger /\ NoOperands /\ KeepIrqState
  /\ UNCHANGED <<latches, reg_op1, misaligned, pcpi_valid>>

LatchResult(out, rd) ==
  /\ Latch(TRUE, latched_stalu, latched_branch)
  /\ reg_out' = out /\ latched_rd' = rd
  /\ Requests(mem_do_prefetch, mem_do_rinst, "none")
  /\ GoTo("fetch")
  /\ Trigger /\ NoOperands /\ NoFault
  /\ UNCHANGED <<reg_op1, misaligned, pcpi_valid>>

\* rdcycle*, rdinstr*, getq and setq of q1..q3: only the result is latched.
LdRs1Simple ==
  /\ Step("ld_rs1") /\ insn.kind = "simple"
  /\ LatchResult(X, latched_rd)
  /\ KeepIrqState

\* setq q0: the value a handler writes may be used as a return address.
LdRs1SetQ ==
  /\ Step("ld_rs1") /\ insn.kind = "setq"
  /\ \E rs1 \in JumpTargets : LatchResult(rs1, "q0")
  /\ KeepIrqState

LdRs1MaskIrq ==
  /\ Step("ld_rs1") /\ insn.kind = "maskirq"
  /\ LatchResult(X, latched_rd)
  /\ \E rs1 \in SUBSET (Irqs \ MASKED_IRQ) : irq_mask' = rs1 \cup MASKED_IRQ
  /\ CountDown
  /\ UNCHANGED <<irq_active, eoi>>

LdRs1Timer ==
  /\ Step("ld_rs1") /\ insn.kind = "timer"
  /\ LatchResult(X, latched_rd)
  /\ timer' \in 0 .. MaxTimer
  /\ UNCHANGED <<irq_active, irq_mask, eoi>>

\* Return from interrupt: jump to q0 and allow interrupts again.
LdRs1RetIrq ==
  /\ Step("ld_rs1") /\ insn.kind = "retirq"
  /\ Latch(TRUE, latched_stalu, TRUE)
  /\ reg_out' = q0
  /\ eoi' = {} /\ irq_active' = FALSE
  /\ Requests(mem_do_prefetch, mem_do_rinst, "none")
  /\ GoTo("fetch")
  /\ Trigger /\ NoOperands /\ NoFault /\ CountDown
  /\ UNCHANGED <<latched_rd, reg_op1, misaligned, pcpi_valid, irq_mask>>

\* Go on to state with mem_do_rinst = rinst and these operands.
Proceed(state, rinst, wait, wait_2, taken, shift) ==
  /\ GoTo(state)
  /\ Requests(mem_do_prefetch, rinst, "none")
  /\ Operands(wait, wait_2, taken, shift)
  /\ reg_out' = X
  /\ Trigger /\ NoFault /\ KeepIrqState
  /\ UNCHANGED <<latches, reg_op1, misaligned, pcpi_valid>>

LdRs1Load ==
  /\ Step("ld_rs1") /\ insn.kind = "load"
  /\ Proceed("ldmem", TRUE, FALSE, FALSE, FALSE, 0)

LdRs1Imm ==
  /\ Step("ld_rs1") /\ insn.kind \in {"imm", "jalr"}
  /\ Proceed("exec", IF TWO_CYCLE_ALU THEN mem_do_rinst ELSE mem_do_prefetch,
             TWO_CYCLE_ALU, FALSE, FALSE, 0)

LdRs1ShiftImm ==
  /\ Step("ld_rs1") /\ insn.kind = "shiftimm"
  /\ \E shift \in 0 .. MaxShift : Proceed("shift", mem_do_rinst, FALSE, FALSE, FALSE, shift)

\* With a single read port the second operand takes a cycle of its own.
LdRs1SinglePort ==
  /\ Step("ld_rs1") /\ ~ENABLE_REGS_DUALPORT
  /\ insn.kind \in {"reg", "branch", "store", "shift"} \/ (instr_trap /\ WITH_PCPI)
  /\ Proceed("ld_rs2", mem_do_rinst, FALSE, FALSE, FALSE, 0)

SecondOperand ==
  IF ENABLE_REGS_DUALPORT THEN Step("ld_rs1") ELSE Step("ld_rs2")

Store ==
  /\ SecondOperand /\ insn.kind = "store"
  /\ Proceed("stmem", TRUE, FALSE, FALSE, FALSE, 0)

Shift ==
  /\ SecondOperand /\ insn.kind = "shift"
  /\ \E shift \in 0 .. MaxShift : Proceed("shift", mem_do_rinst, FALSE, FALSE, FALSE, shift)

Alu ==
  LET slow_compare == TWO_CYCLE_COMPARE /\ insn.kind = "branch"
      wait         == TWO_CYCLE_ALU \/ slow_compare
  IN  /\ SecondOperand /\ insn.kind \in {"reg", "branch"}
      /\ \E taken \in {FALSE, insn.kind = "branch"} :
           Proceed("exec", IF wait THEN mem_do_rinst ELSE mem_do_prefetch,
                   wait, TWO_CYCLE_ALU /\ slow_compare, taken, 0)

\* The co-processor handshake: hold pcpi_valid until an answer, a timeout, or
\* at once for ecall and ebreak.
Pcpi(valid) ==
  /\ SecondOperand /\ instr_trap /\ WITH_PCPI
  /\ pcpi_valid' = valid
  /\ reg_out' = X
  /\ Trigger /\ NoOperands /\ KeepIrqState
  /\ UNCHANGED <<latched_stalu, latched_branch, latched_rd, reg_op1, misaligned>>
PcpiGivesUp == pcpi_timeout \/ insn.kind = "ecall"

PcpiReady ==
  /\ Pcpi(FALSE) /\ pcpi_int_ready
  /\ latched_store' \in BOOLEAN
  /\ Requests(mem_do_prefetch, TRUE, "none")
  /\ NoFault /\ GoTo("fetch")

PcpiAbort ==
  /\ Pcpi(FALSE) /\ ~pcpi_int_ready /\ PcpiGivesUp
  /\ IllegalInsn
  /\ Requests(mem_do_prefetch, mem_do_rinst, "none")
  /\ UNCHANGED latched_store

PcpiWait ==
  /\ Pcpi(TRUE) /\ ~pcpi_int_ready /\ ~PcpiGivesUp
  /\ Requests(mem_do_prefetch, mem_do_rinst, "none")
  /\ NoFault /\ GoTo(cpu_state)
  /\ UNCHANGED latched_store

------------------------------------------------------------------------------
(* cpu_state_exec, shift, stmem and ldmem.                                 *)

Exec ==
  /\ Step("exec")
  /\ reg_out' = PcPlus(reg_pc, insn.imm)
  /\ NoFault /\ KeepIrqState
  /\ UNCHANGED <<reg_op1, misaligned, pcpi_valid>>
ExecWaits == (TWO_CYCLE_ALU \/ TWO_CYCLE_COMPARE) /\ (alu_wait \/ alu_wait_2)

ExecWait ==
  /\ Exec /\ ExecWaits
  /\ Requests(mem_do_prefetch, mem_do_prefetch /\ ~alu_wait_2, "none")
  /\ Operands(alu_wait_2, FALSE, alu_out_0, 0)
  /\ Trigger /\ GoTo("exec")
  /\ UNCHANGED latches

\* A taken branch drops the prefetched instruction and fetches again, but only
\* leaves the state when the fetch in progress is over.
ExecBranch ==
  /\ Exec /\ ~ExecWaits /\ insn.kind = "branch"
  /\ Latch(alu_out_0, latched_stalu, alu_out_0)
  /\ Requests(mem_do_prefetch, mem_do_rinst, IF alu_out_0 THEN "rinst" ELSE "none")
  /\ decoder_trigger' = (mem_do_rinst /\ mem_done /\ ~alu_out_0)
  /\ decoder_pseudo_trigger' = FALSE
  /\ Operands(FALSE, FALSE, alu_out_0 /\ ~mem_done, 0)
  /\ GoTo(IF mem_done THEN "fetch" ELSE "exec")
  /\ UNCHANGED latched_rd

ExecAlu ==
  /\ Exec /\ ~ExecWaits /\ insn.kind # "branch"
  /\ Latch(TRUE, TRUE, insn.kind = "jalr")
  /\ Requests(mem_do_prefetch, mem_do_rinst, "none")
  /\ Trigger /\ NoOperands /\ GoTo("fetch")
  /\ UNCHANGED latched_rd

\* One bit or, from 4 on, four bits per cycle (TWO_STAGE_SHIFT).
ShiftStep ==
  /\ Step("shift") /\ reg_sh > 0
  /\ Latch(TRUE, latched_stalu, latched_branch)
  /\ Operands(FALSE, FALSE, FALSE, IF reg_sh >= 4 THEN reg_sh - 4 ELSE reg_sh - 1)
  /\ Requests(mem_do_prefetch, mem_do_rinst, "none")
  /\ reg_out' = X
  /\ Trigger /\ NoFault /\ KeepIrqState /\ GoTo("shift")
  /\ UNCHANGED <<latched_rd, reg_op1, misaligned, pcpi_valid>>

ShiftDone ==
  /\ Step("shift") /\ reg_sh = 0
  /\ Latch(TRUE, latched_stalu, latched_branch)
  /\ Requests(mem_do_prefetch, mem_do_prefetch, "none")
  /\ reg_out' = X
  /\ Trigger /\ NoOperands /\ NoFault /\ KeepIrqState /\ GoTo("fetch")
  /\ UNCHANGED <<latched_rd, reg_op1, misaligned, pcpi_valid>>

\* stmem and ldmem first let the prefetch of the next instruction finish, then
\* issue the access, then hand the waiting instruction to cpu_state_fetch.
DataPhase(state) ==
  /\ Step(state)
  /\ reg_out' = X
  /\ NoOperands /\ NoFault /\ KeepIrqState
  /\ Latch(IF state = "ldmem" THEN TRUE ELSE latched_store, latched_stalu, latched_branch)
  /\ UNCHANGED <<latched_rd, pcpi_valid>>
\* Wrong variant: do not wait for the prefetch.
PrefetchIgnored == TRUE
PrefetchOver == ~mem_do_prefetch \/ mem_done

DataWaits(state) ==
  /\ DataPhase(state) /\ ~PrefetchOver
  /\ Requests(mem_do_prefetch, mem_do_rinst, "none")
  /\ Trigger /\ GoTo(state)
  /\ UNCHANGED <<reg_op1, misaligned>>

DataAccess(state) ==
  LET issue  == ~(IF state = "ldmem" THEN mem_do_rdata ELSE mem_do_wdata)
      set    == IF state = "ldmem" THEN "rdata" ELSE "wdata"
      finish == ~mem_do_prefetch /\ mem_done
  IN  /\ DataPhase(state) /\ PrefetchOver
      /\ IF issue THEN reg_op1' \in DataWords /\ misaligned' \in BOOLEAN
                  ELSE UNCHANGED <<reg_op1, misaligned>>
      /\ Requests(mem_do_prefetch, mem_do_rinst, IF issue THEN set ELSE "none")
      /\ decoder_trigger' = (finish \/ (mem_do_rinst /\ mem_done))
      /\ decoder_pseudo_trigger' = finish
      /\ GoTo(IF finish THEN "fetch" ELSE state)

------------------------------------------------------------------------------
Init ==
  /\ prog \in Programs
  /\ resetn = TRUE /\ mem_ready = FALSE /\ irq = {}
  /\ pcpi_int_wait = FALSE /\ pcpi_int_ready = FALSE
  /\ mem_valid = FALSE /\ mem_instr = FALSE /\ mem_addr = 0 /\ mem_wstrb = FALSE
  /\ mem_state = 0
  /\ mem_do_prefetch = FALSE /\ mem_do_rinst = FALSE
  /\ mem_do_rdata = FALSE /\ mem_do_wdata = FALSE
  /\ mem_la_secondword = FALSE /\ mem_la_firstword_reg = FALSE
  /\ last_mem_valid = FALSE /\ prefetched_high_word = FALSE
  /\ clear_prefetched_high_word_q = COMPRESSED_ISA
  /\ mem_16bit_buffer = X /\ mem_rdata_q = <<X, X>>
  /\ insn = [src |-> <<X, X>>, kind |-> "imm", imm |-> 0] /\ insn_q = <<X, X>>
  /\ decoder_trigger = FALSE /\ decoder_pseudo_trigger = FALSE
  /\ cpu_state = "fetch" /\ trap = FALSE
  /\ reg_pc = PROGADDR_RESET /\ reg_next_pc = PROGADDR_RESET
  /\ reg_out = X /\ alu_out_q = X /\ alu_out_0 = FALSE
  /\ alu_wait = FALSE /\ alu_wait_2 = FALSE /\ reg_sh = 0
  /\ reg_op1 \in DataWords /\ misaligned = FALSE
  /\ latched_store = FALSE /\ latched_stalu = FALSE /\ latched_branch = FALSE
  /\ latched_rd = "rd"
  /\ pcpi_valid = FALSE /\ pcpi_timeout_counter = PcpiTimeoutMax /\ pcpi_timeout = FALSE
  /\ irq_state = 0 /\ irq_active = FALSE /\ irq_delay = FALSE /\ irq_mask = Irqs
  /\ irq_pending = {} /\ eoi = {} /\ timer = 0 /\ do_waitirq = FALSE
  /\ q0 = PROGADDR_RESET /\ q1 = {}

MainStep ==
  \/ Reset \/ Trapped
  \/ EnterIrq \/ WaitIrq \/ WaitIrqDone \/ LaunchJal \/ Launch \/ AwaitInsn
  \/ LdRs1Illegal \/ LdRs1Simple \/ LdRs1SetQ \/ LdRs1MaskIrq \/ LdRs1Timer
  \/ LdRs1RetIrq \/ LdRs1Load \/ LdRs1Imm \/ LdRs1ShiftImm \/ LdRs1SinglePort
  \/ Store \/ Shift \/ Alu
  \/ PcpiReady \/ PcpiAbort \/ PcpiWait
  \/ ExecWait \/ ExecBranch \/ ExecAlu
  \/ ShiftStep \/ ShiftDone
  \/ \E state \in {"stmem", "ldmem"} : DataWaits(state) \/ DataAccess(state)

Next == Clock /\ MainStep /\ Inputs

Spec == Init /\ [][Next]_vars
==============================================================================
