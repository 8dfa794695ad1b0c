------------------------- MODULE PicoRV32Mem_proofs -------------------------
(***************************************************************************)
(* The memory interface serves the request it was given until it is done,  *)
(* and the bus does not change meanwhile.  The argument is a rely and      *)
(* guarantee one: what the memory interface does with the requests it sees *)
(* (first part), what the main state machine leaves alone while a transfer *)
(* is not over (second part), and from both that FetchInv is inductive.    *)
(***************************************************************************)
EXTENDS PicoRV32_proofs

\* The core runs and takes a step.
Live ==
  /\ TypeOK /\ RequestInv /\ LatchInv /\ FetchInv
  /\ Next /\ resetn /\ cpu_state # "trap"

LEMMA LiveFacts ==
  ASSUME Live
  PROVE  /\ ~trap /\ StepInv /\ TransferInv /\ BufferInv /\ Clock /\ MainStep /\ resetn
         /\ mem_state \in 0 .. 3
BY DEF Live, FetchInv, Running, Next, TypeOK, MemTypeOK

\* Parity of the next program counter.
LEMMA OddPlus ==
  ASSUME NEW pc \in PC
  PROVE  Odd(PcPlus(pc, 1)) = ~Odd(pc) /\ Odd(PcPlus(pc, 2)) = Odd(pc)
<1>1. PICK half \in Nat \ {0} : PcN = 2 * half
  <2>1. PcN = 2 * (PcN \div 2) /\ PcN \div 2 \in Nat \ {0}
    BY AddressAssumption
  <2> QED
    BY <2>1
<1>2. pc \in Nat /\ pc < 2 * half
  BY <1>1, AddressAssumption DEF PC
<1>3. ASSUME NEW n \in {1, 2}
      PROVE  PcPlus(pc, n) = IF pc + n < 2 * half THEN pc + n ELSE pc + n - 2 * half
  <2>1. pc + n \in Nat /\ pc + n < 4 * half
    BY <1>1, <1>2
  <2>2. CASE pc + n < 2 * half
    BY <1>1, <2>1, <2>2 DEF PcPlus
  <2>3. CASE pc + n >= 2 * half
    <3>1. /\ pc + n - 2 * half \in Nat /\ pc + n - 2 * half < 2 * half
      BY <1>1, <1>2, <2>1, <2>3
    <3>2. \A m \in Nat, d \in Nat \ {0} : m < d => (m + d) % d = m
      OBVIOUS
    <3>3. 2 * half \in Nat \ {0}
      BY <1>1
    <3>4. ((pc + n - 2 * half) + 2 * half) % (2 * half) = pc + n - 2 * half
      BY <3>1, <3>2, <3>3
    <3>5. (pc + n - 2 * half) + 2 * half = pc + n
      BY <1>1, <1>2
    <3> QED
      BY <1>1, <2>1, <2>3, <3>4, <3>5 DEF PcPlus
  <2> QED
    BY <2>1, <2>2, <2>3
<1>4. \A m, k \in Nat : (m - 2 * k) % 2 = m % 2
  OBVIOUS
<1>5. (pc + 1) % 2 = (IF pc % 2 = 1 THEN 0 ELSE 1) /\ (pc + 2) % 2 = pc % 2
  BY <1>2
<1>6. \A n \in {1, 2} : PcPlus(pc, n) % 2 = (pc + n) % 2
  BY <1>1, <1>2, <1>3, <1>4
<1> QED
  BY <1>5, <1>6 DEF Odd

------------------------------------------------------------------------------
(* What the memory interface does.                                         *)

\* One branch of the memory interface for each of its states.
LEMMA MemCases ==
  ASSUME Live
  PROVE  \/ mem_state = 0 /\ MemIdle
         \/ mem_state = 1 /\ (ReadWaits \/ ReadSecondWord \/ ReadCompletes)
         \/ mem_state = 2 /\ MemWrite
         \/ mem_state = 3 /\ MemPrefetched
BY LiveFacts DEF Clock, MemInterface, MemHalted, MemIdle, ReadWaits, ReadSecondWord,
   ReadCompletes, MemWrite, MemPrefetched

LEMMA ReadCases ==
  ASSUME Live, mem_state = 1
  PROVE  \/ ReadWaits /\ ~mem_xfer /\ mem_state' = 1
         \/ ReadSecondWord /\ mem_xfer /\ mem_state' = 1
         \/ /\ ReadCompletes /\ mem_xfer
            /\ mem_state' = IF mem_do_rinst \/ mem_do_rdata THEN 0 ELSE 3
<1>1. ReadWaits \/ ReadSecondWord \/ ReadCompletes
  BY MemCases
<1>2. ReadWaits => ~mem_xfer /\ mem_state' = 1
  BY DEF ReadWaits, bus
<1>3. ReadSecondWord => mem_xfer /\ mem_state' = 1
  BY DEF ReadSecondWord
<1>4. ReadCompletes =>
        mem_xfer /\ mem_state' = IF mem_do_rinst \/ mem_do_rdata THEN 0 ELSE 3
  BY DEF ReadCompletes
<1> QED
  BY <1>1, <1>2, <1>3, <1>4

LEMMA PrefetchedCases ==
  ASSUME Live, mem_state = 3
  PROVE  MemPrefetched /\ mem_state' = IF mem_do_rinst THEN 0 ELSE 3
<1>1. MemPrefetched
  BY MemCases
<1> QED
  BY <1>1 DEF MemPrefetched

LEMMA DoneWhenActive == mem_done => mem_state # 0
BY DEF mem_done

LEMMA StaysIdle ==
  ASSUME Live, mem_state = 0, NoRequests
  PROVE  mem_state' = 0 /\ ~mem_done
<1>1. MemIdle
  BY MemCases
<1>2. mem_state' = CASE mem_do_wdata -> 2
                     [] (mem_do_prefetch \/ mem_do_rinst \/ mem_do_rdata) /\ ~mem_do_wdata -> 1
                     [] OTHER -> 0
  BY <1>1 DEF MemIdle
<1> QED
  BY <1>2, DoneWhenActive DEF NoRequests

LEMMA ReadFromIdle ==
  ASSUME Live, mem_state = 0, mem_do_prefetch \/ mem_do_rinst \/ mem_do_rdata
  PROVE  mem_state' = 1 /\ ~mem_done
<1>1. MemIdle
  BY MemCases
<1>2. mem_state' = CASE mem_do_wdata -> 2
                     [] (mem_do_prefetch \/ mem_do_rinst \/ mem_do_rdata) /\ ~mem_do_wdata -> 1
                     [] OTHER -> 0
  BY <1>1 DEF MemIdle
<1>3. ~mem_do_wdata
  BY DEF Live, RequestInv
<1> QED
  BY <1>2, <1>3, DoneWhenActive

LEMMA PlainPc == ~latched_branch => next_pc = reg_next_pc
BY DEF next_pc

\* The buffer is only cleared for a jump once the entry into a handler is over.
LEMMA ClearForBranch ==
  ASSUME Live, irq_state = 0, COMPRESSED_ISA
  PROVE  clear_prefetched_high_word = latched_branch
BY LiveFacts DEF Live, FetchInv, TypeOK, LatchTypeOK, MemTypeOK, clear_prefetched_high_word

LEMMA NotEntering == ASSUME Live, mem_state # 0 PROVE irq_state = 0
BY LiveFacts DEF StepInv

\* A prefetch that begins in the middle of a word finds its first half in the
\* buffer and leaves the bus alone.
LEMMA PrefetchUsesBuffer ==
  ASSUME Live, mem_do_prefetch, ~latched_branch, mem_la_firstword, mem_state \in {0, 1}
  PROVE  mem_la_use_prefetched_high_word /\ (mem_state = 1 => ~mem_valid)
<1>1. COMPRESSED_ISA /\ Odd(reg_next_pc) /\ ~mem_la_secondword
  BY PlainPc DEF mem_la_firstword
<1>2. prefetched_high_word
  BY <1>1, LiveFacts DEF BufferInv
<1>3. irq_state = 0
  BY LiveFacts DEF StepInv
<1>4. mem_la_use_prefetched_high_word
  BY <1>1, <1>2, <1>3, ClearForBranch DEF mem_la_use_prefetched_high_word
<1> QED
  BY <1>4, LiveFacts DEF TransferInv

LEMMA SecondHalfStarts ==
  ASSUME Live, mem_state = 1, mem_la_firstword_xfer PROVE mem_la_firstword
BY LiveFacts DEF TransferInv, mem_la_firstword_xfer

LEMMA SecondWordRead ==
  ASSUME Live, mem_state = 1, COMPRESSED_ISA, mem_la_read
  PROVE  mem_la_firstword /\ mem_xfer /\ ~mem_la_secondword /\ Wide(mem_rdata_latched[1])
BY SecondHalfStarts DEF mem_la_read, mem_la_firstword_xfer

\* A transfer that is done leaves the interface idle.
LEMMA DoneEnds == ASSUME Live, mem_done PROVE mem_state' = 0
<1>1. mem_state # 0
  BY DoneWhenActive
<1>2. CASE mem_state = 1
  <2>1. mem_xfer /\ (mem_do_rinst \/ mem_do_rdata)
    BY <1>2, LiveFacts DEF mem_done, Live, RequestInv, TransferInv
  <2>2. ~ReadSecondWord
    BY <1>2, <2>1, SecondWordRead DEF mem_done, ReadSecondWord
  <2> QED
    BY <1>2, <2>1, <2>2, ReadCases
<1>3. CASE mem_state = 2
  <2>1. mem_xfer
    BY <1>3 DEF mem_done
  <2> QED
    BY <1>3, <2>1, MemCases DEF MemWrite
<1>4. CASE mem_state = 3
  <2>1. mem_do_prefetch /\ ~mem_do_rdata /\ ~mem_do_wdata
    BY <1>4, LiveFacts DEF TransferInv, Live, RequestInv
  <2>2. mem_do_rinst
    BY <2>1, DoneWasAsked
  <2> QED
    BY <1>4, <2>2, PrefetchedCases
<1> QED
  BY <1>1, <1>2, <1>3, <1>4, MemCases

\* A prefetch nobody waits for ends in the prefetched state at most.
LEMMA PrefetchHeld ==
  ASSUME Live, mem_do_prefetch, ~mem_do_rinst
  PROVE  mem_state' \in {1, 3} /\ ~mem_done
<1>1. ~mem_do_rdata /\ ~mem_do_wdata
  BY DEF Live, RequestInv
<1>2. ~mem_done
  BY <1>1, DoneWasAsked
<1>3. CASE mem_state = 0
  BY <1>3, ReadFromIdle
<1>4. CASE mem_state = 1
  BY <1>1, <1>2, <1>4, ReadCases
<1>5. CASE mem_state = 2
  BY <1>1, <1>5, LiveFacts DEF TransferInv
<1>6. CASE mem_state = 3
  BY <1>2, <1>6, PrefetchedCases
<1> QED
  BY <1>2, <1>3, <1>4, <1>5, <1>6, MemCases

\* A prefetch that has become a fetch is done or goes on.
LEMMA FetchGoesOn ==
  ASSUME Live, mem_do_prefetch, mem_do_rinst, ~latched_branch, mem_state \in {1, 3}, ~mem_done
  PROVE  mem_state' = 1
<1>1. CASE mem_state = 3
  <2>1. ~mem_la_firstword
    BY <1>1, LiveFacts, PlainPc DEF TransferInv, mem_la_firstword
  <2> QED
    BY <1>1, <2>1, LiveFacts DEF mem_done
<1>2. CASE mem_state = 1
  <2>1. CASE ~mem_xfer
    BY <1>2, <2>1, ReadCases
  <2>2. CASE mem_xfer
    <3>1. mem_la_firstword /\ Wide(mem_rdata_latched[1])
      BY <1>2, <2>2, LiveFacts DEF mem_done
    <3>2. COMPRESSED_ISA /\ ~mem_la_secondword /\ ~mem_valid
      BY <1>2, <3>1, PrefetchUsesBuffer DEF mem_la_firstword
    <3>3. ~last_mem_valid
      BY <1>2, <3>2, LiveFacts DEF TransferInv
    <3>4. mem_la_read
      BY <2>2, <3>1, <3>2, <3>3, LiveFacts DEF mem_la_read, mem_la_firstword_xfer
    <3> QED
      BY <1>2, <2>2, <3>2, <3>4, ReadCases DEF ReadCompletes
  <2> QED
    BY <2>1, <2>2
<1> QED
  BY <1>1, <1>2

------------------------------------------------------------------------------
(* What the main state machine leaves alone until the transfer is over.    *)

\* It goes on where it was, drops the prefetch for a branch, or has just
\* retired a jump or entered a handler, before any transfer.
Steady ==
  /\ reg_next_pc' = reg_next_pc /\ latched_branch' = latched_branch
  /\ next_pc' = next_pc /\ irq_state = 0 /\ irq_state' = 0
Branching ==
  /\ ~latched_branch /\ latched_branch' /\ mem_state = 1
  /\ mem_do_prefetch /\ mem_do_rinst /\ irq_state = 0 /\ irq_state' = 0
Starting == mem_state = 0 /\ (latched_branch \/ irq_state # 0) /\ ~mem_do_prefetch

\* What a step makes of open requests that are not done.
Holds ==
  /\ mem_do_prefetch' = mem_do_prefetch
  /\ mem_do_rdata' = mem_do_rdata /\ mem_do_wdata' = mem_do_wdata
  /\ mem_do_rinst => mem_do_rinst'
  /\ mem_do_rinst' => mem_do_prefetch \/ mem_do_rinst
  /\ Steady \/ Branching \/ Starting

LEMMA RequestsHold ==
  ASSUME TypeOK, ~mem_done, NEW ri, NEW set, Requests(mem_do_prefetch, ri, set),
         set \notin {"rdata", "wdata"}
  PROVE  /\ mem_do_prefetch' = mem_do_prefetch
         /\ mem_do_rdata' = mem_do_rdata /\ mem_do_wdata' = mem_do_wdata
         /\ mem_do_rinst' <=> ri \/ set = "rinst"
BY DEF Requests, TypeOK, RequestTypeOK

\* The states after fetch but exec.
LEMMA OperandStepHolds ==
  ASSUME Live, ~mem_done, ~NoRequests, NEW state \in CpuStates \ {"fetch", "trap", "exec"},
         Step(state), UNCHANGED latched_branch,
         NEW ri, Requests(mem_do_prefetch, ri, "none"),
         mem_do_rinst => ri, ri => mem_do_prefetch \/ mem_do_rinst
  PROVE  Holds
<1>1. /\ mem_do_prefetch' = mem_do_prefetch
      /\ mem_do_rdata' = mem_do_rdata /\ mem_do_wdata' = mem_do_wdata
      /\ mem_do_rinst' <=> ri
  BY RequestsHold DEF Live
<1>2. cpu_state = state /\ reg_next_pc' = reg_next_pc /\ irq_state' = irq_state
  BY DEF Step
<1>3. irq_state = 0 /\ ~latched_branch
  BY <1>2 DEF Live, LatchInv
<1>4. Steady
  BY <1>2, <1>3, PlainPc DEF Steady, next_pc
<1> QED
  BY <1>1, <1>4 DEF Holds

LEMMA FetchHolds ==
  ASSUME Live, ~mem_done, ~NoRequests,
         EnterIrq \/ WaitIrq \/ WaitIrqDone \/ LaunchJal \/ Launch \/ AwaitInsn
  PROVE  Holds
<1>1. PICK next, store, branch : Fetch(next, store, branch)
  BY DEF EnterIrq, WaitIrq, WaitIrqDone, LaunchJal, Launch, AwaitInsn
<1>2. cpu_state = "fetch" /\ ~mem_do_rdata /\ ~mem_do_wdata
  BY <1>1 DEF Fetch, Live, RequestInv
<1>3. ~decoder_trigger /\ ~do_waitirq
  BY <1>2, LiveFacts DEF StepInv
<1>4. EnterIrq \/ AwaitInsn
  BY <1>3 DEF WaitIrq, WaitIrqDone, LaunchJal, Launch, WaitTaken
<1>5. KeepFetching = TRUE
  BY <1>3 DEF KeepFetching
<1>6. CASE EnterIrq
  <2>1. irq_state \in {1, 2} /\ ENABLE_IRQ
    BY <1>3, <1>6 DEF EnterIrq, IrqTaken, Live, TypeOK, EntryTypeOK
  <2>2. irq_state = 2
    BY <1>2, <2>1, LiveFacts DEF StepInv, NoRequests
  <2>3. Starting /\ mem_do_rinst
    BY <1>2, <2>2, LiveFacts DEF StepInv, NoRequests, Starting
  <2>4. PICK ri : Requests(mem_do_prefetch, ri, "none") /\ ri
    BY <1>5, <1>6 DEF EnterIrq
  <2> QED
    BY <2>3, <2>4, RequestsHold DEF Live, Holds
<1>7. CASE AwaitInsn
  <2>1. Requests(mem_do_prefetch, TRUE, "none")
    BY <1>5, <1>7 DEF AwaitInsn
  <2>2. irq_state = 0 /\ irq_state' = 0
    BY <1>7 DEF AwaitInsn, NoIrq, IrqTaken, Live, LatchInv
  <2>3. ASSUME latched_branch PROVE Starting
    BY <1>2, <2>3, LiveFacts DEF StepInv, Starting
  <2>4. ASSUME ~latched_branch PROVE Steady
    <3>1. current_pc = reg_next_pc
      BY <2>2, <2>4 DEF current_pc
    <3>2. reg_next_pc' = reg_next_pc /\ latched_branch' = FALSE
      BY <1>7, <3>1 DEF AwaitInsn, Fetch, Latch
    <3>3. latched_branch \in BOOLEAN
      BY DEF Live, TypeOK, LatchTypeOK
    <3> QED
      BY <2>2, <2>4, <3>2, <3>3 DEF Steady, next_pc
  <2>5. mem_do_prefetch \/ mem_do_rinst
    BY <1>2 DEF NoRequests
  <2> QED
    BY <2>1, <2>3, <2>4, <2>5, RequestsHold DEF Live, Holds
<1> QED
  BY <1>4, <1>6, <1>7

LEMMA OperandsHold ==
  ASSUME Live, ~mem_done, ~NoRequests,
         \/ LdRs1Illegal \/ LdRs1Simple \/ LdRs1SetQ \/ LdRs1MaskIrq \/ LdRs1Timer
         \/ LdRs1RetIrq \/ LdRs1Load \/ LdRs1Imm \/ LdRs1ShiftImm \/ LdRs1SinglePort
         \/ Store \/ Shift \/ Alu \/ PcpiReady \/ PcpiAbort \/ PcpiWait
  PROVE  Holds
<1>1. PICK state \in {"ld_rs1", "ld_rs2"} : Step(state)
  BY DEF LdRs1Illegal, LdRs1Simple, LdRs1SetQ, LdRs1MaskIrq, LdRs1Timer, LdRs1RetIrq,
     LdRs1Load, LdRs1Imm, LdRs1ShiftImm, LdRs1SinglePort, Store, Shift, Alu,
     PcpiReady, PcpiAbort, PcpiWait, Pcpi, SecondOperand
<1>2. cpu_state = state
  BY <1>1 DEF Step
<1>3. ~(cpu_state = "ld_rs1" /\ insn.kind \in {"jalr", "retirq"})
  BY LiveFacts DEF StepInv
<1>4. mem_do_prefetch /\ ~mem_do_rinst
  BY <1>2, <1>3 DEF Live, RequestInv
<1>5. UNCHANGED latched_branch
  <2>1. ~LdRs1RetIrq
    BY <1>3 DEF LdRs1RetIrq, Step
  <2> QED
    BY <2>1 DEF LdRs1Illegal, LdRs1Simple, LdRs1SetQ, LdRs1MaskIrq, LdRs1Timer,
       LdRs1Load, LdRs1Imm, LdRs1ShiftImm, LdRs1SinglePort, Store, Shift, Alu,
       PcpiReady, PcpiAbort, PcpiWait, Pcpi, LatchResult, Latch, Proceed, latches
<1>6. \E ri : Requests(mem_do_prefetch, ri, "none")
  BY DEF LdRs1Illegal, LdRs1Simple, LdRs1SetQ, LdRs1MaskIrq, LdRs1Timer, LdRs1RetIrq,
     LdRs1Load, LdRs1Imm, LdRs1ShiftImm, LdRs1SinglePort, Store, Shift, Alu,
     PcpiReady, PcpiAbort, PcpiWait, Pcpi, LatchResult, Proceed
<1> QED
  BY <1>1, <1>4, <1>5, <1>6, OperandStepHolds DEF CpuStates

LEMMA ShiftHolds ==
  ASSUME Live, ~mem_done, ~NoRequests, ShiftStep \/ ShiftDone PROVE Holds
<1>1. Step("shift") /\ UNCHANGED latched_branch
  BY DEF ShiftStep, ShiftDone, Latch
<1>2. mem_do_prefetch /\ ~mem_do_rinst
  BY <1>1, LiveFacts DEF Step, StepInv
<1>3. \E ri : Requests(mem_do_prefetch, ri, "none")
  BY DEF ShiftStep, ShiftDone
<1> QED
  BY <1>1, <1>2, <1>3, OperandStepHolds DEF CpuStates

LEMMA DataHolds ==
  ASSUME Live, ~mem_done, ~NoRequests, NEW state \in {"stmem", "ldmem"},
         DataWaits(state) \/ DataAccess(state)
  PROVE  Holds
<1>1. Step(state) /\ UNCHANGED latched_branch
  BY DEF DataWaits, DataAccess, DataPhase, Latch
<1>2. Requests(mem_do_prefetch, mem_do_rinst, "none")
  <2>1. CASE DataWaits(state)
    BY <2>1 DEF DataWaits
  <2>2. CASE DataAccess(state)
    <3>1. cpu_state = state /\ ~mem_do_prefetch
      BY <2>2 DEF DataAccess, DataPhase, Step, PrefetchOver
    <3>2. IF state = "ldmem" THEN mem_do_rdata ELSE mem_do_wdata
      BY <3>1, LiveFacts DEF StepInv, Live, RequestInv
    <3> QED
      BY <2>2, <3>2 DEF DataAccess
  <2> QED
    BY <2>1, <2>2
<1>3. mem_do_rinst => mem_do_prefetch \/ mem_do_rinst
  OBVIOUS
<1> QED
  BY <1>1, <1>2, <1>3, OperandStepHolds DEF CpuStates

LEMMA ExecHolds ==
  ASSUME Live, ~mem_done, ~NoRequests, ExecWait \/ ExecBranch \/ ExecAlu PROVE Holds
<1>1. /\ cpu_state = "exec" /\ reg_next_pc' = reg_next_pc /\ irq_state' = irq_state
      /\ reg_out' = PcPlus(reg_pc, insn.imm)
  BY DEF ExecWait, ExecBranch, ExecAlu, Exec, Step
<1>2. irq_state = 0 /\ insn.kind # "jalr" /\ latched_branch \in BOOLEAN
  BY <1>1, LiveFacts DEF StepInv, Live, LatchInv, TypeOK, LatchTypeOK
<1>3. ASSUME ExecWait \/ ExecAlu PROVE Holds
  <2>1. ~latched_branch /\ mem_do_prefetch
    BY <1>1, <1>2, <1>3, LiveFacts DEF ExecWait, ExecAlu, StepInv
  <2>2. latched_branch' = FALSE
    BY <1>2, <1>3, <2>1 DEF ExecWait, ExecAlu, latches, Latch
  <2>3. Steady
    BY <1>1, <1>2, <2>1, <2>2 DEF Steady, next_pc
  <2>4. PICK ri : Requests(mem_do_prefetch, ri, "none") /\ (mem_do_rinst => ri)
    <3>1. CASE ExecWait
      BY <1>1, <1>2, <2>1, <3>1, LiveFacts DEF ExecWait, StepInv
    <3>2. CASE ExecAlu
      BY <3>2 DEF ExecAlu
    <3> QED
      BY <1>3, <3>1, <3>2
  <2> QED
    BY <2>1, <2>3, <2>4, RequestsHold DEF Live, Holds
<1>4. CASE ExecBranch
  <2>1. latched_branch' = alu_out_0 /\ latched_store' = alu_out_0 /\ alu_out_0 \in BOOLEAN
    BY <1>4 DEF ExecBranch, Latch, Live, TypeOK, OperandTypeOK
  <2>2. mem_do_rinst
    BY <1>1, <1>2, <1>4, LiveFacts DEF ExecBranch, StepInv
  <2>3. Steady \/ Branching
    <3>1. CASE latched_branch
      <4>1. alu_out_0 /\ reg_out' = reg_out /\ latched_store
        BY <1>1, <3>1, LiveFacts DEF StepInv, Live, LatchInv
      <4> QED
        BY <1>1, <1>2, <2>1, <3>1, <4>1 DEF Steady, next_pc
    <3>2. CASE ~latched_branch /\ ~alu_out_0
      BY <1>1, <1>2, <2>1, <3>2 DEF Steady, next_pc
    <3>3. CASE ~latched_branch /\ alu_out_0
      <4>1. mem_do_prefetch /\ mem_state \in {1, 3}
        BY <1>1, <1>2, <3>3, LiveFacts DEF StepInv
      <4>2. mem_state = 1
        BY <2>2, <3>3, <4>1, FetchGoesOn, PrefetchedCases
      <4> QED
        BY <1>1, <1>2, <2>1, <2>2, <3>3, <4>1, <4>2 DEF Branching
    <3> QED
      BY <3>1, <3>2, <3>3
  <2>4. \E set \in {"rinst", "none"} : Requests(mem_do_prefetch, mem_do_rinst, set)
    BY <1>4 DEF ExecBranch
  <2> QED
    BY <2>2, <2>3, <2>4, RequestsHold DEF Live, Holds
<1> QED
  BY <1>3, <1>4

LEMMA MainHolds == ASSUME Live, ~mem_done, ~NoRequests PROVE Holds
<1>1. MainStep /\ ~Reset /\ ~Trapped
  BY LiveFacts DEF Reset, Trapped, Live
<1> QED
  BY <1>1, FetchHolds, OperandsHold, ShiftHolds, DataHolds, ExecHolds DEF MainStep

------------------------------------------------------------------------------
(* TransferInv is kept.                                                    *)

\* The buffer and its clearing in a step that does not complete a read.
LEMMA BufferKept ==
  ASSUME Live, KeepHighWord
  PROVE  prefetched_high_word' = (prefetched_high_word /\ ~clear_prefetched_high_word)
BY DEF KeepHighWord, HighWord

LEMMA BufferCleared ==
  ASSUME Live PROVE prefetched_high_word' => ~clear_prefetched_high_word
<1>1. \E valid, half : HighWord(valid, half)
  <2>1. ReadCompletes => \E valid, half : HighWord(valid, half)
    BY DEF ReadCompletes, KeepHighWord
  <2> QED
    BY <2>1, MemCases DEF MemIdle, ReadWaits, ReadSecondWord, MemWrite, MemPrefetched, KeepHighWord
<1> QED
  BY <1>1 DEF HighWord

LEMMA BufferNeedsIsa ==
  ASSUME Live
  PROVE  prefetched_high_word' => COMPRESSED_ISA /\ ~clear_prefetched_high_word_q'
<1>1. clear_prefetched_high_word_q' = clear_prefetched_high_word
  BY LiveFacts DEF Clock, MemInterface, FirstwordTracking
<1>2. ASSUME ~COMPRESSED_ISA PROVE prefetched_high_word' = FALSE
  <2>1. ~prefetched_high_word
    BY <1>2 DEF Live, FetchInv
  <2>2. KeepHighWord
    <3>1. ~ReadSecondWord
      BY <1>2 DEF ReadSecondWord
    <3>2. ReadCompletes => KeepHighWord
      BY <1>2 DEF ReadCompletes
    <3> QED
      BY <3>1, <3>2, MemCases DEF MemIdle, ReadWaits, MemWrite, MemPrefetched
  <2> QED
    BY <2>1, <2>2, BufferKept
<1> QED
  BY <1>1, <1>2, BufferCleared

\* After a branch nothing comes from the buffer.
LEMMA NoUseAfterBranch ==
  ASSUME Live, resetn', latched_branch' PROVE ~mem_la_use_prefetched_high_word'
BY DEF mem_la_use_prefetched_high_word, mem_la_firstword, clear_prefetched_high_word

LEMMA UseKept ==
  ASSUME Live, resetn', Steady, KeepHighWord, mem_la_secondword' = mem_la_secondword,
         (mem_do_prefetch' \/ mem_do_rinst') <=> (mem_do_prefetch \/ mem_do_rinst)
  PROVE  /\ mem_la_firstword' <=> mem_la_firstword
         /\ mem_la_use_prefetched_high_word' <=> mem_la_use_prefetched_high_word
<1>1. mem_la_firstword' <=> mem_la_firstword
  BY DEF Steady, mem_la_firstword
<1>2. prefetched_high_word' <=> prefetched_high_word /\ ~clear_prefetched_high_word
  BY BufferKept
<1>3. CASE ~COMPRESSED_ISA
  BY <1>3 DEF mem_la_firstword, mem_la_use_prefetched_high_word
<1>4. CASE COMPRESSED_ISA
  <2>1. clear_prefetched_high_word <=> latched_branch
    BY <1>4, ClearForBranch DEF Steady
  <2>2. prefetched_high_word' => ~clear_prefetched_high_word_q'
    BY BufferNeedsIsa
  <2>3. clear_prefetched_high_word' <=> latched_branch \/ (prefetched_high_word' /\ clear_prefetched_high_word_q')
    BY <1>4 DEF Steady, clear_prefetched_high_word
  <2> QED
    BY <1>1, <1>2, <2>1, <2>2, <2>3 DEF mem_la_use_prefetched_high_word
<1> QED
  BY <1>3, <1>4

\* What TransferInv says of a read.
ReadInv ==
  /\ mem_do_prefetch \/ mem_do_rinst \/ mem_do_rdata
  /\ mem_instr = (mem_do_prefetch \/ mem_do_rinst)
  /\ mem_valid = ~mem_la_use_prefetched_high_word
  /\ ~mem_wstrb
  /\ last_mem_valid /\ mem_la_firstword_reg => mem_la_firstword
  /\ last_mem_valid => mem_valid
  /\ mem_la_secondword => mem_valid /\ mem_do_rinst /\ COMPRESSED_ISA

LEMMA ReadBegins ==
  ASSUME Live, resetn', mem_state = 0, ~NoRequests, ~mem_do_wdata PROVE ReadInv'
<1>1. MemIdle /\ (mem_do_prefetch \/ mem_do_rinst \/ mem_do_rdata) /\ ~mem_done
  BY MemCases, DoneWhenActive DEF NoRequests
<1>2. /\ mem_valid' = ~mem_la_use_prefetched_high_word
      /\ mem_instr' = (mem_do_prefetch \/ mem_do_rinst) /\ mem_wstrb' = FALSE
      /\ mem_la_secondword' = mem_la_secondword /\ KeepHighWord
  BY <1>1 DEF MemIdle
<1>3. Holds
  BY <1>1, MainHolds
<1>4. ~mem_valid /\ ~mem_la_secondword
  BY LiveFacts DEF TransferInv
<1>5. last_mem_valid' = FALSE
  BY <1>4, LiveFacts DEF Clock, MemInterface, FirstwordTracking
<1>6. mem_la_use_prefetched_high_word' <=> mem_la_use_prefetched_high_word
  <2>1. CASE Steady
    BY <1>2, <1>3, <2>1, UseKept DEF Holds
  <2>2. CASE Starting
    <3>1. ~mem_la_use_prefetched_high_word
      BY <2>2 DEF Starting, mem_la_use_prefetched_high_word, clear_prefetched_high_word,
         mem_la_firstword
    <3>2. prefetched_high_word' => ~COMPRESSED_ISA
      BY <2>2, BufferCleared DEF Starting, clear_prefetched_high_word
    <3> QED
      BY <3>1, <3>2 DEF mem_la_use_prefetched_high_word, mem_la_firstword
  <2> QED
    BY <1>3, <2>1, <2>2 DEF Holds, Branching
<1>7. (mem_do_prefetch' \/ mem_do_rinst') <=> (mem_do_prefetch \/ mem_do_rinst)
  BY <1>3 DEF Holds
<1>8. mem_instr' = (mem_do_prefetch' \/ mem_do_rinst')
  BY <1>2, <1>7
<1>9. mem_valid' = ~mem_la_use_prefetched_high_word'
  BY <1>2, <1>6
<1> QED
  BY <1>1, <1>2, <1>3, <1>4, <1>5, <1>8, <1>9 DEF ReadInv, Holds

LEMMA ReadContinues ==
  ASSUME Live, resetn', mem_state = 1, ReadWaits PROVE ReadInv'
<1>1. ~mem_xfer /\ UNCHANGED <<bus, mem_la_secondword>> /\ KeepHighWord
  BY DEF ReadWaits
<1>2. ~mem_done
  BY <1>1 DEF mem_done
<1>3. ReadInv
  BY LiveFacts DEF TransferInv, ReadInv
<1>4. Holds
  BY <1>2, <1>3, MainHolds DEF ReadInv, NoRequests
<1>5. last_mem_valid' => mem_valid
  BY LiveFacts DEF Clock, MemInterface, FirstwordTracking
<1>6. mem_valid' = mem_valid /\ mem_wstrb' = mem_wstrb /\ mem_instr' = mem_instr
  BY <1>1 DEF bus
<1>7. last_mem_valid' /\ mem_la_firstword_reg' => mem_la_firstword
  BY <1>3, LiveFacts DEF Clock, MemInterface, FirstwordTracking, ReadInv
<1>8. /\ mem_valid' <=> ~mem_la_use_prefetched_high_word'
      /\ last_mem_valid' /\ mem_la_firstword_reg' => mem_la_firstword'
  <2>1. CASE Steady
    <3>1. /\ mem_la_firstword' <=> mem_la_firstword
          /\ mem_la_use_prefetched_high_word' <=> mem_la_use_prefetched_high_word
      BY <1>1, <1>4, <2>1, UseKept DEF Holds
    <3> QED
      BY <1>3, <1>6, <1>7, <3>1 DEF ReadInv
  <2>2. CASE Branching
    <3>1. ~mem_la_use_prefetched_high_word
      BY <1>1, <2>2 DEF Branching, mem_xfer
    <3>2. ~mem_la_use_prefetched_high_word'
      BY <2>2, NoUseAfterBranch DEF Branching
    <3>3. ~mem_la_firstword
      BY <2>2, <3>1, PrefetchUsesBuffer DEF Branching
    <3> QED
      BY <1>3, <1>6, <1>7, <3>1, <3>2, <3>3 DEF ReadInv
  <2> QED
    BY <1>4, <2>1, <2>2 DEF Holds, Starting
<1>9. (mem_do_prefetch' \/ mem_do_rinst') <=> (mem_do_prefetch \/ mem_do_rinst)
  BY <1>4 DEF Holds
<1>10. mem_instr' = (mem_do_prefetch' \/ mem_do_rinst')
  BY <1>3, <1>6, <1>9 DEF ReadInv
<1>11. mem_valid' = ~mem_la_use_prefetched_high_word'
  <2>1. mem_valid' \in BOOLEAN
    BY <1>6 DEF Live, TypeOK, MemTypeOK
  <2> QED
    BY <1>8, <2>1
<1>12. mem_la_secondword' => mem_valid' /\ mem_do_rinst' /\ COMPRESSED_ISA
  BY <1>1, <1>3, <1>4, <1>6 DEF ReadInv, Holds
<1> QED
  BY <1>3, <1>4, <1>5, <1>6, <1>8, <1>10, <1>11, <1>12 DEF ReadInv, Holds

LEMMA SecondWordBegins ==
  ASSUME Live, resetn', mem_state = 1, ReadSecondWord PROVE ReadInv'
<1>1. /\ COMPRESSED_ISA /\ mem_la_read /\ mem_valid' = TRUE /\ mem_la_secondword' = TRUE
      /\ mem_wstrb' = FALSE /\ mem_instr' = mem_instr
  BY DEF ReadSecondWord
<1>2. mem_la_firstword /\ mem_xfer /\ Wide(mem_rdata_latched[1])
  BY <1>1, SecondWordRead
<1>3. ~mem_done
  BY <1>2 DEF mem_done
<1>4. ReadInv
  BY LiveFacts DEF TransferInv, ReadInv
<1>5. Holds
  BY <1>3, <1>4, MainHolds DEF ReadInv, NoRequests
<1>6. mem_do_rinst
  <2> SUFFICES ASSUME ~mem_do_rinst PROVE FALSE
    OBVIOUS
  <2>1. mem_do_prefetch
    BY <1>2 DEF mem_la_firstword
  <2>2. ~latched_branch
    BY <2>1, LiveFacts DEF StepInv, Live, LatchInv
  <2>3. ~mem_valid
    BY <1>2, <2>1, <2>2, PrefetchUsesBuffer
  <2> QED
    BY <1>2, <2>3 DEF mem_xfer
<1>7. last_mem_valid' = FALSE
  <2>1. ~(mem_valid /\ ~mem_ready)
    BY <1>2, <1>4 DEF mem_xfer, ReadInv
  <2> QED
    BY <2>1, LiveFacts DEF Clock, MemInterface, FirstwordTracking
<1>8. ~mem_la_use_prefetched_high_word'
  BY <1>1 DEF mem_la_use_prefetched_high_word, mem_la_firstword
<1>9. mem_do_rinst'
  BY <1>5, <1>6 DEF Holds
<1>10. mem_instr' = (mem_do_prefetch' \/ mem_do_rinst')
  BY <1>1, <1>4, <1>6, <1>9 DEF ReadInv
<1> QED
  BY <1>1, <1>7, <1>8, <1>9, <1>10 DEF ReadInv

LEMMA WideKept == ASSUME Live, NEW h PROVE Wide(h)' <=> Wide(h')
BY LiveFacts DEF Clock, Wide

\* A prefetched word waits for the main state machine, its high half in the
\* buffer if the instruction is a compressed one.
PrefetchedInv ==
  /\ mem_do_prefetch /\ ~mem_wstrb /\ ~mem_valid /\ ~mem_la_secondword /\ ~latched_branch
  /\ COMPRESSED_ISA => ~Odd(reg_next_pc)
  /\ COMPRESSED_ISA /\ ~Wide(mem_rdata_q[1]) => prefetched_high_word

LEMMA PrefetchAlone ==
  ASSUME Live, mem_do_prefetch, ~mem_do_rinst
  PROVE  ~mem_do_rdata /\ ~mem_do_wdata /\ ~mem_done /\ ~latched_branch /\ irq_state = 0
<1>1. ~mem_do_rdata /\ ~mem_do_wdata
  BY DEF Live, RequestInv
<1>2. ~latched_branch
  BY LiveFacts DEF StepInv, Live, LatchInv
<1>3. irq_state = 0
  BY LiveFacts DEF StepInv
<1> QED
  BY <1>1, <1>2, <1>3, DoneWasAsked

LEMMA PrefetchStays ==
  ASSUME Live, mem_do_prefetch, ~mem_do_rinst, mem_state # 0
  PROVE  /\ mem_do_prefetch' /\ ~latched_branch' /\ reg_next_pc' = reg_next_pc
<1>1. Holds
  BY PrefetchAlone, MainHolds DEF NoRequests
<1> QED
  BY <1>1, PrefetchAlone DEF Holds, Steady, Branching, Starting

LEMMA PrefetchCompletes ==
  ASSUME Live, mem_state = 1, mem_do_prefetch, ~mem_do_rinst, ReadCompletes
  PROVE  PrefetchedInv'
<1>1. /\ mem_do_prefetch' /\ ~latched_branch' /\ reg_next_pc' = reg_next_pc
      /\ ~mem_do_rdata /\ ~latched_branch /\ irq_state = 0
  BY PrefetchAlone, PrefetchStays
<1>2. /\ mem_xfer /\ mem_valid' = FALSE /\ mem_la_secondword' = FALSE /\ mem_wstrb' = mem_wstrb
  BY DEF ReadCompletes
<1>3. ReadInv
  BY LiveFacts DEF TransferInv, ReadInv
<1>4. mem_valid /\ ~mem_la_secondword
  BY <1>2, <1>3 DEF mem_xfer, ReadInv
<1>5. ~mem_la_firstword
  BY <1>1, <1>4, PrefetchUsesBuffer
<1>6. ASSUME COMPRESSED_ISA PROVE ~Odd(reg_next_pc')
  BY <1>1, <1>4, <1>5, <1>6, PlainPc DEF mem_la_firstword
<1>7. ASSUME COMPRESSED_ISA, ~Wide(mem_rdata_q'[1]) PROVE prefetched_high_word'
  <2>1. mem_rdata_q' = mem_rdata
    BY <1>2, <1>4, <1>5, LiveFacts DEF Clock, MemInterface, WordCapture, mem_rdata_latched,
       mem_la_use_prefetched_high_word
  <2>2. \E half : HighWord(~Wide(mem_rdata[1]) \/ mem_la_secondword, half)
    BY <1>1, <1>4, <1>7 DEF ReadCompletes
  <2>3. ~clear_prefetched_high_word
    BY <1>1, <1>7, ClearForBranch
  <2> QED
    BY <1>7, <2>1, <2>2, <2>3 DEF HighWord
<1>8. ~mem_wstrb'
  BY <1>2, <1>3 DEF ReadInv
<1> QED
  BY <1>1, <1>2, <1>6, <1>7, <1>8, WideKept DEF PrefetchedInv

LEMMA PrefetchedStays ==
  ASSUME Live, mem_state = 3, ~mem_do_rinst PROVE PrefetchedInv'
<1>1. PrefetchedInv /\ mem_do_prefetch
  BY LiveFacts DEF TransferInv, PrefetchedInv
<1>2. mem_do_prefetch' /\ ~latched_branch' /\ reg_next_pc' = reg_next_pc /\ irq_state = 0
  BY <1>1, PrefetchAlone, PrefetchStays
<1>3. /\ UNCHANGED <<mem_valid, mem_wstrb, mem_la_secondword>> /\ KeepHighWord
  BY MemCases DEF MemPrefetched
<1>4. mem_rdata_q' = mem_rdata_q
  BY <1>1, LiveFacts DEF Clock, MemInterface, WordCapture, mem_xfer, PrefetchedInv
<1>5. COMPRESSED_ISA => ~clear_prefetched_high_word
  BY <1>1, <1>2, ClearForBranch DEF PrefetchedInv
<1> QED
  BY <1>1, <1>2, <1>3, <1>4, <1>5, BufferKept, WideKept DEF PrefetchedInv

LEMMA TransferKept == ASSUME Live, resetn' PROVE TransferInv'
<1>1. CASE mem_state = 0
  <2>1. ~mem_valid /\ ~mem_la_secondword
    BY <1>1, LiveFacts DEF TransferInv
  <2>2. MemIdle
    BY <1>1, MemCases
  <2>3. mem_la_secondword' = mem_la_secondword
    BY <2>2 DEF MemIdle
  <2>4. CASE NoRequests
    <3>1. mem_valid' = mem_valid
      BY <2>2, <2>4 DEF MemIdle, NoRequests
    <3> QED
      BY <1>1, <2>1, <2>3, <2>4, <3>1, StaysIdle DEF TransferInv
  <2>5. CASE mem_do_wdata
    <3>1. ~mem_do_prefetch /\ ~mem_do_rinst /\ ~mem_do_rdata
      BY <2>5 DEF Live, RequestInv
    <3>2. mem_valid' = TRUE /\ mem_wstrb' = TRUE
      BY <2>2, <2>5, <3>1 DEF MemIdle
    <3>3. mem_state' = 2
      BY <2>2, <2>5, <3>1 DEF MemIdle
    <3>4. mem_do_wdata'
      BY <1>1, <2>5, MainHolds, DoneWhenActive DEF Holds, NoRequests
    <3> QED
      BY <2>1, <2>3, <3>2, <3>3, <3>4 DEF TransferInv
  <2>6. CASE ~NoRequests /\ ~mem_do_wdata
    <3>1. ReadInv' /\ mem_state' = 1
      BY <1>1, <2>6, ReadBegins, ReadFromIdle DEF NoRequests
    <3> QED
      BY <3>1 DEF TransferInv, ReadInv
  <2> QED
    BY <2>4, <2>5, <2>6
<1>2. CASE mem_state = 1
  <2>1. CASE (ReadWaits \/ ReadSecondWord) /\ mem_state' = 1
    <3>1. ReadInv'
      BY <1>2, <2>1, ReadContinues, SecondWordBegins
    <3> QED
      BY <2>1, <3>1 DEF TransferInv, ReadInv
  <2>2. CASE ReadCompletes /\ mem_state' = IF mem_do_rinst \/ mem_do_rdata THEN 0 ELSE 3
    <3>1. mem_valid' = FALSE /\ mem_la_secondword' = FALSE
      BY <2>2 DEF ReadCompletes
    <3>2. CASE mem_do_rinst \/ mem_do_rdata
      BY <2>2, <3>1, <3>2 DEF TransferInv
    <3>3. CASE ~mem_do_rinst /\ ~mem_do_rdata
      <4>1. mem_do_prefetch
        BY <1>2, <3>3, LiveFacts DEF TransferInv
      <4>2. PrefetchedInv' /\ mem_state' = 3
        BY <1>2, <2>2, <3>3, <4>1, PrefetchCompletes
      <4> QED
        BY <4>2 DEF TransferInv, PrefetchedInv
    <3> QED
      BY <3>2, <3>3
  <2> QED
    BY <1>2, <2>1, <2>2, ReadCases
<1>3. CASE mem_state = 2
  <2>1. mem_do_wdata /\ mem_wstrb /\ mem_valid /\ ~mem_la_secondword
    BY <1>3, LiveFacts DEF TransferInv
  <2>2. MemWrite
    BY <1>3, MemCases
  <2>3. mem_wstrb' = mem_wstrb /\ mem_la_secondword' = mem_la_secondword
    BY <2>2 DEF MemWrite
  <2>4. CASE mem_xfer
    <3>1. mem_valid' = FALSE /\ mem_state' = 0
      BY <2>1, <2>2, <2>4 DEF MemWrite
    <3> QED
      BY <2>1, <2>3, <3>1 DEF TransferInv
  <2>5. CASE ~mem_xfer
    <3>1. mem_valid' /\ mem_state' = 2
      BY <2>1, <2>2, <2>5 DEF MemWrite
    <3>2. ~mem_done
      BY <1>3, <2>5 DEF mem_done
    <3>3. mem_do_wdata'
      BY <2>1, <3>2, MainHolds DEF Holds, NoRequests
    <3> QED
      BY <2>1, <2>3, <3>1, <3>3 DEF TransferInv
  <2> QED
    BY <2>4, <2>5
<1>4. CASE mem_state = 3
  <2>1. CASE mem_do_rinst
    <3>1. mem_state' = 0 /\ MemPrefetched
      BY <1>4, <2>1, PrefetchedCases
    <3>2. ~mem_valid' /\ ~mem_la_secondword'
      BY <1>4, <3>1, LiveFacts DEF MemPrefetched, TransferInv
    <3> QED
      BY <3>1, <3>2 DEF TransferInv
  <2>2. CASE ~mem_do_rinst
    <3>1. PrefetchedInv' /\ mem_state' = 3
      BY <1>4, <2>2, PrefetchedStays, PrefetchedCases
    <3> QED
      BY <3>1 DEF TransferInv, PrefetchedInv
  <2> QED
    BY <2>1, <2>2
<1> QED
  BY <1>1, <1>2, <1>3, <1>4, MemCases

------------------------------------------------------------------------------
(* BufferInv is kept.                                                      *)

\* A fetch that completes leaves the other half of its word in the buffer when
\* the next instruction begins there.
LEMMA FreshBuffer ==
  ASSUME Live, resetn', COMPRESSED_ISA, mem_do_rinst, mem_done, ~latched_branch,
         reg_next_pc' = reg_next_pc, Odd(PcPlus(reg_next_pc, InsnLength))'
  PROVE  prefetched_high_word'
<1>1. /\ insn'.src = mem_rdata_latched /\ TypeOK'
  <2>1. insn' \in Decoded(mem_rdata_latched)
    BY LiveFacts DEF Clock, Decoder
  <2>2. insn'.src = mem_rdata_latched
    BY <2>1 DEF Decoded
  <2> QED
    BY <2>2, TypeInvNext DEF Live
<1>2. irq_state = 0 /\ ~clear_prefetched_high_word
  BY DoneWhenActive, NotEntering, ClearForBranch
<1>3. IF Wide(mem_rdata_latched[1]) THEN Odd(reg_next_pc) ELSE ~Odd(reg_next_pc)
  <2>1. reg_next_pc' \in PC
    BY <1>1 DEF TypeOK, PcTypeOK
  <2>2. prog' = prog
    BY LiveFacts DEF Clock
  <2>3. InsnLength' = IF Wide(mem_rdata_latched[1]) THEN 2 ELSE 1
    BY <1>1, <2>2 DEF InsnLength, compressed_instr, Wide
  <2>4. Odd(PcPlus(reg_next_pc', InsnLength'))
    BY DEF Odd, PcPlus
  <2> QED
    BY <2>1, <2>3, <2>4, OddPlus
<1>4. ~mem_do_rdata /\ ~mem_do_wdata
  BY DEF Live, RequestInv
<1>5. ~mem_la_firstword
  BY <1>3, PlainPc DEF mem_la_firstword, mem_done
<1>6. CASE mem_state = 1
  <2>1. mem_xfer /\ ReadCompletes
    BY <1>6, DoneEnds, ReadCases
  <2>2. mem_valid
    BY <1>6, <1>5, LiveFacts DEF TransferInv, mem_la_use_prefetched_high_word
  <2>3. prefetched_high_word' = (~Wide(mem_rdata[1]) \/ mem_la_secondword)
    BY <1>2, <1>4, <2>1, <2>2 DEF ReadCompletes, HighWord
  <2>4. CASE mem_la_secondword
    BY <2>3, <2>4
  <2>5. CASE ~mem_la_secondword
    <3>1. mem_rdata_latched = mem_rdata
      BY <1>5, <2>1, <2>5 DEF mem_rdata_latched, mem_la_use_prefetched_high_word
    <3>2. ~Odd(reg_next_pc)
      BY <1>5, <2>5, PlainPc DEF mem_la_firstword
    <3> QED
      BY <1>3, <2>3, <3>1, <3>2
  <2> QED
    BY <2>4, <2>5
<1>7. CASE mem_state = 2
  BY <1>4, <1>7, LiveFacts DEF TransferInv
<1>8. CASE mem_state = 3
  <2>1. /\ ~mem_valid /\ ~mem_la_secondword /\ ~Odd(reg_next_pc)
        /\ ~Wide(mem_rdata_q[1]) => prefetched_high_word
    BY <1>8, LiveFacts DEF TransferInv
  <2>2. mem_rdata_latched = mem_rdata_q
    BY <1>5, <2>1 DEF mem_rdata_latched, mem_la_use_prefetched_high_word, mem_xfer
  <2>3. prefetched_high_word' = (prefetched_high_word /\ ~clear_prefetched_high_word)
    BY <1>8, MemCases, BufferKept DEF MemPrefetched
  <2> QED
    BY <1>2, <1>3, <2>1, <2>2, <2>3
<1> QED
  BY <1>6, <1>7, <1>8, DoneWhenActive, MemCases

\* Nothing but a launch opens a prefetch.
LEMMA PrefetchOpened ==
  ASSUME Live, mem_do_prefetch', ~Launch PROVE mem_do_prefetch /\ ~mem_done
<1>1. MainStep /\ ~Reset /\ ~Trapped
  BY LiveFacts DEF Reset, Trapped, Live
<1>2. \E ri, set : Requests(mem_do_prefetch, ri, set)
  BY <1>1 DEF MainStep, EnterIrq, WaitIrq, WaitIrqDone, LaunchJal, AwaitInsn,
     LdRs1Illegal, LdRs1Simple, LdRs1SetQ, LdRs1MaskIrq, LdRs1Timer, LdRs1RetIrq,
     LdRs1Load, LdRs1Imm, LdRs1ShiftImm, LdRs1SinglePort, Store, Shift, Alu,
     PcpiReady, PcpiAbort, PcpiWait, ExecWait, ExecBranch, ExecAlu, ShiftStep, ShiftDone,
     DataWaits, DataAccess, LatchResult, Proceed
<1> QED
  BY <1>2 DEF Requests

\* A launch finds the interface idle and the pc on the instruction after.
LEMMA LaunchFacts ==
  ASSUME Live, Launch
  PROVE  /\ cpu_state = "fetch" /\ decoder_trigger /\ mem_state = 0 /\ NoRequests
         /\ ~latched_branch /\ irq_state = 0 /\ ~latched_branch'
         /\ reg_next_pc' = PcPlus(reg_next_pc, InsnLength)
<1>1. cpu_state = "fetch" /\ decoder_trigger
  BY DEF Launch, Fetch
<1>2. mem_state = 0 /\ NoRequests /\ ~latched_branch /\ irq_state = 0
  BY <1>1, LiveFacts DEF StepInv
<1>3. current_pc = reg_next_pc
  BY <1>2 DEF current_pc
<1> QED
  BY <1>1, <1>2, <1>3 DEF Launch, Fetch, Latch

LEMMA PrefetchBufferKept ==
  ASSUME Live, resetn', COMPRESSED_ISA,
         mem_do_prefetch', ~latched_branch', Odd(reg_next_pc)', ~mem_la_secondword',
         mem_state' \in {0, 1}
  PROVE  prefetched_high_word'
<1>1. CASE Launch
  <2>1. prefetched_high_word
    BY <1>1, LaunchFacts, LiveFacts DEF BufferInv, Odd
  <2>2. ~clear_prefetched_high_word /\ KeepHighWord
    BY <1>1, LaunchFacts, ClearForBranch, MemCases DEF MemIdle
  <2> QED
    BY <2>1, <2>2, BufferKept
<1>2. CASE ~Launch
  <2>1. mem_do_prefetch /\ ~mem_done
    BY <1>2, PrefetchOpened
  <2>2. Steady
    BY <2>1, MainHolds DEF Holds, NoRequests, Branching, Starting
  <2>3. reg_next_pc' = reg_next_pc /\ ~latched_branch /\ irq_state = 0
    BY <2>2 DEF Steady
  <2>4. Odd(reg_next_pc) /\ ~clear_prefetched_high_word
    BY <2>3, ClearForBranch DEF Odd
  <2>5. ~mem_do_rdata /\ ~mem_do_wdata
    BY <2>1 DEF Live, RequestInv
  <2>6. mem_state # 3
    <3>1. mem_state = 3 => mem_do_rinst /\ mem_state' = 0
      BY PrefetchedCases
    <3> QED
      BY <2>1, <2>3, <3>1, FetchGoesOn
  <2>7. mem_state # 2
    BY <2>5, LiveFacts DEF TransferInv
  <2>8. ~ReadCompletes \/ mem_state # 1
    <3>1. mem_state = 1 /\ ReadCompletes => mem_xfer
      BY DEF ReadCompletes
    <3>2. mem_state = 1 /\ mem_do_rinst => mem_state' = 1
      BY <2>1, <2>3, FetchGoesOn
    <3>3. mem_state = 1 /\ ReadCompletes => mem_state' = IF mem_do_rinst \/ mem_do_rdata THEN 0 ELSE 3
      BY DEF ReadCompletes
    <3> QED
      BY <2>5, <3>2, <3>3
  <2>9. KeepHighWord /\ mem_la_secondword' = mem_la_secondword /\ mem_state \in {0, 1}
    <3>1. (mem_state = 0 /\ MemIdle) \/ (mem_state = 1 /\ ReadWaits)
      BY <2>6, <2>7, <2>8, MemCases DEF ReadSecondWord
    <3> QED
      BY <3>1 DEF MemIdle, ReadWaits
  <2>10. prefetched_high_word
    BY <2>1, <2>3, <2>4, <2>9, LiveFacts DEF BufferInv
  <2> QED
    BY <2>4, <2>9, <2>10, BufferKept
<1> QED
  BY <1>1, <1>2

\* An instruction is handed over when its fetch is done, at once or after the
\* data access of the instruction before it.
HandedOver ==
  \/ cpu_state = "fetch" /\ decoder_trigger
  \/ cpu_state \in {"stmem", "ldmem"} /\ ~mem_do_prefetch
FetchDone ==
  mem_do_rinst /\ mem_done /\ ~latched_branch /\ reg_next_pc' = reg_next_pc
DataPending ==
  cpu_state \in {"stmem", "ldmem"} /\ ~mem_do_prefetch /\ reg_next_pc' = reg_next_pc

LEMMA FetchHandsOver ==
  ASSUME Live, HandedOver',
         EnterIrq \/ WaitIrq \/ WaitIrqDone \/ LaunchJal \/ Launch \/ AwaitInsn
  PROVE  FetchDone
<1>1. PICK next, store, branch : Fetch(next, store, branch)
  BY DEF EnterIrq, WaitIrq, WaitIrqDone, LaunchJal, Launch, AwaitInsn
<1>2. cpu_state = "fetch" /\ cpu_state' \notin {"stmem", "ldmem"}
  BY <1>1 DEF Fetch, EnterIrq, WaitIrq, WaitIrqDone, LaunchJal, Launch, AwaitInsn, GoTo
<1>3. mem_do_rinst /\ mem_done
  BY <1>1, <1>2 DEF HandedOver, Fetch, Trigger
<1>4. ~latched_branch /\ ~decoder_trigger /\ ~do_waitirq /\ irq_state = 0
  BY <1>2, <1>3, DoneWhenActive, LiveFacts DEF StepInv
<1>5. AwaitInsn
  BY <1>4 DEF EnterIrq, IrqTaken, WaitIrq, WaitIrqDone, LaunchJal, Launch, WaitTaken
<1>6. current_pc = reg_next_pc
  BY <1>4 DEF current_pc
<1> QED
  BY <1>3, <1>4, <1>5, <1>6 DEF FetchDone, AwaitInsn, Fetch

LEMMA OperandsHandNothingOver ==
  ASSUME Live,
         \/ LdRs1Illegal \/ LdRs1Simple \/ LdRs1SetQ \/ LdRs1MaskIrq \/ LdRs1Timer
         \/ LdRs1RetIrq \/ LdRs1Load \/ LdRs1Imm \/ LdRs1ShiftImm \/ LdRs1SinglePort
         \/ Store \/ Shift \/ Alu \/ PcpiReady \/ PcpiAbort \/ PcpiWait
  PROVE  ~HandedOver'
<1>1. cpu_state \in {"ld_rs1", "ld_rs2"} /\ Trigger
  BY DEF LdRs1Illegal, LdRs1Simple, LdRs1SetQ, LdRs1MaskIrq, LdRs1Timer, LdRs1RetIrq,
     LdRs1Load, LdRs1Imm, LdRs1ShiftImm, LdRs1SinglePort, Store, Shift, Alu,
     PcpiReady, PcpiAbort, PcpiWait, Pcpi, SecondOperand, Step, LatchResult, Proceed
<1>2. ~mem_do_rinst /\ ~decoder_trigger'
  BY <1>1 DEF Live, RequestInv, Trigger
<1>3. ASSUME cpu_state' \in {"stmem", "ldmem"} PROVE mem_do_prefetch'
  <2>1. LdRs1Load \/ Store
    BY <1>1, <1>3 DEF LdRs1Illegal, LdRs1Simple, LdRs1SetQ, LdRs1MaskIrq, LdRs1Timer,
       LdRs1RetIrq, LdRs1Imm, LdRs1ShiftImm, LdRs1SinglePort, Shift, Alu,
       PcpiReady, PcpiAbort, PcpiWait, LatchResult, Proceed, IllegalInsn, GoTo
  <2>2. insn.kind \notin {"jalr", "retirq"} /\ \E ri : Requests(mem_do_prefetch, ri, "none")
    BY <2>1 DEF LdRs1Load, Store, Proceed
  <2>3. mem_do_prefetch /\ ~mem_done
    BY <1>1, <1>2, <2>2, PrefetchHeld DEF Live, RequestInv
  <2> QED
    BY <2>2, <2>3 DEF Requests
<1> QED
  BY <1>2, <1>3 DEF HandedOver

LEMMA LaterStatesHandOver ==
  ASSUME Live, HandedOver', NEW state \in {"stmem", "ldmem"},
         \/ ExecWait \/ ExecBranch \/ ExecAlu \/ ShiftStep \/ ShiftDone
         \/ DataWaits(state) \/ DataAccess(state)
  PROVE  FetchDone \/ DataPending
<1>1. reg_next_pc' = reg_next_pc
  BY DEF ExecWait, ExecBranch, ExecAlu, Exec, ShiftStep, ShiftDone, DataWaits, DataAccess,
     DataPhase, Step
<1>2. ASSUME ExecWait \/ ExecBranch \/ ExecAlu PROVE FetchDone
  <2>1. cpu_state = "exec" /\ cpu_state' \notin {"stmem", "ldmem"}
    BY <1>2 DEF ExecWait, ExecBranch, ExecAlu, Exec, Step, GoTo
  <2>2. mem_do_rinst /\ mem_done
    BY <1>2, <2>1 DEF HandedOver, ExecWait, ExecBranch, ExecAlu, Trigger
  <2>3. ~latched_branch
    BY <1>2, <2>1, LiveFacts DEF StepInv, HandedOver, ExecWait, ExecBranch, ExecAlu
  <2> QED
    BY <1>1, <2>2, <2>3 DEF FetchDone
<1>3. ~ShiftStep /\ ~ShiftDone
  BY LiveFacts DEF ShiftStep, ShiftDone, Step, Trigger, GoTo, HandedOver, StepInv
<1>4. ASSUME DataWaits(state) \/ DataAccess(state) PROVE FetchDone \/ DataPending
  <2>1. cpu_state = state /\ ~latched_branch
    BY <1>4 DEF DataWaits, DataAccess, DataPhase, Step, Live, LatchInv
  <2>2. CASE ~mem_do_prefetch
    BY <1>1, <2>1, <2>2 DEF DataPending
  <2>3. CASE mem_do_prefetch
    <3>1. mem_do_rinst
      BY <2>1, <2>3, LiveFacts DEF StepInv
    <3>2. DataWaits(state) => cpu_state' \in {state, "trap"} /\ mem_do_prefetch'
      BY <2>3 DEF DataWaits, GoTo, Requests, PrefetchOver
    <3>3. mem_done
      BY <1>4, <2>1, <2>3, <3>2 DEF HandedOver, DataAccess, PrefetchOver
    <3> QED
      BY <1>1, <2>1, <3>1, <3>3 DEF FetchDone
  <2> QED
    BY <2>2, <2>3
<1> QED
  BY <1>2, <1>3, <1>4

LEMMA HandOver == ASSUME Live, HandedOver' PROVE FetchDone \/ DataPending
<1>1. MainStep /\ ~Reset /\ ~Trapped
  BY LiveFacts DEF Reset, Trapped, Live
<1> QED
  BY <1>1, FetchHandsOver, OperandsHandNothingOver, LaterStatesHandOver DEF MainStep

LEMMA DataKeepsHighWord == ASSUME Live, DataPending PROVE KeepHighWord
<1>1. ~mem_do_rinst
  BY LiveFacts DEF DataPending, StepInv
<1>2. mem_state # 3
  BY LiveFacts DEF TransferInv, DataPending
<1>3. mem_state = 1 => mem_do_rdata /\ ~ReadSecondWord
  BY <1>1, LiveFacts, SecondWordRead DEF TransferInv, DataPending, ReadSecondWord, mem_la_firstword
<1>4. ReadCompletes /\ mem_do_rdata => KeepHighWord
  BY DEF ReadCompletes
<1> QED
  BY <1>2, <1>3, <1>4, MemCases DEF MemIdle, ReadWaits, MemWrite

LEMMA DataKeepsBuffer ==
  ASSUME Live, DataPending, COMPRESSED_ISA
  PROVE  insn' = insn /\ prefetched_high_word' = prefetched_high_word
<1>1. ~mem_do_rinst /\ ~latched_branch /\ irq_state = 0
  BY LiveFacts DEF DataPending, StepInv, Live, LatchInv
<1>2. insn' = insn
  BY <1>1, DecoderHolds DEF Live
<1>3. KeepHighWord
  BY DataKeepsHighWord
<1>4. ~clear_prefetched_high_word
  BY <1>1, ClearForBranch
<1>5. prefetched_high_word \in BOOLEAN
  BY DEF Live, TypeOK, MemTypeOK
<1> QED
  BY <1>2, <1>3, <1>4, <1>5, BufferKept

LEMMA HandOverBufferKept ==
  ASSUME Live, resetn', COMPRESSED_ISA, HandedOver', Odd(PcPlus(reg_next_pc, InsnLength))'
  PROVE  prefetched_high_word'
<1>1. CASE FetchDone
  BY <1>1, FreshBuffer DEF FetchDone
<1>2. CASE DataPending
  <2>1. insn' = insn /\ prog' = prog /\ reg_next_pc' = reg_next_pc
    BY <1>2, DataKeepsBuffer, LiveFacts DEF DataPending, Clock
  <2>2. Odd(PcPlus(reg_next_pc, InsnLength))
    BY <2>1 DEF Odd, PcPlus, InsnLength, compressed_instr, Wide
  <2>3. prefetched_high_word
    BY <1>2, <2>2, LiveFacts DEF BufferInv, DataPending
  <2> QED
    BY <1>2, <2>3, DataKeepsBuffer
<1> QED
  BY <1>1, <1>2, HandOver

LEMMA BufferInvKept == ASSUME Live, resetn' PROVE BufferInv'
BY PrefetchBufferKept, HandOverBufferKept DEF BufferInv, HandedOver, Odd

------------------------------------------------------------------------------
(* StepInv is kept.                                                        *)

LEMMA InvariantsNext == ASSUME Live PROVE TypeOK' /\ RequestInv' /\ LatchInv'
BY TypeInvNext, RequestInvNext DEF Live

LEMMA DoneClears ==
  ASSUME Live, mem_done, NEW pf, NEW ri, Requests(pf, ri, "none")
  PROVE  mem_state' = 0 /\ NoRequests'
BY DoneEnds DEF Requests, NoRequests

LEMMA IdleStays ==
  ASSUME Live, mem_state = 0, NoRequests, NEW pf, NEW ri, Requests(pf, ri, "none"), ~pf
  PROVE  /\ mem_state' = 0 /\ ~mem_done /\ insn' = insn /\ ~mem_do_prefetch'
         /\ ~ri => NoRequests'
<1>1. mem_state' = 0 /\ ~mem_done
  BY StaysIdle
<1>2. insn' = insn
  BY <1>1, DecoderHolds DEF Live
<1> QED
  BY <1>1, <1>2 DEF Requests, NoRequests

\* Which states the main state machine goes on to.
LEMMA Goes == ASSUME NEW state, GoTo(state) PROVE cpu_state' \in {state, "trap"}
BY DEF GoTo

LEMMA NotEntered == ASSUME Live, NoIrq PROVE irq_state = 0 /\ irq_state' = 0
BY DEF NoIrq, IrqTaken, Live, LatchInv

LEMMA EntrySteps == ASSUME Live, EnterIrq PROVE StepInv'
<1>1. /\ cpu_state = "fetch" /\ latched_branch' = FALSE /\ do_waitirq' = FALSE
      /\ decoder_trigger' = (mem_do_rinst /\ mem_done) /\ cpu_state' \in {"fetch", "trap"}
      /\ irq_state' = (irq_state + 1) % 3
      /\ irq_state \in 0 .. 2 /\ ENABLE_IRQ
  BY Goes DEF EnterIrq, Fetch, Latch, Trigger, IrqTaken, Live, TypeOK, EntryTypeOK
<1>2. mem_state = 0 /\ ~mem_do_prefetch /\ ~mem_done /\ ~decoder_trigger'
  <2>1. irq_state # 0 \/ decoder_trigger
    BY DEF EnterIrq, IrqTaken
  <2> QED
    BY <1>1, <2>1, LiveFacts, DoneWhenActive DEF StepInv, NoRequests
<1>3. CASE irq_state = 2
  <2>1. irq_state' = 0
    BY <1>1, <1>3
  <2> QED
    BY <1>1, <1>2, <2>1 DEF StepInv
<1>4. CASE irq_state # 2
  <2>1. ~(KeepFetching \/ Slot = "q0") \/ irq_state = 1
    BY <1>1, <1>4, LiveFacts DEF EnterIrq, IrqTaken, KeepFetching, Slot
  <2>2. NoRequests
    BY <1>1, <1>4, LiveFacts DEF StepInv, NoRequests, EnterIrq, IrqTaken, Live, RequestInv
  <2>3. PICK ri : Requests(mem_do_prefetch, ri, "none") /\ (irq_state # 1 => ~ri)
    BY <2>1 DEF EnterIrq
  <2>4. mem_state' = 0 /\ ~mem_do_prefetch' /\ (irq_state # 1 => ~mem_do_rinst')
    BY <1>2, <2>2, <2>3, IdleStays DEF NoRequests
  <2>5. irq_state' = irq_state + 1
    BY <1>1, <1>4
  <2>6. irq_state' = 1 => ~mem_do_rinst'
    BY <1>1, <2>4, <2>5
  <2> QED
    BY <1>1, <1>2, <2>4, <2>6 DEF StepInv
<1> QED
  BY <1>3, <1>4

LEMMA FetchSteps ==
  ASSUME Live, WaitIrq \/ WaitIrqDone \/ LaunchJal \/ Launch \/ AwaitInsn
  PROVE  StepInv'
<1>1. cpu_state = "fetch" /\ decoder_trigger' = (mem_do_rinst /\ mem_done)
  BY DEF WaitIrq, WaitIrqDone, LaunchJal, Launch, AwaitInsn, Fetch, Trigger
<1>2. irq_state = 0 /\ irq_state' = 0
  BY NotEntered DEF WaitIrq, WaitIrqDone, LaunchJal, Launch, AwaitInsn
<1>3. CASE AwaitInsn
  <2>1. /\ latched_branch' = FALSE /\ do_waitirq' = FALSE /\ cpu_state' \in {"fetch", "trap"}
        /\ \E ri : Requests(mem_do_prefetch, ri, "none")
    BY <1>3, Goes DEF AwaitInsn, Fetch, Latch
  <2>2. decoder_trigger' => mem_state' = 0 /\ NoRequests'
    BY <1>1, <2>1, DoneClears
  <2> QED
    BY <1>2, <2>1, <2>2 DEF StepInv
<1>4. ASSUME WaitIrq \/ WaitIrqDone \/ LaunchJal \/ Launch PROVE StepInv'
  <2>1. decoder_trigger \/ do_waitirq
    BY <1>4 DEF WaitIrq, WaitIrqDone, LaunchJal, Launch, WaitTaken
  <2>2. mem_state = 0 /\ NoRequests /\ ~mem_do_prefetch /\ ~latched_branch
    BY <1>1, <2>1, LiveFacts DEF StepInv, NoRequests
  <2>3. ~decoder_trigger'
    BY <1>1, <2>2 DEF NoRequests
  <2>4. CASE WaitIrq
    <3>1. /\ latched_branch' = FALSE /\ cpu_state' \in {"fetch", "trap"}
          /\ \E ri : Requests(mem_do_prefetch, ri, "none") /\ ~ri
      BY <2>1, <2>4, Goes DEF WaitIrq, Fetch, Latch, KeepFetching
    <3>2. mem_state' = 0 /\ NoRequests'
      BY <2>2, <3>1, IdleStays
    <3> QED
      BY <1>2, <3>1, <3>2 DEF StepInv
  <2>5. CASE WaitIrqDone \/ LaunchJal
    <3>1. /\ do_waitirq' = FALSE /\ cpu_state' \in {"fetch", "trap"}
          /\ \E ri : Requests(mem_do_prefetch, ri, "none")
      BY <2>5, Goes DEF WaitIrqDone, LaunchJal, Fetch, Latch
    <3>2. mem_state' = 0 /\ ~mem_do_prefetch'
      BY <2>2, <3>1, IdleStays
    <3> QED
      BY <1>2, <2>3, <3>1, <3>2 DEF StepInv
  <2>6. CASE Launch
    <3>1. /\ cpu_state' \in {"ld_rs1", "trap"}
          /\ Requests(insn.kind \notin {"jalr", "retirq"}, FALSE, "none")
      BY <2>6, Goes DEF Launch
    <3>2. ASSUME insn'.kind \in {"jalr", "retirq"} PROVE mem_state' = 0 /\ NoRequests'
      <4>1. insn' = insn
        BY <2>2, DecoderHolds DEF NoRequests, Live
      <4> QED
        BY <2>2, <3>1, <3>2, <4>1, IdleStays
    <3> QED
      BY <1>2, <3>1, <3>2 DEF StepInv
  <2> QED
    BY <1>4, <2>4, <2>5, <2>6
<1> QED
  BY <1>3, <1>4

\* A step of an instruction that prefetches the next one meanwhile.
LEMMA OperandStep ==
  ASSUME Live, NEW state \in {"ld_rs1", "ld_rs2", "shift"}, Step(state),
         mem_do_prefetch, ~mem_do_rinst, \E ri : Requests(mem_do_prefetch, ri, "none"),
         latched_branch' = latched_branch, Trigger
  PROVE  /\ irq_state' = 0 /\ ~latched_branch' /\ ~decoder_trigger' /\ ~do_waitirq'
         /\ mem_do_prefetch' /\ ~mem_done /\ mem_state' \in {1, 3}
         /\ ~mem_do_rdata' /\ ~mem_do_wdata' /\ insn' = insn
<1>1. cpu_state = state /\ irq_state' = irq_state /\ do_waitirq' = FALSE
  BY DEF Step
<1>2. irq_state = 0 /\ ~latched_branch
  BY <1>1 DEF Live, LatchInv
<1>3. ~mem_do_rdata /\ ~mem_do_wdata
  BY DEF Live, RequestInv
<1>4. mem_state' \in {1, 3} /\ ~mem_done
  BY PrefetchHeld
<1>5. insn' = insn
  BY DecoderHolds DEF Live
<1> QED
  BY <1>1, <1>2, <1>3, <1>4, <1>5 DEF Requests, Trigger

\* The actions that leave ld_rs1 or ld_rs2 for fetch, or wait there.
LEMMA LeavingSteps ==
  ASSUME Live, ~(cpu_state = "ld_rs1" /\ insn.kind \in {"jalr", "retirq"}),
         \/ LdRs1Illegal \/ LdRs1Simple \/ LdRs1SetQ \/ LdRs1MaskIrq \/ LdRs1Timer
         \/ PcpiReady \/ PcpiAbort \/ PcpiWait
  PROVE  StepInv'
<1>1. PICK state \in {"ld_rs1", "ld_rs2"} : Step(state)
  BY DEF LdRs1Illegal, LdRs1Simple, LdRs1SetQ, LdRs1MaskIrq, LdRs1Timer,
     PcpiReady, PcpiAbort, PcpiWait, Pcpi, SecondOperand
<1>2. cpu_state = state
  BY <1>1 DEF Step
<1>3. mem_do_prefetch /\ ~mem_do_rinst
  BY <1>2 DEF Live, RequestInv
<1>4. latched_branch' = latched_branch /\ Trigger
  BY DEF LdRs1Illegal, LdRs1Simple, LdRs1SetQ, LdRs1MaskIrq, LdRs1Timer,
     PcpiReady, PcpiAbort, PcpiWait, Pcpi, LatchResult, Latch, latches
<1>5. CASE LdRs1Illegal \/ LdRs1Simple \/ LdRs1SetQ \/ LdRs1MaskIrq \/ LdRs1Timer \/ PcpiReady \/ PcpiAbort
  <2>1. cpu_state' \in {"fetch", "trap"} /\ \E ri : Requests(mem_do_prefetch, ri, "none")
    BY <1>5, Goes DEF LdRs1Illegal, LdRs1Simple, LdRs1SetQ, LdRs1MaskIrq, LdRs1Timer,
       PcpiReady, PcpiAbort, IllegalInsn, LatchResult
  <2> QED
    BY <1>1, <1>3, <1>4, <2>1, OperandStep DEF StepInv
<1>6. CASE PcpiWait
  <2>1. cpu_state' \in {state, "trap"} /\ Requests(mem_do_prefetch, mem_do_rinst, "none")
    BY <1>2, <1>6, Goes DEF PcpiWait
  <2>2. \E ri : Requests(mem_do_prefetch, ri, "none")
    BY <2>1
  <2>3. insn' = insn /\ ~mem_do_rinst' /\ (state = "ld_rs1" => insn.kind \notin {"jalr", "retirq"})
    BY <1>1, <1>2, <1>3, <1>4, <2>1, <2>2, OperandStep DEF Requests
  <2> QED
    BY <1>1, <1>3, <1>4, <2>1, <2>2, <2>3, OperandStep DEF StepInv
<1> QED
  BY <1>5, <1>6

\* The actions that go on with the operands.
LEMMA ProceedingSteps ==
  ASSUME Live, ~(cpu_state = "ld_rs1" /\ insn.kind \in {"jalr", "retirq"}),
         \/ LdRs1Load \/ LdRs1Imm \/ LdRs1ShiftImm \/ LdRs1SinglePort
         \/ Store \/ Shift \/ Alu
  PROVE  StepInv'
<1>1. PICK state \in {"ld_rs1", "ld_rs2"} : Step(state)
  BY DEF LdRs1Load, LdRs1Imm, LdRs1ShiftImm, LdRs1SinglePort, Store, Shift, Alu, SecondOperand
<1>2. cpu_state = state
  BY <1>1 DEF Step
<1>3. mem_do_prefetch /\ ~mem_do_rinst
  BY <1>2 DEF Live, RequestInv
<1>4. latched_branch' = latched_branch /\ Trigger
  BY DEF LdRs1Load, LdRs1Imm, LdRs1ShiftImm, LdRs1SinglePort, Store, Shift, Alu,
     Proceed, latches
<1> DEFINE After(next, ri) ==
      /\ cpu_state' \in {next, "trap"}
      /\ mem_do_prefetch' /\ (mem_do_rinst' <=> ri) /\ mem_state' \in {1, 3}
      /\ ~mem_do_rdata' /\ ~mem_do_wdata' /\ insn' = insn
      /\ irq_state' = 0 /\ ~latched_branch' /\ ~decoder_trigger' /\ ~do_waitirq'
<1>5. ASSUME NEW next, NEW ri, NEW wait, NEW wait_2, NEW taken, NEW shift,
             Proceed(next, ri, wait, wait_2, taken, shift)
      PROVE  After(next, ri)
  <2>1. cpu_state' \in {next, "trap"} /\ Requests(mem_do_prefetch, ri, "none")
    BY <1>5, Goes DEF Proceed
  <2>2. \E any : Requests(mem_do_prefetch, any, "none")
    BY <2>1
  <2>3. /\ mem_do_prefetch' /\ ~mem_done /\ mem_state' \in {1, 3}
        /\ ~mem_do_rdata' /\ ~mem_do_wdata' /\ insn' = insn
        /\ irq_state' = 0 /\ ~latched_branch' /\ ~decoder_trigger' /\ ~do_waitirq'
    BY <1>1, <1>3, <1>4, <2>2, OperandStep
  <2>4. mem_do_rinst' <=> ri
    BY <2>1, <2>3 DEF Requests
  <2> QED
    BY <2>1, <2>3, <2>4
<1>6. CASE LdRs1Load \/ Store
  <2>1. After("ldmem", TRUE) \/ After("stmem", TRUE)
    BY <1>5, <1>6 DEF LdRs1Load, Store
  <2>2. mem_do_prefetch' \in BOOLEAN /\ mem_do_rinst' \in BOOLEAN
    BY InvariantsNext DEF TypeOK, RequestTypeOK
  <2> QED
    BY <2>1, <2>2 DEF StepInv
<1>7. CASE LdRs1ShiftImm \/ Shift \/ LdRs1SinglePort
  <2>1. After("shift", mem_do_rinst) \/ After("ld_rs2", mem_do_rinst)
    BY <1>5, <1>7 DEF LdRs1ShiftImm, Shift, LdRs1SinglePort
  <2> QED
    BY <1>3, <2>1 DEF StepInv
<1>8. CASE LdRs1Imm \/ Alu
  <2>1. \E wait, wait_2, taken \in BOOLEAN :
          /\ Proceed("exec", IF wait THEN mem_do_rinst ELSE mem_do_prefetch, wait, wait_2, taken, 0)
          /\ wait_2 => wait
          /\ wait => TWO_CYCLE_ALU \/ TWO_CYCLE_COMPARE
    <3>1. CASE LdRs1Imm
      BY <3>1, ParamAssumption DEF LdRs1Imm
    <3>2. CASE Alu
      <4> DEFINE slow_compare == TWO_CYCLE_COMPARE /\ insn.kind = "branch"
                 wait == TWO_CYCLE_ALU \/ slow_compare
      <4>1. PICK taken \in {FALSE, insn.kind = "branch"} :
              Proceed("exec", IF wait THEN mem_do_rinst ELSE mem_do_prefetch,
                      wait, TWO_CYCLE_ALU /\ slow_compare, taken, 0)
        BY <3>2 DEF Alu
      <4>2. taken \in BOOLEAN /\ wait \in BOOLEAN /\ (TWO_CYCLE_ALU /\ slow_compare) \in BOOLEAN
        BY ParamAssumption
      <4> QED
        BY <4>1, <4>2
    <3> QED
      BY <1>8, <3>1, <3>2
  <2>2. PICK wait, wait_2, taken \in BOOLEAN :
          /\ Proceed("exec", IF wait THEN mem_do_rinst ELSE mem_do_prefetch, wait, wait_2, taken, 0)
          /\ wait_2 => wait
          /\ wait => TWO_CYCLE_ALU \/ TWO_CYCLE_COMPARE
    BY <2>1
  <2>3. After("exec", ~wait)
    <3>1. (IF wait THEN mem_do_rinst ELSE mem_do_prefetch) <=> ~wait
      BY <1>3
    <3> QED
      BY <1>5, <2>2, <3>1
  <2>4. ExecWaits' <=> wait
    BY <2>2 DEF Proceed, Operands, ExecWaits
  <2>5. mem_do_rinst' = ~ExecWaits'
    <3>1. mem_do_rinst' \in BOOLEAN
      BY InvariantsNext DEF TypeOK, RequestTypeOK
    <3> QED
      BY <2>3, <2>4, <3>1
  <2>6. insn'.kind \notin {"jalr", "retirq"}
    <3>1. insn.kind \in {"imm", "jalr", "reg", "branch"} /\ (insn.kind = "jalr" => cpu_state = "ld_rs1")
      BY <1>8 DEF LdRs1Imm, Alu, Step
    <3> QED
      BY <2>3, <3>1
  <2> QED
    BY <2>3, <2>5, <2>6 DEF StepInv
<1> QED
  BY <1>6, <1>7, <1>8

\* jalr and retirq prefetch nothing.
LEMMA JumpSteps ==
  ASSUME Live, cpu_state = "ld_rs1", insn.kind \in {"jalr", "retirq"},
         \/ LdRs1Illegal \/ LdRs1Simple \/ LdRs1SetQ \/ LdRs1MaskIrq \/ LdRs1Timer
         \/ LdRs1RetIrq \/ LdRs1Load \/ LdRs1Imm \/ LdRs1ShiftImm \/ LdRs1SinglePort
         \/ Store \/ Shift \/ Alu \/ PcpiReady \/ PcpiAbort \/ PcpiWait
  PROVE  StepInv'
<1>1. mem_state = 0 /\ NoRequests /\ ~mem_do_prefetch /\ ~mem_do_rinst
  BY LiveFacts DEF StepInv, NoRequests
<1>2. LdRs1RetIrq \/ (LdRs1Imm /\ insn.kind = "jalr")
  BY DEF LdRs1Illegal, LdRs1Simple, LdRs1SetQ, LdRs1MaskIrq, LdRs1Timer, LdRs1RetIrq,
     LdRs1Load, LdRs1Imm, LdRs1ShiftImm, LdRs1SinglePort, Store, Shift, Alu,
     PcpiReady, PcpiAbort, PcpiWait, Pcpi, instr_trap
<1>3. irq_state' = 0 /\ do_waitirq' = FALSE /\ Trigger /\ ~latched_branch
  BY <1>2 DEF LdRs1RetIrq, LdRs1Imm, Proceed, Step, Live, LatchInv
<1>4. \E ri : Requests(mem_do_prefetch, ri, "none") /\ ~ri
  <2>1. CASE LdRs1RetIrq
    <3>1. Requests(mem_do_prefetch, mem_do_rinst, "none")
      BY <2>1 DEF LdRs1RetIrq
    <3> QED
      BY <1>1, <3>1
  <2>2. CASE LdRs1Imm
    <3>1. Requests(mem_do_prefetch, IF TWO_CYCLE_ALU THEN mem_do_rinst ELSE mem_do_prefetch, "none")
      BY <2>2 DEF LdRs1Imm, Proceed
    <3>2. ~(IF TWO_CYCLE_ALU THEN mem_do_rinst ELSE mem_do_prefetch)
      BY <1>1
    <3> QED
      BY <3>1, <3>2
  <2> QED
    BY <1>2, <2>1, <2>2
<1>5. mem_state' = 0 /\ ~mem_done /\ insn' = insn /\ ~mem_do_prefetch' /\ NoRequests'
  BY <1>1, <1>4, IdleStays
<1>6. ~decoder_trigger'
  BY <1>3, <1>5 DEF Trigger
<1>7. CASE LdRs1RetIrq
  <2>1. cpu_state' \in {"fetch", "trap"}
    BY <1>7, Goes DEF LdRs1RetIrq
  <2> QED
    BY <1>3, <1>5, <1>6, <2>1 DEF StepInv
<1>8. CASE LdRs1Imm /\ insn.kind = "jalr"
  <2>1. cpu_state' \in {"exec", "trap"} /\ ~latched_branch' /\ insn'.kind = "jalr"
    BY <1>3, <1>5, <1>8, Goes DEF LdRs1Imm, Proceed, latches
  <2> QED
    BY <1>3, <1>5, <1>6, <2>1 DEF StepInv
<1> QED
  BY <1>2, <1>7, <1>8

LEMMA OperandSteps ==
  ASSUME Live,
         \/ LdRs1Illegal \/ LdRs1Simple \/ LdRs1SetQ \/ LdRs1MaskIrq \/ LdRs1Timer
         \/ LdRs1RetIrq \/ LdRs1Load \/ LdRs1Imm \/ LdRs1ShiftImm \/ LdRs1SinglePort
         \/ Store \/ Shift \/ Alu \/ PcpiReady \/ PcpiAbort \/ PcpiWait
  PROVE  StepInv'
<1>1. LdRs1RetIrq => cpu_state = "ld_rs1" /\ insn.kind \in {"jalr", "retirq"}
  BY DEF LdRs1RetIrq, Step
<1>2. CASE cpu_state = "ld_rs1" /\ insn.kind \in {"jalr", "retirq"}
  BY <1>2, JumpSteps
<1>3. CASE ~(cpu_state = "ld_rs1" /\ insn.kind \in {"jalr", "retirq"})
  BY <1>1, <1>3, LeavingSteps, ProceedingSteps
<1> QED
  BY <1>2, <1>3

LEMMA ShiftSteps == ASSUME Live, ShiftStep \/ ShiftDone PROVE StepInv'
<1>1. Step("shift") /\ latched_branch' = latched_branch /\ Trigger
  BY DEF ShiftStep, ShiftDone, Latch
<1>2. mem_do_prefetch /\ ~mem_do_rinst
  BY <1>1, LiveFacts DEF Step, StepInv
<1>3. \E ri : Requests(mem_do_prefetch, ri, "none")
  BY DEF ShiftStep, ShiftDone
<1>4. CASE ShiftStep
  <2>1. cpu_state' \in {"shift", "trap"} /\ ~mem_do_rinst'
    BY <1>2, <1>4, Goes DEF ShiftStep, Requests
  <2> QED
    BY <1>1, <1>2, <1>3, <2>1, OperandStep DEF StepInv
<1>5. CASE ShiftDone
  <2>1. cpu_state' \in {"fetch", "trap"}
    BY <1>5, Goes DEF ShiftDone
  <2> QED
    BY <1>1, <1>2, <1>3, <2>1, OperandStep DEF StepInv
<1> QED
  BY <1>4, <1>5

LEMMA ExecWaitSteps == ASSUME Live, ExecWait PROVE StepInv'
<1>1. /\ cpu_state = "exec" /\ cpu_state' \in {"exec", "trap"} /\ irq_state' = 0
      /\ do_waitirq' = FALSE /\ Trigger /\ latched_branch' = latched_branch
  BY Goes DEF ExecWait, Exec, Step, latches, Live, LatchInv
<1>2. ~latched_branch
  BY <1>1, LiveFacts DEF StepInv, ExecWait
<1>3. \E ri : Requests(mem_do_prefetch, ri, "none") /\ (ri <=> mem_do_prefetch /\ ~alu_wait_2)
  BY DEF ExecWait
<1>4. CASE insn.kind \in {"jalr", "retirq"}
  <2>1. mem_state = 0 /\ NoRequests /\ ~mem_do_prefetch
    BY <1>1, <1>4, LiveFacts DEF StepInv, NoRequests
  <2>2. \E ri : Requests(mem_do_prefetch, ri, "none") /\ ~ri
    BY <1>3, <2>1
  <2>3. mem_state' = 0 /\ NoRequests' /\ ~mem_done /\ insn' = insn /\ ~mem_do_prefetch'
    BY <2>1, <2>2, IdleStays
  <2>4. insn.kind = "jalr"
    BY <1>1, <1>2, <1>4, <2>1, LiveFacts DEF StepInv
  <2> QED
    BY <1>1, <1>2, <2>3, <2>4 DEF StepInv, Trigger
<1>5. CASE insn.kind \notin {"jalr", "retirq"}
  <2>1. mem_do_prefetch /\ ~mem_do_rinst /\ mem_state \in {1, 3}
    BY <1>1, <1>2, <1>5, LiveFacts DEF StepInv, ExecWait
  <2>2. mem_state' \in {1, 3} /\ ~mem_done
    BY <2>1, PrefetchHeld
  <2>3. insn' = insn /\ mem_do_prefetch' /\ (mem_do_rinst' <=> ~alu_wait_2) /\ ~decoder_trigger'
    BY <1>1, <1>3, <2>1, <2>2, DecoderHolds DEF Requests, Trigger, Live
  <2>4. ExecWaits' <=> alu_wait_2
    BY ParamAssumption DEF ExecWait, ExecWaits, Operands
  <2>5. mem_do_rinst' = ~ExecWaits'
    <3>1. mem_do_rinst' \in BOOLEAN
      BY InvariantsNext DEF TypeOK, RequestTypeOK
    <3> QED
      BY <2>3, <2>4, <3>1
  <2> QED
    BY <1>1, <1>2, <1>5, <2>2, <2>3, <2>5 DEF StepInv
<1> QED
  BY <1>4, <1>5

LEMMA ExecBranchSteps == ASSUME Live, ExecBranch PROVE StepInv'
<1>1. /\ cpu_state = "exec" /\ irq_state' = 0 /\ do_waitirq' = FALSE
      /\ insn.kind = "branch" /\ ~ExecWaits /\ latched_branch' = alu_out_0
      /\ cpu_state' \in {IF mem_done THEN "fetch" ELSE "exec", "trap"}
      /\ decoder_trigger' = (mem_do_rinst /\ mem_done /\ ~alu_out_0)
      /\ reg_out' = PcPlus(reg_pc, insn.imm) /\ reg_pc' = reg_pc
      /\ alu_wait' = FALSE /\ alu_wait_2' = FALSE /\ alu_out_0' = (alu_out_0 /\ ~mem_done)
  BY Goes DEF ExecBranch, Exec, Step, Latch, Operands, Live, LatchInv
<1>2. mem_do_rinst /\ alu_out_0 \in BOOLEAN
  BY <1>1, LiveFacts DEF StepInv, Live, TypeOK, OperandTypeOK
<1>3. Requests(mem_do_prefetch, mem_do_rinst, IF alu_out_0 THEN "rinst" ELSE "none")
  BY DEF ExecBranch
<1>4. CASE mem_done
  <2>1. mem_state' = 0 /\ ~mem_do_prefetch'
    BY <1>3, <1>4, DoneEnds DEF Requests
  <2>2. ~alu_out_0 => NoRequests'
    BY <1>3, <1>4 DEF Requests, NoRequests
  <2> QED
    BY <1>1, <1>2, <1>4, <2>1, <2>2 DEF StepInv
<1>5. CASE ~mem_done
  <2>1. insn' = insn /\ ~decoder_trigger' /\ mem_do_rinst'
    BY <1>1, <1>2, <1>3, <1>5, DecoderHolds DEF Requests, Live
  <2>2. ~ExecWaits'
    BY <1>1 DEF ExecWaits
  <2>3. CASE alu_out_0
    BY <1>1, <1>2, <1>5, <2>1, <2>2, <2>3 DEF StepInv, PcPlus
  <2>4. CASE ~alu_out_0
    <3>1. ~latched_branch /\ mem_do_prefetch /\ mem_state \in {1, 3}
      BY <1>1, <2>4, LiveFacts DEF StepInv
    <3>2. mem_state' = 1 /\ mem_do_prefetch'
      BY <1>2, <1>3, <1>5, <3>1, FetchGoesOn DEF Requests
    <3>3. mem_do_rinst' = ~ExecWaits'
      <4>1. mem_do_rinst' \in BOOLEAN
        BY InvariantsNext DEF TypeOK, RequestTypeOK
      <4> QED
        BY <2>1, <2>2, <4>1
    <3> QED
      BY <1>1, <1>5, <2>1, <2>4, <3>2, <3>3 DEF StepInv
  <2> QED
    BY <2>3, <2>4
<1> QED
  BY <1>4, <1>5

LEMMA ExecAluSteps == ASSUME Live, ExecAlu PROVE StepInv'
<1>1. /\ cpu_state = "exec" /\ cpu_state' \in {"fetch", "trap"} /\ irq_state' = 0
      /\ do_waitirq' = FALSE /\ Trigger /\ latched_branch' = (insn.kind = "jalr")
      /\ Requests(mem_do_prefetch, mem_do_rinst, "none")
  BY Goes DEF ExecAlu, Exec, Step, Latch, Live, LatchInv
<1>2. \E ri : Requests(mem_do_prefetch, ri, "none")
  BY <1>1
<1>3. CASE insn.kind = "jalr"
  <2>1. mem_state = 0 /\ NoRequests /\ ~mem_do_prefetch
    BY <1>1, <1>3, LiveFacts DEF StepInv, NoRequests
  <2>2. mem_state' = 0 /\ ~mem_done /\ ~mem_do_prefetch'
    BY <1>2, <2>1, IdleStays
  <2> QED
    BY <1>1, <2>2 DEF StepInv, Trigger
<1>4. CASE insn.kind # "jalr"
  <2>1. decoder_trigger' => mem_state' = 0 /\ NoRequests'
    BY <1>1, <1>2, DoneClears DEF Trigger
  <2> QED
    BY <1>1, <1>4, <2>1 DEF StepInv
<1> QED
  BY <1>3, <1>4

LEMMA DataSteps ==
  ASSUME Live, NEW state \in {"stmem", "ldmem"}, DataWaits(state) \/ DataAccess(state)
  PROVE  StepInv'
<1>1. /\ cpu_state = state /\ irq_state' = 0 /\ do_waitirq' = FALSE
      /\ ~latched_branch /\ ~latched_branch'
  <2>1. Step(state) /\ latched_branch' = latched_branch
    BY DEF DataWaits, DataAccess, DataPhase, Latch
  <2>2. irq_state = 0 /\ ~latched_branch
    BY <2>1 DEF Step, Live, LatchInv
  <2> QED
    BY <2>1, <2>2 DEF Step
<1>2. /\ mem_do_prefetch \in BOOLEAN /\ mem_do_prefetch' \in BOOLEAN
      /\ mem_do_rinst' \in BOOLEAN /\ RequestInv'
  BY InvariantsNext DEF Live, TypeOK, RequestTypeOK
<1>3. CASE DataWaits(state)
  <2>1. /\ mem_do_prefetch /\ ~mem_done /\ cpu_state' \in {state, "trap"} /\ Trigger
        /\ Requests(mem_do_prefetch, mem_do_rinst, "none")
    BY <1>3, Goes DEF DataWaits, PrefetchOver
  <2>2. mem_do_rinst /\ mem_state \in {1, 3} /\ ~mem_do_rdata /\ ~mem_do_wdata
    BY <1>1, <2>1, LiveFacts DEF StepInv
  <2>3. mem_state' = 1
    BY <1>1, <2>1, <2>2, FetchGoesOn
  <2>4. mem_do_prefetch' /\ mem_do_rinst' /\ ~mem_do_rdata' /\ ~mem_do_wdata' /\ ~decoder_trigger'
    BY <2>1, <2>2 DEF Requests, Trigger
  <2> QED
    BY <1>1, <1>2, <2>1, <2>3, <2>4 DEF StepInv
<1>4. CASE DataAccess(state) /\ mem_do_prefetch
  <2>1. /\ mem_done /\ cpu_state' \in {state, "trap"}
    BY <1>4, Goes DEF DataAccess, PrefetchOver
  <2>2. ~mem_do_rdata /\ ~mem_do_wdata
    BY <1>1, <1>4, LiveFacts DEF StepInv
  <2>3. Requests(mem_do_prefetch, mem_do_rinst, IF state = "ldmem" THEN "rdata" ELSE "wdata")
    BY <1>4, <2>2 DEF DataAccess
  <2>4. ~mem_do_prefetch' /\ ~mem_do_rinst' /\ (mem_do_rdata' \/ mem_do_wdata')
    BY <2>1, <2>3 DEF Requests
  <2> QED
    BY <1>1, <1>2, <2>1, <2>4 DEF StepInv
<1>5. CASE DataAccess(state) /\ ~mem_do_prefetch
  <2>1. ~mem_do_rinst /\ (IF state = "ldmem" THEN mem_do_rdata ELSE mem_do_wdata)
    BY <1>1, <1>5, LiveFacts DEF StepInv, Live, RequestInv
  <2>2. /\ \E ri : Requests(mem_do_prefetch, ri, "none") /\ ~ri
        /\ decoder_trigger' = mem_done
        /\ cpu_state' \in {IF mem_done THEN "fetch" ELSE state, "trap"}
    <3>1. \E ri : Requests(mem_do_prefetch, ri, "none") /\ ~ri
      <4>1. Requests(mem_do_prefetch, mem_do_rinst, "none")
        BY <1>5, <2>1 DEF DataAccess
      <4> QED
        BY <2>1, <4>1
    <3>2. decoder_trigger' = mem_done
      <4>1. mem_done \in BOOLEAN
        BY DEF mem_done
      <4> QED
        BY <1>5, <2>1, <4>1 DEF DataAccess
    <3>3. GoTo(IF mem_done THEN "fetch" ELSE state)
      <4>1. (~mem_do_prefetch /\ mem_done) <=> mem_done
        BY <1>5
      <4>2. GoTo(IF ~mem_do_prefetch /\ mem_done THEN "fetch" ELSE state)
        BY <1>5 DEF DataAccess
      <4> QED
        BY <4>1, <4>2
    <3> QED
      BY <3>1, <3>2, <3>3, Goes
  <2>3. CASE mem_done
    <3>1. mem_state' = 0 /\ NoRequests'
      BY <2>2, <2>3, DoneClears
    <3> QED
      BY <1>1, <2>2, <2>3, <3>1 DEF StepInv
  <2>4. CASE ~mem_done
    <3>1. ~mem_do_prefetch' /\ ~mem_do_rinst' /\ (mem_do_rdata' \/ mem_do_wdata')
      BY <1>5, <2>1, <2>2, <2>4 DEF Requests
    <3> QED
      BY <1>1, <1>2, <2>2, <2>4, <3>1 DEF StepInv
  <2> QED
    BY <2>3, <2>4
<1> QED
  BY <1>3, <1>4, <1>5

LEMMA StepKept == ASSUME Live PROVE StepInv'
<1>1. MainStep /\ ~Reset /\ ~Trapped
  BY LiveFacts DEF Reset, Trapped, Live
<1> QED
  BY <1>1, EntrySteps, FetchSteps, OperandSteps, ShiftSteps, ExecWaitSteps, ExecBranchSteps,
     ExecAluSteps, DataSteps DEF MainStep

------------------------------------------------------------------------------
(* FetchInv is inductive.                                                  *)

LEMMA BufferCoded ==
  ASSUME FetchInv, Next
  PROVE  prefetched_high_word' => COMPRESSED_ISA /\ ~clear_prefetched_high_word_q'
<1>1. \E valid, half : HighWord(valid, half) /\ (valid => COMPRESSED_ISA)
  <2>1. prefetched_high_word => COMPRESSED_ISA
    BY DEF FetchInv
  <2>2. KeepHighWord => \E valid, half : HighWord(valid, half) /\ (valid => COMPRESSED_ISA)
    BY <2>1 DEF KeepHighWord
  <2>3. MemHalted => \E valid, half : HighWord(valid, half) /\ ~valid
    BY DEF MemHalted
  <2>4. ReadSecondWord => COMPRESSED_ISA /\ \E valid, half : HighWord(valid, half)
    BY DEF ReadSecondWord
  <2>5. ReadCompletes => KeepHighWord \/ (COMPRESSED_ISA /\ \E valid, half : HighWord(valid, half))
    BY ParamAssumption DEF ReadCompletes
  <2>6. MemIdle \/ ReadWaits \/ MemWrite \/ MemPrefetched => KeepHighWord
    BY DEF MemIdle, ReadWaits, MemWrite, MemPrefetched
  <2> QED
    BY <2>2, <2>3, <2>4, <2>5, <2>6 DEF Next, Clock, MemInterface
<1>2. clear_prefetched_high_word_q' = clear_prefetched_high_word
  BY DEF Next, Clock, MemInterface, FirstwordTracking
<1> QED
  BY <1>1, <1>2 DEF HighWord

LEMMA FetchInvInit == Init => FetchInv
<1> SUFFICES ASSUME Init PROVE FetchInv
  OBVIOUS
<1> USE DEF Init
<1>1. StepInv
  BY DEF StepInv
<1>2. TransferInv
  BY DEF TransferInv
<1>3. BufferInv
  BY DEF BufferInv
<1> QED
  BY <1>1, <1>2, <1>3 DEF FetchInv

LEMMA ResetStep == ASSUME Next, ~resetn PROVE Reset /\ MemHalted
<1>1. Reset
  BY DEF Next, MainStep, Trapped, EnterIrq, WaitIrq, WaitIrqDone, LaunchJal, Launch, AwaitInsn,
     Fetch, LdRs1Illegal, LdRs1Simple, LdRs1SetQ, LdRs1MaskIrq, LdRs1Timer, LdRs1RetIrq,
     LdRs1Load, LdRs1Imm, LdRs1ShiftImm, LdRs1SinglePort, Store, Shift, Alu, Pcpi,
     PcpiReady, PcpiAbort, PcpiWait, SecondOperand, ExecWait, ExecBranch, ExecAlu, Exec,
     ShiftStep, ShiftDone, DataWaits, DataAccess, DataPhase, Step
<1> QED
  BY <1>1 DEF Next, Clock, MemInterface, MemIdle, ReadWaits, ReadSecondWord, ReadCompletes,
     MemWrite, MemPrefetched

LEMMA ResetEstablishes == ASSUME FetchInv, Next, ~resetn PROVE FetchInv'
<1>1. Reset /\ MemHalted
  BY ResetStep
<1>2. /\ cpu_state' = "fetch" /\ trap' = FALSE /\ irq_state' = 0 /\ do_waitirq' = FALSE
      /\ ~mem_do_prefetch' /\ ~mem_do_rinst' /\ ~mem_do_rdata' /\ ~mem_do_wdata'
      /\ latched_branch' = FALSE
  BY <1>1 DEF Reset, Latch
<1>3. ~decoder_trigger'
  BY <1>1 DEF Reset, Trigger, mem_done
<1>4. mem_state' = 0 /\ ~mem_valid' /\ mem_la_secondword' = FALSE
  BY <1>1 DEF MemHalted, ValidWhenHalted
<1>5. StepInv'
  BY <1>2, <1>3, <1>4 DEF StepInv
<1>6. TransferInv'
  BY <1>4 DEF TransferInv
<1>7. BufferInv'
  BY <1>2, <1>3 DEF BufferInv
<1> QED
  BY <1>2, <1>5, <1>6, <1>7, BufferCoded DEF FetchInv

LEMMA TrapStep ==
  ASSUME Next, resetn, cpu_state = "trap" PROVE Trapped /\ trap' = TRUE /\ cpu_state' = "trap"
<1>1. Trapped
  BY DEF Next, MainStep, Reset, EnterIrq, WaitIrq, WaitIrqDone, LaunchJal, Launch, AwaitInsn,
     Fetch, LdRs1Illegal, LdRs1Simple, LdRs1SetQ, LdRs1MaskIrq, LdRs1Timer, LdRs1RetIrq,
     LdRs1Load, LdRs1Imm, LdRs1ShiftImm, LdRs1SinglePort, Store, Shift, Alu, Pcpi,
     PcpiReady, PcpiAbort, PcpiWait, SecondOperand, ExecWait, ExecBranch, ExecAlu, Exec,
     ShiftStep, ShiftDone, DataWaits, DataAccess, DataPhase, Step
<1> QED
  BY <1>1 DEF Trapped

LEMMA TrapKept == ASSUME FetchInv, Next, resetn, cpu_state = "trap" PROVE FetchInv'
BY TrapStep, BufferCoded DEF FetchInv, Running

LEMMA TrapFromState == ASSUME Live PROVE trap' = FALSE
<1>1. MainStep /\ ~Reset /\ ~Trapped
  BY LiveFacts DEF Reset, Trapped, Live
<1> QED
  BY <1>1 DEF MainStep, EnterIrq, WaitIrq, WaitIrqDone, LaunchJal, Launch, AwaitInsn,
     Fetch, LdRs1Illegal, LdRs1Simple, LdRs1SetQ, LdRs1MaskIrq, LdRs1Timer, LdRs1RetIrq,
     LdRs1Load, LdRs1Imm, LdRs1ShiftImm, LdRs1SinglePort, Store, Shift, Alu, Pcpi,
     PcpiReady, PcpiAbort, PcpiWait, SecondOperand, ExecWait, ExecBranch, ExecAlu, Exec,
     ShiftStep, ShiftDone, DataWaits, DataAccess, DataPhase, Step

LEMMA FetchInvNext ==
  TypeOK /\ LatchInv /\ RequestInv /\ FetchInv /\ [Next]_vars => FetchInv'
<1> SUFFICES ASSUME TypeOK, LatchInv, RequestInv, FetchInv, [Next]_vars PROVE FetchInv'
  OBVIOUS
<1>1. CASE UNCHANGED vars
  <2> USE <1>1 DEF vars, inputs, bus, requests, fetchUnit, decoder, datapath, latches, interrupts
  <2>1. StepInv => StepInv'
    BY DEF StepInv, NoRequests, ExecWaits, PcPlus
  <2>2. mem_la_firstword' <=> mem_la_firstword
    BY DEF mem_la_firstword, next_pc, Odd
  <2>3. mem_la_use_prefetched_high_word' <=> mem_la_use_prefetched_high_word
    BY <2>2 DEF mem_la_use_prefetched_high_word, clear_prefetched_high_word
  <2>4. TransferInv => TransferInv'
    <3>1. mem_valid \in BOOLEAN
      BY DEF TypeOK, MemTypeOK
    <3>2. mem_valid = ~mem_la_use_prefetched_high_word => mem_valid' = ~mem_la_use_prefetched_high_word'
      BY <2>3, <3>1
    <3> QED
      BY <2>2, <3>2 DEF TransferInv, Odd, Wide
  <2>5. BufferInv => BufferInv'
    BY DEF BufferInv, Odd, PcPlus, InsnLength, compressed_instr, Wide
  <2> QED
    BY <2>1, <2>4, <2>5 DEF FetchInv, Running
<1>2. CASE Next /\ ~resetn
  BY <1>2, ResetEstablishes
<1>3. CASE Next /\ resetn /\ cpu_state = "trap"
  BY <1>3, TrapKept
<1>4. CASE Next /\ resetn /\ cpu_state # "trap"
  <2>1. Live
    BY <1>4 DEF Live
  <2> QED
    BY <2>1, <1>4, StepKept, TransferKept, BufferInvKept, TrapFromState, BufferCoded
    DEF FetchInv, Running
<1> QED
  BY <1>1, <1>2, <1>3, <1>4

------------------------------------------------------------------------------
CoreInv == TypeOK /\ LatchInv /\ RequestInv /\ FetchInv

LEMMA CoreInvAlways == Spec => []CoreInv
<1>1. Init => CoreInv
  BY TypeInvInit, RequestInvInit, FetchInvInit DEF CoreInv
<1>2. CoreInv /\ [Next]_vars => CoreInv'
  BY TypeInvNext, RequestInvNext, FetchInvNext DEF CoreInv
<1> QED
  BY <1>1, <1>2, PTL DEF Spec

\* While the memory interface serves a request, the main state machine keeps
\* it and the bus shows it (the assertions at picorv32.v:560-561, 596-599,
\* 622-623 and 630-631).
THEOREM TransferAlwaysMatches == Spec => []TransferMatchesRequest
<1>1. CoreInv => TransferMatchesRequest
  BY DEF CoreInv, FetchInv, TransferInv, TransferMatchesRequest
<1> QED
  BY <1>1, CoreInvAlways, PTL

\* A transfer that waits for mem_ready is changed or withdrawn by nothing but
\* reset.
THEOREM BusAlwaysStable == Spec => BusStable
<1>1. CoreInv /\ [Next]_vars =>
        (mem_valid /\ ~mem_ready /\ resetn =>
           mem_valid' /\ UNCHANGED <<mem_addr, mem_instr, mem_wstrb>>)
  <2> SUFFICES ASSUME CoreInv, [Next]_vars, mem_valid, ~mem_ready, resetn
               PROVE  mem_valid' /\ UNCHANGED <<mem_addr, mem_instr, mem_wstrb>>
    OBVIOUS
  <2>1. CASE UNCHANGED vars
    BY <2>1 DEF vars, bus
  <2>2. CASE Next /\ trap
    <3>1. MemHalted
      BY <2>2 DEF Next, Clock, MemInterface, MemIdle, ReadWaits, ReadSecondWord,
         ReadCompletes, MemWrite, MemPrefetched
    <3> QED
      BY <3>1 DEF MemHalted, ValidWhenHalted
  <2>3. CASE Next /\ ~trap
    <3>1. TransferInv
      BY <2>3 DEF CoreInv, FetchInv, Running
    <3>2. mem_state \in {1, 2}
      BY <3>1 DEF TransferInv, CoreInv, TypeOK, MemTypeOK
    <3>3. ~mem_xfer
      <4>1. mem_state = 1 => ~mem_la_use_prefetched_high_word
        BY <3>1 DEF TransferInv
      <4>2. mem_state = 2 => ~mem_do_rinst
        BY <3>1 DEF TransferInv, CoreInv, RequestInv
      <4> QED
        BY <3>2, <4>1, <4>2 DEF mem_xfer
    <3>4. ReadWaits \/ MemWrite
      <4>1. ~MemHalted
        BY <2>3 DEF MemHalted
      <4>2. ~MemIdle /\ ~MemPrefetched
        <5>1. mem_state # 0 /\ mem_state # 3
          BY <3>2
        <5>2. MemIdle => mem_state = 0
          BY DEF MemIdle
        <5>3. MemPrefetched => mem_state = 3
          BY DEF MemPrefetched
        <5> QED
          BY <5>1, <5>2, <5>3
      <4>3. ~ReadSecondWord /\ ~ReadCompletes
        BY <3>3 DEF ReadSecondWord, ReadCompletes
      <4> QED
        BY <2>3, <4>1, <4>2, <4>3 DEF Next, Clock, MemInterface
    <3> QED
      BY <3>3, <3>4 DEF ReadWaits, MemWrite, bus
  <2> QED
    BY <2>1, <2>2, <2>3
<1> QED
  BY <1>1, CoreInvAlways, PTL DEF Spec, BusStable

\* Every transfer is announced on the look-ahead interface in the cycle before
\* it starts, with the address and the direction it then has.
THEOREM TransfersAlwaysAnnounced == Spec => TransferAnnounced
<1> DEFINE Announced ==
      /\ mem_la_read \/ mem_la_write
      /\ mem_addr' = mem_la_addr
      /\ mem_wstrb' = (mem_la_write /\ ~mem_la_read)
<1>1. CoreInv /\ Next => (mem_valid' /\ (~mem_valid \/ mem_ready) => Announced)
  <2> SUFFICES ASSUME CoreInv, Next, mem_valid', ~mem_valid \/ mem_ready PROVE Announced
    OBVIOUS
  <2> USE DEF CoreInv, RequestInv
  <2>1. ~MemHalted
    BY DEF MemHalted, ValidWhenHalted
  <2>2. resetn /\ ~trap
    BY <2>1 DEF Next, Clock, MemInterface, MemIdle, ReadWaits, ReadSecondWord,
       ReadCompletes, MemWrite, MemPrefetched
  <2>3. TransferInv
    BY <2>2 DEF FetchInv, Running
  <2>4. CASE MemIdle
    <3>1. mem_state = 0 /\ ~mem_valid
      BY <2>3, <2>4 DEF MemIdle, TransferInv
    <3>2. mem_la_read <=> \/ /\ ~mem_la_use_prefetched_high_word
                             /\ mem_do_rinst \/ mem_do_prefetch \/ mem_do_rdata
                          \/ mem_la_firstword_xfer /\ ~mem_la_secondword /\ Wide(mem_rdata_latched[1])
      BY <2>2, <3>1 DEF mem_la_read
    <3>3. CASE mem_do_wdata
      <4>1. ~mem_la_firstword_xfer
        BY <3>1, <3>3 DEF mem_la_firstword_xfer, mem_xfer
      <4>2. mem_la_write /\ ~mem_la_read
        BY <2>2, <3>1, <3>2, <3>3, <4>1 DEF mem_la_write
      <4> QED
        BY <2>4, <3>3, <4>2 DEF MemIdle, LookAheadAddress
    <3>4. CASE ~mem_do_wdata
      <4>1. mem_do_prefetch \/ mem_do_rinst \/ mem_do_rdata
        BY <2>4, <3>1, <3>4 DEF MemIdle
      <4>2. ~mem_la_use_prefetched_high_word
        BY <2>4, <3>4, <4>1 DEF MemIdle
      <4>3. mem_la_read /\ ~mem_la_write
        BY <3>2, <3>4, <4>1, <4>2 DEF mem_la_write
      <4> QED
        BY <2>4, <4>1, <4>3 DEF MemIdle, LookAheadAddress
    <3> QED
      BY <3>3, <3>4
  <2>5. CASE ReadSecondWord
    <3>1. ~mem_la_write
      BY <2>5 DEF ReadSecondWord, mem_la_write
    <3> QED
      BY <2>5, <3>1 DEF ReadSecondWord, LookAheadAddress
  <2>6. ~ReadWaits
    BY DEF ReadWaits, mem_xfer, bus
  <2>7. ~ReadCompletes
    BY DEF ReadCompletes
  <2>8. ~MemWrite
    BY DEF MemWrite, mem_xfer
  <2>9. ~MemPrefetched
    BY <2>3 DEF MemPrefetched, TransferInv
  <2> QED
    BY <2>1, <2>4, <2>5, <2>6, <2>7, <2>8, <2>9 DEF Next, Clock, MemInterface
<1> QED
  BY <1>1, CoreInvAlways, PTL DEF Spec, TransferAnnounced

------------------------------------------------------------------------------
(* The contract of the bus.                                                *)

shown == [instr |-> mem_instr, addr |-> mem_addr, write |-> mem_wstrb]

LEMMA ShownTyped == TypeOK => shown \in Bus!Requests /\ mem_valid \in BOOLEAN
BY DEF TypeOK, MemTypeOK, shown, Bus!Requests

\* An idle memory interface starts a transfer, or shows a fetch that begins
\* in the half-word buffer.
LEMMA IdleContract ==
  ASSUME CoreInv, TypeOK', MemIdle
  PROVE  Bus!Starts \/ Bus!Idles
<1>1. ~mem_valid /\ resetn
  BY DEF CoreInv, FetchInv, Running, TransferInv, MemIdle
<1>2. shown' \in Bus!Requests /\ mem_valid' \in BOOLEAN /\ mem_addr' \in Words \cup DataWords
  BY ShownTyped DEF shown, Bus!Requests, TypeOK, MemTypeOK
<1>3. /\ mem_valid' = CASE mem_do_wdata -> TRUE
                       [] (mem_do_prefetch \/ mem_do_rinst \/ mem_do_rdata) /\ ~mem_do_wdata ->
                            ~mem_la_use_prefetched_high_word
                       [] OTHER -> mem_valid
      /\ mem_la_use_prefetched_high_word => mem_do_prefetch \/ mem_do_rinst
  BY DEF MemIdle, mem_la_use_prefetched_high_word, mem_la_firstword
<1>4. CASE mem_valid'
  <2>1. mem_instr' => ~mem_wstrb'
    BY <1>1, <1>4 DEF MemIdle, CoreInv, RequestInv
  <2>. QED BY <1>1, <1>2, <1>4, <2>1 DEF Bus!Starts, Bus!Proper, shown
<1>5. CASE ~mem_valid' /\ (mem_do_prefetch \/ mem_do_rinst)
  <2>1. mem_instr' = TRUE /\ mem_wstrb' = FALSE
    BY <1>5 DEF MemIdle, CoreInv, RequestInv
  <2>2. mem_valid' = FALSE
    BY <1>2, <1>5
  <2>. QED BY <1>1, <1>2, <2>1, <2>2 DEF Bus!Idles, Bus!Fetch
<1>6. CASE ~mem_valid' /\ ~(mem_do_prefetch \/ mem_do_rinst)
  <2>1. ~mem_do_rdata /\ ~mem_do_wdata /\ ~mem_la_use_prefetched_high_word
    BY <1>3, <1>6
  <2>2. ~mem_la_read /\ ~mem_la_write
    BY <1>1, <1>6, <2>1 DEF mem_la_read, mem_la_write, mem_la_firstword_xfer, mem_xfer
  <2>3. UNCHANGED <<mem_addr, mem_instr, mem_wstrb>>
    BY <1>6, <2>1, <2>2 DEF MemIdle, LookAheadAddress, CoreInv, TypeOK, MemTypeOK
  <2>4. mem_valid' = FALSE
    BY <1>2, <1>6
  <2>. QED BY <1>1, <2>3, <2>4 DEF Bus!Idles
<1>. QED BY <1>4, <1>5, <1>6

\* The only transfer that follows another one directly is the second half of
\* an instruction.
LEMMA ReadContract ==
  ASSUME CoreInv, TypeOK', ReadWaits \/ ReadSecondWord \/ ReadCompletes
  PROVE  Bus!Waits \/ Bus!Continues \/ Bus!Starts \/ Bus!Ends \/ Bus!Idles
<1>1. TransferInv /\ resetn /\ mem_state = 1 /\ TypeOK
  BY DEF CoreInv, FetchInv, Running, ReadWaits, ReadSecondWord, ReadCompletes
<1>2. mem_xfer <=> IF mem_valid THEN mem_ready ELSE mem_do_rinst
  BY <1>1 DEF TransferInv, mem_xfer
<1>3. CASE ReadWaits
  <2>1. UNCHANGED <<mem_valid, mem_addr, mem_instr, mem_wstrb>> /\ ~mem_xfer
    BY <1>3 DEF ReadWaits, bus
  <2>. QED
    BY <1>1, <1>2, <2>1 DEF Bus!Waits, Bus!Idles, Bus!Continuing, TypeOK, MemTypeOK
<1>4. CASE ReadSecondWord
  <2>1. /\ COMPRESSED_ISA /\ mem_xfer /\ mem_valid' = TRUE /\ mem_wstrb' = FALSE
        /\ UNCHANGED mem_instr
    BY <1>4 DEF ReadSecondWord
  <2>2. mem_instr = TRUE /\ mem_wstrb = FALSE
    <3>1. mem_la_firstword_xfer
      BY <1>1, <1>4 DEF ReadSecondWord, mem_la_read
    <3>2. mem_do_prefetch \/ mem_do_rinst
      BY <1>1, <3>1 DEF mem_la_firstword_xfer, mem_la_firstword, TransferInv
    <3>. QED BY <1>1, <3>2 DEF TransferInv, TypeOK, MemTypeOK
  <2>3. mem_addr' \in Words \cup DataWords
    BY DEF TypeOK, MemTypeOK
  <2>4. CASE mem_valid
    <3>1. mem_ready
      BY <1>2, <2>1, <2>4
    <3>. QED BY <1>1, <2>1, <2>2, <2>3, <2>4, <3>1 DEF Bus!Continues, Bus!Fetch, TypeOK, MemTypeOK
  <2>5. CASE ~mem_valid
    <3>1. shown' \in Bus!Requests
      BY ShownTyped DEF shown, Bus!Requests, TypeOK, MemTypeOK
    <3>. QED BY <1>1, <2>1, <2>5, <3>1 DEF Bus!Starts, Bus!Proper, shown
  <2>. QED BY <2>4, <2>5
<1>5. CASE ReadCompletes
  <2>1. mem_valid' = FALSE /\ mem_xfer /\ UNCHANGED <<mem_addr, mem_instr, mem_wstrb>>
    BY <1>5 DEF ReadCompletes
  <2>. QED BY <1>1, <1>2, <2>1 DEF Bus!Ends, Bus!Idles
<1>. QED BY <1>3, <1>4, <1>5

LEMMA OtherContract ==
  ASSUME CoreInv, MemWrite \/ MemPrefetched
  PROVE  Bus!Waits \/ Bus!Ends \/ Bus!Idles
<1>1. TransferInv /\ resetn /\ UNCHANGED <<mem_addr, mem_instr, mem_wstrb>> /\ TypeOK
  BY DEF CoreInv, FetchInv, Running, MemWrite, MemPrefetched
<1>2. CASE MemWrite
  <2>1. ~mem_do_rinst /\ mem_valid
    BY <1>1, <1>2 DEF MemWrite, TransferInv, CoreInv, RequestInv
  <2>2. mem_valid' = ~mem_ready
    BY <1>2, <2>1 DEF MemWrite, mem_xfer, TypeOK, InputTypeOK
  <2>. QED BY <1>1, <2>1, <2>2 DEF Bus!Waits, Bus!Ends, Bus!Continuing
<1>3. CASE MemPrefetched
  <2>1. ~mem_valid /\ mem_valid' = FALSE
    BY <1>1, <1>3 DEF MemPrefetched, TransferInv, TypeOK, MemTypeOK
  <2>. QED BY <1>1, <2>1 DEF Bus!Idles
<1>. QED BY <1>2, <1>3

LEMMA HaltedContract ==
  ASSUME CoreInv, MemHalted
  PROVE  Bus!Withdraws \/ Bus!Waits \/ Bus!Ends \/ Bus!Idles
<1>1. UNCHANGED <<mem_addr, mem_instr, mem_wstrb>> /\ TypeOK
  BY DEF CoreInv, MemHalted
<1>2. mem_valid' = (mem_valid /\ resetn /\ ~mem_ready)
  BY DEF MemHalted, ValidWhenHalted
<1>. QED BY <1>1, <1>2 DEF Bus!Withdraws, Bus!Waits, Bus!Ends, Bus!Idles, Bus!Continuing

\* On its bus the core does only what NativeBus allows a master to do, so that
\* every memory and bridge that serves such a master serves the core.
THEOREM CoreKeepsContract == Spec => MasterContract
<1>1. Init => Bus!MasterInit
  <2>1. Init => TypeOK
    BY TypeInvInit
  <2>2. Init => (resetn => ~mem_valid)
    BY DEF Init
  <2>. QED BY <2>1, <2>2, ShownTyped DEF Bus!MasterInit, shown
<1>2. CoreInv /\ CoreInv' /\ [Next]_vars => [Bus!MasterStep]_(Bus!masterVars)
  <2>1. CASE CoreInv /\ CoreInv' /\ Next
    <3>1. TypeOK'
      BY <2>1 DEF CoreInv
    <3>2. \/ MemHalted \/ MemIdle \/ ReadWaits \/ ReadSecondWord \/ ReadCompletes
          \/ MemWrite \/ MemPrefetched
      BY <2>1 DEF Next, Clock, MemInterface
    <3>. QED
      BY <2>1, <3>1, <3>2, IdleContract, ReadContract, OtherContract, HaltedContract
         DEF Bus!MasterStep
  <2>2. CASE UNCHANGED vars
    BY <2>2 DEF vars, inputs, bus, Bus!masterVars
  <2>. QED BY <2>1, <2>2
<1>. QED BY <1>1, <1>2, CoreInvAlways, PTL DEF Spec, MasterContract, Bus!MasterSpec
=============================================================================
