------------------------ MODULE PicoRV32Refines_proofs ------------------------
(***************************************************************************)
(* The core executes the instruction its program counter addresses: every  *)
(* halfword on its way through the memory interface, the buffer and the    *)
(* decoder was read from the address it will be used at, whatever was      *)
(* prefetched before a branch, an interrupt or a return went elsewhere.    *)
(*                                                                         *)
(* From this, that the core implements the instruction set machine of      *)
(* PicoRV32ISA.  OrderInv is what the core knows of the instruction it     *)
(* works on; then each clock edge is a step of that machine: while an      *)
(* instruction is executed none, where it is launched Start, where it ends *)
(* Complete.                                                               *)
(***************************************************************************)
EXTENDS PicoRV32Mem_proofs

LEMMA ModWraps ==
  \A d \in Nat \ {0}, m \in Nat : m < 2 * d => m % d = IF m < d THEN m ELSE m - d
<1> SUFFICES ASSUME NEW d \in Nat \ {0}, NEW m \in Nat, m < 2 * d
             PROVE  m % d = IF m < d THEN m ELSE m - d
  OBVIOUS
<1>1. \A n \in Nat, e \in Nat \ {0} : n < e => n % e = n /\ (n + e) % e = n
  OBVIOUS
<1>2. CASE m < d
  BY <1>1, <1>2
<1>3. CASE m >= d
  <2>1. m - d \in Nat /\ m - d < d /\ (m - d) + d = m
    BY <1>3
  <2> QED
    BY <1>1, <1>3, <2>1
<1> QED
  BY <1>2, <1>3

\* The word a halfword lies in, and the one after it.
LEMMA HalvesOf ==
  ASSUME NEW pc \in PC
  PROVE  /\ pc \div 2 \in Words /\ (pc \div 2) % (PcN \div 2) = pc \div 2
         /\ ~Odd(pc) => Halves(pc \div 2) = <<pc, PcPlus(pc, 1)>>
         /\ Odd(pc) => /\ Halves(pc \div 2)[2] = pc
                       /\ Halves((pc \div 2 + 1) % (PcN \div 2)) = <<PcPlus(pc, 1), PcPlus(pc, 2)>>
<1>1. PICK half \in Nat \ {0} : PcN = 2 * half /\ PcN \div 2 = half
  <2>1. PcN = 2 * (PcN \div 2) /\ PcN \div 2 \in Nat \ {0}
    BY AddressAssumption
  <2> QED
    BY <2>1
<1>2. Words = 0 .. half - 1 /\ pc \in Nat /\ pc < 2 * half
  BY <1>1 DEF Words, PC
<1>3. PICK k \in Nat : /\ pc \div 2 = k /\ k < half
                       /\ pc = IF Odd(pc) THEN 2 * k + 1 ELSE 2 * k
  BY <1>2 DEF Odd
<1>4. k \in Words /\ k % half = k
  BY <1>1, <1>2, <1>3
<1>5. ASSUME NEW n \in {1, 2}
      PROVE  PcPlus(pc, n) = IF pc + n < 2 * half THEN pc + n ELSE pc + n - 2 * half
  <2> DEFINE m == pc + n
  <2>1. PcN \in Nat \ {0} /\ m \in Nat /\ m < 2 * PcN
    BY <1>1, <1>2
  <2>2. m % PcN = IF m < PcN THEN m ELSE m - PcN
    <3> HIDE DEF m
    <3> QED
      BY <2>1, ModWraps
  <2>3. PcPlus(pc, n) = IF m < PcN THEN m ELSE m - PcN
    BY <2>2 DEF PcPlus
  <2> QED
    BY <1>1, <1>2, <2>3
<1>6. ASSUME ~Odd(pc) PROVE Halves(pc \div 2) = <<pc, PcPlus(pc, 1)>>
  <2>1. pc = 2 * k /\ pc + 1 < 2 * half
    BY <1>1, <1>3, <1>6
  <2>2. PcPlus(pc, 1) = 2 * k + 1
    BY <2>1, <1>5
  <2> QED
    BY <1>3, <1>4, <2>1, <2>2 DEF Halves
<1>7. ASSUME Odd(pc) PROVE Halves(pc \div 2)[2] = pc
  BY <1>3, <1>4, <1>7 DEF Halves
<1>8. ASSUME Odd(pc)
      PROVE  Halves((pc \div 2 + 1) % (PcN \div 2)) = <<PcPlus(pc, 1), PcPlus(pc, 2)>>
  <2>1. (k + 1) % half = IF k + 1 < half THEN k + 1 ELSE k + 1 - half
    <3> DEFINE m == k + 1
    <3>1. half \in Nat \ {0} /\ m \in Nat /\ m < 2 * half
      BY <1>1, <1>3
    <3>2. m % half = IF m < half THEN m ELSE m - half
      <4> HIDE DEF m
      <4> QED
        BY <3>1, ModWraps
    <3> QED
      BY <3>2
  <2>2. CASE k + 1 < half
    <3>1. PcPlus(pc, 1) = 2 * (k + 1) /\ PcPlus(pc, 2) = 2 * (k + 1) + 1
      <4>1. pc + 1 = 2 * (k + 1) /\ pc + 2 = 2 * (k + 1) + 1 /\ pc + 2 < 2 * half
        BY <1>1, <1>3, <1>8, <2>2
      <4>2. PcPlus(pc, 1) = pc + 1 /\ PcPlus(pc, 2) = pc + 2
        BY <1>1, <1>2, <1>5, <4>1
      <4> QED
        BY <4>1, <4>2
    <3>2. (pc \div 2 + 1) % (PcN \div 2) = k + 1 /\ k + 1 \in Words
      BY <1>1, <1>2, <1>3, <2>1, <2>2
    <3> QED
      BY <3>1, <3>2 DEF Halves
  <2>3. CASE k + 1 >= half
    <3>1. k + 1 = half
      BY <1>1, <1>3, <2>3
    <3>2. PcPlus(pc, 1) = 0 /\ PcPlus(pc, 2) = 1
      BY <1>1, <1>3, <1>5, <1>8, <3>1
    <3>3. (pc \div 2 + 1) % (PcN \div 2) = 0 /\ 0 \in Words
      BY <1>1, <1>2, <1>3, <2>1, <3>1
    <3> QED
      BY <3>2, <3>3 DEF Halves
  <2> QED
    BY <1>1, <1>3, <2>2, <2>3
<1> QED
  BY <1>1, <1>3, <1>4, <1>6, <1>7, <1>8

------------------------------------------------------------------------------
(* What a fetch finds.                                                     *)

Sourced ==
  /\ Live
  /\ AddressInv /\ UseInv /\ NextHalfInv /\ WordInv /\ ExecutedInv /\ HandedInv /\ JumpInv

LEMMA SourcedFacts ==
  ASSUME Sourced
  PROVE  /\ Live /\ ~trap /\ StepInv /\ TransferInv /\ Clock /\ MainStep /\ resetn
         /\ cpu_state # "trap" /\ LatchInv /\ RequestInv
BY LiveFacts DEF Sourced, Live

\* A fetch is only asked for where the next pc is known.
LEMMA NextPcTyped == ASSUME Sourced, Asked PROVE next_pc \in PC
<1>1. reg_next_pc \in PC
  BY DEF Sourced, Live, TypeOK, PcTypeOK
<1>2. CASE latched_branch
  <2>1. cpu_state \in {"fetch", "exec"}
    BY <1>2, SourcedFacts DEF LatchInv
  <2>2. mem_do_rinst
    BY <1>2, <2>1, SourcedFacts DEF StepInv, Asked
  <2>3. CASE cpu_state = "fetch"
    BY <1>1, <1>2, <2>2, <2>3, SourcedFacts DEF LatchInv, JumpInv, Sourced, next_pc
  <2>4. CASE cpu_state = "exec"
    BY <1>1, <1>2, <2>4, SourcedFacts DEF LatchInv, next_pc
  <2> QED
    BY <2>1, <2>3, <2>4
<1>3. CASE ~latched_branch
  BY <1>1, <1>3, PlainPc
<1> QED
  BY <1>2, <1>3

LEMMA BufferUsed ==
  ASSUME Sourced, mem_la_use_prefetched_high_word
  PROVE  mem_16bit_buffer = next_pc /\ Odd(next_pc) /\ Asked /\ COMPRESSED_ISA
BY DEF mem_la_use_prefetched_high_word, mem_la_firstword, Sourced, UseInv, Asked

\* The word a fetch in progress reads.
LEMMA WordRead ==
  ASSUME Sourced, mem_state = 1, Asked, mem_valid, ~BranchPending
  PROVE  IF mem_la_secondword
           THEN /\ Odd(next_pc) /\ Wide(next_pc) /\ mem_16bit_buffer = next_pc
                /\ mem_rdata = <<PcPlus(next_pc, 1), PcPlus(next_pc, 2)>>
           ELSE IF Odd(next_pc) THEN mem_rdata[2] = next_pc
                                ELSE mem_rdata = <<next_pc, PcPlus(next_pc, 1)>>
<1>1. next_pc \in PC
  BY NextPcTyped
<1>2. IF mem_la_secondword
        THEN /\ Odd(next_pc) /\ Wide(next_pc) /\ mem_16bit_buffer = next_pc
             /\ mem_addr = (next_pc \div 2 + 1) % (PcN \div 2)
        ELSE mem_addr = next_pc \div 2
  BY SourcedFacts DEF Sourced, AddressInv
<1> QED
  BY <1>1, <1>2, HalvesOf DEF mem_rdata

LEMMA FetchLatched ==
  ASSUME Live, mem_do_rinst, mem_done
  PROVE  insn'.src = mem_rdata_latched /\ mem_rdata_q' = mem_rdata_latched
<1>1. insn' \in Decoded(mem_rdata_latched)
  BY LiveFacts DEF Clock, Decoder
<1>2. mem_rdata_q' = IF mem_xfer THEN mem_rdata_latched ELSE mem_rdata_q
  BY LiveFacts DEF Clock, MemInterface, WordCapture
<1>3. ASSUME ~mem_xfer PROVE mem_rdata_latched = mem_rdata_q
  <2>1. mem_state = 3 /\ ~mem_la_firstword
    BY <1>3 DEF mem_done
  <2>2. ~mem_la_secondword
    BY <2>1, LiveFacts DEF TransferInv
  <2> QED
    BY <1>3, <2>1, <2>2 DEF mem_rdata_latched, mem_la_use_prefetched_high_word
<1> QED
  BY <1>1, <1>2, <1>3 DEF Decoded

LEMMA FetchState ==
  ASSUME Sourced, mem_do_rinst, mem_done
  PROVE  (mem_state = 1 /\ mem_xfer) \/ (mem_state = 3 /\ ~latched_branch)
<1>1. mem_state # 0 /\ ~mem_do_wdata
  BY DoneWhenActive, SourcedFacts DEF RequestInv
<1>2. mem_state \in 0 .. 3
  BY LiveFacts DEF Sourced
<1>3. mem_state # 2
  BY <1>1, SourcedFacts DEF TransferInv
<1>4. mem_state = 3 => ~latched_branch
  BY SourcedFacts DEF TransferInv
<1>5. mem_xfer \/ mem_state = 3
  BY DEF mem_done
<1> QED
  BY <1>1, <1>2, <1>3, <1>4, <1>5

\* A fetch that is done has read the instruction at the next pc.
LEMMA FetchedWord ==
  ASSUME Sourced, mem_do_rinst, mem_done, ~BranchPending, Fetchable(next_pc)
  PROVE  FetchedFrom(mem_rdata_latched, next_pc)
<1>1. next_pc \in PC /\ Asked
  BY NextPcTyped DEF Asked
<1>2. CASE mem_la_use_prefetched_high_word
  <2>1. mem_rdata_latched = <<mem_16bit_buffer, X>>
    BY <1>2 DEF mem_rdata_latched, mem_la_use_prefetched_high_word, mem_la_firstword
  <2>2. ~Wide(mem_rdata_latched[1])
    BY <1>2 DEF mem_done, mem_la_use_prefetched_high_word
  <2> QED
    BY <1>2, <2>1, <2>2, BufferUsed DEF FetchedFrom
<1>3. CASE ~mem_la_use_prefetched_high_word /\ mem_state = 1
  <2>1. mem_valid /\ mem_xfer
    BY <1>3, FetchState, SourcedFacts DEF TransferInv
  <2>2. CASE mem_la_secondword
    <3>1. COMPRESSED_ISA
      BY <2>2, SourcedFacts DEF TransferInv
    <3>2. mem_rdata_latched = <<mem_16bit_buffer, mem_rdata[1]>>
      BY <1>3, <2>1, <2>2, <3>1 DEF mem_rdata_latched, mem_la_firstword
    <3> QED
      BY <1>1, <1>3, <2>1, <2>2, <3>2, WordRead DEF FetchedFrom
  <2>3. CASE ~mem_la_secondword /\ mem_la_firstword
    <3>1. mem_rdata_latched = <<mem_rdata[2], X>> /\ ~Wide(mem_rdata_latched[1])
      BY <1>3, <2>1, <2>3 DEF mem_rdata_latched, mem_done
    <3>2. Odd(next_pc) /\ COMPRESSED_ISA
      BY <2>3 DEF mem_la_firstword
    <3> QED
      BY <1>1, <1>3, <2>1, <2>3, <3>1, <3>2, WordRead DEF FetchedFrom
  <2>4. CASE ~mem_la_secondword /\ ~mem_la_firstword
    <3>1. mem_rdata_latched = mem_rdata
      BY <1>3, <2>1, <2>4 DEF mem_rdata_latched
    <3>2. ~Odd(next_pc)
      BY <1>1, <2>4 DEF mem_la_firstword, Fetchable, Asked
    <3> QED
      BY <1>1, <1>3, <2>1, <2>4, <3>1, <3>2, WordRead DEF FetchedFrom
  <2> QED
    BY <2>2, <2>3, <2>4
<1>4. CASE ~mem_la_use_prefetched_high_word /\ mem_state = 3
  <2>1. next_pc = reg_next_pc /\ ~Odd(next_pc)
    BY <1>4, FetchState, PlainPc, SourcedFacts DEF TransferInv, Fetchable
  <2>2. ~mem_la_firstword /\ ~mem_la_secondword /\ ~mem_valid
    BY <1>4, <2>1, SourcedFacts DEF mem_la_firstword, TransferInv
  <2>3. mem_rdata_latched = mem_rdata_q
    BY <1>4, <2>2 DEF mem_rdata_latched, mem_xfer
  <2>4. mem_rdata_q = <<next_pc, PcPlus(next_pc, 1)>>
    BY <1>1, <1>4, <2>1, HalvesOf DEF Sourced, WordInv
  <2> QED
    BY <2>3, <2>4 DEF FetchedFrom
<1> QED
  BY <1>2, <1>3, <1>4, FetchState

\* And it leaves the half word the next instruction begins with in the buffer.
LEMMA NextHalfRead ==
  ASSUME Sourced, FetchDone, COMPRESSED_ISA, prefetched_high_word',
         Odd(PcPlus(reg_next_pc, InsnLength))'
  PROVE  mem_16bit_buffer' = PcPlus(reg_next_pc, InsnLength)'
<1>1. /\ mem_do_rinst /\ mem_done /\ ~latched_branch /\ reg_next_pc' = reg_next_pc
      /\ next_pc = reg_next_pc /\ Asked /\ ~BranchPending /\ Live
  BY PlainPc, SourcedFacts DEF FetchDone, Asked, BranchPending
<1>2. next_pc \in PC
  BY <1>1, NextPcTyped
<1>3. InsnLength' = IF Wide(next_pc) THEN 2 ELSE 1
  <2>1. insn'.src[1] = next_pc
    BY <1>1, FetchLatched, FetchedWord DEF Fetchable, FetchedFrom
  <2>2. prog' = prog
    BY SourcedFacts DEF Clock
  <2> QED
    BY <2>1, <2>2 DEF InsnLength, compressed_instr, Wide
<1>4. IF Wide(next_pc) THEN Odd(next_pc) ELSE ~Odd(next_pc)
  <2>1. Odd(PcPlus(reg_next_pc', InsnLength'))
    BY DEF Odd, PcPlus
  <2> QED
    BY <1>1, <1>2, <1>3, <2>1, OddPlus
<1>5. ~mem_la_firstword
  <2>1. mem_la_firstword => Odd(next_pc) /\ ~Wide(mem_rdata_latched[1])
    BY <1>1 DEF mem_la_firstword, mem_done
  <2>2. mem_rdata_latched[1] = next_pc
    BY <1>1, FetchedWord DEF Fetchable, FetchedFrom
  <2> QED
    BY <1>4, <2>1, <2>2
<1>6. PcPlus(reg_next_pc, InsnLength)' = PcPlus(next_pc, IF Wide(next_pc) THEN 2 ELSE 1)
  BY <1>1, <1>3 DEF PcPlus
<1>7. CASE mem_state = 1
  <2>1. ReadCompletes /\ mem_valid /\ ~mem_do_rdata
    BY <1>1, <1>5, <1>7, DoneEnds, ReadCases, SourcedFacts
    DEF TransferInv, mem_la_use_prefetched_high_word, RequestInv
  <2>2. mem_16bit_buffer' = mem_rdata[2]
    BY <2>1 DEF ReadCompletes, HighWord
  <2>3. CASE mem_la_secondword
    BY <1>1, <1>6, <1>7, <2>1, <2>2, <2>3, WordRead
  <2>4. CASE ~mem_la_secondword
    <3>1. ~Odd(next_pc)
      BY <1>1, <1>5, <2>4 DEF mem_la_firstword
    <3> QED
      BY <1>1, <1>4, <1>6, <1>7, <2>1, <2>2, <2>4, <3>1, WordRead
  <2> QED
    BY <2>3, <2>4
<1>8. CASE mem_state = 3
  <2>1. KeepHighWord /\ ~Wide(next_pc)
    BY <1>1, <1>4, <1>8, PrefetchedCases, SourcedFacts DEF MemPrefetched, TransferInv
  <2>2. mem_16bit_buffer' = mem_16bit_buffer /\ prefetched_high_word
    BY <2>1 DEF KeepHighWord, HighWord
  <2> QED
    BY <1>1, <1>6, <1>8, <2>1, <2>2 DEF Sourced, WordInv
<1> QED
  BY <1>1, <1>7, <1>8, FetchState

------------------------------------------------------------------------------
(* Where the main state machine goes meanwhile.                            *)

LEMMA LiveStep == ASSUME Live PROVE MainStep /\ ~Reset /\ ~Trapped
BY LiveFacts DEF Reset, Trapped, Live

FetchActions == EnterIrq \/ WaitIrq \/ WaitIrqDone \/ LaunchJal \/ Launch \/ AwaitInsn
LoadActions ==
  \/ LdRs1Illegal \/ LdRs1Simple \/ LdRs1SetQ \/ LdRs1MaskIrq \/ LdRs1Timer
  \/ LdRs1RetIrq \/ LdRs1Load \/ LdRs1Imm \/ LdRs1ShiftImm \/ LdRs1SinglePort
  \/ Store \/ Shift \/ Alu \/ PcpiReady \/ PcpiAbort \/ PcpiWait
DataActions == \E state \in {"stmem", "ldmem"} : DataWaits(state) \/ DataAccess(state)

\* The actions of each state of the main state machine.
LEMMA StateActions ==
  ASSUME Live
  PROVE  \/ cpu_state = "fetch" /\ FetchActions
         \/ cpu_state \in {"ld_rs1", "ld_rs2"} /\ LoadActions
         \/ cpu_state = "exec" /\ (ExecWait \/ ExecBranch \/ ExecAlu)
         \/ cpu_state = "shift" /\ (ShiftStep \/ ShiftDone)
         \/ cpu_state \in {"stmem", "ldmem"} /\ DataActions
<1>1. FetchActions => cpu_state = "fetch"
  BY DEF FetchActions, EnterIrq, WaitIrq, WaitIrqDone, LaunchJal, Launch, AwaitInsn, Fetch
<1>2. LoadActions => cpu_state \in {"ld_rs1", "ld_rs2"}
  BY DEF LoadActions, LdRs1Illegal, LdRs1Simple, LdRs1SetQ, LdRs1MaskIrq, LdRs1Timer,
     LdRs1RetIrq, LdRs1Load, LdRs1Imm, LdRs1ShiftImm, LdRs1SinglePort, Store, Shift, Alu,
     PcpiReady, PcpiAbort, PcpiWait, Pcpi, SecondOperand, Step
<1>3. ExecWait \/ ExecBranch \/ ExecAlu => cpu_state = "exec"
  BY DEF ExecWait, ExecBranch, ExecAlu, Exec, Step
<1>4. ShiftStep \/ ShiftDone => cpu_state = "shift"
  BY DEF ShiftStep, ShiftDone, Step
<1>5. DataActions => cpu_state \in {"stmem", "ldmem"}
  BY DEF DataActions, DataWaits, DataAccess, DataPhase, Step
<1> QED
  BY <1>1, <1>2, <1>3, <1>4, <1>5, LiveStep DEF MainStep, FetchActions, LoadActions, DataActions

LEMMA FetchTriggers ==
  FetchActions => Trigger /\ \E pf, ri : Requests(pf, ri, "none")
BY DEF FetchActions, EnterIrq, WaitIrq, WaitIrqDone, LaunchJal, Launch, AwaitInsn, Fetch

LEMMA LoadTriggers ==
  LoadActions => Trigger /\ \E ri : Requests(mem_do_prefetch, ri, "none")
BY DEF LoadActions, LdRs1Illegal, LdRs1Simple, LdRs1SetQ, LdRs1MaskIrq, LdRs1Timer, LdRs1RetIrq,
   LdRs1Load, LdRs1Imm, LdRs1ShiftImm, LdRs1SinglePort, Store, Shift, Alu,
   PcpiReady, PcpiAbort, PcpiWait, Pcpi, LatchResult, Proceed

\* A data state that has its prefetch behind it.
LEMMA DataSource ==
  ASSUME Live, cpu_state \in {"stmem", "ldmem"}
  PROVE  \E state \in {"stmem", "ldmem"} :
           \/ DataWaits(state) /\ mem_do_prefetch /\ ~mem_done
           \/ DataAccess(state)
BY StateActions DEF DataActions, DataWaits, PrefetchOver

\* What is done is no longer asked for, and hands an instruction over.
LEMMA DoneOutcome ==
  ASSUME Live, mem_done, ~latched_branch'
  PROVE  ~Asked' /\ decoder_trigger'
<1>1. mem_do_rinst \/ mem_do_rdata \/ mem_do_wdata
  BY DoneWasAsked
<1>2. CASE cpu_state \in {"stmem", "ldmem"}
  <2>1. PICK state \in {"stmem", "ldmem"} : DataAccess(state)
    BY <1>2, DataSource
  <2>2. \E set \in {"none", "rdata", "wdata"} : Requests(mem_do_prefetch, mem_do_rinst, set)
    BY <2>1 DEF DataAccess
  <2>3. decoder_trigger'
    BY <1>2, <2>1, LiveFacts DEF DataAccess, StepInv
  <2> QED
    BY <2>2, <2>3 DEF Requests, Asked
<1>3. CASE cpu_state \notin {"stmem", "ldmem"}
  <2>1. mem_do_rinst
    BY <1>1, <1>3 DEF Live, RequestInv
  <2>2. CASE Trigger /\ \E pf, ri : Requests(pf, ri, "none")
    BY <2>1, <2>2 DEF Trigger, Requests, Asked
  <2>3. CASE ExecBranch
    BY <2>1, <2>3 DEF ExecBranch, Latch, Requests, Asked
  <2>4. ExecWait \/ ExecAlu \/ ShiftStep \/ ShiftDone =>
          Trigger /\ \E pf, ri : Requests(pf, ri, "none")
    BY DEF ExecWait, ExecAlu, ShiftStep, ShiftDone
  <2> QED
    BY <1>3, <2>2, <2>3, <2>4, StateActions, FetchTriggers, LoadTriggers
<1> QED
  BY <1>2, <1>3

\* An access that is not done keeps its state.
LEMMA AccessStays ==
  ASSUME Live, cpu_state \in {"stmem", "ldmem"}, ~mem_done
  PROVE  cpu_state' # "fetch"
<1>1. PICK state \in {"stmem", "ldmem"} : DataWaits(state) \/ DataAccess(state)
  BY DataSource
<1>2. DataAccess(state) => GoTo(state)
  BY DEF DataAccess
<1>3. GoTo(state)
  BY <1>1, <1>2 DEF DataWaits
<1> QED
  BY <1>3, Goes

\* From an idle memory interface only a fetch goes on towards an instruction.
LEMMA IdleOutcome ==
  ASSUME Live, NoRequests, mem_state = 0, ~latched_branch, ~latched_branch', irq_state = 0,
         irq_state' = 0, Asked' \/ Awaiting'
  PROVE  Launch \/ WaitIrqDone \/ AwaitInsn
<1>1. ~mem_done
  BY DoneWhenActive
<1>2. CASE cpu_state = "fetch"
  <2>1. ~EnterIrq
    BY DEF EnterIrq
  <2>2. ~LaunchJal
    BY DEF LaunchJal, Fetch, Latch
  <2>3. CASE WaitIrq
    <3>1. do_waitirq' /\ ~KeepFetching /\ Requests(mem_do_prefetch, KeepFetching, "none")
      BY <2>3 DEF WaitIrq, WaitTaken, KeepFetching
    <3>2. ~Asked'
      BY <3>1 DEF NoRequests, Requests, Asked
    <3> QED
      BY <3>1, <3>2 DEF Awaiting
  <2> QED
    BY <1>2, <2>1, <2>2, <2>3, StateActions DEF FetchActions
<1>3. CASE cpu_state \in {"ld_rs1", "ld_rs2"}
  <2>1. cpu_state = "ld_rs1" /\ insn.kind \in {"jalr", "retirq"}
    BY <1>3 DEF Live, RequestInv, NoRequests
  <2>2. ~LdRs1RetIrq
    BY DEF LdRs1RetIrq, Latch
  <2>3. LdRs1Imm /\ insn.kind = "jalr"
    BY <1>3, <2>1, <2>2, StateActions DEF LoadActions, LdRs1Illegal, LdRs1Simple, LdRs1SetQ,
       LdRs1MaskIrq, LdRs1Timer, LdRs1Load, LdRs1Imm, LdRs1ShiftImm, LdRs1SinglePort,
       Store, Shift, Alu, PcpiReady, PcpiAbort, PcpiWait, Pcpi, instr_trap
  <2>4. \E ri : Requests(mem_do_prefetch, ri, "none") /\ ~ri
    BY <2>3 DEF LdRs1Imm, Proceed, NoRequests
  <2>5. cpu_state' # "fetch"
    BY <2>3, Goes DEF LdRs1Imm, Proceed
  <2> QED
    BY <2>4, <2>5 DEF Asked, Awaiting, Requests, NoRequests
<1>4. CASE cpu_state = "exec"
  <2>1. insn.kind = "jalr"
    BY <1>4, LiveFacts DEF StepInv, NoRequests
  <2>2. ~ExecAlu /\ ~ExecBranch
    BY <2>1 DEF ExecAlu, ExecBranch, Latch
  <2>3. ExecWait
    BY <1>4, <2>2, StateActions
  <2>4. cpu_state' # "fetch" /\ Requests(mem_do_prefetch, mem_do_prefetch /\ ~alu_wait_2, "none")
    BY <2>3, Goes DEF ExecWait
  <2> QED
    BY <2>4 DEF Asked, Awaiting, Requests, NoRequests
<1>5. CASE cpu_state = "shift"
  BY <1>5, LiveFacts DEF StepInv, NoRequests
<1>6. CASE cpu_state \in {"stmem", "ldmem"}
  BY <1>6, LiveFacts DEF StepInv, NoRequests
<1> QED
  BY <1>2, <1>3, <1>4, <1>5, <1>6, StateActions

------------------------------------------------------------------------------
(* UseInv and NextHalfInv are kept.                                        *)

\* A launch, and a waitirq that is over, find the half word that comes next
\* where NextHalfInv says it is.
LEMMA NextHalfUsed ==
  ASSUME Sourced, Launch \/ WaitIrqDone, ~latched_branch, irq_state = 0,
         prefetched_high_word, Odd(next_pc)'
  PROVE  mem_16bit_buffer = next_pc'
<1>1. cpu_state = "fetch" /\ (decoder_trigger \/ do_waitirq)
  BY DEF Launch, WaitIrqDone, WaitTaken, Fetch
<1>2. reg_next_pc' = PcPlus(current_pc, InsnLength) /\ latched_branch' = FALSE
  BY DEF Launch, WaitIrqDone, Fetch, Latch
<1>3. current_pc = reg_next_pc
  BY DEF current_pc
<1>4. next_pc' = PcPlus(reg_next_pc, InsnLength)
  BY <1>2, <1>3 DEF next_pc
<1>5. Odd(PcPlus(reg_next_pc, InsnLength))
  BY <1>4 DEF Odd
<1> QED
  BY <1>1, <1>4, <1>5 DEF Sourced, NextHalfInv, Handed

LEMMA UseInvKept == ASSUME Sourced, resetn' PROVE UseInv'
<1> SUFFICES ASSUME prefetched_high_word', ~clear_prefetched_high_word', ~mem_la_secondword',
                    Asked' \/ Awaiting', Odd(next_pc)'
             PROVE  mem_16bit_buffer' = next_pc'
  BY DEF UseInv
<1>1. COMPRESSED_ISA /\ ~clear_prefetched_high_word /\ Live
  BY BufferNeedsIsa, BufferCleared, SourcedFacts
<1>2. ~latched_branch' /\ irq_state' = 0
  BY <1>1 DEF clear_prefetched_high_word
<1>3. ~latched_branch /\ irq_state = 0
  BY <1>1, SourcedFacts DEF clear_prefetched_high_word
<1>4. ~mem_done
  BY <1>1, <1>2, DoneOutcome DEF Awaiting
<1>5. CASE NoRequests
  <2>1. mem_state = 0
    <3>1. mem_state \in 0 .. 3 /\ mem_state # 1 /\ mem_state # 2 /\ mem_state # 3
      BY <1>1, <1>5, LiveFacts DEF TransferInv, NoRequests
    <3> QED
      BY <3>1
  <2>2. MemIdle
    BY <1>1, <2>1, MemCases
  <2>3. KeepHighWord /\ mem_la_secondword' = mem_la_secondword
    BY <2>2 DEF MemIdle
  <2>4. prefetched_high_word /\ mem_16bit_buffer' = mem_16bit_buffer /\ ~mem_la_secondword
    BY <2>3 DEF KeepHighWord, HighWord
  <2>5. CASE Launch \/ WaitIrqDone
    BY <1>3, <2>4, <2>5, NextHalfUsed
  <2>6. CASE AwaitInsn
    <3>1. Awaiting
      BY <2>6 DEF AwaitInsn, Fetch, Awaiting, Sourced, HandedInv, Handed
    <3>2. next_pc' = next_pc
      <4>1. reg_next_pc' = current_pc /\ latched_branch' = FALSE
        BY <2>6 DEF AwaitInsn, Fetch, Latch
      <4> QED
        BY <1>3, <4>1 DEF current_pc, next_pc
    <3>3. Odd(next_pc)
      BY <3>2 DEF Odd
    <3> QED
      BY <1>1, <2>4, <3>1, <3>2, <3>3 DEF Sourced, UseInv
  <2> QED
    BY <1>1, <1>2, <1>3, <1>5, <2>1, <2>5, <2>6, IdleOutcome
<1>6. CASE ~NoRequests
  <2>1. Holds
    BY <1>1, <1>4, <1>6, MainHolds
  <2>2. Steady
    BY <1>2, <1>3, <2>1 DEF Holds, Branching, Starting
  <2>3. Asked
    <3>1. ASSUME ~Asked PROVE FALSE
      <4>1. Awaiting'
        BY <2>1, <3>1 DEF Holds, Asked
      <4>2. cpu_state \in {"stmem", "ldmem"}
        BY <1>6, <3>1, SourcedFacts DEF Asked, NoRequests, RequestInv
      <4> QED
        BY <1>1, <1>4, <4>1, <4>2, AccessStays DEF Awaiting
    <3> QED
      BY <3>1
  <2>4. ~mem_do_rdata /\ ~mem_do_wdata
    BY <2>3, SourcedFacts DEF Asked, RequestInv
  <2>5. ~ReadCompletes \/ mem_state # 1
    <3> SUFFICES ASSUME ReadCompletes, mem_state = 1 PROVE FALSE
      OBVIOUS
    <3>1. CASE ~mem_do_rinst
      <4>1. PrefetchedInv'
        BY <1>1, <2>3, <3>1, PrefetchCompletes DEF Asked
      <4> QED
        BY <1>1, <1>2, <4>1 DEF PrefetchedInv, next_pc, Odd
    <3>2. CASE mem_do_rinst
      <4>1. mem_xfer /\ ~mem_la_read
        BY <1>1 DEF ReadCompletes
      <4>2. mem_la_firstword /\ Wide(mem_rdata_latched[1])
        BY <1>4, <3>2, <4>1, SourcedFacts DEF mem_done
      <4>3. ~mem_la_secondword
        BY <4>2 DEF mem_la_firstword
      <4>4. ~mem_la_firstword_xfer
        BY <4>1, <4>2, <4>3, SourcedFacts DEF mem_la_read
      <4>5. last_mem_valid => mem_la_firstword_reg = mem_la_firstword
        BY <1>3, <2>3, SourcedFacts DEF Sourced, AddressInv, BranchPending
      <4> QED
        BY <1>1, <4>1, <4>2, <4>4, <4>5 DEF mem_la_firstword_xfer
    <3> QED
      BY <3>1, <3>2
  <2>6. KeepHighWord /\ mem_la_secondword' = mem_la_secondword
    <3>1. mem_state # 2
      BY <2>4, SourcedFacts DEF TransferInv
    <3>2. MemIdle \/ ReadWaits \/ MemPrefetched
      <4>1. ReadSecondWord => mem_la_secondword'
        BY DEF ReadSecondWord
      <4> QED
        BY <1>1, <2>5, <3>1, <4>1, MemCases
    <3> QED
      BY <3>2 DEF MemIdle, ReadWaits, MemPrefetched
  <2>7. prefetched_high_word /\ mem_16bit_buffer' = mem_16bit_buffer /\ ~mem_la_secondword
    BY <2>6 DEF KeepHighWord, HighWord
  <2>8. next_pc' = next_pc /\ Odd(next_pc)
    BY <2>2 DEF Steady, Odd
  <2> QED
    BY <1>1, <2>3, <2>7, <2>8 DEF Sourced, UseInv
<1> QED
  BY <1>5, <1>6

\* Only waitirq waits for an interrupt.
LEMMA WaitingSource ==
  ASSUME Live, cpu_state' = "fetch", do_waitirq'
  PROVE  /\ WaitIrq /\ insn' = insn /\ KeepHighWord /\ reg_next_pc' = reg_next_pc
         /\ cpu_state = "fetch" /\ (decoder_trigger \/ do_waitirq) /\ ~decoder_trigger'
<1>1. WaitIrq
  <2>1. LoadActions \/ ShiftStep \/ ShiftDone \/ ExecWait \/ ExecBranch \/ ExecAlu => do_waitirq' = FALSE
    BY DEF LoadActions, LdRs1Illegal, LdRs1Simple, LdRs1SetQ, LdRs1MaskIrq, LdRs1Timer,
       LdRs1RetIrq, LdRs1Load, LdRs1Imm, LdRs1ShiftImm, LdRs1SinglePort, Store, Shift, Alu,
       PcpiReady, PcpiAbort, PcpiWait, Pcpi, SecondOperand, ExecWait, ExecBranch, ExecAlu,
       Exec, ShiftStep, ShiftDone, Step
  <2>2. DataActions => do_waitirq' = FALSE
    BY DEF DataActions, DataWaits, DataAccess, DataPhase, Step
  <2>3. EnterIrq \/ WaitIrqDone \/ LaunchJal \/ Launch \/ AwaitInsn => do_waitirq' = FALSE
    BY DEF EnterIrq, WaitIrqDone, LaunchJal, Launch, AwaitInsn
  <2> QED
    BY <2>1, <2>2, <2>3, StateActions DEF FetchActions
<1>2. cpu_state = "fetch" /\ (decoder_trigger \/ do_waitirq) /\ irq_state = 0
  BY <1>1, NotEntered DEF WaitIrq, WaitTaken, Fetch
<1>3. mem_state = 0 /\ NoRequests /\ ~latched_branch
  BY <1>2, LiveFacts DEF StepInv
<1>4. insn' = insn /\ ~decoder_trigger'
  BY <1>1, <1>3, DecoderHolds DEF Live, NoRequests, WaitIrq, Fetch, Trigger
<1>5. KeepHighWord
  BY <1>3, MemCases DEF MemIdle
<1>6. reg_next_pc' = reg_next_pc
  BY <1>1, <1>2, <1>3 DEF WaitIrq, Fetch, current_pc
<1> QED
  BY <1>1, <1>2, <1>4, <1>5, <1>6

\* Where a handed over instruction comes from.
LEMMA HandedSource ==
  ASSUME Live, Handed'
  PROVE  \/ FetchDone
         \/ DataPending /\ insn' = insn
         \/ WaitIrq /\ insn' = insn /\ cpu_state = "fetch" /\ ~decoder_trigger'
<1>1. CASE HandedOver'
  <2>1. DataPending => insn' = insn
    BY LiveFacts, DecoderHolds DEF DataPending, StepInv, Live
  <2> QED
    BY <1>1, <2>1, HandOver
<1>2. CASE ~HandedOver'
  <2>1. cpu_state' = "fetch" /\ do_waitirq'
    BY <1>2 DEF Handed, HandedOver
  <2> QED
    BY <2>1, WaitingSource
<1> QED
  BY <1>1, <1>2

LEMMA NextHalfInvKept == ASSUME Sourced, resetn' PROVE NextHalfInv'
<1> SUFFICES ASSUME prefetched_high_word', Handed', Odd(PcPlus(reg_next_pc, InsnLength))'
             PROVE  mem_16bit_buffer' = PcPlus(reg_next_pc, InsnLength)'
  BY DEF NextHalfInv
<1>1. COMPRESSED_ISA /\ Live
  BY BufferNeedsIsa, SourcedFacts
<1>2. CASE FetchDone
  BY <1>1, <1>2, NextHalfRead
<1>3. ASSUME KeepHighWord, insn' = insn, reg_next_pc' = reg_next_pc, Handed
      PROVE  mem_16bit_buffer' = PcPlus(reg_next_pc, InsnLength)'
  <2>1. prog' = prog
    BY SourcedFacts DEF Clock
  <2>2. InsnLength' = InsnLength
    BY <1>3, <2>1 DEF InsnLength, compressed_instr, Wide
  <2>3. PcPlus(reg_next_pc, InsnLength)' = PcPlus(reg_next_pc, InsnLength)
    BY <1>3, <2>2 DEF PcPlus
  <2>4. Odd(PcPlus(reg_next_pc, InsnLength))
    BY <2>3 DEF Odd
  <2>5. prefetched_high_word /\ mem_16bit_buffer' = mem_16bit_buffer
    BY <1>3 DEF KeepHighWord, HighWord
  <2> QED
    BY <1>3, <2>3, <2>4, <2>5 DEF Sourced, NextHalfInv
<1>4. CASE DataPending /\ insn' = insn
  BY <1>1, <1>3, <1>4, DataKeepsHighWord DEF DataPending, Handed
<1>5. CASE WaitIrq
  <2>1. cpu_state' = "fetch" /\ do_waitirq'
    <3>1. cpu_state' \in {"fetch", "trap"} /\ do_waitirq'
      BY <1>5, Goes DEF WaitIrq
    <3> QED
      BY <3>1 DEF Handed
  <2> QED
    BY <1>1, <1>3, <2>1, WaitingSource DEF Handed
<1> QED
  BY <1>1, <1>2, <1>4, <1>5, HandedSource

------------------------------------------------------------------------------
(* WordInv and AddressInv are kept.                                        *)

LEMMA WordInvKept == ASSUME Sourced, resetn' PROVE WordInv'
<1> SUFFICES ASSUME mem_state' = 3
             PROVE  /\ mem_rdata_q' = Halves(reg_next_pc \div 2)'
                    /\ (COMPRESSED_ISA /\ prefetched_high_word /\ ~Wide(reg_next_pc))' =>
                         mem_16bit_buffer' = PcPlus(reg_next_pc, 1)'
  BY DEF WordInv
<1>1. Live /\ prog' = prog
  BY SourcedFacts DEF Clock
<1>2. mem_state \in {1, 3} /\ ~mem_do_rinst /\ ~mem_do_rdata
  <2>1. mem_state # 0 /\ mem_state # 2
    BY <1>1, MemCases DEF MemIdle, MemWrite
  <2>2. mem_state = 3 => ~mem_do_rinst
    BY <1>1, PrefetchedCases
  <2>3. mem_state = 1 => ~mem_do_rinst /\ ~mem_do_rdata
    BY <1>1, ReadCases
  <2>4. mem_state = 3 => ~mem_do_rdata
    BY SourcedFacts DEF TransferInv, RequestInv
  <2> QED
    BY <1>1, <2>1, <2>2, <2>3, <2>4, LiveFacts
<1>3. mem_do_prefetch
  BY <1>2, SourcedFacts DEF TransferInv
<1>4. /\ reg_next_pc' = reg_next_pc /\ ~latched_branch /\ irq_state = 0
      /\ next_pc = reg_next_pc /\ next_pc \in PC /\ Asked
  BY <1>1, <1>2, <1>3, PrefetchStays, PrefetchAlone, PlainPc, NextPcTyped DEF Asked
<1>5. CASE mem_state = 1
  <2>1. ReadCompletes
    BY <1>1, <1>5, ReadCases
  <2>2. PrefetchedInv'
    BY <1>1, <1>2, <1>3, <1>5, <2>1, PrefetchCompletes
  <2>3. mem_xfer
    BY <2>1 DEF ReadCompletes
  <2>4. mem_valid /\ ~mem_la_secondword
    BY <1>2, <1>5, <2>3, SourcedFacts DEF mem_xfer, TransferInv
  <2>5. ~mem_la_firstword
    BY <1>1, <1>3, <1>4, <1>5, <2>4, PrefetchUsesBuffer
  <2>6. mem_addr = next_pc \div 2
    BY <1>4, <1>5, <2>4, SourcedFacts DEF Sourced, AddressInv, BranchPending
  <2>7. mem_rdata_q' = mem_rdata
    BY <2>3, <2>4, <2>5, SourcedFacts DEF Clock, MemInterface, WordCapture, mem_rdata_latched,
       mem_la_use_prefetched_high_word
  <2>8. mem_rdata_q' = Halves(reg_next_pc' \div 2)
    BY <1>4, <2>6, <2>7 DEF mem_rdata
  <2>9. ASSUME COMPRESSED_ISA, ~Wide(reg_next_pc) PROVE mem_16bit_buffer' = PcPlus(reg_next_pc, 1)
    <3>1. ~Odd(next_pc)
      BY <1>4, <2>2, <2>9 DEF PrefetchedInv, Odd
    <3>2. mem_rdata = <<next_pc, PcPlus(next_pc, 1)>>
      BY <1>4, <2>6, <3>1, HalvesOf DEF mem_rdata
    <3>3. mem_16bit_buffer' = mem_rdata[2]
      BY <1>2, <1>4, <2>1, <2>4, <2>9, <3>2 DEF ReadCompletes, HighWord
    <3> QED
      BY <1>4, <3>2, <3>3
  <2> QED
    BY <1>1, <1>4, <2>8, <2>9 DEF Wide, PcPlus, Halves
<1>6. CASE mem_state = 3
  <2>1. KeepHighWord /\ mem_rdata_q' = mem_rdata_q
    BY <1>1, <1>2, <1>6, PrefetchedCases, SourcedFacts
    DEF MemPrefetched, Clock, MemInterface, WordCapture, mem_xfer, TransferInv
  <2>2. /\ mem_16bit_buffer' = mem_16bit_buffer
        /\ prefetched_high_word' => prefetched_high_word
    BY <2>1 DEF KeepHighWord, HighWord
  <2> QED
    BY <1>1, <1>4, <1>6, <2>1, <2>2 DEF Sourced, WordInv, Wide, PcPlus, Halves
<1> QED
  BY <1>2, <1>5, <1>6

\* A branch waits for the fetch it drops.
LEMMA BranchWaits ==
  ASSUME Sourced, BranchPending, ~mem_done
  PROVE  BranchPending' \/ cpu_state' = "trap"
<1>1. ExecBranch /\ alu_out_0
  <2>1. insn.kind = "branch" /\ alu_out_0 /\ ~ExecWaits
    BY SourcedFacts DEF BranchPending, StepInv, LatchInv
  <2> QED
    BY <2>1, SourcedFacts, StateActions DEF BranchPending, ExecWait, ExecAlu
<1> QED
  BY <1>1, Goes DEF ExecBranch, Latch, BranchPending

\* While a fetch goes on, the pc it is for stays the same.
LEMMA NextPcHolds ==
  ASSUME Sourced, Asked, ~mem_done, ~BranchPending', cpu_state' # "trap"
  PROVE  next_pc' = next_pc /\ Holds /\ ~BranchPending
<1>1. Holds /\ Live
  BY MainHolds, SourcedFacts DEF Asked, NoRequests
<1>2. ~BranchPending
  BY BranchWaits
<1>3. CASE Steady
  BY <1>1, <1>2, <1>3 DEF Steady
<1>4. CASE Branching
  <2>1. ~latched_branch /\ latched_branch' /\ mem_do_prefetch /\ mem_do_rinst /\ irq_state = 0
    BY <1>4 DEF Branching
  <2>2. cpu_state' = "fetch"
    BY <1>1, <2>1, InvariantsNext DEF BranchPending, LatchInv, RequestInv, CpuStates
  <2>3. CASE cpu_state = "fetch"
    <3>1. ~decoder_trigger /\ ~do_waitirq
      BY <2>1, <2>3, SourcedFacts DEF StepInv, NoRequests
    <3>2. AwaitInsn
      BY <1>1, <2>1, <2>3, <3>1, StateActions
      DEF FetchActions, EnterIrq, IrqTaken, WaitIrq, WaitIrqDone, LaunchJal, Launch, WaitTaken
    <3> QED
      BY <2>1, <3>2 DEF AwaitInsn, Fetch, Latch
  <2>4. CASE cpu_state # "fetch"
    <3>1. cpu_state \in {"exec", "stmem", "ldmem"}
      BY <1>1, <2>1, <2>4, SourcedFacts, StateActions DEF RequestInv, StepInv
    <3>2. cpu_state = "exec"
      BY <1>1, <2>2, <3>1, AccessStays
    <3>3. ExecBranch \/ ExecAlu \/ ExecWait
      BY <1>1, <3>2, StateActions
    <3>4. insn.kind # "jalr"
      BY <2>1, <3>2, SourcedFacts DEF StepInv, NoRequests
    <3>5. ~ExecAlu /\ ~ExecWait
      BY <2>1, <3>4 DEF ExecAlu, ExecWait, Latch, latches
    <3>6. cpu_state' \in {IF mem_done THEN "fetch" ELSE "exec", "trap"}
      BY <3>3, <3>5, Goes DEF ExecBranch
    <3> QED
      BY <2>2, <3>6
  <2> QED
    BY <2>3, <2>4
<1>5. CASE Starting
  <2>1. (latched_branch \/ irq_state # 0) /\ ~mem_do_prefetch /\ mem_do_rinst
    BY <1>5 DEF Starting, Asked
  <2>2. cpu_state = "fetch"
    BY <1>2, <2>1, SourcedFacts DEF BranchPending, LatchInv
  <2>3. ~decoder_trigger /\ ~do_waitirq
    BY <2>1, <2>2, SourcedFacts DEF StepInv, NoRequests
  <2>4. EnterIrq \/ AwaitInsn
    BY <1>1, <2>2, <2>3, StateActions
    DEF FetchActions, WaitIrq, WaitIrqDone, LaunchJal, Launch, WaitTaken
  <2>5. reg_next_pc' = current_pc /\ latched_branch' = FALSE
    BY <2>4 DEF EnterIrq, AwaitInsn, Fetch, Latch
  <2>6. irq_state # 1
    BY <2>1, SourcedFacts DEF StepInv
  <2>7. latched_branch => ~latched_stalu
    BY <2>1, <2>2 DEF Sourced, JumpInv
  <2>8. current_pc = next_pc
    BY <2>6, <2>7 DEF current_pc, next_pc
  <2> QED
    BY <1>1, <1>2, <2>5, <2>8 DEF next_pc
<1> QED
  BY <1>1, <1>3, <1>4, <1>5 DEF Holds

\* The halfword in hand when a fetch goes on to the second word is the first
\* half of the instruction at the next pc.
LEMMA FirstHalfRead ==
  ASSUME Sourced, mem_state = 1, mem_xfer, mem_la_firstword, ~BranchPending
  PROVE  /\ mem_rdata_latched[1] = next_pc
         /\ mem_rdata_latched[1] =
              IF mem_la_use_prefetched_high_word THEN mem_16bit_buffer ELSE mem_rdata[2]
<1>1. Asked /\ Odd(next_pc) /\ ~mem_la_secondword
  BY DEF mem_la_firstword, Asked
<1>2. CASE mem_la_use_prefetched_high_word
  BY <1>2, BufferUsed DEF mem_rdata_latched
<1>3. CASE ~mem_la_use_prefetched_high_word
  <2>1. mem_rdata_latched = <<mem_rdata[2], X>>
    BY <1>1, <1>3 DEF mem_rdata_latched
  <2>2. mem_valid
    BY <1>3, SourcedFacts DEF TransferInv
  <2> QED
    BY <1>1, <1>3, <2>1, <2>2, WordRead
<1> QED
  BY <1>2, <1>3

LEMMA AddressInvKept == ASSUME Sourced, resetn' PROVE AddressInv'
<1> SUFFICES ASSUME mem_state' = 1, Asked', ~BranchPending', cpu_state' # "trap"
             PROVE  /\ mem_valid' =>
                         IF mem_la_secondword'
                           THEN /\ Odd(next_pc') /\ Wide(next_pc)' /\ mem_16bit_buffer' = next_pc'
                                /\ mem_addr' = (next_pc' \div 2 + 1) % (PcN \div 2)
                           ELSE mem_addr' = next_pc' \div 2
                    /\ last_mem_valid' => mem_la_firstword_reg' = mem_la_firstword'
  BY DEF AddressInv, Odd
<1>1. Live /\ prog' = prog
  BY SourcedFacts DEF Clock
<1>2. ~mem_done
  BY <1>1, DoneEnds
<1>3. ~NoRequests
  <2>1. mem_state = 0 \/ mem_state = 1
    BY <1>1, MemCases DEF MemWrite, MemPrefetched
  <2> QED
    BY <1>1, <2>1, StaysIdle, SourcedFacts DEF TransferInv, NoRequests
<1>4. Asked
  BY <1>1, <1>2, <1>3, MainHolds DEF Holds, Asked
<1>5. next_pc' = next_pc /\ Holds /\ ~BranchPending /\ next_pc \in PC
  BY <1>2, <1>4, NextPcHolds, NextPcTyped
<1>6. ~mem_do_rdata /\ ~mem_do_wdata
  BY <1>4, SourcedFacts DEF Asked, RequestInv
<1>7. last_mem_valid' = (mem_valid /\ ~mem_ready)
  BY SourcedFacts DEF Clock, MemInterface, FirstwordTracking
<1>8. CASE mem_state = 0
  <2>1. MemIdle /\ ~mem_valid /\ ~mem_la_secondword
    BY <1>1, <1>8, MemCases, SourcedFacts DEF TransferInv
  <2>2. ~last_mem_valid' /\ ~mem_la_secondword'
    BY <1>7, <2>1 DEF MemIdle
  <2>3. ASSUME mem_valid' PROVE mem_addr' = next_pc \div 2
    <3>1. ~mem_la_use_prefetched_high_word
      BY <1>4, <1>6, <2>1, <2>3 DEF MemIdle, Asked
    <3>2. mem_la_read
      BY <1>4, <1>8, <3>1, SourcedFacts DEF mem_la_read, Asked
    <3>3. ~mem_la_firstword_xfer
      BY <2>1, <3>1 DEF mem_la_firstword_xfer, mem_xfer
    <3>4. mem_addr' = (next_pc \div 2 + 0) % (PcN \div 2)
      BY <1>4, <2>1, <3>2, <3>3 DEF MemIdle, LookAheadAddress, mem_la_addr, Asked
    <3>5. next_pc \div 2 \in Nat /\ (next_pc \div 2) % (PcN \div 2) = next_pc \div 2
      BY <1>5, HalvesOf DEF Words
    <3>6. next_pc \div 2 + 0 = next_pc \div 2
      BY <3>5
    <3> QED
      BY <3>4, <3>5, <3>6
  <2> QED
    BY <1>5, <2>2, <2>3
<1>9. CASE ReadWaits /\ mem_state = 1
  <2>1. /\ UNCHANGED <<mem_valid, mem_addr, mem_la_secondword>> /\ KeepHighWord /\ ~mem_xfer
    BY <1>9 DEF ReadWaits, bus
  <2>2. mem_16bit_buffer' = mem_16bit_buffer
    BY <2>1 DEF KeepHighWord, HighWord
  <2>3. ASSUME mem_valid'
        PROVE  IF mem_la_secondword'
                 THEN /\ Odd(next_pc') /\ Wide(next_pc)' /\ mem_16bit_buffer' = next_pc'
                      /\ mem_addr' = (next_pc' \div 2 + 1) % (PcN \div 2)
                 ELSE mem_addr' = next_pc' \div 2
    <3>1. Wide(next_pc)' <=> Wide(next_pc)
      BY <1>1, <1>5 DEF Wide
    <3>2. IF mem_la_secondword
            THEN /\ Odd(next_pc) /\ Wide(next_pc) /\ mem_16bit_buffer = next_pc
                 /\ mem_addr = (next_pc \div 2 + 1) % (PcN \div 2)
            ELSE mem_addr = next_pc \div 2
      BY <1>4, <1>5, <1>9, <2>1, <2>3, SourcedFacts DEF Sourced, AddressInv
    <3> QED
      BY <1>5, <2>1, <2>2, <3>1, <3>2
  <2>4. mem_la_firstword' <=> mem_la_firstword
    <3>1. Asked' /\ Asked
      BY <1>4
    <3> QED
      BY <1>5, <2>1, <3>1 DEF mem_la_firstword, Asked, Odd
  <2>5. ASSUME last_mem_valid' PROVE mem_la_firstword_reg' = mem_la_firstword
    <3>1. mem_la_firstword_reg' = IF last_mem_valid THEN mem_la_firstword_reg ELSE mem_la_firstword
      <4>1. mem_la_firstword_reg' = (resetn /\ IF last_mem_valid THEN mem_la_firstword_reg
                                                                 ELSE mem_la_firstword)
        BY SourcedFacts DEF Clock, MemInterface, FirstwordTracking
      <4>2. mem_la_firstword_reg \in BOOLEAN /\ mem_la_firstword \in BOOLEAN
        BY <1>1 DEF Live, TypeOK, MemTypeOK, mem_la_firstword
      <4> QED
        BY <4>1, <4>2, SourcedFacts
    <3> QED
      BY <1>4, <1>5, <1>9, <3>1, SourcedFacts DEF Sourced, AddressInv
  <2> QED
    BY <2>3, <2>4, <2>5
<1>10. CASE ReadSecondWord /\ mem_state = 1
  <2>1. /\ COMPRESSED_ISA /\ mem_la_read /\ mem_valid' = TRUE /\ mem_la_secondword' = TRUE
        /\ mem_16bit_buffer' =
             IF mem_la_use_prefetched_high_word THEN mem_16bit_buffer ELSE mem_rdata[2]
        /\ mem_addr' = mem_la_addr
    BY <1>10 DEF ReadSecondWord, HighWord, LookAheadAddress
  <2>2. mem_la_firstword /\ mem_xfer /\ ~mem_la_secondword /\ Wide(mem_rdata_latched[1])
    BY <1>1, <1>10, <2>1, SecondWordRead
  <2>3. mem_16bit_buffer' = next_pc /\ Wide(next_pc) /\ Odd(next_pc)
    BY <1>5, <1>10, <2>1, <2>2, FirstHalfRead DEF mem_la_firstword
  <2>4. mem_addr' = (next_pc \div 2 + 1) % (PcN \div 2)
    <3>1. mem_la_firstword_xfer
      BY <1>10, <2>1 DEF mem_la_read
    <3> QED
      BY <1>4, <2>1, <3>1 DEF mem_la_addr, Asked
  <2>5. ~last_mem_valid'
    BY <1>7, <1>10, <2>2, SourcedFacts DEF mem_xfer, TransferInv
  <2>6. Wide(next_pc)'
    BY <1>1, <1>5, <2>3 DEF Wide
  <2> QED
    BY <1>5, <2>1, <2>3, <2>4, <2>5, <2>6
<1> QED
  BY <1>1, <1>8, <1>9, <1>10, MemCases, ReadCases DEF MemWrite, MemPrefetched

------------------------------------------------------------------------------
(* HandedInv, ExecutedInv and JumpInv are kept.                            *)

\* A step of an access that is under way.
LEMMA PendingStep ==
  ASSUME Live, DataPending
  PROVE  /\ cpu_state # "fetch" /\ Handed /\ insn' = insn
         /\ decoder_trigger' <=> mem_done
         /\ mem_done => decoder_pseudo_trigger' /\ cpu_state' \in {"fetch", "trap"}
         /\ insn_q' = IF decoder_trigger /\ ~decoder_pseudo_trigger THEN mem_rdata_q ELSE insn_q
<1>1. cpu_state \in {"stmem", "ldmem"} /\ ~mem_do_prefetch /\ ~mem_do_rinst
  BY LiveFacts DEF DataPending, StepInv
<1>2. insn' = insn
  BY <1>1, DecoderHolds DEF Live
<1>3. PICK state \in {"stmem", "ldmem"} : DataAccess(state)
  BY <1>1, DataSource
<1>4. decoder_trigger' <=> mem_done
  BY <1>1, <1>3 DEF DataAccess
<1>5. decoder_pseudo_trigger' <=> mem_done
  BY <1>1, <1>3 DEF DataAccess
<1>6. mem_done => GoTo("fetch")
  BY <1>1, <1>3 DEF DataAccess
<1>7. insn_q' = IF decoder_trigger /\ ~decoder_pseudo_trigger THEN mem_rdata_q ELSE insn_q
  BY LiveFacts DEF Clock, Decoder, DecodeStage2
<1> QED
  BY <1>1, <1>2, <1>4, <1>5, <1>6, <1>7, Goes DEF Handed

\* A fetch that is done hands over what it read.
LEMMA FetchDoneStep ==
  ASSUME Live, FetchDone, ~latched_branch'
  PROVE  decoder_trigger' /\ ~decoder_pseudo_trigger' /\ mem_state' = 0
<1>1. mem_do_rinst /\ mem_done
  BY DEF FetchDone
<1>2. CASE cpu_state \in {"stmem", "ldmem"}
  <2>1. mem_do_prefetch
    BY <1>1, <1>2, LiveFacts DEF StepInv
  <2>2. PICK state \in {"stmem", "ldmem"} : DataAccess(state)
    BY <1>1, <1>2, DataSource
  <2> QED
    BY <1>1, <2>1, <2>2, DoneOutcome, DoneEnds DEF DataAccess
<1>3. CASE cpu_state \notin {"stmem", "ldmem"}
  <2>1. ~decoder_pseudo_trigger'
    BY <1>3, StateActions, FetchTriggers, LoadTriggers
    DEF Trigger, ExecWait, ExecBranch, ExecAlu, ShiftStep, ShiftDone
  <2> QED
    BY <1>1, <2>1, DoneOutcome, DoneEnds
<1> QED
  BY <1>2, <1>3


LEMMA HandedInvKept == ASSUME Sourced PROVE HandedInv'
<1> SUFFICES ASSUME Handed' PROVE
      /\ Fetchable(reg_next_pc)' => FetchedFrom(insn.src, reg_next_pc)'
      /\ decoder_trigger' =>
           /\ Fetchable(reg_next_pc)' =>
                FetchedFrom(IF decoder_pseudo_trigger THEN insn_q ELSE mem_rdata_q, reg_next_pc)'
           /\ cpu_state' # "fetch" => mem_state' = 0 /\ ~decoder_pseudo_trigger'
      /\ (cpu_state # "fetch" /\ ~decoder_trigger /\ Fetchable(reg_next_pc))' =>
           FetchedFrom(insn_q, reg_next_pc)'
      /\ cpu_state' = "fetch" /\ do_waitirq' => WaitTaken'
  BY DEF HandedInv
<1>1. Live /\ prog' = prog
  BY SourcedFacts DEF Clock
<1>2. reg_next_pc' = reg_next_pc => (Fetchable(reg_next_pc)' <=> Fetchable(reg_next_pc))
  BY DEF Fetchable, Odd
<1>3. ASSUME cpu_state' = "fetch", do_waitirq' PROVE WaitTaken'
  BY <1>1, <1>3, WaitingSource DEF WaitIrq, WaitTaken
<1>4. CASE FetchDone
  <2>1. next_pc = reg_next_pc /\ reg_next_pc' = reg_next_pc /\ ~BranchPending /\ mem_do_rinst /\ mem_done
    BY <1>4, PlainPc DEF FetchDone, BranchPending
  <2>2. ~latched_branch'
    <3>1. CASE cpu_state' \in {"stmem", "ldmem"}
      BY <1>1, <3>1, InvariantsNext DEF LatchInv
    <3>2. CASE cpu_state' = "fetch"
      BY <1>1, <3>2, StepKept DEF StepInv, Handed
    <3> QED
      BY <3>1, <3>2 DEF Handed
  <2>3. decoder_trigger' /\ ~decoder_pseudo_trigger' /\ mem_state' = 0
    BY <1>1, <1>4, <2>2, FetchDoneStep
  <2>4. insn'.src = mem_rdata_latched /\ mem_rdata_q' = mem_rdata_latched
    BY <1>1, <2>1, FetchLatched
  <2>5. ASSUME Fetchable(reg_next_pc)' PROVE FetchedFrom(mem_rdata_latched, reg_next_pc)
    BY <1>2, <2>1, <2>5, FetchedWord
  <2>6. ASSUME Fetchable(reg_next_pc)'
        PROVE  FetchedFrom(insn.src, reg_next_pc)' /\ FetchedFrom(mem_rdata_q, reg_next_pc)'
    BY <1>1, <2>1, <2>4, <2>5, <2>6 DEF FetchedFrom, Wide, PcPlus
  <2> QED
    BY <1>3, <2>3, <2>6
<1>5. CASE DataPending
  <2>1. /\ cpu_state # "fetch" /\ Handed /\ insn' = insn
        /\ decoder_trigger' <=> mem_done
        /\ mem_done => decoder_pseudo_trigger' /\ cpu_state' \in {"fetch", "trap"}
        /\ insn_q' = IF decoder_trigger /\ ~decoder_pseudo_trigger THEN mem_rdata_q ELSE insn_q
        /\ reg_next_pc' = reg_next_pc
    BY <1>1, <1>5, PendingStep DEF DataPending
  <2>2. decoder_trigger => ~decoder_pseudo_trigger
    BY <2>1 DEF Sourced, HandedInv
  <2>3. ASSUME Fetchable(reg_next_pc)'
        PROVE  FetchedFrom(insn'.src, reg_next_pc) /\ FetchedFrom(insn_q', reg_next_pc)
    <3>1. Fetchable(reg_next_pc)
      BY <1>2, <2>1, <2>3
    <3> QED
      BY <2>1, <2>2, <3>1 DEF Sourced, HandedInv
  <2>4. ASSUME Fetchable(reg_next_pc)'
        PROVE  FetchedFrom(insn.src, reg_next_pc)' /\ FetchedFrom(insn_q, reg_next_pc)'
    BY <1>1, <2>1, <2>3, <2>4 DEF FetchedFrom, Wide, PcPlus
  <2>5. decoder_trigger' => cpu_state' = "fetch" /\ decoder_pseudo_trigger'
    BY <2>1 DEF Handed
  <2> QED
    BY <1>3, <2>4, <2>5
<1>6. CASE WaitIrq /\ insn' = insn /\ cpu_state = "fetch" /\ ~decoder_trigger'
  <2>1. cpu_state' = "fetch" /\ do_waitirq'
    <3>1. cpu_state' \in {"fetch", "trap"} /\ do_waitirq'
      BY <1>6, Goes DEF WaitIrq
    <3> QED
      BY <3>1 DEF Handed
  <2>2. reg_next_pc' = reg_next_pc /\ (decoder_trigger \/ do_waitirq)
    BY <1>1, <2>1, WaitingSource
  <2>3. ASSUME Fetchable(reg_next_pc)' PROVE FetchedFrom(insn.src, reg_next_pc)'
    <3>1. Fetchable(reg_next_pc)
      BY <1>2, <2>2, <2>3
    <3>2. FetchedFrom(insn.src, reg_next_pc)
      BY <1>6, <2>2, <3>1 DEF Sourced, HandedInv, Handed
    <3> QED
      BY <1>1, <1>6, <2>2, <3>2 DEF FetchedFrom, Wide, PcPlus
  <2> QED
    BY <1>3, <1>6, <2>1, <2>3
<1> QED
  BY <1>1, <1>4, <1>5, <1>6, HandedSource

\* An instruction that is not over stays in both stages of the decoder.
LEMMA ExecutingStays ==
  ASSUME Sourced, Executing', ~Launch
  PROVE  /\ Executing /\ reg_pc' = reg_pc /\ insn' = insn /\ insn_q' = insn_q
         /\ ~decoder_trigger'
<1>1. Live
  BY SourcedFacts
<1>2. cpu_state # "fetch"
  <2>1. FetchActions /\ ~Launch => cpu_state' \in {"fetch", "trap"}
    BY Goes DEF FetchActions, EnterIrq, WaitIrq, WaitIrqDone, LaunchJal, AwaitInsn
  <2> QED
    BY <1>1, <2>1, StateActions DEF Executing
<1>3. Executing
  <2>1. CASE cpu_state \in {"stmem", "ldmem"}
    <3>1. cpu_state' \in {"stmem", "ldmem"}
      <4>1. PICK state \in {"stmem", "ldmem"} : DataWaits(state) \/ DataAccess(state)
        BY <1>1, <2>1, DataSource
      <4>2. GoTo(state) \/ GoTo("fetch")
        BY <4>1 DEF DataWaits, DataAccess
      <4> QED
        BY <4>2, Goes DEF Executing
    <3> QED
      BY <1>1, <2>1, <3>1, PrefetchOpened DEF Executing
  <2>2. CASE cpu_state \notin {"stmem", "ldmem"}
    BY <1>1, <1>2, <2>2, SourcedFacts DEF Executing, RequestInv, CpuStates
  <2> QED
    BY <2>1, <2>2
<1>4. ~(mem_do_rinst /\ mem_done)
  <2> SUFFICES ASSUME mem_do_rinst, mem_done PROVE FALSE
    OBVIOUS
  <2>1. ~mem_do_prefetch'
    BY <1>1, <1>2, PrefetchOpened
  <2>2. cpu_state' \in {"ld_rs1", "ld_rs2", "exec", "shift"}
    BY <2>1 DEF Executing
  <2>3. cpu_state \in {"exec", "stmem", "ldmem"}
    BY <1>1, <1>2, SourcedFacts DEF RequestInv, StepInv, CpuStates
  <2>4. cpu_state = "exec"
    <3>1. CASE cpu_state \in {"stmem", "ldmem"}
      <4>1. PICK state \in {"stmem", "ldmem"} : DataWaits(state) \/ DataAccess(state)
        BY <1>1, <3>1, DataSource
      <4>2. GoTo(state) \/ GoTo("fetch")
        BY <4>1 DEF DataWaits, DataAccess
      <4> QED
        BY <2>2, <4>2, Goes
    <3> QED
      BY <2>3, <3>1
  <2>5. ~ExecWait
    BY <2>4, SourcedFacts DEF ExecWait, StepInv, NoRequests
  <2>6. ExecBranch \/ ExecAlu => cpu_state' \in {"fetch", "trap"}
    BY Goes DEF ExecBranch, ExecAlu
  <2> QED
    BY <1>1, <2>2, <2>4, <2>5, <2>6, StateActions
<1>5. insn' = insn
  BY <1>1, <1>4, DecoderHolds DEF Live
<1>6. insn_q' = insn_q
  BY <1>3, SourcedFacts DEF Sourced, ExecutedInv, Clock, Decoder, DecodeStage2
<1>7. \E state \in CpuStates : Step(state)
  <2>1. LoadActions => \E state \in CpuStates : Step(state)
    BY DEF LoadActions, LdRs1Illegal, LdRs1Simple, LdRs1SetQ, LdRs1MaskIrq, LdRs1Timer,
       LdRs1RetIrq, LdRs1Load, LdRs1Imm, LdRs1ShiftImm, LdRs1SinglePort, Store, Shift, Alu,
       PcpiReady, PcpiAbort, PcpiWait, Pcpi, SecondOperand, CpuStates
  <2>2. ExecWait \/ ExecBranch \/ ExecAlu \/ ShiftStep \/ ShiftDone =>
          \E state \in CpuStates : Step(state)
    BY DEF ExecWait, ExecBranch, ExecAlu, Exec, ShiftStep, ShiftDone, CpuStates
  <2>3. DataActions => \E state \in CpuStates : Step(state)
    BY DEF DataActions, DataWaits, DataAccess, DataPhase, CpuStates
  <2> QED
    BY <1>1, <1>2, <2>1, <2>2, <2>3, StateActions
<1>8. ~decoder_trigger'
  <2>1. CASE cpu_state \in {"stmem", "ldmem"}
    <3>1. mem_do_prefetch
      BY <1>3, <2>1 DEF Executing
    <3> QED
      BY <1>1, <1>4, <2>1, <3>1, DataSource DEF DataWaits, DataAccess, Trigger
  <2>2. CASE cpu_state \notin {"stmem", "ldmem"}
    BY <1>1, <1>2, <1>4, <2>2, StateActions, LoadTriggers
    DEF Trigger, ExecWait, ExecBranch, ExecAlu, ShiftStep, ShiftDone
  <2> QED
    BY <2>1, <2>2
<1> QED
  BY <1>3, <1>5, <1>6, <1>7, <1>8 DEF Step

LEMMA ExecutedInvKept == ASSUME Sourced PROVE ExecutedInv'
<1> SUFFICES ASSUME Executing'
             PROVE  /\ ~decoder_trigger'
                    /\ Fetchable(reg_pc)' => FetchedFrom(insn.src, reg_pc)' /\ FetchedFrom(insn_q, reg_pc)'
  BY DEF ExecutedInv
<1>1. Live /\ prog' = prog
  BY SourcedFacts DEF Clock
<1>2. CASE Launch
  <2>1. /\ cpu_state = "fetch" /\ decoder_trigger /\ ~latched_branch /\ irq_state = 0
        /\ NoRequests /\ Handed
    BY <1>1, <1>2, LaunchFacts DEF Handed
  <2>2. reg_pc' = reg_next_pc /\ ~decoder_trigger'
    <3>1. current_pc = reg_next_pc
      BY <2>1 DEF current_pc
    <3> QED
      BY <1>2, <2>1, <3>1 DEF Launch, Fetch, Trigger, NoRequests
  <2>3. insn' = insn
    BY <1>1, <2>1, DecoderHolds DEF Live, NoRequests
  <2>4. insn_q' = IF decoder_pseudo_trigger THEN insn_q ELSE mem_rdata_q
    BY <2>1, SourcedFacts DEF Clock, Decoder, DecodeStage2
  <2>5. ASSUME Fetchable(reg_pc)'
        PROVE  FetchedFrom(insn'.src, reg_next_pc) /\ FetchedFrom(insn_q', reg_next_pc)
    <3>1. Fetchable(reg_next_pc)
      BY <2>2, <2>5 DEF Fetchable, Odd
    <3> QED
      BY <2>1, <2>3, <2>4, <3>1 DEF Sourced, HandedInv
  <2>6. ASSUME Fetchable(reg_pc)'
        PROVE  FetchedFrom(insn.src, reg_pc)' /\ FetchedFrom(insn_q, reg_pc)'
    BY <1>1, <2>2, <2>5, <2>6 DEF FetchedFrom, Wide, PcPlus
  <2> QED
    BY <2>2, <2>6
<1>3. CASE ~Launch
  <2>1. Executing /\ reg_pc' = reg_pc /\ insn' = insn /\ insn_q' = insn_q /\ ~decoder_trigger'
    BY <1>3, ExecutingStays
  <2>2. ASSUME Fetchable(reg_pc)' PROVE FetchedFrom(insn.src, reg_pc) /\ FetchedFrom(insn_q, reg_pc)
    BY <2>1, <2>2 DEF Sourced, ExecutedInv, Fetchable, Odd
  <2>3. ASSUME Fetchable(reg_pc)'
        PROVE  FetchedFrom(insn.src, reg_pc)' /\ FetchedFrom(insn_q, reg_pc)'
    BY <1>1, <2>1, <2>2, <2>3 DEF FetchedFrom, Wide, PcPlus
  <2> QED
    BY <2>1, <2>3
<1> QED
  BY <1>2, <1>3

LEMMA JumpInvKept == ASSUME Sourced, resetn' PROVE JumpInv'
<1> SUFFICES ASSUME cpu_state' = "fetch", latched_branch', latched_stalu' PROVE ~mem_do_rinst'
  BY DEF JumpInv
<1>1. Live
  BY SourcedFacts
<1>2. ~FetchActions
  BY DEF FetchActions, EnterIrq, WaitIrq, WaitIrqDone, LaunchJal, Launch, AwaitInsn, Fetch, Latch
<1>3. ~latched_stalu
  BY <1>1, <1>2, StateActions, SourcedFacts DEF LatchInv
<1>4. LoadActions => latched_stalu' = latched_stalu
  BY DEF LoadActions, LdRs1Illegal, LdRs1Simple, LdRs1SetQ, LdRs1MaskIrq, LdRs1Timer,
     LdRs1RetIrq, LdRs1Load, LdRs1Imm, LdRs1ShiftImm, LdRs1SinglePort, Store, Shift, Alu,
     PcpiReady, PcpiAbort, PcpiWait, Pcpi, LatchResult, Proceed, Latch, latches
<1>5. ExecWait \/ ExecBranch \/ ShiftStep \/ ShiftDone \/ DataActions => latched_stalu' = latched_stalu
  BY DEF ExecWait, ExecBranch, ShiftStep, ShiftDone, DataActions, DataWaits, DataAccess,
     DataPhase, Latch, latches
<1>6. ExecAlu /\ cpu_state = "exec"
  BY <1>1, <1>2, <1>3, <1>4, <1>5, StateActions
<1>7. insn.kind = "jalr" /\ Requests(mem_do_prefetch, mem_do_rinst, "none")
  BY <1>6 DEF ExecAlu, Latch
<1> QED
  BY <1>6, <1>7, SourcedFacts DEF StepInv, NoRequests, Requests

------------------------------------------------------------------------------
(* SourceInv is inductive.                                                 *)

LEMMA SourceInvInit == Init => SourceInv
BY DEF Init, SourceInv, AddressInv, UseInv, NextHalfInv, WordInv, ExecutedInv, HandedInv,
   JumpInv, Executing, Handed

LEMMA ResetSources == ASSUME Next, ~resetn PROVE SourceInv'
<1>1. /\ cpu_state' = "fetch" /\ do_waitirq' = FALSE /\ latched_branch' = FALSE
      /\ ~decoder_trigger' /\ mem_state' = 0 /\ ~prefetched_high_word'
  BY ResetStep DEF Reset, MemHalted, HighWord, Latch, Trigger, mem_done
<1>2. ~Handed' /\ ~Executing'
  BY <1>1 DEF Handed, Executing
<1> QED
  BY <1>1, <1>2 DEF SourceInv, AddressInv, UseInv, NextHalfInv, WordInv, ExecutedInv, HandedInv,
     JumpInv

LEMMA StutterSources == ASSUME SourceInv, UNCHANGED vars PROVE SourceInv'
<1> USE DEF vars, inputs, bus, requests, fetchUnit, decoder, latches, interrupts, datapath
<1>1. /\ next_pc' = next_pc /\ (Asked' <=> Asked) /\ (Handed' <=> Handed)
      /\ (Executing' <=> Executing) /\ (Awaiting' <=> Awaiting)
      /\ (BranchPending' <=> BranchPending)
  BY DEF next_pc, Asked, Handed, Executing, Awaiting, BranchPending
<1>2. /\ mem_la_firstword' = mem_la_firstword
      /\ clear_prefetched_high_word' = clear_prefetched_high_word
      /\ InsnLength' = InsnLength
  BY DEF mem_la_firstword, next_pc, clear_prefetched_high_word, Odd, InsnLength,
     compressed_instr, Wide
<1>3. AddressInv => AddressInv'
  BY <1>1, <1>2 DEF AddressInv, Odd, Wide
<1>4. UseInv => UseInv'
  BY <1>1, <1>2 DEF UseInv, Odd
<1>5. NextHalfInv => NextHalfInv'
  BY <1>1, <1>2 DEF NextHalfInv, Odd, PcPlus
<1>6. WordInv => WordInv'
  BY DEF WordInv, Halves, Wide, PcPlus
<1>7. ExecutedInv => ExecutedInv'
  BY <1>1 DEF ExecutedInv, Fetchable, FetchedFrom, Odd, Wide, PcPlus
<1>8. HandedInv => HandedInv'
  BY <1>1 DEF HandedInv, Fetchable, FetchedFrom, Odd, Wide, PcPlus, WaitTaken
<1>9. JumpInv => JumpInv'
  BY DEF JumpInv
<1> QED
  BY <1>3, <1>4, <1>5, <1>6, <1>7, <1>8, <1>9 DEF SourceInv, Running

LEMMA SourceInvNext == CoreInv /\ SourceInv /\ [Next]_vars => SourceInv'
<1> SUFFICES ASSUME CoreInv, SourceInv, [Next]_vars PROVE SourceInv'
  OBVIOUS
<1>1. CASE UNCHANGED vars
  BY <1>1, StutterSources
<1>2. CASE Next /\ ~resetn
  BY <1>2, ResetSources
<1>3. CASE Next /\ resetn /\ cpu_state = "trap"
  BY <1>3, TrapStep DEF SourceInv, Running
<1>4. CASE Next /\ resetn /\ cpu_state # "trap"
  <2>1. Live
    BY <1>4 DEF CoreInv, Live
  <2>2. Sourced
    BY <2>1, LiveFacts DEF Sourced, SourceInv, Running
  <2> QED
    BY <2>2, AddressInvKept, UseInvKept, NextHalfInvKept, WordInvKept, ExecutedInvKept,
       HandedInvKept, JumpInvKept DEF SourceInv, Running
<1> QED
  BY <1>1, <1>2, <1>3, <1>4

LEMMA SourceInvAlways == Spec => [](CoreInv /\ SourceInv)
<1>1. CoreInv /\ SourceInv /\ [Next]_vars => SourceInv'
  BY SourceInvNext
<1> QED
  BY <1>1, SourceInvInit, CoreInvAlways, PTL DEF Spec

\* The half word a fetch takes from the buffer is the one the pc points to:
\* a branch, an interrupt or a return never executes what was buffered for
\* another address.
THEOREM BufferAlwaysNextHalf == Spec => []BufferHoldsNextHalf
<1>1. SourceInv => BufferHoldsNextHalf
  BY DEF SourceInv, UseInv, BufferHoldsNextHalf, mem_la_use_prefetched_high_word,
     mem_la_firstword, Asked
<1> QED
  BY <1>1, SourceInvAlways, PTL

\* An instruction handed to the main state machine was read from the address
\* the pc has, all of it.
THEOREM AlwaysLaunchedFromPc == Spec => []LaunchedFromPc
<1>1. CoreInv /\ SourceInv => LaunchedFromPc
  <2> SUFFICES ASSUME CoreInv, SourceInv, Running, cpu_state = "fetch",
                      decoder_trigger \/ do_waitirq, Fetchable(current_pc)
               PROVE  /\ FetchedFrom(insn.src, current_pc)
                      /\ \/ FetchedFrom(mem_rdata_q, current_pc)
                         \/ decoder_pseudo_trigger \/ do_waitirq
    BY DEF LaunchedFromPc
  <2>1. ~latched_branch /\ irq_state = 0
    BY DEF CoreInv, FetchInv, StepInv
  <2>2. current_pc = reg_next_pc
    BY <2>1 DEF current_pc
  <2>3. Handed /\ HandedInv
    BY DEF Handed, SourceInv
  <2> QED
    BY <2>2, <2>3 DEF HandedInv
<1> QED
  BY <1>1, SourceInvAlways, PTL

\* Both decoder stages keep the instruction while it is executed: the prefetch
\* of the next one never overtakes it.
THEOREM DecoderAlwaysKeepsInsn == Spec => []DecoderKeepsInsn
<1>1. SourceInv => DecoderKeepsInsn
  BY DEF SourceInv, ExecutedInv, Executing, DecoderKeepsInsn
<1> QED
  BY <1>1, SourceInvAlways, PTL

------------------------------------------------------------------------------
(* The instruction that the core works on, and the refinement.             *)

\* An edge at which the core runs, and all that is known before it.
Ordered ==
  /\ Sourced /\ IrqInv
  /\ InsnInv /\ StageInv /\ FollowingInv /\ DelayInv /\ MisfetchInv

LEMMA OrderedFacts ==
  ASSUME Ordered
  PROVE  /\ Live /\ TypeOK /\ LatchInv /\ RequestInv /\ StepInv /\ Clock /\ MainStep
         /\ resetn /\ prog' = prog /\ prog \in [PC -> BOOLEAN]
         /\ cpu_state \in CpuStates /\ cpu_state # "trap" /\ (Working <=> cpu_state # "fetch")
         /\ reg_pc \in PC /\ reg_next_pc \in PC
BY SourcedFacts DEF Ordered, Sourced, Live, Clock, TypeOK, StateTypeOK, PcTypeOK, InputTypeOK,
   Working

\* Where an instruction is executed, the pc registers and the delay stay.
LEMMA WorkingStep ==
  ASSUME Live, Working
  PROVE  /\ Step(cpu_state) /\ irq_state = 0 /\ irq_state' = 0
         /\ (irq_active' <=> irq_active) \/ (LdRs1RetIrq /\ ~Working')
         /\ irq_mask' = irq_mask \/ LdRs1MaskIrq
<1>1. irq_state = 0 /\ cpu_state # "fetch"
  BY DEF Working, Live, LatchInv
<1>2. LoadActions => Step(cpu_state)
  BY DEF LoadActions, LdRs1Illegal, LdRs1Simple, LdRs1SetQ, LdRs1MaskIrq, LdRs1Timer,
     LdRs1RetIrq, LdRs1Load, LdRs1Imm, LdRs1ShiftImm, LdRs1SinglePort, Store, Shift, Alu,
     PcpiReady, PcpiAbort, PcpiWait, Pcpi, SecondOperand, Step
<1>3. ExecWait \/ ExecBranch \/ ExecAlu \/ ShiftStep \/ ShiftDone =>
        Step(cpu_state) /\ KeepIrqState
  BY DEF ExecWait, ExecBranch, ExecAlu, Exec, ShiftStep, ShiftDone, Step
<1>4. DataActions => Step(cpu_state) /\ KeepIrqState
  BY DEF DataActions, DataWaits, DataAccess, DataPhase, Step
<1>5. LoadActions => \/ UNCHANGED <<irq_active, irq_mask>>
                     \/ LdRs1RetIrq
                     \/ LdRs1MaskIrq /\ UNCHANGED irq_active
  BY DEF LoadActions, LdRs1Illegal, LdRs1Simple, LdRs1SetQ, LdRs1MaskIrq, LdRs1Timer,
     LdRs1Load, LdRs1Imm, LdRs1ShiftImm, LdRs1SinglePort, Store, Shift, Alu,
     PcpiReady, PcpiAbort, PcpiWait, Pcpi, Proceed, KeepIrqState
<1>6. LdRs1RetIrq => ~Working' /\ irq_mask' = irq_mask
  BY Goes DEF LdRs1RetIrq, Working
<1>7. Step(cpu_state)
  BY <1>1, <1>2, <1>3, <1>4, StateActions
<1>8. irq_state' = 0
  BY <1>1, <1>7 DEF Step
<1>9. \/ UNCHANGED <<irq_active, irq_mask>>
      \/ LdRs1RetIrq
      \/ LdRs1MaskIrq /\ UNCHANGED irq_active
  BY <1>1, <1>3, <1>4, <1>5, StateActions DEF KeepIrqState
<1> QED
  BY <1>1, <1>6, <1>7, <1>8, <1>9

LEMMA LaunchStarts ==
  ASSUME Live, cpu_state = "fetch", Working' PROVE Launch
BY StateActions, Goes DEF FetchActions, EnterIrq, WaitIrq, WaitIrqDone, LaunchJal, AwaitInsn,
   Working

LEMMA InsnInvKept == ASSUME Ordered PROVE InsnInv'
<1> SUFFICES ASSUME Handed' \/ Executing' PROVE Instruction(insn.kind, insn.imm)'
  BY DEF InsnInv
<1>1. Sourced /\ Live /\ prog' = prog
  BY OrderedFacts DEF Ordered
<1>2. CASE insn' = insn /\ (Handed \/ Executing)
  BY <1>1, <1>2 DEF Ordered, InsnInv, Instruction, compressed_instr, Wide
<1>3. CASE FetchDone
  <2>1. insn' \in Decoded(mem_rdata_latched)
    BY <1>1, <1>3, SourcedFacts DEF FetchDone, Clock, Decoder
  <2> QED
    BY <1>1, <2>1 DEF Decoded, Instruction, compressed_instr, Wide
<1>4. CASE Handed'
  BY <1>1, <1>2, <1>3, <1>4, HandedSource, WaitingSource DEF DataPending, Handed, WaitIrq, WaitTaken
<1>5. CASE Executing'
  <2>1. CASE Launch
    <3>1. NoRequests /\ Handed
      BY <1>1, <2>1, LaunchFacts DEF Handed
    <3> QED
      BY <1>1, <1>2, <3>1, DecoderHolds DEF NoRequests, Live
  <2> QED
    BY <1>1, <1>2, <1>5, <2>1, ExecutingStays
<1> QED
  BY <1>4, <1>5

LEMMA StageInvKept == ASSUME Ordered PROVE StageInv'
<1>1. Live /\ StageInv /\ InsnInv /\ insn' \in [src : Sources, kind : AllKinds, imm : JumpOffsets \cup {0}]
  BY InvariantsNext, OrderedFacts DEF Ordered, TypeOK, DecoderTypeOK
<1>2. CASE cpu_state = "fetch" /\ Working'
  <2>1. Launch
    BY <1>2, LaunchStarts, OrderedFacts
  <2>2. NoRequests /\ decoder_trigger /\ Handed
    BY <1>1, <1>2, <2>1, LaunchFacts DEF Handed
  <2>3. insn' = insn
    BY <1>1, <2>2, DecoderHolds DEF NoRequests, Live
  <2>4. insn.kind \notin {"jal", "waitirq"}
    <3>1. insn.kind \in Kinds /\ ~WaitTaken /\ insn.kind # "jal"
      BY <1>1, <2>1, <2>2 DEF Launch, InsnInv, Instruction
    <3>2. ENABLE_IRQ \/ "waitirq" \notin Kinds
      BY ParamAssumption DEF IrqKinds
    <3> QED
      BY <2>2, <3>1, <3>2 DEF WaitTaken
  <2>5. cpu_state' \in {"ld_rs1", "trap"}
    BY <2>1, Goes DEF Launch
  <2> QED
    BY <2>3, <2>4, <2>5 DEF StageInv
<1>3. CASE Working /\ Executing'
  <2>1. insn' = insn
    BY <1>1, <1>3, ExecutingStays DEF Launch, Fetch, Ordered, Working
  <2>2. CASE cpu_state \in {"ld_rs1", "ld_rs2"}
    <3>1. LdRs1Imm \/ Alu =>
            cpu_state' \in {"exec", "trap"} /\ insn.kind \in {"imm", "jalr", "reg", "branch"}
      BY Goes DEF LdRs1Imm, Alu, Proceed
    <3>2. LdRs1ShiftImm \/ Shift =>
            cpu_state' \in {"shift", "trap"} /\ insn.kind \in {"shift", "shiftimm"}
      BY Goes DEF LdRs1ShiftImm, Shift, Proceed
    <3>3. LdRs1SinglePort \/ LdRs1Load \/ Store =>
            cpu_state' \in {"ld_rs2", "ldmem", "stmem", "trap"}
      BY Goes DEF LdRs1SinglePort, LdRs1Load, Store, Proceed
    <3>4. \/ LdRs1Illegal \/ LdRs1Simple \/ LdRs1SetQ \/ LdRs1MaskIrq \/ LdRs1Timer
          \/ LdRs1RetIrq \/ PcpiReady \/ PcpiAbort \/ PcpiWait
          => cpu_state' \in {"ld_rs1", "ld_rs2", "fetch", "trap"}
      BY <2>2, Goes DEF LdRs1Illegal, LdRs1Simple, LdRs1SetQ, LdRs1MaskIrq, LdRs1Timer,
         LdRs1RetIrq, PcpiReady, PcpiAbort, PcpiWait, LatchResult, IllegalInsn
    <3>5. LoadActions
      BY <1>1, <2>2, StateActions
    <3>6. insn'.kind = insn.kind /\ insn.kind \notin {"jal", "waitirq"}
      BY <1>1, <2>1, <2>2 DEF StageInv
    <3> QED
      BY <3>1, <3>2, <3>3, <3>4, <3>5, <3>6 DEF LoadActions, StageInv
  <2>3. CASE cpu_state = "exec"
    <3>1. ExecWait \/ ExecBranch \/ ExecAlu => cpu_state' \in {"exec", "fetch", "trap"}
      BY Goes DEF ExecWait, ExecBranch, ExecAlu
    <3> QED
      BY <1>1, <2>1, <2>3, <3>1, StateActions DEF StageInv
  <2>4. CASE cpu_state = "shift"
    <3>1. ShiftStep \/ ShiftDone => cpu_state' \in {"shift", "fetch", "trap"}
      BY Goes DEF ShiftStep, ShiftDone
    <3> QED
      BY <1>1, <2>1, <2>4, <3>1, StateActions DEF StageInv
  <2>5. CASE cpu_state \in {"stmem", "ldmem"}
    <3>1. DataActions => cpu_state' \in {"stmem", "ldmem", "fetch", "trap"}
      BY Goes DEF DataActions, DataWaits, DataAccess
    <3> QED
      BY <1>1, <2>1, <2>5, <3>1, StateActions DEF StageInv
  <2> QED
    BY <1>3, <2>2, <2>3, <2>4, <2>5, OrderedFacts DEF CpuStates
<1>4. CASE ~(Working' /\ Executing')
  BY <1>4 DEF StageInv, Working, Executing
<1> QED
  BY <1>2, <1>3, <1>4, OrderedFacts

LEMMA FollowingInvKept == ASSUME Ordered PROVE FollowingInv'
<1> SUFFICES ASSUME Working' PROVE (reg_next_pc = PcPlus(reg_pc, LengthOf(prog, reg_pc)))'
  BY DEF FollowingInv
<1>1. CASE Working
  <2>1. reg_pc' = reg_pc /\ reg_next_pc' = reg_next_pc /\ prog' = prog
    BY <1>1, WorkingStep, OrderedFacts DEF Step
  <2> QED
    BY <1>1, <2>1 DEF Ordered, FollowingInv, LengthOf, PcPlus
<1>2. CASE cpu_state = "fetch"
  <2>1. Launch
    BY <1>2, LaunchStarts, OrderedFacts
  <2>2. /\ decoder_trigger /\ ~latched_branch /\ irq_state = 0 /\ Handed
        /\ reg_next_pc' = PcPlus(reg_next_pc, InsnLength)
    BY <2>1, LaunchFacts, OrderedFacts DEF Handed
  <2>3. reg_pc' = reg_next_pc
    BY <2>1, <2>2 DEF Launch, Fetch, current_pc
  <2>4. InsnLength = LengthOf(prog, reg_next_pc)
    <3>1. COMPRESSED_ISA => insn.src[1] = reg_next_pc
      BY <2>2 DEF Ordered, Sourced, HandedInv, Fetchable, FetchedFrom
    <3> QED
      BY <3>1, OrderedFacts DEF InsnLength, LengthOf, compressed_instr, Wide
  <2> QED
    BY <2>2, <2>3, <2>4, OrderedFacts DEF PcPlus, LengthOf
<1> QED
  BY <1>1, <1>2, OrderedFacts

LEMMA DelayInvKept == ASSUME Ordered PROVE DelayInv'
<1>1. ASSUME Working' PROVE irq_delay' = irq_active'
  <2>1. CASE Working
    <3>1. irq_delay' = irq_delay /\ (irq_active' <=> irq_active)
      BY <1>1, <2>1, WorkingStep, OrderedFacts DEF Step
    <3>2. irq_active' \in BOOLEAN /\ irq_delay' \in BOOLEAN
      BY InvariantsNext, OrderedFacts DEF TypeOK, EntryTypeOK, IrqTypeOK
    <3> QED
      BY <2>1, <3>1, <3>2 DEF Ordered, DelayInv
  <2>2. CASE cpu_state = "fetch"
    <3>1. Launch /\ irq_state = 0
      BY <1>1, <2>2, LaunchStarts, LaunchFacts, OrderedFacts
    <3>2. Slot # "q0"
      BY <3>1 DEF Slot
    <3>3. irq_delay' = irq_active /\ irq_active' = irq_active
      BY <3>1, <3>2, OrderedFacts DEF Launch, Fetch, TypeOK, IrqTypeOK
    <3> QED
      BY <3>3
  <2> QED
    BY <2>1, <2>2, OrderedFacts
<1>2. ASSUME irq_state' = 1 PROVE ~irq_delay'
  <2>1. cpu_state = "fetch"
    BY <1>2, WorkingStep, OrderedFacts
  <2>2. EnterIrq
    <3>1. WaitIrq \/ WaitIrqDone \/ LaunchJal \/ Launch \/ AwaitInsn => irq_state' = 0
      BY NotEntered, OrderedFacts DEF WaitIrq, WaitIrqDone, LaunchJal, Launch, AwaitInsn
    <3> QED
      BY <1>2, <2>1, <3>1, StateActions, OrderedFacts DEF FetchActions
  <2>3. irq_state = 0
    <3>1. irq_state \in 0 .. 2 /\ irq_state' = (irq_state + 1) % 3
      BY <2>2, OrderedFacts DEF EnterIrq, TypeOK, EntryTypeOK
    <3> QED
      BY <1>2, <3>1
  <2> QED
    BY <2>2, <2>3 DEF EnterIrq, IrqTaken
<1> QED
  BY <1>1, <1>2 DEF DelayInv

------------------------------------------------------------------------------
(* A misaligned instruction.                                               *)

LEMMA StepsGo == ASSUME Live PROVE \E state \in CpuStates : GoTo(state)
<1>1. FetchActions => \E state \in CpuStates : GoTo(state)
  BY DEF FetchActions, EnterIrq, WaitIrq, WaitIrqDone, LaunchJal, Launch, AwaitInsn, CpuStates
<1>2. LoadActions => \E state \in CpuStates : GoTo(state)
  BY DEF LoadActions, LdRs1Illegal, LdRs1Simple, LdRs1SetQ, LdRs1MaskIrq, LdRs1Timer,
     LdRs1RetIrq, LdRs1Load, LdRs1Imm, LdRs1ShiftImm, LdRs1SinglePort, Store, Shift, Alu,
     PcpiReady, PcpiAbort, PcpiWait, Pcpi, SecondOperand, Step, LatchResult, IllegalInsn, Proceed,
     CpuStates
<1>3. ExecWait \/ ExecBranch \/ ExecAlu \/ ShiftStep \/ ShiftDone =>
        \E state \in CpuStates : GoTo(state)
  BY DEF ExecWait, ExecBranch, ExecAlu, ShiftStep, ShiftDone, CpuStates
<1>4. DataActions => \E state \in CpuStates : GoTo(state)
  BY DEF DataActions, DataWaits, DataAccess, CpuStates
<1> QED
  BY <1>1, <1>2, <1>3, <1>4, StateActions

\* A misaligned access that does not halt the core raises the bus error.
LEMMA BusErrorRaised ==
  ASSUME Live, IrqInv, MisalignedAccess, cpu_state' # "trap", Slot # "q1"
  PROVE  IrqEnabled(2) /\ 2 \in irq_pending'
<1>1. IrqEnabled(2)
  BY StepsGo DEF GoTo
<1>2. PICK raised : Pending(LatchedPending, raised)
  BY StepsPend, LiveFacts
<1>3. 2 \notin MASKED_IRQ /\ ENABLE_IRQ
  BY <1>1 DEF IrqEnabled, IrqInv
<1> QED
  BY <1>1, <1>2, <1>3 DEF Pending

LEMMA OddNext ==
  ASSUME Ordered, ~COMPRESSED_ISA, NEW pc \in PC
  PROVE  Odd(PcPlus(pc, InsnLength)) = Odd(pc) /\ Odd(PcPlus(pc, LengthOf(prog, pc))) = Odd(pc)
BY OddPlus DEF InsnLength, compressed_instr, LengthOf

LEMMA SlotOfFetch ==
  ASSUME Live, mem_do_rinst PROVE Slot # "q0"
BY LiveFacts DEF Slot, StepInv

MisfetchHanded == Handed /\ Odd(reg_next_pc) => 2 \in irq_pending \ irq_mask /\ ~irq_active

LEMMA MisfetchHandedKept ==
  ASSUME Ordered, BusErrorLatched, ~COMPRESSED_ISA PROVE MisfetchHanded'
<1> SUFFICES ASSUME Handed', Odd(reg_next_pc)'
             PROVE  (2 \in irq_pending \ irq_mask /\ ~irq_active)'
  BY DEF MisfetchHanded
<1>1. Live /\ MisfetchInv /\ IrqInv /\ cpu_state' # "trap" /\ MASKED_IRQ \subseteq irq_mask
  BY OrderedFacts DEF Ordered, IrqInv, Handed
<1>2. CASE FetchDone
  <2>1. mem_do_rinst /\ ~latched_branch /\ reg_next_pc' = reg_next_pc /\ Odd(reg_next_pc)
    BY <1>2 DEF FetchDone, Odd
  <2>2. cpu_state \in {"fetch", "exec", "stmem", "ldmem"}
    BY <2>1, OrderedFacts DEF RequestInv, StepInv, CpuStates
  <2>3. Odd(reg_pc)
    <3>1. CASE cpu_state = "fetch"
      BY <1>1, <2>1, <3>1 DEF MisfetchInv, waiting
    <3>2. CASE Working
      BY <2>1, <3>2, OddNext, OrderedFacts DEF Ordered, FollowingInv
    <3> QED
      BY <3>1, <3>2, OrderedFacts
  <2>4. MisalignedAccess
    BY <2>1, <2>3, OrderedFacts DEF MisalignedAccess
  <2>5. Slot # "q1"
    BY <1>2, <2>1, OrderedFacts, DoneWhenActive DEF Slot, StepInv, FetchDone
  <2>6. IrqEnabled(2) /\ 2 \in irq_pending'
    BY <1>1, <2>4, <2>5, BusErrorRaised
  <2>7. irq_mask' = irq_mask /\ (irq_active' <=> irq_active)
    <3>1. CASE cpu_state = "fetch"
      <4>1. Slot # "q0"
        BY <1>1, <2>1, SlotOfFetch
      <4> QED
        BY <1>1, <3>1, <4>1, StateActions
        DEF FetchActions, EnterIrq, WaitIrq, WaitIrqDone, LaunchJal, Launch, AwaitInsn, Fetch
    <3>2. CASE Working
      BY <1>1, <2>2, <3>2, WorkingStep DEF LdRs1MaskIrq, LdRs1RetIrq, Step
    <3> QED
      BY <3>1, <3>2, OrderedFacts
  <2> QED
    BY <2>6, <2>7 DEF IrqEnabled
<1>3. CASE DataPending
  <2>1. cpu_state \in {"stmem", "ldmem"} /\ Handed /\ Odd(reg_next_pc) /\ Working
    BY <1>3 DEF DataPending, Handed, Odd, Working
  <2>2. 2 \in irq_pending \ irq_mask /\ ~irq_active
    BY <1>1, <2>1 DEF MisfetchInv
  <2>3. UNCHANGED <<irq_mask, irq_active>> /\ Pending(LatchedPending, {})
    BY <1>1, <2>1, StateActions
    DEF DataActions, DataWaits, DataAccess, DataPhase, KeepIrqState, NoFault
  <2>4. 2 \in LatchedPending \ MASKED_IRQ /\ ENABLE_IRQ
    BY <1>1, <2>2 DEF BusErrorLatched, LatchedPending, IrqInv
  <2> QED
    BY <2>2, <2>3, <2>4, PendingKeeps
<1>4. CASE WaitIrq /\ cpu_state = "fetch"
  <2>1. do_waitirq' /\ cpu_state' = "fetch"
    BY <1>1, <1>4, Goes DEF WaitIrq
  <2>2. (decoder_trigger \/ do_waitirq) /\ reg_next_pc' = reg_next_pc
    BY <1>1, <2>1, WaitingSource
  <2>3. Handed /\ Odd(reg_next_pc)
    BY <1>4, <2>2 DEF Handed, Odd
  <2> QED
    BY <1>1, <1>4, <2>3 DEF MisfetchInv, WaitIrq
<1> QED
  BY <1>1, <1>2, <1>3, <1>4, HandedSource

\* Where the pc of the instruction a fetch retires ends up.
LEMMA FetchPcs ==
  ASSUME Ordered, cpu_state = "fetch"
  PROVE  /\ current_pc \in PC /\ reg_pc' = current_pc /\ irq_mask' = irq_mask
         /\ \/ /\ EnterIrq \/ WaitIrq \/ AwaitInsn
               /\ reg_next_pc' = current_pc /\ ~latched_branch' /\ ~latched_store'
            \/ /\ WaitIrqDone \/ Launch
               /\ reg_next_pc' = PcPlus(current_pc, InsnLength) /\ ~latched_branch'
               /\ irq_state' = 0
            \/ LaunchJal /\ latched_branch' /\ ~latched_store' /\ irq_state' = 0
<1>1. current_pc \in PC /\ FetchActions
  BY CurrentPcInPc, StateActions, OrderedFacts
<1>2. reg_pc' = current_pc /\ irq_mask' = irq_mask
  BY <1>1 DEF FetchActions, EnterIrq, WaitIrq, WaitIrqDone, LaunchJal, Launch, AwaitInsn, Fetch
<1>3. EnterIrq \/ WaitIrq \/ AwaitInsn =>
        reg_next_pc' = current_pc /\ ~latched_branch' /\ ~latched_store'
  BY DEF EnterIrq, WaitIrq, AwaitInsn, Fetch, Latch
<1>4. WaitIrqDone \/ Launch =>
        reg_next_pc' = PcPlus(current_pc, InsnLength) /\ ~latched_branch' /\ irq_state' = 0
  BY NotEntered, OrderedFacts DEF WaitIrqDone, Launch, Fetch, Latch
<1>5. LaunchJal => latched_branch' /\ ~latched_store' /\ irq_state' = 0
  BY NotEntered, OrderedFacts DEF LaunchJal, Fetch, Latch
<1> QED
  BY <1>1, <1>2, <1>3, <1>4, <1>5 DEF FetchActions

\* Of the instructions only a taken branch leaves with a fetch open.
LEMMA WorkingPcs ==
  ASSUME Ordered, Working, ~Working'
  PROVE  /\ reg_pc' = reg_pc /\ reg_next_pc' = reg_next_pc /\ irq_state' = 0
         /\ latched_branch' /\ mem_do_rinst' => ExecBranch /\ mem_do_rinst
<1>1. reg_pc' = reg_pc /\ reg_next_pc' = reg_next_pc /\ irq_state' = 0
  BY WorkingStep, OrderedFacts DEF Step
<1>2. ASSUME latched_branch', mem_do_rinst' PROVE ExecBranch /\ mem_do_rinst
  <2>1. cpu_state # "exec" => ~latched_branch
    BY OrderedFacts DEF LatchInv, Working
  <2>2. LoadActions /\ ~LdRs1RetIrq => latched_branch' = latched_branch
    BY DEF LoadActions, LdRs1Illegal, LdRs1Simple, LdRs1SetQ, LdRs1MaskIrq, LdRs1Timer,
       LdRs1Load, LdRs1Imm, LdRs1ShiftImm, LdRs1SinglePort, Store, Shift, Alu,
       PcpiReady, PcpiAbort, PcpiWait, Pcpi, LatchResult, Proceed, Latch, latches
  <2>3. ~LdRs1RetIrq
    <3> SUFFICES ASSUME LdRs1RetIrq PROVE FALSE
      OBVIOUS
    <3>1. cpu_state = "ld_rs1" /\ insn.kind = "retirq" /\ Requests(mem_do_prefetch, mem_do_rinst, "none")
      BY DEF LdRs1RetIrq, Step
    <3> QED
      BY <1>2, <3>1, OrderedFacts DEF StepInv, NoRequests, Requests
  <2>4. ShiftStep \/ ShiftDone \/ DataActions => latched_branch' = latched_branch
    BY DEF ShiftStep, ShiftDone, DataActions, DataWaits, DataAccess, DataPhase, Latch
  <2>5. cpu_state = "exec" /\ (ExecWait \/ ExecBranch \/ ExecAlu)
    BY <1>2, <2>1, <2>2, <2>3, <2>4, StateActions, OrderedFacts
  <2>6. ExecWait => GoTo("exec")
    BY DEF ExecWait
  <2>7. ~ExecWait
    <3> SUFFICES ASSUME ExecWait PROVE FALSE
      OBVIOUS
    <3>1. latched_branch /\ ExecWaits
      BY <1>2 DEF ExecWait, latches
    <3> QED
      BY <2>5, <3>1, OrderedFacts DEF StepInv
  <2>8. ~ExecAlu
    <3> SUFFICES ASSUME ExecAlu PROVE FALSE
      OBVIOUS
    <3>1. insn.kind = "jalr" /\ Requests(mem_do_prefetch, mem_do_rinst, "none")
      BY <1>2 DEF ExecAlu, Latch
    <3> QED
      BY <1>2, <2>5, <3>1, OrderedFacts DEF StepInv, NoRequests, Requests
  <2>9. ExecBranch
    BY <2>5, <2>7, <2>8
  <2>10. mem_do_rinst
    BY <2>5, <2>9, OrderedFacts DEF ExecBranch, StepInv
  <2> QED
    BY <2>9, <2>10
<1> QED
  BY <1>1, <1>2

MisfetchFetched ==
  /\ waiting /\ do_waitirq => ~Odd(reg_next_pc)
  /\ waiting /\ mem_do_rinst /\ Odd(reg_pc) =>
       Odd(current_pc) \/ (latched_branch /\ IrqEnabled(2))
  /\ waiting /\ mem_do_rinst /\ Odd(reg_next_pc) => Odd(reg_pc) \/ latched_branch

LEMMA MisfetchFetchedKept ==
  ASSUME Ordered, ~COMPRESSED_ISA PROVE MisfetchFetched'
<1>1. Live /\ MisfetchInv /\ IrqInv
  BY OrderedFacts DEF Ordered
<1> SUFFICES ASSUME waiting'
             PROVE  /\ do_waitirq' => ~Odd(reg_next_pc)'
                    /\ mem_do_rinst' /\ Odd(reg_pc)' =>
                         Odd(current_pc)' \/ (latched_branch /\ IrqEnabled(2))'
                    /\ mem_do_rinst' /\ Odd(reg_next_pc)' => (Odd(reg_pc) \/ latched_branch)'
  BY DEF MisfetchFetched
<1>2. ASSUME do_waitirq' PROVE ~Odd(reg_next_pc)'
  <2>1. WaitIrq /\ cpu_state = "fetch" /\ (decoder_trigger \/ do_waitirq) /\ reg_next_pc' = reg_next_pc
    BY <1>1, <1>2, WaitingSource DEF waiting
  <2> QED
    BY <1>1, <2>1 DEF MisfetchInv, Handed, WaitIrq, Odd
<1>3. ASSUME mem_do_rinst'
      PROVE  /\ Odd(reg_pc)' => Odd(current_pc)' \/ (latched_branch /\ IrqEnabled(2))'
             /\ Odd(reg_next_pc)' => (Odd(reg_pc) \/ latched_branch)'
  <2>1. CASE cpu_state = "fetch"
    <3>1. current_pc \in PC /\ reg_pc' = current_pc /\ irq_mask' = irq_mask
      BY <2>1, FetchPcs
    <3>2. irq_state' # 1
      BY <1>1, <1>3, StepKept DEF StepInv
    <3>3. CASE reg_next_pc' = current_pc /\ ~latched_branch' /\ ~latched_store'
      BY <3>1, <3>2, <3>3 DEF current_pc, Odd
    <3>4. CASE reg_next_pc' = PcPlus(current_pc, InsnLength) /\ ~latched_branch'
      <4>1. Odd(reg_next_pc') <=> Odd(reg_pc')
        BY <3>1, <3>4, OddNext
      <4>2. current_pc' = reg_next_pc'
        BY <3>2, <3>4 DEF current_pc
      <4> QED
        BY <4>1, <4>2 DEF Odd
    <3>5. CASE LaunchJal /\ latched_branch'
      <4>1. ASSUME Odd(reg_pc') PROVE IrqEnabled(2)'
        <5>1. decoder_trigger /\ irq_state = 0 /\ ~latched_branch
          BY <1>1, <2>1, <3>5, NotEntered, OrderedFacts DEF LaunchJal, StepInv
        <5>2. Handed /\ Odd(reg_next_pc)
          BY <2>1, <3>1, <4>1, <5>1 DEF Handed, current_pc
        <5>3. 2 \in irq_pending \ irq_mask /\ ~irq_active
          BY <1>1, <5>2 DEF MisfetchInv
        <5>4. ~irq_active'
          <6>1. Slot # "q0"
            BY <5>1 DEF Slot
          <6> QED
            BY <3>5, <5>3, <6>1 DEF LaunchJal, Fetch
        <5> QED
          BY <1>1, <3>1, <5>3, <5>4 DEF IrqEnabled, IrqInv
      <4> QED
        BY <3>5, <4>1 DEF Odd
    <3> QED
      BY <2>1, <3>3, <3>4, <3>5, FetchPcs
  <2>2. CASE Working
    <3>1. /\ reg_pc' = reg_pc /\ reg_next_pc' = reg_next_pc /\ irq_state' = 0
          /\ latched_branch' => ExecBranch /\ mem_do_rinst
      BY <1>3, <2>2, WorkingPcs DEF waiting, Working
    <3>2. Odd(reg_next_pc) <=> Odd(reg_pc)
      BY <2>2, OddNext, OrderedFacts DEF Ordered, FollowingInv
    <3>3. CASE ~latched_branch'
      <4>1. current_pc' = reg_next_pc'
        BY <3>1, <3>3 DEF current_pc
      <4> QED
        BY <3>1, <3>2, <4>1 DEF Odd
    <3>4. CASE latched_branch'
      <4>1. ASSUME Odd(reg_pc) PROVE IrqEnabled(2)'
        <5>1. MisalignedAccess
          BY <3>1, <3>4, <4>1, OrderedFacts DEF MisalignedAccess
        <5>2. Slot # "q1"
          BY <2>2, WorkingStep, OrderedFacts DEF Slot
        <5>3. IrqEnabled(2)
          BY <1>1, <5>1, <5>2, BusErrorRaised DEF waiting
        <5>4. KeepIrqState
          BY <3>1, <3>4 DEF ExecBranch, Exec
        <5> QED
          BY <5>3, <5>4 DEF IrqEnabled, KeepIrqState
      <4> QED
        BY <3>1, <3>4, <4>1 DEF Odd
    <3> QED
      BY <3>3, <3>4
  <2> QED
    BY <2>1, <2>2, OrderedFacts
<1> QED
  BY <1>2, <1>3

LEMMA MisfetchInvKept ==
  ASSUME Ordered, BusErrorLatched PROVE MisfetchInv'
<1>1. ~COMPRESSED_ISA => MisfetchHanded' /\ MisfetchFetched'
  BY MisfetchHandedKept, MisfetchFetchedKept
<1> QED
  BY <1>1 DEF MisfetchInv, MisfetchHanded, MisfetchFetched

------------------------------------------------------------------------------
(* OrderInv is inductive.                                                  *)

LEMMA OrderInvInit == Init => OrderInv
BY DEF Init, OrderInv, InsnInv, StageInv, FollowingInv, DelayInv, MisfetchInv, Handed, Executing, Working

LEMMA ResetOrders == ASSUME Next, ~resetn PROVE OrderInv'
<1>1. /\ cpu_state' = "fetch" /\ do_waitirq' = FALSE /\ latched_branch' = FALSE
      /\ ~decoder_trigger' /\ mem_do_rinst' = FALSE /\ irq_state' = 0
  BY ResetStep DEF Reset, Latch, Trigger, mem_done
<1>2. ~Handed' /\ ~Executing' /\ ~Working'
  BY <1>1 DEF Handed, Executing, Working
<1> QED
  BY <1>1, <1>2 DEF OrderInv, InsnInv, StageInv, FollowingInv, DelayInv, MisfetchInv

LEMMA StutterOrders == ASSUME OrderInv, UNCHANGED vars PROVE OrderInv'
<1> USE DEF vars, inputs, bus, requests, fetchUnit, decoder, latches, interrupts, datapath
<1>1. (Handed' <=> Handed) /\ (Executing' <=> Executing) /\ (Working' <=> Working)
  BY DEF Handed, Executing, Working
<1>2. InsnInv => InsnInv'
  BY <1>1 DEF InsnInv, Instruction, compressed_instr, Wide
<1>3. FollowingInv => FollowingInv'
  BY <1>1 DEF FollowingInv, LengthOf, PcPlus
<1>4. DelayInv => DelayInv'
  BY <1>1 DEF DelayInv
<1>5. MisfetchInv => MisfetchInv'
  BY <1>1 DEF MisfetchInv, waiting, current_pc, IrqEnabled, Odd
<1>6. StageInv => StageInv'
  BY DEF StageInv
<1> QED
  BY <1>2, <1>3, <1>4, <1>5, <1>6 DEF OrderInv, Running

LEMMA OrderInvNext ==
  ASSUME BusErrorLatched
  PROVE  CoreInv /\ SourceInv /\ IrqInv /\ OrderInv /\ [Next]_vars => OrderInv'
<1> SUFFICES ASSUME CoreInv, SourceInv, IrqInv, OrderInv, [Next]_vars PROVE OrderInv'
  OBVIOUS
<1>1. CASE UNCHANGED vars
  BY <1>1, StutterOrders
<1>2. CASE Next /\ ~resetn
  BY <1>2, ResetOrders
<1>3. CASE Next /\ resetn /\ cpu_state = "trap"
  BY <1>3, TrapStep DEF OrderInv, Running
<1>4. CASE Next /\ resetn /\ cpu_state # "trap"
  <2>1. Live
    BY <1>4 DEF CoreInv, Live
  <2>2. Ordered
    BY <2>1, LiveFacts DEF Ordered, Sourced, SourceInv, OrderInv, Running
  <2> QED
    BY <2>2, InsnInvKept, StageInvKept, FollowingInvKept, DelayInvKept, MisfetchInvKept DEF OrderInv, Running
<1> QED
  BY <1>1, <1>2, <1>3, <1>4

LEMMA OrderInvAlways ==
  ASSUME BusErrorLatched
  PROVE  Spec => [](CoreInv /\ SourceInv /\ IrqInv /\ OrderInv)
<1>1. CoreInv /\ SourceInv /\ IrqInv /\ OrderInv /\ [Next]_vars => OrderInv'
  BY OrderInvNext
<1> QED
  BY <1>1, OrderInvInit, SourceInvAlways, IrqCorrect, PTL DEF Spec

------------------------------------------------------------------------------
(* What the core shows of the instruction set machine.                     *)

\* What was read from an address is what the instruction set machine reads.
LEMMA HalfwordsRead ==
  ASSUME prog \in [PC -> BOOLEAN], NEW a \in PC, NEW src \in Sources,
         Fetchable(a) => FetchedFrom(src, a)
  PROVE  Halfwords(src, a) = ISA!Extent(a)
<1>1. CASE ~Fetchable(a)
  BY <1>1 DEF Halfwords, ISA!Extent
<1>2. CASE Fetchable(a)
  <2>1. src[1] = a /\ src = <<src[1], src[2]>>
    BY <1>2 DEF FetchedFrom, Sources
  <2>2. CASE LengthOf(prog, a) = 1
    BY <1>2, <2>1, <2>2 DEF Halfwords, ISA!Extent, LengthOf, Wide
  <2>3. CASE LengthOf(prog, a) # 1
    <3>1. src = <<a, PcPlus(a, 1)>>
      BY <1>2, <2>1, <2>3 DEF FetchedFrom, LengthOf, Wide
    <3> QED
      BY <1>2, <2>1, <2>3, <3>1 DEF Halfwords, ISA!Extent, LengthOf, Wide
  <2> QED
    BY <2>2, <2>3
<1> QED
  BY <1>1, <1>2

LEMMA HalfwordsOfPc ==
  ASSUME prog \in [PC -> BOOLEAN], NEW a \in PC
  PROVE  Halfwords(<<a, PcPlus(a, 1)>>, a) = ISA!Extent(a)
<1>1. <<a, PcPlus(a, 1)>> \in Sources
  BY PcPlusInPc, PcIsNat DEF Sources
<1>2. FetchedFrom(<<a, PcPlus(a, 1)>>, a)
  BY DEF FetchedFrom
<1> QED
  BY <1>1, <1>2, HalfwordsRead

LEMMA ReadIs ==
  ASSUME prog \in [PC -> BOOLEAN], NEW a \in PC, NEW src \in Sources, NEW kind, 
         NEW imm \in JumpOffsets \cup {0},
         Fetchable(a) => FetchedFrom(src, a),
         kind \in IF COMPRESSED_ISA /\ ~Wide(src[1]) THEN Kinds \cap CompressedKinds ELSE Kinds
  PROVE  [kind |-> kind, at |-> Halfwords(src, a), imm |-> imm] \in ISA!Read(a)
<1>1. kind \in IF LengthOf(prog, a) = 1 THEN Kinds \cap CompressedKinds ELSE Kinds
  <2>1. COMPRESSED_ISA => src[1] = a
    BY DEF Fetchable, FetchedFrom
  <2> QED
    BY <2>1 DEF LengthOf, Wide
<1> QED
  BY <1>1, HalfwordsRead DEF ISA!Read

\* The state the core shows while it waits in cpu_state_fetch.
LEMMA WaitingShown ==
  ASSUME Ordered, cpu_state = "fetch"
  PROVE  /\ isa_pc = current_pc /\ isa_pc \in PC /\ isa_busy = FALSE
         /\ isa_irq_active \in BOOLEAN /\ isa_delay \in BOOLEAN
         /\ isa_irq_active <=> irq_active \/ irq_state = 1
         /\ ~decoder_trigger /\ ~do_waitirq => isa_op = ISA!None
         /\ q0' = isa_q0 /\ irq_active' = isa_irq_active
<1>1. current_pc \in PC /\ FetchActions
  BY CurrentPcInPc, StateActions, OrderedFacts
<1>2. irq_state # 0 => ~latched_store /\ ~latched_branch
  BY OrderedFacts DEF LatchInv
<1>3. irq_state = 1 => latched_rd = "q0"
  BY DEF Ordered, IrqInv
<1>4. \E next, store, branch : Fetch(next, store, branch)
  BY <1>1 DEF FetchActions, EnterIrq, WaitIrq, WaitIrqDone, LaunchJal, Launch, AwaitInsn
<1>5. Slot = "q0" <=> irq_state = 1
  BY <1>2, OrderedFacts DEF Slot, TypeOK, LatchTypeOK
<1>6. Slot = "store" <=> latched_store /\ ~latched_branch
  BY <1>2, OrderedFacts DEF Slot, TypeOK, LatchTypeOK
<1>7. q0' = isa_q0
  BY <1>2, <1>3, <1>4, <1>5, <1>6 DEF Fetch, isa_q0, entering, waiting
<1>8. irq_active' = isa_irq_active
  BY <1>4, <1>5, OrderedFacts DEF Fetch, isa_irq_active, entering, waiting, TypeOK, IrqTypeOK
<1> QED
  BY <1>1, <1>7, <1>8, OrderedFacts
  DEF isa_pc, isa_busy, isa_irq_active, isa_delay, isa_op, idle, waiting, entering, ISA!None,
      TypeOK, IrqTypeOK, EntryTypeOK

\* An instruction has been handed over.
LEMMA HandedShown ==
  ASSUME Ordered, cpu_state = "fetch", decoder_trigger \/ do_waitirq
  PROVE  /\ current_pc = reg_next_pc /\ irq_state = 0 /\ NoRequests /\ ~mem_done
         /\ isa_op = decoded /\ isa_op \in ISA!Read(isa_pc) /\ isa_op # ISA!None
<1>1. irq_state = 0 /\ ~latched_branch /\ NoRequests /\ mem_state = 0
  BY OrderedFacts DEF StepInv
<1>2. current_pc = reg_next_pc /\ isa_op = decoded
  BY <1>1 DEF current_pc, isa_op, idle, waiting
<1>3. insn \in [src : Sources, kind : AllKinds, imm : JumpOffsets \cup {0}]
  BY OrderedFacts DEF TypeOK, DecoderTypeOK
<1>4. Handed /\ isa_pc = reg_next_pc
  BY <1>2 DEF Handed, isa_pc, waiting
<1>5. Fetchable(reg_next_pc) => FetchedFrom(insn.src, reg_next_pc)
  BY <1>4 DEF Ordered, Sourced, HandedInv
<1>6. insn.kind \in IF COMPRESSED_ISA /\ ~Wide(insn.src[1]) THEN Kinds \cap CompressedKinds ELSE Kinds
  BY <1>4 DEF Ordered, InsnInv, Instruction, compressed_instr
<1>7. decoded \in ISA!Read(isa_pc)
  BY <1>3, <1>4, <1>5, <1>6, ReadIs, OrderedFacts DEF decoded
<1>8. decoded # ISA!None
  BY <1>3 DEF decoded, ISA!None, AllKinds
<1> QED
  BY <1>1, <1>2, <1>7, <1>8, DoneWhenActive

\* The state it shows after a step that ends in cpu_state_fetch.
LEMMA NextWaiting ==
  ASSUME Ordered, cpu_state' = "fetch"
  PROVE  /\ isa_pc' = current_pc' /\ isa_busy' = FALSE
         /\ isa_irq_active' <=> irq_active' \/ irq_state' = 1
         /\ irq_state' # 1 => isa_irq_active' = irq_active'
         /\ ~decoder_trigger' /\ ~do_waitirq' => isa_op' = ISA!None
         /\ isa_op' \in {ISA!None} \cup ISA!Read(isa_pc')
<1>1. /\ TypeOK' /\ StepInv' /\ HandedInv' /\ InsnInv'
  BY InvariantsNext, StepKept, HandedInvKept, InsnInvKept, OrderedFacts DEF Ordered
<1>2. /\ isa_pc' = current_pc' /\ isa_busy' = FALSE
      /\ isa_irq_active' <=> irq_active' \/ irq_state' = 1
      /\ irq_state' # 1 => isa_irq_active' = irq_active'
  BY <1>1 DEF isa_pc, isa_busy, isa_irq_active, entering, waiting, TypeOK, IrqTypeOK
<1>3. ~decoder_trigger' /\ ~do_waitirq' => isa_op' = ISA!None
  BY DEF isa_op, idle, waiting, ISA!None
<1>4. ASSUME decoder_trigger' \/ do_waitirq' PROVE isa_op' \in ISA!Read(isa_pc')
  <2>1. irq_state' = 0 /\ ~latched_branch'
    BY <1>1, <1>4 DEF StepInv
  <2>2. isa_pc' = reg_next_pc' /\ isa_op' = decoded' /\ Handed' /\ prog' = prog
    BY <1>2, <1>4, <2>1, OrderedFacts DEF current_pc, isa_op, idle, waiting, Handed
  <2>3. /\ insn' \in [src : Sources, kind : AllKinds, imm : JumpOffsets \cup {0}]
        /\ reg_next_pc' \in PC
    BY <1>1 DEF TypeOK, DecoderTypeOK, PcTypeOK
  <2>4. Fetchable(reg_next_pc') => FetchedFrom(insn'.src, reg_next_pc')
    BY <1>1, <2>2 DEF HandedInv, Fetchable, FetchedFrom, Odd, Wide, PcPlus
  <2>5. insn'.kind \in IF COMPRESSED_ISA /\ ~Wide(insn'.src[1]) THEN Kinds \cap CompressedKinds
                                                              ELSE Kinds
    BY <1>1, <2>2 DEF InsnInv, Instruction, compressed_instr, Wide
  <2>6. decoded' = [kind |-> insn'.kind, at |-> Halfwords(insn'.src, isa_pc'), imm |-> insn'.imm]
    BY <2>2 DEF decoded, Halfwords, Fetchable, Odd, Wide
  <2> QED
    BY <2>2, <2>3, <2>4, <2>5, <2>6, ReadIs, OrderedFacts
<1> QED
  BY <1>2, <1>3, <1>4

------------------------------------------------------------------------------
(* The steps of cpu_state_fetch.                                           *)

\* A misaligned instruction is only executed in the delay after a return.
LEMMA DelayedMisfetch ==
  ASSUME Ordered, cpu_state = "fetch", decoder_trigger \/ do_waitirq, NoIrq
  PROVE  ~Fetchable(isa_pc) => isa_delay
<1> SUFFICES ASSUME ~Fetchable(isa_pc) PROVE isa_delay
  OBVIOUS
<1>1. Handed /\ Odd(reg_next_pc) /\ ~COMPRESSED_ISA
  BY WaitingShown, HandedShown DEF Handed, Fetchable
<1>2. 2 \in irq_pending \ irq_mask /\ ~irq_active /\ ~do_waitirq /\ ENABLE_IRQ
  BY <1>1 DEF Ordered, MisfetchInv, waiting, IrqInv
<1>3. irq_delay
  BY <1>2 DEF NoIrq, IrqTaken
<1> QED
  BY <1>2, <1>3 DEF isa_delay

LEMMA FollowingShown ==
  ASSUME Ordered, cpu_state = "fetch", decoder_trigger \/ do_waitirq
  PROVE  InsnLength = LengthOf(prog, current_pc)
<1>1. Handed /\ current_pc = reg_next_pc
  BY HandedShown DEF Handed
<1>2. COMPRESSED_ISA => insn.src[1] = reg_next_pc
  BY <1>1 DEF Ordered, Sourced, HandedInv, Fetchable, FetchedFrom
<1> QED
  BY <1>1, <1>2, OrderedFacts DEF InsnLength, LengthOf, compressed_instr, Wide

LEMMA InterruptStep ==
  ASSUME Ordered, EnterIrq, irq_state = 0, cpu_state' = "fetch" PROVE ISA!Interrupt
<1>1. cpu_state = "fetch" /\ decoder_trigger /\ ~irq_active /\ ~irq_delay
  BY DEF EnterIrq, IrqTaken, Fetch
<1>2. irq_state' = 1
  BY DEF EnterIrq
<1>3. isa_op # ISA!None /\ ~isa_irq_active /\ ~isa_delay /\ isa_busy = FALSE
  BY <1>1, HandedShown, WaitingShown DEF isa_delay
<1>4. /\ ~latched_branch' /\ ~latched_store' /\ reg_next_pc' = current_pc
      /\ do_waitirq' = FALSE /\ Trigger /\ UNCHANGED irq_delay
  BY DEF EnterIrq, Fetch, Latch
<1>5. isa_pc' = PROGADDR_IRQ /\ isa_q0' = current_pc
  BY <1>2, <1>4 DEF isa_pc, current_pc, isa_q0, entering, waiting
<1>6. ~decoder_trigger'
  BY <1>1, <1>4, HandedShown DEF Trigger
<1>7. isa_op' = ISA!None /\ isa_irq_active' = TRUE /\ isa_busy' = FALSE /\ isa_delay' = FALSE
  BY <1>1, <1>2, <1>4, <1>6, NextWaiting DEF isa_delay, isa_irq_active, waiting, entering
<1>8. isa_delay = FALSE /\ isa_pc = current_pc
  BY <1>1, WaitingShown DEF isa_delay
<1> QED
  BY <1>1, <1>3, <1>5, <1>7, <1>8, OrderedFacts DEF ISA!Interrupt

LEMMA EntryStutters ==
  ASSUME Ordered, EnterIrq, irq_state # 0, cpu_state' = "fetch" PROVE UNCHANGED ISA!vars
<1>1. cpu_state = "fetch" /\ ~latched_branch /\ ~latched_store /\ ~decoder_trigger /\ ~do_waitirq
  BY OrderedFacts DEF EnterIrq, Fetch, LatchInv, StepInv
<1>2. /\ ~latched_branch' /\ ~latched_store' /\ reg_next_pc' = current_pc
      /\ do_waitirq' = FALSE /\ Trigger /\ UNCHANGED irq_delay
  BY DEF EnterIrq, Fetch, Latch
<1>3. irq_state \in {1, 2} /\ irq_state' = IF irq_state = 1 THEN 2 ELSE 0
  BY OrderedFacts DEF EnterIrq, TypeOK, EntryTypeOK
<1>4. isa_pc' = current_pc
  BY <1>2, <1>3 DEF isa_pc, current_pc, waiting
<1>5. isa_q0' = q0'
  BY <1>2, <1>3 DEF isa_q0, entering, waiting
<1>6. ~decoder_trigger'
  <2>1. mem_state = 0
    BY <1>3, OrderedFacts DEF StepInv
  <2> QED
    BY <1>2, <2>1, DoneWhenActive DEF Trigger
<1>7. isa_op' = ISA!None /\ isa_irq_active' = isa_irq_active /\ isa_busy' = FALSE
  BY <1>1, <1>2, <1>3, <1>6, NextWaiting, WaitingShown
<1>8. isa_delay' = isa_delay
  <2>1. CASE irq_state = 1
    BY <1>2, <2>1 DEF isa_delay, Ordered, DelayInv
  <2>2. CASE irq_state = 2
    <3>1. irq_active' = irq_active
      BY <1>1, <2>2, WaitingShown, OrderedFacts DEF isa_irq_active, entering, TypeOK, IrqTypeOK
    <3> QED
      BY <1>2, <3>1 DEF isa_delay
  <2> QED
    BY <1>3, <2>1, <2>2
<1> QED
  BY <1>1, <1>4, <1>5, <1>7, <1>8, WaitingShown, OrderedFacts DEF ISA!vars

\* The steps of cpu_state_fetch that leave the interrupt state alone.
LEMMA NoEntry ==
  ASSUME Ordered, cpu_state = "fetch", NoIrq
  PROVE  /\ irq_state = 0 /\ irq_state' = 0 /\ isa_irq_active = irq_active
         /\ irq_active' = irq_active /\ isa_pc = current_pc /\ q0' = isa_q0
<1>1. irq_state = 0 /\ irq_state' = 0
  BY NotEntered, OrderedFacts
<1>2. isa_irq_active = irq_active
  BY <1>1, OrderedFacts DEF isa_irq_active, entering, TypeOK, IrqTypeOK
<1> QED
  BY <1>1, <1>2, WaitingShown

LEMMA WaitStutters ==
  ASSUME Ordered, WaitIrq, cpu_state' = "fetch" PROVE UNCHANGED ISA!vars
<1>1. cpu_state = "fetch" /\ (decoder_trigger \/ do_waitirq) /\ NoIrq /\ do_waitirq'
  BY DEF WaitIrq, Fetch, WaitTaken
<1>2. /\ ~latched_branch' /\ ~latched_store' /\ reg_next_pc' = current_pc
      /\ UNCHANGED irq_delay
  BY DEF WaitIrq, Fetch, Latch
<1>3. isa_pc' = isa_pc /\ isa_q0' = q0'
  BY <1>1, <1>2, NoEntry DEF isa_pc, current_pc, waiting, isa_q0, entering
<1>4. insn' = insn /\ prog' = prog
  BY <1>1, WaitingSource, OrderedFacts
<1>5. isa_op' = decoded'
  BY <1>1 DEF isa_op, idle, waiting
<1>6. isa_op' = isa_op
  BY <1>1, <1>3, <1>4, <1>5, HandedShown DEF decoded, Halfwords, Fetchable, Odd, Wide
<1>7. isa_delay' = isa_delay /\ isa_irq_active' = isa_irq_active /\ isa_busy' = isa_busy
  BY <1>1, <1>2, NoEntry, NextWaiting, WaitingShown DEF isa_delay
<1> QED
  BY <1>1, <1>3, <1>4, <1>6, <1>7, NoEntry DEF ISA!vars

LEMMA AwaitStep ==
  ASSUME Ordered, AwaitInsn, cpu_state' = "fetch" PROVE ISA!Fetch \/ UNCHANGED ISA!vars
<1>1. cpu_state = "fetch" /\ ~decoder_trigger /\ ~do_waitirq /\ NoIrq
  BY DEF AwaitInsn, Fetch, Ordered, Sourced, HandedInv, Handed
<1>2. /\ ~latched_branch' /\ ~latched_store' /\ reg_next_pc' = current_pc
      /\ UNCHANGED irq_delay
  BY DEF AwaitInsn, Fetch, Latch
<1>3. isa_pc' = isa_pc /\ isa_q0' = q0'
  BY <1>1, <1>2, NoEntry DEF isa_pc, current_pc, waiting, isa_q0, entering
<1>4. isa_op = ISA!None
  BY <1>1, WaitingShown
<1>5. isa_delay' = isa_delay /\ isa_irq_active' = isa_irq_active /\ isa_busy' = isa_busy
  BY <1>1, <1>2, NoEntry, NextWaiting, WaitingShown DEF isa_delay
<1>6. isa_op' \in {ISA!None} \cup ISA!Read(isa_pc)
  BY <1>3, NextWaiting
<1> QED
  BY <1>1, <1>3, <1>4, <1>5, <1>6, NoEntry, OrderedFacts DEF ISA!vars, ISA!Fetch

LEMMA WaitDoneStep ==
  ASSUME Ordered, WaitIrqDone, cpu_state' = "fetch" PROVE ISA!Complete
<1>1. /\ cpu_state = "fetch" /\ (decoder_trigger \/ do_waitirq) /\ NoIrq
      /\ insn.kind = "waitirq"
  BY DEF WaitIrqDone, Fetch, WaitTaken
<1>2. /\ ~latched_branch' /\ latched_rd' = "rd" /\ do_waitirq' = FALSE /\ Trigger
      /\ reg_next_pc' = PcPlus(current_pc, InsnLength) /\ UNCHANGED irq_delay
  BY <1>1 DEF WaitIrqDone, Fetch, Latch, NoIrq
<1>3. isa_pc' = PcPlus(isa_pc, LengthOf(prog, isa_pc)) /\ isa_q0' = q0'
  BY <1>1, <1>2, NoEntry, FollowingShown DEF isa_pc, current_pc, waiting, isa_q0, entering
<1>4. /\ isa_op # ISA!None /\ isa_op.kind = "waitirq" /\ isa_busy = FALSE
      /\ ~Fetchable(isa_pc) => isa_delay
  BY <1>1, HandedShown, WaitingShown, DelayedMisfetch DEF decoded
<1>5. isa_op' = ISA!None
  BY <1>1, <1>2, HandedShown, NextWaiting DEF Trigger
<1>6. isa_delay' = isa_delay /\ isa_irq_active' = isa_irq_active /\ isa_busy' = FALSE
  BY <1>1, <1>2, NoEntry, NextWaiting, WaitingShown DEF isa_delay
<1>7. isa_irq_active' = (isa_irq_active /\ isa_op.kind # "retirq")
  BY <1>1, <1>4, <1>6, WaitingShown
<1> QED
  BY <1>1, <1>3, <1>4, <1>5, <1>6, <1>7, NoEntry, OrderedFacts
  DEF ISA!Complete, ISA!Successors, ISA!Following, ISA!Executable

LEMMA JalStep ==
  ASSUME Ordered, LaunchJal, cpu_state' = "fetch" PROVE ISA!Complete
<1>1. cpu_state = "fetch" /\ decoder_trigger /\ NoIrq /\ insn.kind = "jal"
  BY DEF LaunchJal, Fetch
<1>2. /\ ~latched_store' /\ do_waitirq' = FALSE /\ Trigger
      /\ reg_next_pc' = PcPlus(current_pc, insn.imm) /\ irq_delay' = irq_active
      /\ latched_branch'
  BY <1>1 DEF LaunchJal, Fetch, Latch
<1>3. isa_pc' = PcPlus(isa_pc, insn.imm) /\ isa_q0' = q0'
  BY <1>1, <1>2, NoEntry DEF isa_pc, current_pc, waiting, isa_q0, entering
<1>4. /\ isa_op # ISA!None /\ isa_op.kind = "jal" /\ isa_op.imm = insn.imm
      /\ isa_busy = FALSE /\ (~Fetchable(isa_pc) => isa_delay)
  BY <1>1, HandedShown, WaitingShown, DelayedMisfetch DEF decoded
<1>5. isa_op' = ISA!None
  BY <1>1, <1>2, HandedShown, NextWaiting DEF Trigger
<1>6. isa_delay' = FALSE /\ isa_irq_active' = isa_irq_active /\ isa_busy' = FALSE
  BY <1>1, <1>2, NoEntry, NextWaiting, WaitingShown DEF isa_delay
<1>7. isa_irq_active' = (isa_irq_active /\ isa_op.kind # "retirq")
  BY <1>1, <1>4, <1>6, WaitingShown
<1>8. isa_pc' \in ISA!Successors
  BY <1>3, <1>4 DEF ISA!Successors
<1>9. resetn /\ cpu_state # "trap" /\ cpu_state' # "trap" /\ isa_q0' = isa_q0 /\ prog' = prog
  BY <1>1, <1>3, NoEntry, OrderedFacts
<1>10. ISA!Executable
  BY <1>4 DEF ISA!Executable
<1> QED
  BY <1>4, <1>5, <1>6, <1>7, <1>8, <1>9, <1>10 DEF ISA!Complete

LEMMA LaunchStep ==
  ASSUME Ordered, Launch, cpu_state' # "trap" PROVE ISA!Start
<1>1. cpu_state = "fetch" /\ decoder_trigger /\ NoIrq
  BY DEF Launch, Fetch
<1>2. irq_delay' = irq_active /\ cpu_state' = "ld_rs1" /\ reg_pc' = current_pc
  BY Goes DEF Launch, Fetch
<1>3. isa_pc' = isa_pc /\ isa_q0' = q0' /\ isa_busy' = TRUE /\ isa_irq_active' = irq_active'
  BY <1>1, <1>2, NoEntry, InvariantsNext, OrderedFacts
  DEF isa_pc, waiting, isa_q0, entering, isa_busy, isa_irq_active, TypeOK, IrqTypeOK
<1>4. isa_op # ISA!None /\ isa_busy = FALSE /\ (~Fetchable(isa_pc) => isa_delay)
  BY <1>1, HandedShown, WaitingShown, DelayedMisfetch
<1>5. isa_op' = decoded'
  BY <1>2 DEF isa_op, idle, waiting
<1>6. insn' = insn /\ prog' = prog
  BY <1>1, HandedShown, DecoderHolds, OrderedFacts DEF Live
<1>7. isa_op' = isa_op
  BY <1>1, <1>3, <1>5, <1>6, HandedShown DEF decoded, Halfwords, Fetchable, Odd, Wide
<1>8. isa_delay' = FALSE
  BY <1>1, <1>2, NoEntry DEF isa_delay
<1> QED
  BY <1>1, <1>2, <1>3, <1>4, <1>7, <1>8, NoEntry, OrderedFacts DEF ISA!Start, ISA!Executable

LEMMA FetchStepsIsa ==
  ASSUME Ordered, cpu_state = "fetch", cpu_state' # "trap"
  PROVE  ISA!Next \/ UNCHANGED ISA!vars
<1>1. EnterIrq \/ WaitIrq \/ WaitIrqDone \/ LaunchJal \/ AwaitInsn => cpu_state' = "fetch"
  BY Goes DEF EnterIrq, WaitIrq, WaitIrqDone, LaunchJal, AwaitInsn
<1>2. FetchActions
  BY StateActions, OrderedFacts
<1> QED
  BY <1>1, <1>2, InterruptStep, EntryStutters, WaitStutters, WaitDoneStep, JalStep, LaunchStep,
     AwaitStep
  DEF FetchActions, ISA!Next

------------------------------------------------------------------------------
(* The steps of the states an instruction passes through.                  *)

LEMMA WorkingShown ==
  ASSUME Ordered, Working
  PROVE  /\ isa_pc = reg_pc /\ isa_busy = TRUE /\ isa_irq_active = irq_active /\ isa_q0 = q0
         /\ isa_delay = FALSE /\ irq_state' = 0
         /\ reg_pc' = reg_pc /\ reg_next_pc' = reg_next_pc /\ q0' = q0 /\ irq_delay' = irq_delay
         /\ do_waitirq' = FALSE
<1>1. Step(cpu_state) /\ irq_state' = 0
  BY WorkingStep, OrderedFacts
<1>2. irq_delay = irq_active
  BY DEF Ordered, DelayInv
<1> QED
  BY <1>1, <1>2, OrderedFacts
  DEF Working, isa_pc, isa_busy, isa_irq_active, isa_q0, isa_delay, entering, waiting, Step,
      TypeOK, IrqTypeOK

\* The instruction that is executed; a load or store stays the same when the
\* decoder goes on.
LEMMA OperationShown ==
  ASSUME Ordered, Working
  PROVE  /\ cpu_state \in {"ld_rs1", "ld_rs2", "exec", "shift"} =>
              /\ isa_op = decoded
              /\ isa_op = [kind |-> insn.kind, at |-> ISA!Extent(reg_pc), imm |-> insn.imm]
         /\ cpu_state = "stmem" =>
              isa_op = [kind |-> "store", at |-> ISA!Extent(reg_pc), imm |-> 0]
         /\ cpu_state = "ldmem" =>
              isa_op = [kind |-> "load", at |-> ISA!Extent(reg_pc), imm |-> 0]
         /\ isa_op # ISA!None
<1>1. insn \in [src : Sources, kind : AllKinds, imm : JumpOffsets \cup {0}] /\ reg_pc \in PC
  BY OrderedFacts DEF TypeOK, DecoderTypeOK
<1>2. ASSUME cpu_state \in {"ld_rs1", "ld_rs2", "exec", "shift"}
      PROVE  /\ isa_op = decoded
             /\ isa_op = [kind |-> insn.kind, at |-> ISA!Extent(reg_pc), imm |-> insn.imm]
  <2>1. Fetchable(reg_pc) => FetchedFrom(insn.src, reg_pc)
    BY <1>2 DEF Ordered, Sourced, ExecutedInv, Executing
  <2>2. isa_op = decoded
    BY <1>2 DEF isa_op, idle, waiting
  <2>3. Halfwords(insn.src, reg_pc) = ISA!Extent(reg_pc)
    BY <1>1, <2>1, HalfwordsRead, OrderedFacts
  <2> QED
    BY <2>2, <2>3, WorkingShown DEF decoded
<1>3. Halfwords(<<reg_pc, PcPlus(reg_pc, 1)>>, reg_pc) = ISA!Extent(reg_pc)
  BY <1>1, HalfwordsOfPc, OrderedFacts
<1>4. cpu_state = "stmem" => isa_op = [kind |-> "store", at |-> ISA!Extent(reg_pc), imm |-> 0]
  BY <1>3 DEF isa_op, idle, waiting, current
<1>5. cpu_state = "ldmem" => isa_op = [kind |-> "load", at |-> ISA!Extent(reg_pc), imm |-> 0]
  BY <1>3 DEF isa_op, idle, waiting, current
<1>6. isa_op.kind \in AllKinds
  BY <1>1, <1>2, <1>4, <1>5, OrderedFacts DEF CpuStates, Working, AllKinds
<1> QED
  BY <1>2, <1>4, <1>5, <1>6 DEF ISA!None, AllKinds

\* From one of these states to another.
LEMMA WorkGoesOn ==
  ASSUME Ordered, Working, Working'
  PROVE  \/ cpu_state' \in {"ld_rs1", "ld_rs2", "exec", "shift"}
         \/ cpu_state' = cpu_state /\ cpu_state \in {"stmem", "ldmem"}
         \/ cpu_state \in {"ld_rs1", "ld_rs2"} /\ cpu_state' = "stmem" /\ insn.kind = "store"
         \/ cpu_state \in {"ld_rs1", "ld_rs2"} /\ cpu_state' = "ldmem" /\ insn.kind = "load"
<1>1. DataActions => cpu_state' \in {cpu_state, "fetch", "trap"}
  BY Goes DEF DataActions, DataWaits, DataAccess, DataPhase, Step
<1>2. LoadActions => \/ cpu_state' \in {"ld_rs1", "ld_rs2", "exec", "shift", "fetch", "trap"}
                     \/ cpu_state' \in {"stmem", "trap"} /\ insn.kind = "store"
                     \/ cpu_state' \in {"ldmem", "trap"} /\ insn.kind = "load"
  <2>1. LdRs1Illegal \/ PcpiAbort => cpu_state' \in {"fetch", "trap"}
    BY Goes DEF LdRs1Illegal, PcpiAbort, IllegalInsn
  <2>2. LdRs1Simple \/ LdRs1SetQ \/ LdRs1MaskIrq \/ LdRs1Timer \/ LdRs1RetIrq \/ PcpiReady =>
          cpu_state' \in {"fetch", "trap"}
    BY Goes DEF LdRs1Simple, LdRs1SetQ, LdRs1MaskIrq, LdRs1Timer, LdRs1RetIrq, PcpiReady,
       LatchResult
  <2>3. LdRs1Imm \/ LdRs1ShiftImm \/ LdRs1SinglePort \/ Shift \/ Alu =>
          cpu_state' \in {"ld_rs2", "exec", "shift", "trap"}
    BY Goes DEF LdRs1Imm, LdRs1ShiftImm, LdRs1SinglePort, Shift, Alu, Proceed
  <2>4. PcpiWait => cpu_state' \in {"ld_rs1", "ld_rs2", "trap"}
    BY Goes DEF PcpiWait, Pcpi, SecondOperand, Step
  <2>5. LdRs1Load => cpu_state' \in {"ldmem", "trap"} /\ insn.kind = "load"
    BY Goes DEF LdRs1Load, Proceed
  <2>6. Store => cpu_state' \in {"stmem", "trap"} /\ insn.kind = "store"
    BY Goes DEF Store, Proceed
  <2> QED
    BY <2>1, <2>2, <2>3, <2>4, <2>5, <2>6 DEF LoadActions
<1>3. ExecWait \/ ExecBranch \/ ExecAlu \/ ShiftStep \/ ShiftDone =>
        cpu_state' \in {"exec", "shift", "fetch", "trap"}
  BY Goes DEF ExecWait, ExecBranch, ExecAlu, ShiftStep, ShiftDone
<1> QED
  BY <1>1, <1>2, <1>3, StateActions, OrderedFacts DEF Working

LEMMA WorkStutters ==
  ASSUME Ordered, Working, Working' PROVE UNCHANGED ISA!vars
<1>1. /\ isa_pc' = reg_pc /\ isa_busy' = TRUE /\ isa_q0' = q0
      /\ isa_irq_active' = irq_active' /\ isa_delay' = FALSE
  <2>1. irq_delay' = irq_active'
    BY DelayInvKept DEF DelayInv
  <2>2. irq_active' \in BOOLEAN
    BY InvariantsNext, OrderedFacts DEF TypeOK, IrqTypeOK
  <2> QED
    BY <2>1, <2>2, WorkingShown
    DEF Working, isa_pc, isa_busy, isa_irq_active, isa_q0, isa_delay, entering, waiting
<1>2. irq_active' = irq_active
  BY WorkingStep, InvariantsNext, OrderedFacts DEF TypeOK, IrqTypeOK
<1>3. isa_op' = isa_op
  <2>1. CASE cpu_state' \in {"ld_rs1", "ld_rs2", "exec", "shift"}
    <3>1. ~Launch /\ Executing' /\ Sourced
      BY <2>1 DEF Launch, Fetch, Executing, Working, Ordered
    <3>2. insn' = insn /\ Executing
      BY <3>1, ExecutingStays
    <3>3. cpu_state \in {"ld_rs1", "ld_rs2", "exec", "shift"}
      BY <2>1, <3>2, StateActions, Goes, OrderedFacts
      DEF Executing, DataActions, DataWaits, DataAccess, DataPhase, Step
    <3>4. isa_op' = decoded'
      BY <2>1 DEF isa_op, idle, waiting
    <3> QED
      BY <1>1, <3>2, <3>3, <3>4, OperationShown, WorkingShown, OrderedFacts
      DEF decoded, Halfwords, Fetchable, Odd, Wide
  <2>2. reg_pc \in PC /\ Halfwords(<<reg_pc, PcPlus(reg_pc, 1)>>, reg_pc) = ISA!Extent(reg_pc)
    BY HalfwordsOfPc, OrderedFacts
  <2>3. Halfwords(<<reg_pc, PcPlus(reg_pc, 1)>>, reg_pc)'
          = Halfwords(<<reg_pc, PcPlus(reg_pc, 1)>>, reg_pc)
    BY WorkingShown, OrderedFacts DEF Halfwords, Fetchable, Odd, Wide, PcPlus
  <2>4. CASE cpu_state' = "stmem"
    <3>1. isa_op' = [kind |-> "store", at |-> ISA!Extent(reg_pc), imm |-> 0]
      BY <2>2, <2>3, <2>4 DEF isa_op, idle, waiting, current
    <3>2. \/ cpu_state = "stmem"
          \/ cpu_state \in {"ld_rs1", "ld_rs2"} /\ insn.kind = "store"
      BY <2>4, WorkGoesOn
    <3>3. CASE cpu_state \in {"ld_rs1", "ld_rs2"} /\ insn.kind = "store"
      <4>1. insn.imm = 0
        BY <3>3 DEF Ordered, InsnInv, Instruction, Executing
      <4> QED
        BY <3>1, <3>3, <4>1, OperationShown
    <3> QED
      BY <3>1, <3>2, <3>3, OperationShown
  <2>5. CASE cpu_state' = "ldmem"
    <3>1. isa_op' = [kind |-> "load", at |-> ISA!Extent(reg_pc), imm |-> 0]
      BY <2>2, <2>3, <2>5 DEF isa_op, idle, waiting, current
    <3>2. \/ cpu_state = "ldmem"
          \/ cpu_state \in {"ld_rs1", "ld_rs2"} /\ insn.kind = "load"
      BY <2>5, WorkGoesOn
    <3>3. CASE cpu_state \in {"ld_rs1", "ld_rs2"} /\ insn.kind = "load"
      <4>1. insn.imm = 0
        BY <3>3 DEF Ordered, InsnInv, Instruction, Executing
      <4> QED
        BY <3>1, <3>3, <4>1, OperationShown
    <3> QED
      BY <3>1, <3>2, <3>3, OperationShown
  <2> QED
    BY <2>1, <2>4, <2>5, WorkGoesOn
<1>4. (cpu_state' = "trap") = (cpu_state = "trap")
  BY DEF Working
<1> QED
  BY <1>1, <1>2, <1>3, <1>4, WorkingShown, OrderedFacts DEF ISA!vars

\* Back to cpu_state_fetch: the instruction is complete.
LEMMA Follows ==
  ASSUME Ordered, Working, cpu_state' = "fetch", ~latched_branch'
  PROVE  isa_pc' = ISA!Following
<1>1. isa_pc' = reg_next_pc
  BY NextWaiting, WorkingShown DEF current_pc
<1> QED
  BY <1>1, WorkingShown DEF ISA!Following, Ordered, FollowingInv

LEMMA ReturnAddressKept ==
  ASSUME Ordered, Working, cpu_state' = "fetch", latched_rd' = "rd" PROVE isa_q0' = isa_q0
BY WorkingShown DEF isa_q0, entering, waiting

LEMMA Completes ==
  ASSUME Ordered, Working, cpu_state' = "fetch",
         isa_op.kind \notin {"jal", "waitirq"}, isa_pc' \in ISA!Successors,
         irq_active' = (irq_active /\ isa_op.kind # "retirq"),
         IF isa_op.kind = "setq" THEN isa_q0' \in {PcPlus(isa_pc, offset) : offset \in JumpOffsets}
                                 ELSE isa_q0' = isa_q0
  PROVE  ISA!Complete
<1>1. /\ resetn /\ cpu_state # "trap" /\ cpu_state' # "trap" /\ prog' = prog
      /\ isa_op # ISA!None /\ isa_busy = TRUE /\ isa_busy' = FALSE
      /\ isa_op' \in {ISA!None} \cup ISA!Read(isa_pc')
  BY WorkingShown, OperationShown, NextWaiting, OrderedFacts
<1>2. isa_irq_active = irq_active /\ isa_irq_active' = irq_active'
  BY WorkingShown, NextWaiting
<1>3. isa_delay' = CASE isa_op.kind = "retirq" -> isa_irq_active
                     [] isa_op.kind = "jal"    -> FALSE
                     [] OTHER                  -> isa_delay
  <2>1. irq_delay' = irq_active /\ irq_active \in BOOLEAN /\ isa_delay = FALSE
    BY WorkingShown, OrderedFacts DEF Ordered, DelayInv, TypeOK, IrqTypeOK
  <2>2. isa_delay' = (irq_active /\ ~irq_active')
    BY <2>1 DEF isa_delay
  <2>3. CASE isa_op.kind = "retirq"
    BY <1>2, <2>1, <2>2, <2>3
  <2>4. CASE isa_op.kind # "retirq"
    BY <2>1, <2>2, <2>4
  <2> QED
    BY <2>3, <2>4
<1> QED
  BY <1>1, <1>2, <1>3 DEF ISA!Complete

LEMMA LoadCompletes ==
  ASSUME Ordered, Working, LoadActions, cpu_state' = "fetch" PROVE ISA!Complete
<1>1. /\ cpu_state \in {"ld_rs1", "ld_rs2"} /\ isa_op.kind = insn.kind
      /\ ~latched_branch /\ ~latched_stalu /\ latched_rd = "rd"
      /\ insn.kind \notin {"jal", "waitirq"}
      /\ irq_active \in BOOLEAN /\ isa_pc = reg_pc /\ isa_q0 = q0
  <2>1. cpu_state \in {"ld_rs1", "ld_rs2"}
    BY DEF LoadActions, LdRs1Illegal, LdRs1Simple, LdRs1SetQ, LdRs1MaskIrq, LdRs1Timer,
       LdRs1RetIrq, LdRs1Load, LdRs1Imm, LdRs1ShiftImm, LdRs1SinglePort, Store, Shift, Alu,
       PcpiReady, PcpiAbort, PcpiWait, Pcpi, SecondOperand, Step
  <2>2. isa_op.kind = insn.kind /\ isa_pc = reg_pc /\ isa_q0 = q0
    BY <2>1, OperationShown, WorkingShown
  <2>3. ~latched_branch /\ ~latched_stalu /\ latched_rd = "rd" /\ irq_active \in BOOLEAN
    BY <2>1, OrderedFacts DEF LatchInv, TypeOK, IrqTypeOK
  <2> QED
    BY <2>1, <2>2, <2>3 DEF Ordered, StageInv
<1>2. CASE LdRs1RetIrq
  <2>1. /\ insn.kind = "retirq" /\ latched_branch' /\ latched_store' /\ ~latched_stalu'
        /\ reg_out' = q0 /\ irq_active' = FALSE /\ latched_rd' = "rd"
    BY <1>1, <1>2 DEF LdRs1RetIrq, Latch
  <2>2. isa_pc' = q0
    BY <2>1, NextWaiting DEF current_pc
  <2>3. isa_pc' \in ISA!Successors
    BY <1>1, <2>1, <2>2 DEF ISA!Successors
  <2> QED
    BY <1>1, <2>1, <2>3, Completes, ReturnAddressKept
<1>3. CASE LdRs1SetQ
  <2>1. PICK rs1 \in JumpTargets : LatchResult(rs1, "q0")
    BY <1>3 DEF LdRs1SetQ
  <2>2. /\ insn.kind = "setq" /\ ~latched_branch' /\ latched_store' /\ latched_rd' = "q0"
        /\ reg_out' = rs1 /\ irq_active' = irq_active
    BY <1>1, <1>3, <2>1 DEF LdRs1SetQ, LatchResult, Latch, KeepIrqState
  <2>3. isa_q0' \in {PcPlus(isa_pc, offset) : offset \in JumpOffsets}
    BY <1>1, <2>2, WorkingShown DEF isa_q0, entering, waiting, JumpTargets
  <2>4. isa_pc' \in ISA!Successors
    BY <1>1, <2>2, Follows DEF ISA!Successors
  <2> QED
    BY <1>1, <2>2, <2>3, <2>4, Completes
<1>4. CASE ~LdRs1RetIrq /\ ~LdRs1SetQ
  <2>0. LdRs1Illegal \/ LdRs1Simple \/ LdRs1MaskIrq \/ LdRs1Timer \/ PcpiReady \/ PcpiAbort
          \/ PcpiWait
    <3>1. LdRs1Load \/ LdRs1Imm \/ LdRs1ShiftImm \/ LdRs1SinglePort \/ Store \/ Shift \/ Alu =>
            cpu_state' \in {"ld_rs2", "exec", "shift", "stmem", "ldmem", "trap"}
      BY Goes
      DEF LdRs1Load, LdRs1Imm, LdRs1ShiftImm, LdRs1SinglePort, Store, Shift, Alu, Proceed
    <3> QED
      BY <1>4, <3>1 DEF LoadActions
  <2>1. insn.kind \in {"simple", "maskirq", "timer", "pcpi", "ecall"}
    BY <2>0 DEF LdRs1Illegal, LdRs1Simple, LdRs1MaskIrq, LdRs1Timer, PcpiReady, PcpiAbort,
       PcpiWait, Pcpi, instr_trap
  <2>2. ~latched_branch' /\ latched_rd' = "rd" /\ irq_active' = irq_active
    <3>1. UNCHANGED <<latched_branch, latched_rd, irq_active>>
      BY <2>0 DEF LdRs1Illegal, LdRs1Simple, LdRs1MaskIrq, LdRs1Timer, PcpiReady, PcpiAbort,
         PcpiWait, Pcpi, LatchResult, Latch, latches, KeepIrqState
    <3> QED
      BY <1>1, <3>1
  <2>3. isa_pc' \in ISA!Successors
    BY <1>1, <2>1, <2>2, Follows DEF ISA!Successors
  <2> QED
    BY <1>1, <2>1, <2>2, <2>3, Completes, ReturnAddressKept
<1> QED
  BY <1>2, <1>3, <1>4

LEMMA ExecCompletes ==
  ASSUME Ordered, cpu_state' = "fetch",
         ExecWait \/ ExecBranch \/ ExecAlu \/ ShiftStep \/ ShiftDone
  PROVE  ISA!Complete
<1>1. /\ cpu_state \in {"exec", "shift"} /\ Working /\ isa_op.kind = insn.kind
      /\ isa_op.imm = insn.imm /\ ~latched_stalu /\ latched_rd = "rd"
      /\ irq_active \in BOOLEAN /\ isa_pc = reg_pc
  <2>1. cpu_state \in {"exec", "shift"} /\ Working
    BY DEF ExecWait, ExecBranch, ExecAlu, Exec, ShiftStep, ShiftDone, Step, Working
  <2> QED
    BY <2>1, OperationShown, WorkingShown, OrderedFacts DEF LatchInv, TypeOK, IrqTypeOK
<1>2. latched_rd' = "rd" /\ irq_active' = irq_active
  BY <1>1 DEF ExecWait, ExecBranch, ExecAlu, Exec, ShiftStep, ShiftDone, KeepIrqState, latches
<1>3. insn.kind \in {"imm", "jalr", "reg", "branch", "shift", "shiftimm"}
  BY <1>1 DEF Ordered, StageInv
<1>4. isa_pc' \in ISA!Successors
  <2>1. CASE ~latched_branch' /\ insn.kind # "jalr"
    BY <1>1, <1>3, <2>1, Follows DEF ISA!Successors
  <2>2. CASE ExecBranch /\ latched_branch'
    <3>1. /\ insn.kind = "branch" /\ latched_store' /\ ~latched_stalu'
          /\ reg_out' = PcPlus(reg_pc, insn.imm)
      BY <1>1, <2>2 DEF ExecBranch, Exec, Latch
    <3>2. isa_pc' = PcPlus(isa_pc, isa_op.imm)
      BY <1>1, <2>2, <3>1, NextWaiting DEF current_pc
    <3> QED
      BY <1>1, <3>1, <3>2 DEF ISA!Successors
  <2>3. CASE ExecAlu /\ insn.kind = "jalr"
    <3>1. latched_branch' /\ latched_store' /\ latched_stalu' /\ alu_out_q' \in JumpTargets
      BY <1>1, <2>3 DEF ExecAlu, Exec, Latch, Step
    <3>2. isa_pc' = alu_out_q'
      BY <3>1, NextWaiting DEF current_pc
    <3>3. PICK offset \in JumpOffsets : alu_out_q' = PcPlus(reg_pc, offset)
      BY <3>1 DEF JumpTargets
    <3> QED
      BY <1>1, <2>3, <3>2, <3>3 DEF ISA!Successors
  <2>4. ExecWait \/ ShiftStep => cpu_state' \in {"exec", "shift", "trap"}
    BY Goes DEF ExecWait, ShiftStep
  <2>5. ExecAlu => insn.kind = "jalr" \/ ~latched_branch'
    BY DEF ExecAlu, Latch
  <2>6. ShiftDone => ~latched_branch' /\ insn.kind # "jalr"
    BY OrderedFacts DEF ShiftDone, Step, Latch, LatchInv, Ordered, StageInv
  <2> QED
    BY <2>1, <2>2, <2>3, <2>4, <2>5, <2>6 DEF ExecBranch
<1> QED
  BY <1>1, <1>2, <1>3, <1>4, Completes, ReturnAddressKept

LEMMA DataCompletes ==
  ASSUME Ordered, DataActions, cpu_state' = "fetch" PROVE ISA!Complete
<1>1. PICK state \in {"stmem", "ldmem"} : DataPhase(state)
  BY DEF DataActions, DataWaits, DataAccess
<1>2. /\ cpu_state \in {"stmem", "ldmem"} /\ Working /\ isa_op.kind \in {"load", "store"}
      /\ ~latched_branch /\ latched_rd = "rd" /\ irq_active \in BOOLEAN
  <2>1. cpu_state \in {"stmem", "ldmem"} /\ Working
    BY <1>1 DEF DataPhase, Step, Working
  <2> QED
    BY <2>1, OperationShown, OrderedFacts DEF LatchInv, TypeOK, IrqTypeOK
<1>3. ~latched_branch' /\ latched_rd' = "rd" /\ irq_active' = irq_active
  BY <1>1, <1>2 DEF DataPhase, Latch, KeepIrqState
<1>4. isa_pc' \in ISA!Successors
  BY <1>2, <1>3, Follows DEF ISA!Successors
<1> QED
  BY <1>2, <1>3, <1>4, Completes, ReturnAddressKept

\* Anywhere but in cpu_state_fetch.
LEMMA WorkStepsIsa ==
  ASSUME Ordered, Working, cpu_state' # "trap" PROVE ISA!Next \/ UNCHANGED ISA!vars
<1>1. CASE Working'
  BY <1>1, WorkStutters
<1>2. CASE cpu_state' = "fetch"
  BY <1>2, StateActions, LoadCompletes, ExecCompletes, DataCompletes, OrderedFacts
  DEF Working, ISA!Next
<1> QED
  BY <1>1, <1>2 DEF Working

------------------------------------------------------------------------------
(* The core stops, is reset, or is stopped.                                *)

LEMMA TrapShown ==
  ASSUME cpu_state' = "trap"
  PROVE  /\ isa_pc' = reg_pc' /\ isa_op' = ISA!None /\ isa_busy' = FALSE /\ isa_q0' = q0'
         /\ isa_irq_active' = (irq_active' \/ FALSE) /\ isa_delay' = (irq_delay' /\ ~irq_active')
BY DEF isa_pc, isa_op, isa_busy, isa_irq_active, isa_delay, isa_q0, idle, waiting, entering,
   ISA!None

\* What stops the core where an instruction is executed.
LEMMA WorkTraps ==
  ASSUME Ordered, Working, cpu_state' = "trap"
  PROVE  isa_op.kind \in {"pcpi", "ecall", "load", "store"} \/ ~Fetchable(isa_pc)
<1>1. CASE MisalignedAccess
  <2>1. CASE mem_do_rdata \/ mem_do_wdata
    <3>1. cpu_state \in {"ldmem", "stmem"}
      BY <2>1, OrderedFacts DEF RequestInv
    <3> QED
      BY <3>1, OperationShown
  <2>2. CASE mem_do_rinst /\ ~COMPRESSED_ISA /\ Odd(reg_pc)
    BY <2>2, WorkingShown DEF Fetchable
  <2> QED
    BY <1>1, <2>1, <2>2 DEF MisalignedAccess
<1>2. CASE ~MisalignedAccess
  <2>1. ASSUME NEW state, GoTo(state) PROVE state = "trap"
    BY <1>2, <2>1 DEF GoTo
  <2>2. ~DataActions
    BY <2>1 DEF DataActions, DataWaits, DataAccess, DataPhase, Step
  <2>3. ~(ExecWait \/ ExecBranch \/ ExecAlu \/ ShiftStep \/ ShiftDone)
    BY <2>1 DEF ExecWait, ExecBranch, ExecAlu, ShiftStep, ShiftDone
  <2>4. cpu_state \in {"ld_rs1", "ld_rs2"} /\ LoadActions
    BY <2>2, <2>3, StateActions, OrderedFacts
  <2>5. LdRs1Illegal \/ PcpiAbort
    <3>1. ~(LdRs1Simple \/ LdRs1SetQ \/ LdRs1MaskIrq \/ LdRs1Timer \/ LdRs1RetIrq \/ PcpiReady)
      BY <2>1 DEF LdRs1Simple, LdRs1SetQ, LdRs1MaskIrq, LdRs1Timer, LdRs1RetIrq, PcpiReady,
         LatchResult
    <3>2. ~(LdRs1Load \/ LdRs1Imm \/ LdRs1ShiftImm \/ LdRs1SinglePort \/ Store \/ Shift \/ Alu)
      BY <2>1 DEF LdRs1Load, LdRs1Imm, LdRs1ShiftImm, LdRs1SinglePort, Store, Shift, Alu, Proceed
    <3>3. ~PcpiWait
      BY <2>1, <2>4 DEF PcpiWait
    <3> QED
      BY <2>4, <3>1, <3>2, <3>3 DEF LoadActions
  <2>6. insn.kind \in {"pcpi", "ecall"}
    BY <2>5 DEF LdRs1Illegal, PcpiAbort, Pcpi, instr_trap
  <2> QED
    BY <2>4, <2>6, OperationShown
<1> QED
  BY <1>1, <1>2

LEMMA WorkHalts ==
  ASSUME Ordered, Working, cpu_state' = "trap" PROVE ISA!Halt
<1>1. irq_active' = irq_active /\ irq_active \in BOOLEAN
  <2>1. irq_active \in BOOLEAN /\ irq_active' \in BOOLEAN
    BY InvariantsNext, OrderedFacts DEF TypeOK, IrqTypeOK
  <2>2. ~LdRs1RetIrq
    <3>1. cpu_state = "ld_rs1" => ~MisalignedAccess
      BY OperandsAskNothing, OrderedFacts
    <3> QED
      BY <3>1 DEF LdRs1RetIrq, GoTo, Step
  <2> QED
    BY <2>1, <2>2, WorkingStep, OrderedFacts
<1>2. isa_irq_active' = isa_irq_active /\ isa_delay' = isa_delay
  <2>1. irq_delay' = irq_active
    BY WorkingShown DEF Ordered, DelayInv
  <2> QED
    BY <1>1, <2>1, TrapShown, WorkingShown
<1>3. isa_pc' = isa_pc /\ isa_q0' = isa_q0 /\ prog' = prog /\ resetn /\ cpu_state # "trap"
  BY TrapShown, WorkingShown, OrderedFacts
<1> QED
  BY <1>2, <1>3, TrapShown, WorkTraps DEF ISA!Halt

\* In cpu_state_fetch only the fetch of a misaligned instruction stops it.
LEMMA FetchHalts ==
  ASSUME Ordered, cpu_state = "fetch", cpu_state' = "trap" PROVE ISA!Halt
<1>1. MisalignedAccess /\ ~IrqEnabled(2) /\ FetchActions
  BY StateActions, OrderedFacts
  DEF FetchActions, EnterIrq, WaitIrq, WaitIrqDone, LaunchJal, Launch, AwaitInsn, GoTo
<1>2. mem_do_rinst /\ ~COMPRESSED_ISA /\ Odd(reg_pc)
  BY <1>1, OrderedFacts DEF MisalignedAccess, RequestInv
<1>3. ~decoder_trigger /\ irq_state # 1
  BY <1>2, OrderedFacts DEF RequestInv, StepInv
<1>4. isa_pc = current_pc /\ ~Fetchable(isa_pc)
  BY <1>1, <1>2, WaitingShown DEF Ordered, MisfetchInv, waiting, Fetchable
<1>5. reg_pc' = current_pc
  BY <1>1 DEF FetchActions, EnterIrq, WaitIrq, WaitIrqDone, LaunchJal, Launch, AwaitInsn, Fetch
<1>6. irq_delay' = irq_delay
  BY <1>1, <1>3 DEF FetchActions, EnterIrq, WaitIrq, WaitIrqDone, LaunchJal, Launch, AwaitInsn
<1>7. isa_irq_active = irq_active /\ irq_active' = irq_active
  BY <1>3, WaitingShown, OrderedFacts DEF isa_irq_active, entering, TypeOK, IrqTypeOK
<1>8. isa_irq_active' = isa_irq_active /\ isa_delay' = isa_delay
  BY <1>6, <1>7, TrapShown, WaitingShown DEF isa_delay
<1>9. isa_q0' = isa_q0 /\ prog' = prog /\ resetn
  BY TrapShown, WaitingShown, OrderedFacts
<1> QED
  BY <1>4, <1>5, <1>8, <1>9, TrapShown DEF ISA!Halt

LEMMA ResetShown ==
  ASSUME Next, ~resetn, TypeOK' PROVE ISA!Reset
<1>1. Reset /\ prog' = prog
  BY ResetStep DEF Next, Clock
<1>2. /\ cpu_state' = "fetch" /\ ~latched_branch' /\ ~latched_store' /\ irq_state' = 0
      /\ reg_next_pc' = PROGADDR_RESET /\ irq_active' = FALSE /\ irq_delay' = FALSE
      /\ ~decoder_trigger' /\ do_waitirq' = FALSE
  BY <1>1 DEF Reset, Latch, Trigger, mem_done
<1>3. isa_pc' = PROGADDR_RESET /\ isa_op' = ISA!None /\ isa_busy' = FALSE
  BY <1>2 DEF isa_pc, current_pc, isa_op, isa_busy, idle, waiting, ISA!None
<1>4. isa_irq_active' = FALSE /\ isa_delay' = FALSE
  BY <1>2 DEF isa_irq_active, isa_delay, entering
<1>5. isa_q0' = q0' /\ q0' \in PC
  BY <1>2 DEF isa_q0, entering, waiting, TypeOK, IrqTypeOK
<1> QED
  BY <1>1, <1>2, <1>3, <1>4, <1>5 DEF ISA!Reset

LEMMA TrappedStutters ==
  ASSUME TypeOK, RequestInv, Next, resetn, cpu_state = "trap" PROVE UNCHANGED ISA!vars
<1>1. /\ cpu_state' = "trap" /\ prog' = prog
      /\ UNCHANGED <<reg_pc, irq_active, irq_delay, q0>>
  BY TrapStep DEF Trapped, Next, Clock
<1>2. isa_pc' = isa_pc /\ isa_op' = isa_op /\ isa_busy' = isa_busy /\ isa_q0' = isa_q0
  BY <1>1 DEF isa_pc, isa_op, isa_busy, isa_q0, idle, waiting, entering
<1>3. isa_irq_active' = isa_irq_active /\ isa_delay' = isa_delay
  BY <1>1 DEF isa_irq_active, isa_delay, waiting, entering
<1> QED
  BY <1>1, <1>2, <1>3 DEF ISA!vars

LEMMA StutterShown == ASSUME UNCHANGED vars PROVE UNCHANGED ISA!vars
<1> USE DEF vars, inputs, bus, requests, fetchUnit, decoder, latches, interrupts, datapath
<1>1. isa_pc' = isa_pc /\ (waiting' <=> waiting) /\ (idle' <=> idle)
  BY DEF isa_pc, current_pc, waiting, idle
<1>2. decoded' = decoded
  BY <1>1 DEF decoded, Halfwords, Fetchable, Odd, Wide
<1>3. Halfwords(<<reg_pc, PcPlus(reg_pc, 1)>>, reg_pc)'
        = Halfwords(<<reg_pc, PcPlus(reg_pc, 1)>>, reg_pc)
  BY DEF Halfwords, Fetchable, Odd, Wide, PcPlus
<1>4. isa_op' = isa_op
  BY <1>1, <1>2, <1>3 DEF isa_op, current
<1>5. isa_q0' = isa_q0
  BY <1>1 DEF isa_q0, entering
<1>6. /\ isa_busy' = isa_busy /\ isa_irq_active' = isa_irq_active /\ isa_delay' = isa_delay
      /\ (cpu_state = "trap")' = (cpu_state = "trap") /\ prog' = prog
  BY <1>1 DEF isa_busy, isa_irq_active, isa_delay, entering
<1> QED
  BY <1>1, <1>4, <1>5, <1>6 DEF ISA!vars

LEMMA IsaStarts == Init => ISA!Init
<1> SUFFICES ASSUME Init PROVE ISA!Init
  OBVIOUS
<1>1. isa_pc = PROGADDR_RESET /\ isa_op = ISA!None /\ isa_busy = FALSE
  BY DEF Init, isa_pc, current_pc, isa_op, isa_busy, idle, waiting, ISA!None
<1>2. isa_irq_active = FALSE /\ isa_delay = FALSE /\ isa_q0 = PROGADDR_RESET
  BY DEF Init, isa_irq_active, isa_delay, isa_q0, entering, waiting
<1>3. isa_q0 \in PC /\ cpu_state # "trap"
  BY <1>2, AddressAssumption DEF Init
<1> QED
  BY <1>1, <1>2, <1>3 DEF ISA!Init

LEMMA IsaStep ==
  ASSUME CoreInv, SourceInv, IrqInv, OrderInv, [Next]_vars
  PROVE  [ISA!Next]_(ISA!vars)
<1>1. CASE UNCHANGED vars
  BY <1>1, StutterShown
<1>2. CASE Next /\ ~resetn
  BY <1>2, TypeInvNext, ResetShown DEF CoreInv, ISA!Next
<1>3. CASE Next /\ resetn /\ cpu_state = "trap"
  BY <1>3, TrappedStutters DEF CoreInv
<1>4. CASE Next /\ resetn /\ cpu_state # "trap"
  <2>1. Live
    BY <1>4 DEF CoreInv, Live
  <2>2. Ordered
    BY <2>1, LiveFacts DEF Ordered, Sourced, SourceInv, OrderInv, Running
  <2>3. CASE cpu_state' = "trap"
    BY <2>2, <2>3, WorkHalts, FetchHalts, OrderedFacts DEF ISA!Next
  <2>4. CASE cpu_state' # "trap"
    BY <2>2, <2>4, FetchStepsIsa, WorkStepsIsa, OrderedFacts
  <2> QED
    BY <2>3, <2>4
<1> QED
  BY <1>1, <1>2, <1>3, <1>4

\* The core implements the instruction set machine: whatever its prefetching,
\* its interrupt entry and its data accesses overlap, software sees one whole
\* instruction after the other, precise interrupts that do not nest, and a
\* halt only where the machine allows one.
THEOREM CoreImplementsISA ==
  ASSUME BusErrorLatched PROVE Spec => ImplementsISA
<1>1. Init => ISA!Init
  BY IsaStarts
<1>2. CoreInv /\ SourceInv /\ IrqInv /\ OrderInv /\ [Next]_vars => [ISA!Next]_(ISA!vars)
  BY IsaStep
<1>3. Spec => [](CoreInv /\ SourceInv /\ IrqInv /\ OrderInv)
  BY OrderInvAlways
<1> QED
  BY <1>1, <1>2, <1>3, PTL DEF Spec, ImplementsISA, ISA!Spec
=============================================================================
