--------------------------- MODULE PicoRV32_proofs ---------------------------
(***************************************************************************)
(* The core by itself.  The requests of the main state machine never       *)
(* collide, and no co-processor instruction meets the timeout of the one   *)
(* before it.  Then type correctness: no register ever leaves the range    *)
(* its coding allows.  The program counters are the hard part: reg_out and *)
(* alu_out_q are undefined after most instructions, and what keeps them    *)
(* out of the program counters are the latches (LatchInv).  Then the       *)
(* interrupts: what is pending leaves irq_pending only when the handler is *)
(* told of it, and the handler is entered with something to handle.        *)
(***************************************************************************)
EXTENDS PicoRV32Inv, TLAPS

\* A transfer is only over when something other than a prefetch asked for it.
LEMMA DoneWasAsked ==
  mem_done => mem_do_rinst \/ mem_do_rdata \/ mem_do_wdata
BY DEF mem_done

\* Every edge keeps the instruction unless it completes the fetch of another.
LEMMA DecoderHolds ==
  ASSUME Next, ~(mem_do_rinst /\ mem_done) PROVE insn' = insn
BY DEF Next, Clock, Decoder

LEMMA RequestInvInit == Init => RequestInv
BY DEF Init, RequestInv, CpuStates

LEMMA RequestInvNext == RequestInv /\ [Next]_vars => RequestInv'
<1> SUFFICES ASSUME RequestInv, [Next]_vars PROVE RequestInv'
  OBVIOUS
<1>1. CASE UNCHANGED vars
  BY <1>1 DEF RequestInv, vars, requests, decoder
<1>2. ASSUME Next PROVE RequestInv'
  <2> USE <1>2, DoneWasAsked, DecoderHolds DEF RequestInv, CpuStates, Requests, Trigger, GoTo
  <2>1. CASE Reset
    BY <2>1 DEF Reset
  <2>2. CASE Trapped
    BY <2>2 DEF Trapped
  <2>3. CASE EnterIrq
    BY <2>3 DEF EnterIrq, Fetch
  <2>4. CASE WaitIrq
    BY <2>4 DEF WaitIrq, Fetch
  <2>5. CASE WaitIrqDone
    BY <2>5 DEF WaitIrqDone, Fetch
  <2>6. CASE LaunchJal
    BY <2>6 DEF LaunchJal, Fetch
  <2>7. CASE Launch
    BY <2>7 DEF Launch, Fetch
  <2>8. CASE AwaitInsn
    BY <2>8 DEF AwaitInsn, Fetch
  <2>9. CASE LdRs1Illegal
    BY <2>9 DEF LdRs1Illegal, Step, IllegalInsn
  <2>10. CASE LdRs1Simple
    BY <2>10 DEF LdRs1Simple, LatchResult, Step
  <2>11. CASE LdRs1SetQ
    BY <2>11 DEF LdRs1SetQ, LatchResult, Step
  <2>12. CASE LdRs1MaskIrq
    BY <2>12 DEF LdRs1MaskIrq, LatchResult, Step
  <2>13. CASE LdRs1Timer
    BY <2>13 DEF LdRs1Timer, LatchResult, Step
  <2>14. CASE LdRs1RetIrq
    BY <2>14 DEF LdRs1RetIrq, Step
  <2>15. CASE LdRs1Load
    BY <2>15 DEF LdRs1Load, Proceed, Step
  <2>16. CASE LdRs1Imm
    BY <2>16 DEF LdRs1Imm, Proceed, Step
  <2>17. CASE LdRs1ShiftImm
    BY <2>17 DEF LdRs1ShiftImm, Proceed, Step
  <2>18. CASE LdRs1SinglePort
    BY <2>18 DEF LdRs1SinglePort, Proceed, Step, instr_trap
  <2>19. CASE Store
    BY <2>19 DEF Store, SecondOperand, Proceed, Step
  <2>20. CASE Shift
    BY <2>20 DEF Shift, SecondOperand, Proceed, Step
  <2>21. CASE Alu
    BY <2>21 DEF Alu, SecondOperand, Proceed, Step
  <2>22. CASE PcpiReady
    BY <2>22 DEF PcpiReady, Pcpi, SecondOperand, Step
  <2>23. CASE PcpiAbort
    BY <2>23 DEF PcpiAbort, Pcpi, SecondOperand, Step, IllegalInsn
  <2>24. CASE PcpiWait
    BY <2>24 DEF PcpiWait, Pcpi, SecondOperand, Step
  <2>25. CASE ExecWait
    BY <2>25 DEF ExecWait, Exec, Step
  <2>26. CASE ExecBranch
    BY <2>26 DEF ExecBranch, Exec, Step
  <2>27. CASE ExecAlu
    BY <2>27 DEF ExecAlu, Exec, Step
  <2>28. CASE ShiftStep
    BY <2>28 DEF ShiftStep, Step
  <2>29. CASE ShiftDone
    BY <2>29 DEF ShiftDone, Step
  <2>30. ASSUME NEW state \in {"stmem", "ldmem"}, DataWaits(state) PROVE RequestInv'
    BY <2>30 DEF DataWaits, DataPhase, Step, PrefetchOver
  <2>31. ASSUME NEW state \in {"stmem", "ldmem"}, DataAccess(state) PROVE RequestInv'
    BY <2>31 DEF DataAccess, DataPhase, Step, PrefetchOver
  <2> QED
    BY <2>1, <2>2, <2>3, <2>4, <2>5, <2>6, <2>7, <2>8, <2>9, <2>10, <2>11, <2>12, <2>13,
       <2>14, <2>15, <2>16, <2>17, <2>18, <2>19, <2>20, <2>21, <2>22, <2>23, <2>24,
       <2>25, <2>26, <2>27, <2>28, <2>29, <2>30, <2>31
    DEF Next, MainStep
<1> QED
  BY <1>1, <1>2

\* The main state machine never asks the memory interface for two things at
\* once (the assertions at picorv32.v:548-558).
THEOREM RequestsAlwaysExclusive == Spec => []RequestsExclusive
<1>1. RequestInv => RequestsExclusive
  BY DEF RequestInv, RequestsExclusive
<1> QED
  BY <1>1, RequestInvInit, RequestInvNext, PTL DEF Spec

------------------------------------------------------------------------------
(* The timeout of the co-processor port.                                   *)

\* While pcpi_valid is down the counter is loaded, and the edge after that it
\* is loaded again and the timeout is gone.
LEMMA TimerLoads ==
  ASSUME Next, ~pcpi_valid
  PROVE  /\ pcpi_timeout_counter' = PcpiTimeoutMax
         /\ pcpi_timeout_counter = PcpiTimeoutMax => ~pcpi_timeout'
BY BoundAssumption DEF Next, Clock, PcpiTimer, Counting

\* Outside ld_rs1 and ld_rs2 nothing is offered.
LEMMA NotOffered ==
  ASSUME TimerInv, WITH_PCPI, cpu_state \notin {"ld_rs1", "ld_rs2"} PROVE ~pcpi_valid
BY DEF TimerInv, PcpiStage

\* ld_rs1 and ld_rs2 ask for nothing that could be misaligned, and do not hand
\* over the next instruction.
LEMMA OperandsAskNothing ==
  ASSUME RequestInv, cpu_state \in {"ld_rs1", "ld_rs2"}
  PROVE  ~MisalignedAccess /\ ~mem_do_rinst
BY DEF RequestInv, MisalignedAccess

LEMMA TimerInvInit == Init => TimerInv
BY DEF Init, TimerInv

LEMMA TimerInvNext == RequestInv /\ TimerInv /\ [Next]_vars => TimerInv'
<1> SUFFICES ASSUME RequestInv, TimerInv, [Next]_vars, WITH_PCPI PROVE TimerInv'
  BY DEF TimerInv
<1>1. CASE UNCHANGED vars
  BY <1>1 DEF TimerInv, PcpiStage, vars, decoder, pcpi
<1>2. ASSUME Next PROVE TimerInv'
  <2> USE <1>2
  <2>1. CASE cpu_state \notin {"ld_rs1", "ld_rs2"} /\ pcpi_valid' = pcpi_valid
    <3>1. ~pcpi_valid /\ pcpi_timeout_counter' = PcpiTimeoutMax
      BY <2>1, NotOffered, TimerLoads
    <3>2. cpu_state' \in {"ld_rs1", "ld_rs2"} => Launch
      <4> USE <2>1 DEF GoTo
      <4>1. CASE Reset \/ Trapped
        BY <4>1 DEF Reset, Trapped
      <4>2. CASE EnterIrq \/ WaitIrq \/ WaitIrqDone \/ LaunchJal \/ AwaitInsn
        BY <4>2 DEF EnterIrq, WaitIrq, WaitIrqDone, LaunchJal, AwaitInsn
      <4>3. CASE ExecWait \/ ExecBranch \/ ExecAlu
        BY <4>3 DEF ExecWait, ExecBranch, ExecAlu
      <4>4. CASE ShiftStep \/ ShiftDone
        BY <4>4 DEF ShiftStep, ShiftDone
      <4>5. CASE \E state \in {"stmem", "ldmem"} : DataWaits(state) \/ DataAccess(state)
        BY <4>5 DEF DataWaits, DataAccess
      <4>6. CASE \/ LdRs1Illegal \/ LdRs1Simple \/ LdRs1SetQ \/ LdRs1MaskIrq \/ LdRs1Timer
                 \/ LdRs1RetIrq \/ LdRs1Load \/ LdRs1Imm \/ LdRs1ShiftImm \/ LdRs1SinglePort
                 \/ Store \/ Shift \/ Alu \/ PcpiReady \/ PcpiAbort \/ PcpiWait
        BY <4>6 DEF LdRs1Illegal, LdRs1Simple, LdRs1SetQ, LdRs1MaskIrq, LdRs1Timer,
           LdRs1RetIrq, LdRs1Load, LdRs1Imm, LdRs1ShiftImm, LdRs1SinglePort,
           Store, Shift, Alu, PcpiReady, PcpiAbort, PcpiWait, Pcpi, SecondOperand, Step
      <4> QED
        BY <4>1, <4>2, <4>3, <4>4, <4>5, <4>6 DEF Next, MainStep
    <3>3. Launch => ~pcpi_timeout'
      BY <3>1, TimerLoads DEF TimerInv, Launch, Fetch
    <3> QED
      BY <2>1, <3>1, <3>2, <3>3 DEF TimerInv
  <2>2. CASE Reset
    <3>1. ~decoder_trigger' /\ ~pcpi_valid' /\ cpu_state' = "fetch"
      BY <2>2 DEF Reset, Trigger, mem_done
    <3> QED
      BY <3>1 DEF TimerInv
  <2>3. CASE cpu_state \in {"ld_rs1", "ld_rs2"} /\ ~Reset
    <3>1. ~MisalignedAccess /\ ~mem_do_rinst
      BY <2>3, OperandsAskNothing
    <3>2. insn' = insn
      BY <3>1, DecoderHolds
    <3>3. CASE pcpi_valid' = pcpi_valid /\ pcpi_valid
      <4>1. PcpiStage /\ insn.kind = "pcpi"
        BY <3>3 DEF TimerInv
      <4>2. PcpiReady \/ PcpiAbort \/ PcpiWait
        BY <2>3, <4>1
        DEF Next, MainStep, PcpiStage, Reset, Trapped, EnterIrq, WaitIrq, WaitIrqDone, LaunchJal,
            Launch, AwaitInsn, Fetch, LdRs1Illegal, LdRs1Simple, LdRs1SetQ, LdRs1MaskIrq,
            LdRs1Timer, LdRs1RetIrq, LdRs1Load, LdRs1Imm, LdRs1ShiftImm, LdRs1SinglePort,
            Store, Shift, Alu, SecondOperand, ExecWait, ExecBranch, ExecAlu, Exec, ShiftStep,
            ShiftDone, DataWaits, DataAccess, DataPhase, Step
      <4>3. PcpiWait
        BY <3>3, <4>2 DEF PcpiReady, PcpiAbort, Pcpi
      <4>4. cpu_state' = cpu_state
        BY <3>1, <4>3 DEF PcpiWait, GoTo
      <4> QED
        BY <2>3, <3>2, <3>3, <4>1, <4>4 DEF TimerInv, PcpiStage
    <3>4. CASE pcpi_valid' = pcpi_valid /\ ~pcpi_valid
      <4>1. pcpi_timeout_counter' = PcpiTimeoutMax /\ ~pcpi_timeout'
        BY <2>3, <3>4, TimerLoads DEF TimerInv
      <4> QED
        BY <3>4, <4>1 DEF TimerInv
    <3>5. CASE pcpi_valid' # pcpi_valid
      <4>1. PcpiReady \/ PcpiAbort \/ PcpiWait
        BY <2>3, <3>5
        DEF Next, MainStep, Trapped, EnterIrq, WaitIrq, WaitIrqDone, LaunchJal, Launch,
            AwaitInsn, Fetch, LdRs1Illegal, LdRs1Simple, LdRs1SetQ, LdRs1MaskIrq, LdRs1Timer,
            LdRs1RetIrq, LdRs1Load, LdRs1Imm, LdRs1ShiftImm, LdRs1SinglePort, Store, Shift, Alu,
            LatchResult, Proceed, ExecWait, ExecBranch, ExecAlu, Exec, ShiftStep,
            ShiftDone, DataWaits, DataAccess, DataPhase, Step
      <4>2. CASE PcpiWait
        BY <2>3, <3>1, <3>2, <4>2
        DEF PcpiWait, Pcpi, PcpiGivesUp, instr_trap, SecondOperand, Step, GoTo, TimerInv, PcpiStage
      <4>3. CASE PcpiReady \/ PcpiAbort
        <5>1. ~pcpi_valid' /\ cpu_state' \in {"fetch", "trap"} /\ ~decoder_trigger'
          BY <3>1, <4>3 DEF PcpiReady, PcpiAbort, Pcpi, IllegalInsn, GoTo, Trigger
        <5> QED
          BY <5>1 DEF TimerInv
      <4> QED
        BY <4>1, <4>2, <4>3
    <3> QED
      BY <3>3, <3>4, <3>5
  <2>4. Reset \/ cpu_state \in {"ld_rs1", "ld_rs2"} \/ pcpi_valid' = pcpi_valid
    BY DEF Next, MainStep, Trapped, EnterIrq, WaitIrq, WaitIrqDone, LaunchJal, Launch,
       AwaitInsn, Fetch, LdRs1Illegal, LdRs1Simple, LdRs1SetQ, LdRs1MaskIrq, LdRs1Timer,
       LdRs1RetIrq, LdRs1Load, LdRs1Imm, LdRs1ShiftImm, LdRs1SinglePort, Store, Shift, Alu,
       PcpiReady, PcpiAbort, PcpiWait, Pcpi, SecondOperand, ExecWait, ExecBranch, ExecAlu,
       Exec, ShiftStep, ShiftDone, DataWaits, DataAccess, DataPhase, Step
  <2> QED
    BY <2>1, <2>2, <2>3, <2>4
<1> QED
  BY <1>1, <1>2

\* A co-processor instruction never meets the timeout of the one before it, for
\* every length of the timeout and every co-processor.
THEOREM TimeoutAlwaysFresh == Spec => []PcpiTimeoutFresh
<1>1. TimerInv => PcpiTimeoutFresh
  BY DEF TimerInv, PcpiTimeoutFresh, PcpiStage
<1>2. Init => RequestInv /\ TimerInv
  BY RequestInvInit, TimerInvInit
<1>3. RequestInv /\ TimerInv /\ [Next]_vars => RequestInv' /\ TimerInv'
  BY RequestInvNext, TimerInvNext
<1> QED
  BY <1>1, <1>2, <1>3, PTL DEF Spec

-----------------------------------------------------------------------------
\* Types: what the memory interface and the program counters may hold.

LEMMA PcPlusInPc == \A pc, n \in Nat : PcPlus(pc, n) \in PC
BY AddressAssumption DEF PcPlus, PC

LEMMA PcIsNat == PC \subseteq Nat
BY AddressAssumption DEF PC

LEMMA HalvesInSources == \A a \in Nat : Halves(a) \in Sources
BY AddressAssumption DEF Halves, Words, PC, X, Sources

LEMMA RdataInSources == MemTypeOK => mem_rdata \in Sources /\ mem_rdata_latched \in Sources
<1> SUFFICES ASSUME MemTypeOK PROVE mem_rdata \in Sources /\ mem_rdata_latched \in Sources
  OBVIOUS
<1>1. mem_addr \in Nat
  BY AddressAssumption DEF MemTypeOK, Words
<1>2. mem_rdata \in Sources
  BY <1>1, HalvesInSources DEF mem_rdata
<1> QED
  BY <1>2 DEF mem_rdata_latched, MemTypeOK, Sources

LEMMA LookAheadInWords ==
  ASSUME TypeOK PROVE mem_la_addr \in Words \cup DataWords
<1>1. next_pc \in Int
  BY DEF TypeOK, PcTypeOK, next_pc, PC, X
<1>2. PcN \div 2 \in Nat \ {0}
  BY AddressAssumption
<1>3. \A a \in Int : a % (PcN \div 2) \in Words
  BY <1>2 DEF Words
<1>4. \A h \in {0, 1} : (next_pc \div 2) + h \in Int
  BY <1>1
<1> QED
  BY <1>3, <1>4 DEF mem_la_addr, TypeOK, AccessTypeOK

LEMMA MemTyped == ASSUME TypeOK, Next PROVE MemTypeOK'
<1> USE DEF TypeOK
<1>1. LookAheadAddress => mem_addr' \in Words \cup DataWords
  BY LookAheadInWords DEF LookAheadAddress, MemTypeOK
<1>2. mem_rdata[2] \in PC \cup {X}
  BY RdataInSources DEF Sources
<1>3. /\ last_mem_valid' \in BOOLEAN /\ mem_la_firstword_reg' \in BOOLEAN
      /\ clear_prefetched_high_word_q' \in BOOLEAN
  BY ParamAssumption DEF Next, Clock, MemInterface, FirstwordTracking, MemTypeOK,
     mem_la_firstword, clear_prefetched_high_word
<1>4. mem_rdata_q' \in Sources
  BY RdataInSources DEF Next, Clock, MemInterface, WordCapture, MemTypeOK
<1>5. clear_prefetched_high_word \in BOOLEAN
  BY ParamAssumption DEF clear_prefetched_high_word, MemTypeOK
<1>6. \/ MemHalted \/ MemIdle \/ ReadWaits \/ ReadSecondWord \/ ReadCompletes
      \/ MemWrite \/ MemPrefetched
  BY DEF Next, Clock, MemInterface
<1> DEFINE Typed ==
      /\ mem_valid' \in BOOLEAN /\ mem_instr' \in BOOLEAN /\ mem_wstrb' \in BOOLEAN
      /\ mem_addr' \in Words \cup DataWords /\ mem_state' \in 0 .. 3
      /\ mem_la_secondword' \in BOOLEAN
      /\ prefetched_high_word' \in BOOLEAN /\ mem_16bit_buffer' \in PC \cup {X}
<1> USE DEF MemTypeOK, RequestTypeOK
<1>7. ASSUME MemHalted PROVE Typed
  <2>1. /\ mem_valid' \in BOOLEAN /\ mem_la_secondword' \in BOOLEAN
        /\ prefetched_high_word' \in BOOLEAN
    BY <1>7 DEF MemHalted, HighWord, ValidWhenHalted
  <2>2. mem_state' \in 0 .. 3
    BY <1>7 DEF MemHalted
  <2>3. UNCHANGED <<mem_addr, mem_wstrb, mem_instr, mem_16bit_buffer>>
    BY <1>7 DEF MemHalted, HighWord
  <2> QED
    BY <2>1, <2>2, <2>3
<1>8. ASSUME MemIdle PROVE Typed
  <2>1. mem_valid' \in BOOLEAN /\ mem_wstrb' \in BOOLEAN
    BY <1>8 DEF MemIdle
  <2>2. mem_instr' \in BOOLEAN
    BY <1>8 DEF MemIdle
  <2>3. mem_state' \in 0 .. 3 /\ mem_addr' \in Words \cup DataWords
    BY <1>8, <1>1 DEF MemIdle
  <2>4. prefetched_high_word' \in BOOLEAN /\ UNCHANGED <<mem_la_secondword, mem_16bit_buffer>>
    BY <1>8 DEF MemIdle, KeepHighWord, HighWord
  <2> QED
    BY <2>1, <2>2, <2>3, <2>4
<1>9. ASSUME ReadWaits PROVE Typed
  BY <1>9, <1>5 DEF ReadWaits, KeepHighWord, HighWord, bus
<1>10. ASSUME ReadSecondWord PROVE Typed
  BY <1>10, <1>1, <1>2, <1>5 DEF ReadSecondWord, HighWord
<1>11. ASSUME ReadCompletes PROVE Typed
  <2>1. /\ mem_valid' = FALSE /\ mem_la_secondword' = FALSE
        /\ UNCHANGED <<mem_addr, mem_wstrb, mem_instr>>
    BY <1>11 DEF ReadCompletes
  <2>2. mem_state' \in 0 .. 3
    BY <1>11 DEF ReadCompletes
  <2>3. \E valid, half : HighWord(valid, half) /\ half \in PC \cup {X}
    BY <1>11, <1>2 DEF ReadCompletes, KeepHighWord
  <2>4. prefetched_high_word' \in BOOLEAN /\ mem_16bit_buffer' \in PC \cup {X}
    BY <2>3 DEF HighWord
  <2> QED
    BY <2>1, <2>2, <2>4
<1>12. ASSUME MemWrite PROVE Typed
  BY <1>12, <1>5 DEF MemWrite, KeepHighWord, HighWord
<1>13. ASSUME MemPrefetched PROVE Typed
  BY <1>13, <1>5 DEF MemPrefetched, KeepHighWord, HighWord
<1>14. Typed
  BY <1>6, <1>7, <1>8, <1>9, <1>10, <1>11, <1>12, <1>13
<1> QED
  BY <1>3, <1>4, <1>14

LEMMA InputsTyped ==
  ASSUME TypeOK, Next, pcpi_valid' \in BOOLEAN PROVE InputTypeOK'
<1>1. mem_valid' \in BOOLEAN
  BY MemTyped DEF MemTypeOK
<1>2. prog' \in [PC -> BOOLEAN]
  BY DEF TypeOK, InputTypeOK, Next, Clock
<1>3. resetn' \in BOOLEAN /\ irq' \in SUBSET Irqs
  BY ParamAssumption, IrqAssumption DEF Next, Inputs
<1>4. /\ mem_ready' \in BOOLEAN /\ pcpi_int_wait' \in {FALSE, pcpi_valid'}
      /\ pcpi_int_ready' \in {FALSE, pcpi_valid'}
  BY <1>1 DEF Next, Inputs
<1> QED
  BY <1>1, <1>2, <1>3, <1>4 DEF InputTypeOK

LEMMA DecoderTyped ==
  ASSUME TypeOK, Next PROVE DecoderTypeOK'
<1>1. Decoded(mem_rdata_latched) \subseteq [src : Sources, kind : AllKinds, imm : JumpOffsets \cup {0}]
  BY RdataInSources, ParamAssumption DEF TypeOK, Decoded
<1> QED
  BY <1>1 DEF TypeOK, DecoderTypeOK, MemTypeOK, Next, Clock, Decoder

LEMMA PcpiTyped == ASSUME TypeOK, Next PROVE PcpiTypeOK'
BY BoundAssumption DEF TypeOK, PcpiTypeOK, Next, Clock, PcpiTimer

\* Operators the actions share.
LEMMA TriggerTyped == Trigger => TriggerTypeOK'
BY DEF Trigger, TriggerTypeOK

LEMMA RequestsTyped ==
  ASSUME TypeOK, NEW pf \in BOOLEAN, NEW ri \in BOOLEAN, NEW set, Requests(pf, ri, set)
  PROVE  RequestTypeOK'
BY DEF Requests, TypeOK, RequestTypeOK

LEMMA StateTyped ==
  ASSUME NEW state \in CpuStates, GoTo(state), trap' = FALSE PROVE StateTypeOK'
BY DEF GoTo, StateTypeOK, CpuStates

LEMMA OperandsTyped ==
  ASSUME NEW wait \in BOOLEAN, NEW wait_2 \in BOOLEAN, NEW taken \in BOOLEAN,
         NEW shift \in 0 .. MaxShift, Operands(wait, wait_2, taken, shift)
  PROVE  OperandTypeOK'
BY DEF Operands, OperandTypeOK

LEMMA NoOperandsTyped == NoOperands => OperandTypeOK'
<1>1. 0 \in 0 .. MaxShift
  BY BoundAssumption
<1> QED
  BY <1>1, OperandsTyped DEF NoOperands

LEMMA PendingTyped ==
  ASSUME TypeOK, NEW kept \in SUBSET Irqs, NEW raised \in SUBSET Irqs, Pending(kept, raised)
  PROVE  irq_pending' \in SUBSET Irqs
BY IrqAssumption DEF Pending, TypeOK, InputTypeOK

LEMMA CountDownTyped == TypeOK /\ CountDown => timer' \in 0 .. MaxTimer
BY BoundAssumption DEF CountDown, TypeOK, IrqTypeOK

\* cpu_state_fetch: whatever it does next, it retires the last result.
LEMMA CurrentPcInPc ==
  ASSUME TypeOK, LatchInv, cpu_state = "fetch" PROVE current_pc \in PC
<1>1. CASE latched_branch /\ latched_store
  BY <1>1 DEF current_pc, LatchInv, TypeOK, LatchTypeOK
<1>2. CASE ~(latched_branch /\ latched_store)
  BY <1>2, AddressAssumption DEF current_pc, TypeOK, PcTypeOK
<1> QED
  BY <1>1, <1>2

FetchTypeOK ==
  /\ TriggerTypeOK /\ PcTypeOK /\ OperandTypeOK /\ AccessTypeOK
  /\ latched_store \in BOOLEAN /\ latched_stalu = FALSE /\ latched_branch \in BOOLEAN
  /\ reg_out = X /\ pcpi_valid \in BOOLEAN /\ IrqTypeOK

LEMMA FetchTyped ==
  ASSUME TypeOK, LatchInv,
         NEW next \in PC, NEW store \in BOOLEAN, NEW branch \in BOOLEAN,
         Fetch(next, store, branch)
  PROVE  FetchTypeOK' /\ trap' = FALSE /\ latched_store' = store /\ latched_branch' = branch
<1>1. TriggerTypeOK' /\ OperandTypeOK'
  BY TriggerTyped, NoOperandsTyped DEF Fetch
<1>2. PcTypeOK'
  BY CurrentPcInPc DEF Fetch, PcTypeOK
<1>3. AccessTypeOK' /\ pcpi_valid' \in BOOLEAN
  BY DEF Fetch, TypeOK, AccessTypeOK
<1>4. /\ latched_store' = store /\ latched_stalu' = FALSE /\ latched_branch' = branch
      /\ reg_out' = X /\ trap' = FALSE
  BY DEF Fetch, Latch
<1>5. IrqTypeOK'
  <2>1. /\ LatchedPending \in SUBSET Irqs /\ StillPending \in SUBSET Irqs
        /\ irq_pending \ irq_mask \in SUBSET Irqs
    BY DEF TypeOK, IrqTypeOK, LatchedPending, StillPending
  <2>2. irq_pending' \in SUBSET Irqs
    BY <2>1, PendingTyped DEF Fetch
  <2>3. eoi' \in SUBSET Irqs /\ q1' \in SUBSET Irqs /\ irq_mask' \in SUBSET Irqs
    BY <2>1 DEF Fetch, TypeOK, IrqTypeOK
  <2>4. timer' \in 0 .. MaxTimer
    BY CountDownTyped DEF Fetch
  <2>5. irq_active' \in BOOLEAN
    BY DEF Fetch, TypeOK, IrqTypeOK
  <2>6. q0' \in PC
    <3>1. CASE Slot = "store" /\ latched_rd = "q0"
      BY <3>1 DEF Fetch, Slot, LatchInv
    <3>2. CASE ~(Slot = "store" /\ latched_rd = "q0")
      BY <3>2 DEF Fetch, TypeOK, IrqTypeOK, PcTypeOK
    <3> QED
      BY <3>1, <3>2
  <2> QED
    BY <2>2, <2>3, <2>4, <2>5, <2>6 DEF IrqTypeOK
<1> QED
  BY <1>1, <1>2, <1>3, <1>4, <1>5 DEF FetchTypeOK

\* What MainStep is responsible for.
StepTypeOK ==
  /\ TriggerTypeOK /\ RequestTypeOK /\ StateTypeOK /\ PcTypeOK /\ OperandTypeOK
  /\ AccessTypeOK /\ LatchTypeOK /\ pcpi_valid \in BOOLEAN /\ EntryTypeOK /\ IrqTypeOK

LEMMA FetchActionsTyped ==
  ASSUME TypeOK, LatchInv,
         EnterIrq \/ WaitIrq \/ WaitIrqDone \/ LaunchJal \/ Launch \/ AwaitInsn
  PROVE  StepTypeOK' /\ LatchInv'
<1> USE DEF TypeOK
<1>1. cpu_state = "fetch"
  BY DEF EnterIrq, WaitIrq, WaitIrqDone, LaunchJal, Launch, AwaitInsn, Fetch
<1>2. current_pc \in PC
  BY <1>1, CurrentPcInPc
<1>3. PcPlus(current_pc, InsnLength) \in PC
  BY <1>2, PcIsNat, PcPlusInPc DEF InsnLength
<1>4. PcPlus(current_pc, insn.imm) \in PC
  <2>1. insn.imm \in JumpOffsets \cup {0}
    BY DEF DecoderTypeOK
  <2>2. JumpOffsets \subseteq PC
    BY AddressAssumption
  <2> QED
    BY <1>2, <2>1, <2>2, PcIsNat, PcPlusInPc
<1>5. KeepFetching \in BOOLEAN /\ Slot \in {"branch", "store", "q0", "q1", "none"}
  BY DEF KeepFetching, Slot
<1>6. \E next \in PC, store \in BOOLEAN, branch \in BOOLEAN : Fetch(next, store, branch)
  BY <1>2, <1>3, <1>4 DEF EnterIrq, WaitIrq, WaitIrqDone, LaunchJal, Launch, AwaitInsn
<1>7. FetchTypeOK' /\ trap' = FALSE
  BY <1>6, FetchTyped
<1>8. RequestTypeOK'
  <2>1. mem_do_prefetch \in BOOLEAN /\ (insn.kind \notin {"jalr", "retirq"}) \in BOOLEAN
    BY DEF RequestTypeOK
  <2> QED
    BY <1>5, <2>1, RequestsTyped
    DEF EnterIrq, WaitIrq, WaitIrqDone, LaunchJal, Launch, AwaitInsn
<1>9. StateTypeOK'
  BY <1>7, StateTyped DEF EnterIrq, WaitIrq, WaitIrqDone, LaunchJal, Launch, AwaitInsn, CpuStates
<1>10. EntryTypeOK'
  <2>1. irq_state' \in {irq_state, (irq_state + 1) % 3}
    BY DEF EnterIrq, WaitIrq, WaitIrqDone, LaunchJal, Launch, AwaitInsn, NoIrq
  <2>2. irq_delay' \in {irq_delay, irq_active} /\ do_waitirq' \in BOOLEAN
    BY DEF EnterIrq, WaitIrq, WaitIrqDone, LaunchJal, Launch, AwaitInsn
  <2>3. irq_state \in 0 .. 2 /\ (irq_state + 1) % 3 \in 0 .. 2
    BY DEF EntryTypeOK
  <2> QED
    BY <2>1, <2>2, <2>3 DEF EntryTypeOK, IrqTypeOK
<1>11. latched_rd' \in {"rd", "q0", "q1"}
  BY DEF EnterIrq, WaitIrq, WaitIrqDone, LaunchJal, Launch, AwaitInsn, NoIrq
<1>12. LatchInv'
  BY <1>1, <1>7 DEF EnterIrq, WaitIrq, WaitIrqDone, LaunchJal, Launch, AwaitInsn, NoIrq,
     IrqTaken, Fetch, Latch, GoTo, LatchInv
<1> QED
  BY <1>7, <1>8, <1>9, <1>10, <1>11, <1>12 DEF StepTypeOK, FetchTypeOK, LatchTypeOK

\* The states an instruction passes through.
StepParts ==
  /\ PcTypeOK /\ EntryTypeOK /\ trap = FALSE /\ irq_state = 0 /\ q0 \in PC
  /\ q1 \in SUBSET Irqs

LEMMA StepTyped ==
  ASSUME TypeOK, LatchInv, NEW state \in CpuStates \ {"fetch", "trap"}, Step(state),
         reg_out' \in PC \cup {X}
  PROVE  StepParts' /\ cpu_state = state
<1> USE DEF TypeOK
<1>1. cpu_state = state /\ trap' = FALSE /\ irq_state' = 0 /\ irq_state = 0
  BY DEF Step, LatchInv
<1>2. JumpTargets \subseteq PC
  BY AddressAssumption, PcIsNat, PcPlusInPc DEF JumpTargets, PcTypeOK
<1>3. alu_out_q' \in PC \cup {X}
  BY <1>2 DEF Step
<1>4. PcTypeOK'
  BY <1>3 DEF Step, PcTypeOK
<1>5. EntryTypeOK'
  BY <1>1 DEF Step, EntryTypeOK
<1>6. q0' \in PC /\ q1' \in SUBSET Irqs
  BY DEF Step, IrqTypeOK
<1> QED
  BY <1>1, <1>4, <1>5, <1>6 DEF StepParts

LEMMA KeepIrqTyped ==
  ASSUME TypeOK, KeepIrqState, NoFault, q0' \in PC, q1' \in SUBSET Irqs
  PROVE  IrqTypeOK'
<1> USE DEF TypeOK
<1>1. LatchedPending \in SUBSET Irqs /\ {} \in SUBSET Irqs
  BY DEF LatchedPending, IrqTypeOK
<1>2. irq_pending' \in SUBSET Irqs
  BY <1>1, PendingTyped DEF NoFault
<1>3. timer' \in 0 .. MaxTimer
  BY CountDownTyped DEF KeepIrqState
<1> QED
  BY <1>2, <1>3 DEF KeepIrqState, IrqTypeOK

LEMMA IllegalTyped ==
  ASSUME TypeOK, IllegalInsn, KeepIrqState, trap' = FALSE, q0' \in PC, q1' \in SUBSET Irqs
  PROVE  IrqTypeOK' /\ StateTypeOK' /\ cpu_state' \in {"fetch", "trap"}
<1> USE DEF TypeOK
<1> DEFINE raised == IF IrqEnabled(1) THEN {1} ELSE {}
           state == IF IrqEnabled(1) THEN "fetch" ELSE "trap"
<1>1. LatchedPending \in SUBSET Irqs /\ raised \in SUBSET Irqs
  BY IrqAssumption DEF LatchedPending, IrqTypeOK
<1>2. Pending(LatchedPending, raised) /\ GoTo(state)
  BY DEF IllegalInsn
<1>3. irq_pending' \in SUBSET Irqs
  BY <1>1, <1>2, PendingTyped
<1>4. timer' \in 0 .. MaxTimer
  BY CountDownTyped DEF KeepIrqState
<1>5. IrqTypeOK'
  BY <1>3, <1>4 DEF KeepIrqState, IrqTypeOK
<1>6. state \in {"fetch", "trap"} /\ state \in CpuStates
  BY DEF CpuStates
<1>7. StateTypeOK' /\ cpu_state' \in {"fetch", "trap"}
  BY <1>2, <1>6, StateTyped DEF GoTo
<1> QED
  BY <1>5, <1>7

\* Instructions that finish in ld_rs1.
LEMMA ResultTyped ==
  ASSUME TypeOK, LatchInv, Step("ld_rs1"),
         NEW out \in PC \cup {X}, NEW rd \in {"rd", "q0"}, rd = "q0" => out \in PC,
         LatchResult(out, rd)
  PROVE  /\ TriggerTypeOK' /\ RequestTypeOK' /\ StateTypeOK' /\ PcTypeOK' /\ OperandTypeOK'
         /\ AccessTypeOK' /\ LatchTypeOK' /\ pcpi_valid' \in BOOLEAN /\ EntryTypeOK'
         /\ irq_pending' \in SUBSET Irqs /\ q0' \in PC /\ q1' \in SUBSET Irqs
         /\ LatchInv'
<1> USE DEF TypeOK
<1>1. StepParts' /\ cpu_state = "ld_rs1"
  BY StepTyped DEF LatchResult, CpuStates
<1>2. TriggerTypeOK' /\ RequestTypeOK' /\ OperandTypeOK'
  BY TriggerTyped, RequestsTyped, NoOperandsTyped DEF LatchResult, RequestTypeOK
<1>3. StateTypeOK' /\ cpu_state' \in {"fetch", "trap"}
  BY <1>1, StateTyped DEF LatchResult, GoTo, CpuStates, StepParts
<1>4. /\ latched_store' = TRUE /\ latched_stalu' = FALSE /\ latched_branch' = FALSE
      /\ latched_rd' = rd /\ reg_out' = out
  BY <1>1 DEF LatchResult, Latch, LatchInv
<1>5. AccessTypeOK' /\ pcpi_valid' \in BOOLEAN
  BY DEF LatchResult, AccessTypeOK
<1>6. LatchedPending \in SUBSET Irqs /\ {} \in SUBSET Irqs
  BY DEF LatchedPending, IrqTypeOK
<1>7. irq_pending' \in SUBSET Irqs
  BY <1>6, PendingTyped DEF LatchResult, NoFault
<1>8. LatchInv'
  BY <1>1, <1>3, <1>4 DEF LatchInv, StepParts
<1> QED
  BY <1>1, <1>2, <1>3, <1>4, <1>5, <1>7, <1>8 DEF StepParts, LatchTypeOK

LEMMA ResultActionsTyped ==
  ASSUME TypeOK, LatchInv, LdRs1Simple \/ LdRs1SetQ \/ LdRs1MaskIrq \/ LdRs1Timer
  PROVE  StepTypeOK' /\ LatchInv'
<1> USE DEF TypeOK
<1>1. Step("ld_rs1") /\ latched_rd = "rd"
  BY DEF LdRs1Simple, LdRs1SetQ, LdRs1MaskIrq, LdRs1Timer, LatchInv, Step
<1>2. \E out \in PC \cup {X}, rd \in {"rd", "q0"} :
        LatchResult(out, rd) /\ (rd = "q0" => out \in PC)
  <2>1. JumpTargets \subseteq PC
    BY AddressAssumption, PcIsNat, PcPlusInPc DEF JumpTargets, PcTypeOK
  <2> QED
    BY <1>1, <2>1 DEF LdRs1Simple, LdRs1SetQ, LdRs1MaskIrq, LdRs1Timer
<1>3. timer' \in 0 .. MaxTimer
  BY CountDownTyped DEF LdRs1Simple, LdRs1SetQ, LdRs1MaskIrq, LdRs1Timer, KeepIrqState
<1>4. irq_active' \in BOOLEAN /\ irq_mask' \in SUBSET Irqs /\ eoi' \in SUBSET Irqs
  BY IrqAssumption DEF LdRs1Simple, LdRs1SetQ, LdRs1MaskIrq, LdRs1Timer, KeepIrqState, IrqTypeOK
<1> QED
  BY <1>1, <1>2, <1>3, <1>4, ResultTyped DEF StepTypeOK, IrqTypeOK

LEMMA RetIrqTyped == ASSUME TypeOK, LatchInv, LdRs1RetIrq PROVE StepTypeOK' /\ LatchInv'
<1> USE DEF TypeOK
<1>1. Step("ld_rs1") /\ reg_out' \in PC
  BY DEF LdRs1RetIrq, IrqTypeOK
<1>2. StepParts' /\ cpu_state = "ld_rs1"
  BY <1>1, StepTyped DEF CpuStates
<1>3. TriggerTypeOK' /\ RequestTypeOK' /\ OperandTypeOK'
  BY TriggerTyped, RequestsTyped, NoOperandsTyped DEF LdRs1RetIrq, RequestTypeOK
<1>4. StateTypeOK' /\ cpu_state' \in {"fetch", "trap"}
  BY <1>2, StateTyped DEF LdRs1RetIrq, GoTo, CpuStates, StepParts
<1>5. LatchTypeOK' /\ ~latched_stalu' /\ latched_branch' /\ AccessTypeOK' /\ pcpi_valid' \in BOOLEAN
  BY <1>2 DEF LdRs1RetIrq, Latch, LatchInv, LatchTypeOK, AccessTypeOK
<1>6. LatchedPending \in SUBSET Irqs /\ {} \in SUBSET Irqs
  BY DEF LatchedPending, IrqTypeOK
<1>7. irq_pending' \in SUBSET Irqs
  BY <1>6, PendingTyped DEF LdRs1RetIrq, NoFault
<1>8. timer' \in 0 .. MaxTimer
  BY CountDownTyped DEF LdRs1RetIrq
<1>9. irq_active' \in BOOLEAN /\ irq_mask' \in SUBSET Irqs /\ eoi' \in SUBSET Irqs
  BY <1>6 DEF LdRs1RetIrq, IrqTypeOK
<1>10. LatchInv'
  BY <1>1, <1>2, <1>4, <1>5 DEF LatchInv, StepParts
<1> QED
  BY <1>2, <1>3, <1>4, <1>5, <1>7, <1>8, <1>9, <1>10 DEF StepTypeOK, StepParts, IrqTypeOK

\* Instructions that go on from ld_rs1 or ld_rs2.
LEMMA ProceedTyped ==
  ASSUME TypeOK, LatchInv, NEW from \in {"ld_rs1", "ld_rs2"}, Step(from),
         NEW state \in {"ld_rs2", "exec", "shift", "stmem", "ldmem"},
         NEW rinst \in BOOLEAN, NEW wait \in BOOLEAN, NEW wait_2 \in BOOLEAN,
         NEW taken \in BOOLEAN, NEW shift \in 0 .. MaxShift,
         Proceed(state, rinst, wait, wait_2, taken, shift)
  PROVE  StepTypeOK' /\ LatchInv'
<1> USE DEF TypeOK
<1>1. reg_out' \in PC \cup {X}
  BY DEF Proceed
<1>2. StepParts' /\ cpu_state = from
  BY <1>1, StepTyped DEF CpuStates
<1>3. TriggerTypeOK' /\ RequestTypeOK' /\ OperandTypeOK'
  BY TriggerTyped, RequestsTyped, OperandsTyped DEF Proceed, RequestTypeOK
<1>4. StateTypeOK' /\ cpu_state' \in {state, "trap"}
  BY <1>2, StateTyped DEF Proceed, GoTo, CpuStates, StepParts
<1>5. LatchTypeOK' /\ AccessTypeOK' /\ pcpi_valid' \in BOOLEAN
  BY DEF Proceed, latches, LatchTypeOK, AccessTypeOK
<1>6. IrqTypeOK'
  BY <1>2, KeepIrqTyped DEF Proceed, StepParts
<1>7. LatchInv'
  BY <1>2, <1>4 DEF Proceed, latches, LatchInv, StepParts
<1> QED
  BY <1>2, <1>3, <1>4, <1>5, <1>6, <1>7 DEF StepTypeOK, StepParts

LEMMA ProceedActionsTyped ==
  ASSUME TypeOK, LatchInv,
         LdRs1Load \/ LdRs1Imm \/ LdRs1ShiftImm \/ LdRs1SinglePort \/ Store \/ Shift \/ Alu
  PROVE  StepTypeOK' /\ LatchInv'
<1>1. \E from \in {"ld_rs1", "ld_rs2"} : Step(from)
  BY DEF LdRs1Load, LdRs1Imm, LdRs1ShiftImm, LdRs1SinglePort, Store, Shift, Alu, SecondOperand
<1>2. \E state \in {"ld_rs2", "exec", "shift", "stmem", "ldmem"},
         rinst \in BOOLEAN, wait \in BOOLEAN, wait_2 \in BOOLEAN, taken \in BOOLEAN,
         shift \in 0 .. MaxShift : Proceed(state, rinst, wait, wait_2, taken, shift)
  <2>1. mem_do_rinst \in BOOLEAN /\ mem_do_prefetch \in BOOLEAN /\ 0 \in 0 .. MaxShift
    BY BoundAssumption DEF TypeOK, RequestTypeOK
  <2>2. CASE LdRs1Load \/ LdRs1SinglePort \/ Store
    BY <2>1, <2>2 DEF LdRs1Load, LdRs1SinglePort, Store
  <2>3. CASE LdRs1ShiftImm \/ Shift
    BY <2>1, <2>3 DEF LdRs1ShiftImm, Shift
  <2>4. CASE LdRs1Imm
    BY <2>1, <2>4, ParamAssumption DEF LdRs1Imm
  <2>5. CASE Alu
    <3> DEFINE slow == TWO_CYCLE_COMPARE /\ insn.kind = "branch"
               wait == TWO_CYCLE_ALU \/ slow
               wait_2 == TWO_CYCLE_ALU /\ slow
               rinst == IF wait THEN mem_do_rinst ELSE mem_do_prefetch
    <3>1. PICK taken \in {FALSE, insn.kind = "branch"} :
            Proceed("exec", rinst, wait, wait_2, taken, 0)
      BY <2>5 DEF Alu
    <3>2. wait \in BOOLEAN /\ wait_2 \in BOOLEAN /\ rinst \in BOOLEAN
      BY <2>1
    <3>3. taken \in BOOLEAN
      OBVIOUS
    <3> HIDE DEF slow, wait, wait_2, rinst
    <3> QED
      BY <2>1, <3>1, <3>2, <3>3
  <2> QED
    BY <2>2, <2>3, <2>4, <2>5
<1> QED
  BY <1>1, <1>2, ProceedTyped

LEMMA IllegalActionTyped == ASSUME TypeOK, LatchInv, LdRs1Illegal PROVE StepTypeOK' /\ LatchInv'
<1> USE DEF TypeOK
<1>1. StepParts' /\ cpu_state = "ld_rs1"
  BY StepTyped DEF LdRs1Illegal, CpuStates
<1>2. TriggerTypeOK' /\ RequestTypeOK' /\ OperandTypeOK'
  BY TriggerTyped, RequestsTyped, NoOperandsTyped DEF LdRs1Illegal, RequestTypeOK
<1>3. IrqTypeOK' /\ StateTypeOK' /\ cpu_state' \in {"fetch", "trap"}
  BY <1>1, IllegalTyped DEF LdRs1Illegal, StepParts
<1>4. LatchTypeOK' /\ AccessTypeOK' /\ pcpi_valid' \in BOOLEAN
  BY DEF LdRs1Illegal, latches, LatchTypeOK, AccessTypeOK
<1>5. LatchInv'
  BY <1>1, <1>3 DEF LdRs1Illegal, latches, LatchInv, StepParts
<1> QED
  BY <1>1, <1>2, <1>3, <1>4, <1>5 DEF StepTypeOK, StepParts

LEMMA PcpiActionsTyped ==
  ASSUME TypeOK, LatchInv, PcpiReady \/ PcpiAbort \/ PcpiWait PROVE StepTypeOK' /\ LatchInv'
<1> USE DEF TypeOK
<1>1. PICK valid \in BOOLEAN : Pcpi(valid)
  BY DEF PcpiReady, PcpiAbort, PcpiWait
<1>2. PICK from \in {"ld_rs1", "ld_rs2"} : Step(from)
  BY <1>1 DEF Pcpi, SecondOperand
<1>3. StepParts' /\ cpu_state = from
  BY <1>1, <1>2, StepTyped DEF Pcpi, CpuStates
<1>4. TriggerTypeOK' /\ OperandTypeOK' /\ KeepIrqState /\ pcpi_valid' \in BOOLEAN
  BY <1>1, TriggerTyped, NoOperandsTyped DEF Pcpi
<1>5. RequestTypeOK'
  <2>1. mem_do_rinst \in BOOLEAN /\ mem_do_prefetch \in BOOLEAN
    BY DEF RequestTypeOK
  <2> QED
    BY <2>1, RequestsTyped DEF PcpiReady, PcpiAbort, PcpiWait
<1>6. IrqTypeOK' /\ StateTypeOK' /\ cpu_state' \in {"fetch", "trap", from}
  <2>1. CASE PcpiAbort
    BY <1>3, <1>4, <2>1, IllegalTyped DEF PcpiAbort, StepParts
  <2>2. ASSUME PcpiReady \/ PcpiWait PROVE IrqTypeOK' /\ StateTypeOK' /\ cpu_state' \in {"fetch", "trap", from}
    <3>1. NoFault /\ \E state \in {"fetch", from} : GoTo(state)
      BY <1>3, <2>2 DEF PcpiReady, PcpiWait
    <3>2. IrqTypeOK'
      BY <1>3, <1>4, <3>1, KeepIrqTyped DEF StepParts
    <3>3. StateTypeOK' /\ cpu_state' \in {"fetch", "trap", from}
      BY <1>3, <3>1, StateTyped DEF GoTo, CpuStates, StepParts
    <3> QED
      BY <3>2, <3>3
  <2> QED
    BY <2>1, <2>2
<1>7. /\ latched_store' \in BOOLEAN /\ UNCHANGED <<latched_stalu, latched_branch, latched_rd>>
      /\ AccessTypeOK'
  BY <1>1 DEF Pcpi, PcpiReady, PcpiAbort, PcpiWait, LatchTypeOK, AccessTypeOK
<1>8. LatchInv'
  BY <1>3, <1>6, <1>7 DEF LatchInv, StepParts
<1> QED
  BY <1>3, <1>4, <1>5, <1>6, <1>7, <1>8 DEF StepTypeOK, StepParts, LatchTypeOK

LEMMA ExecTyped ==
  ASSUME TypeOK, LatchInv, Exec
  PROVE  StepParts' /\ cpu_state = "exec" /\ reg_out' \in PC /\ IrqTypeOK' /\ AccessTypeOK'
         /\ pcpi_valid' \in BOOLEAN
<1> USE DEF TypeOK
<1>1. reg_out' \in PC
  <2>1. insn.imm \in JumpOffsets \cup {0} /\ JumpOffsets \subseteq PC
    BY AddressAssumption DEF DecoderTypeOK
  <2>2. reg_pc \in PC
    BY DEF PcTypeOK
  <2> HIDE DEF TypeOK
  <2>3. JumpOffsets \cup {0} \subseteq Nat
    BY <2>1, PcIsNat
  <2>4. reg_pc \in Nat /\ insn.imm \in Nat
    BY <2>1, <2>2, <2>3, PcIsNat
  <2> QED
    BY <2>4, PcPlusInPc DEF Exec
<1>2. StepParts' /\ cpu_state = "exec"
  BY <1>1, StepTyped DEF Exec, CpuStates
<1>3. IrqTypeOK'
  BY <1>2, KeepIrqTyped DEF Exec, StepParts
<1>4. AccessTypeOK' /\ pcpi_valid' \in BOOLEAN
  BY DEF Exec, AccessTypeOK
<1> QED
  BY <1>1, <1>2, <1>3, <1>4

LEMMA ExecActionsTyped ==
  ASSUME TypeOK, LatchInv, ExecWait \/ ExecBranch \/ ExecAlu PROVE StepTypeOK' /\ LatchInv'
<1> USE DEF TypeOK
<1>1. /\ StepParts' /\ cpu_state = "exec" /\ reg_out' \in PC /\ IrqTypeOK' /\ AccessTypeOK'
      /\ pcpi_valid' \in BOOLEAN
  BY ExecTyped DEF ExecWait, ExecBranch, ExecAlu
<1>2. mem_done \in BOOLEAN
  BY DEF mem_done, InputTypeOK
<1>3. RequestTypeOK'
  <2>1. /\ mem_do_rinst \in BOOLEAN /\ mem_do_prefetch \in BOOLEAN
        /\ (mem_do_prefetch /\ ~alu_wait_2) \in BOOLEAN
    BY DEF RequestTypeOK
  <2> QED
    BY <2>1, RequestsTyped DEF ExecWait, ExecBranch, ExecAlu
<1>4. OperandTypeOK'
  <2>1. /\ alu_wait_2 \in BOOLEAN /\ alu_out_0 \in BOOLEAN
        /\ (alu_out_0 /\ ~mem_done) \in BOOLEAN /\ 0 \in 0 .. MaxShift
    BY BoundAssumption DEF OperandTypeOK
  <2> QED
    BY <2>1, OperandsTyped, NoOperandsTyped DEF ExecWait, ExecBranch, ExecAlu
<1>5. TriggerTypeOK'
  BY TriggerTyped DEF ExecWait, ExecBranch, ExecAlu, TriggerTypeOK
<1>6. StateTypeOK' /\ cpu_state' \in {"fetch", "exec", "trap"}
  <2>1. \E state \in {"fetch", "exec"} : GoTo(state)
    BY DEF ExecWait, ExecBranch, ExecAlu
  <2> QED
    BY <1>1, <2>1, StateTyped DEF GoTo, CpuStates, StepParts
<1>7. LatchTypeOK' /\ latched_rd' = "rd"
  BY <1>1 DEF ExecWait, ExecBranch, ExecAlu, Latch, latches, LatchTypeOK, LatchInv, OperandTypeOK
<1>8. LatchInv'
  <2>1. CASE ExecWait
    <3>1. latched_stalu' = FALSE /\ (latched_branch' => latched_store') /\ cpu_state' \in {"exec", "trap"}
      BY <1>1, <2>1 DEF ExecWait, GoTo, latches, LatchInv, LatchTypeOK
    <3> QED
      BY <1>1, <1>7, <3>1 DEF LatchInv, StepParts
  <2>2. CASE ExecBranch
    <3>1. latched_stalu' = FALSE /\ latched_branch' = latched_store'
      BY <1>1, <2>2 DEF ExecBranch, Latch, LatchInv, LatchTypeOK
    <3> QED
      BY <1>1, <1>6, <1>7, <3>1 DEF LatchInv, StepParts
  <2>3. CASE ExecAlu
    <3>1. cpu_state' \in {"fetch", "trap"} /\ latched_store' /\ latched_stalu'
      BY <2>3 DEF ExecAlu, GoTo, Latch
    <3>2. latched_branch' => alu_out_q' \in PC
      <4>1. latched_branch' => alu_out_q' \in JumpTargets
        BY <2>3 DEF ExecAlu, Exec, Step, Latch
      <4>2. JumpTargets \subseteq PC
        BY AddressAssumption, PcIsNat, PcPlusInPc DEF JumpTargets, PcTypeOK
      <4> QED
        BY <4>1, <4>2
    <3> QED
      BY <1>1, <1>7, <3>1, <3>2 DEF LatchInv, StepParts
  <2> QED
    BY <2>1, <2>2, <2>3
<1> QED
  BY <1>1, <1>3, <1>4, <1>5, <1>6, <1>7, <1>8 DEF StepTypeOK, StepParts

\* The shifter, loads and stores.
LEMMA ShiftActionsTyped ==
  ASSUME TypeOK, LatchInv, ShiftStep \/ ShiftDone PROVE StepTypeOK' /\ LatchInv'
<1> USE DEF TypeOK
<1>1. StepParts' /\ cpu_state = "shift"
  BY StepTyped DEF ShiftStep, ShiftDone, CpuStates
<1>2. TriggerTypeOK' /\ RequestTypeOK'
  BY TriggerTyped, RequestsTyped DEF ShiftStep, ShiftDone, RequestTypeOK
<1>3. OperandTypeOK'
  <2>1. reg_sh > 0 => (IF reg_sh >= 4 THEN reg_sh - 4 ELSE reg_sh - 1) \in 0 .. MaxShift
    BY BoundAssumption DEF OperandTypeOK
  <2> QED
    BY <2>1, OperandsTyped, NoOperandsTyped DEF ShiftStep, ShiftDone
<1>4. StateTypeOK' /\ cpu_state' \in {"fetch", "shift", "trap"}
  <2>1. \E state \in {"fetch", "shift"} : GoTo(state)
    BY DEF ShiftStep, ShiftDone
  <2> QED
    BY <1>1, <2>1, StateTyped DEF GoTo, CpuStates, StepParts
<1>5. IrqTypeOK'
  BY <1>1, KeepIrqTyped DEF ShiftStep, ShiftDone, StepParts
<1>6. /\ latched_store' = TRUE /\ latched_stalu' = FALSE /\ latched_branch' = FALSE
      /\ latched_rd' = "rd" /\ AccessTypeOK' /\ pcpi_valid' \in BOOLEAN
  BY <1>1 DEF ShiftStep, ShiftDone, Latch, LatchInv, LatchTypeOK, AccessTypeOK
<1>7. LatchInv'
  BY <1>1, <1>4, <1>6 DEF LatchInv, StepParts
<1> QED
  BY <1>1, <1>2, <1>3, <1>4, <1>5, <1>6, <1>7 DEF StepTypeOK, StepParts, LatchTypeOK

LEMMA DataActionsTyped ==
  ASSUME TypeOK, LatchInv, NEW state \in {"stmem", "ldmem"},
         DataWaits(state) \/ DataAccess(state)
  PROVE  StepTypeOK' /\ LatchInv'
<1> USE DEF TypeOK
<1>1. DataPhase(state)
  BY DEF DataWaits, DataAccess
<1>2. StepParts' /\ cpu_state = state
  BY <1>1, StepTyped DEF DataPhase, CpuStates
<1>3. mem_done \in BOOLEAN
  BY DEF mem_done, InputTypeOK
<1>4. TriggerTypeOK'
  BY <1>3, TriggerTyped DEF DataWaits, DataAccess, TriggerTypeOK
<1>5. RequestTypeOK'
  <2>1. mem_do_rinst \in BOOLEAN /\ mem_do_prefetch \in BOOLEAN
    BY DEF RequestTypeOK
  <2> QED
    BY <2>1, RequestsTyped DEF DataWaits, DataAccess
<1>6. OperandTypeOK'
  BY <1>1, NoOperandsTyped DEF DataPhase
<1>7. StateTypeOK' /\ cpu_state' \in {"fetch", "trap", state}
  <2>1. \E next \in {"fetch", state} : GoTo(next)
    BY DEF DataWaits, DataAccess
  <2> QED
    BY <1>2, <2>1, StateTyped DEF GoTo, CpuStates, StepParts
<1>8. IrqTypeOK'
  BY <1>1, <1>2, KeepIrqTyped DEF DataPhase, StepParts
<1>9. AccessTypeOK'
  BY DEF DataWaits, DataAccess, AccessTypeOK
<1>10. /\ latched_store' \in BOOLEAN /\ latched_stalu' = FALSE /\ latched_branch' = FALSE
       /\ latched_rd' = "rd" /\ pcpi_valid' \in BOOLEAN
  BY <1>1, <1>2 DEF DataPhase, Latch, LatchInv, LatchTypeOK
<1>11. LatchInv'
  BY <1>2, <1>7, <1>10 DEF LatchInv, StepParts
<1> QED
  BY <1>2, <1>4, <1>5, <1>6, <1>7, <1>8, <1>9, <1>10, <1>11
  DEF StepTypeOK, StepParts, LatchTypeOK

\* Reset and trap.
LEMMA ResetTyped == ASSUME TypeOK, LatchInv, Reset PROVE StepTypeOK' /\ LatchInv'
<1> USE DEF TypeOK
<1>1. TriggerTypeOK' /\ OperandTypeOK'
  BY TriggerTyped, NoOperandsTyped DEF Reset
<1>2. RequestTypeOK' /\ StateTypeOK'
  BY DEF Reset, RequestTypeOK, StateTypeOK, CpuStates
<1>3. PcTypeOK' /\ AccessTypeOK'
  BY AddressAssumption DEF Reset, PcTypeOK, AccessTypeOK
<1>4. LatchTypeOK' /\ pcpi_valid' \in BOOLEAN
  BY DEF Reset, Latch, LatchTypeOK
<1>5. EntryTypeOK'
  <2>1. irq_state' \in 0 .. 2
    BY DEF Reset
  <2>2. irq_delay' \in BOOLEAN /\ do_waitirq' \in BOOLEAN
    BY DEF Reset
  <2> HIDE DEF TypeOK
  <2> QED
    BY <2>1, <2>2 DEF EntryTypeOK
<1>6. {} \in SUBSET Irqs
  OBVIOUS
<1>7. irq_pending' \in SUBSET Irqs
  BY <1>6, PendingTyped DEF Reset
<1>8. IrqTypeOK'
  <2>1. irq_mask' = Irqs /\ eoi' = {} /\ q1' \in SUBSET Irqs
    BY DEF Reset, IrqTypeOK
  <2>2. irq_active' = FALSE
    BY DEF Reset
  <2>3. timer' \in 0 .. MaxTimer
    BY BoundAssumption DEF Reset
  <2>4. q0' \in PC
    BY DEF Reset, IrqTypeOK
  <2> QED
    BY <1>7, <2>1, <2>2, <2>3, <2>4 DEF IrqTypeOK
<1>9. LatchInv'
  BY DEF Reset, Latch, LatchInv
<1> QED
  BY <1>1, <1>2, <1>3, <1>4, <1>5, <1>8, <1>9 DEF StepTypeOK

LEMMA TrappedTyped == ASSUME TypeOK, LatchInv, Trapped PROVE StepTypeOK' /\ LatchInv'
<1> USE DEF TypeOK
<1>1. TriggerTypeOK' /\ OperandTypeOK'
  BY TriggerTyped, NoOperandsTyped DEF Trapped
<1>2. RequestTypeOK'
  BY RequestsTyped DEF Trapped, RequestTypeOK
<1>3. StateTypeOK' /\ cpu_state' = "trap"
  BY DEF Trapped, StateTypeOK, CpuStates
<1>4. PcTypeOK' /\ AccessTypeOK'
  BY DEF Trapped, PcTypeOK, AccessTypeOK
<1>5. LatchTypeOK' /\ pcpi_valid' \in BOOLEAN /\ UNCHANGED <<latches, irq_state>>
  BY DEF Trapped, latches, LatchTypeOK
<1>6. EntryTypeOK'
  BY DEF Trapped, EntryTypeOK
<1>7. LatchedPending \in SUBSET Irqs /\ {} \in SUBSET Irqs
  BY DEF LatchedPending, IrqTypeOK
<1>8. irq_pending' \in SUBSET Irqs
  BY <1>7, PendingTyped DEF Trapped
<1>9. timer' \in 0 .. MaxTimer
  BY CountDownTyped DEF Trapped
<1>10. IrqTypeOK'
  BY <1>8, <1>9 DEF Trapped, IrqTypeOK
<1>11. LatchInv'
  BY <1>3, <1>5 DEF latches, LatchInv
<1> QED
  BY <1>1, <1>2, <1>3, <1>4, <1>5, <1>6, <1>10, <1>11 DEF StepTypeOK

------------------------------------------------------------------------------
LEMMA TypeInvInit == Init => TypeOK /\ LatchInv
<1> SUFFICES ASSUME Init PROVE TypeOK /\ LatchInv
  OBVIOUS
<1> USE DEF Init
<1>1. InputTypeOK
  BY AddressAssumption DEF InputTypeOK
<1>2. MemTypeOK
  <2>1. 0 \in Words /\ <<X, X>> \in Sources
    BY AddressAssumption DEF Words, Sources
  <2>2. clear_prefetched_high_word_q \in BOOLEAN
    BY ParamAssumption
  <2>3. mem_state \in 0 .. 3
    OBVIOUS
  <2>4. mem_addr \in Words /\ mem_rdata_q \in Sources /\ mem_16bit_buffer = X
    BY <2>1
  <2> QED
    BY <2>2, <2>3, <2>4 DEF MemTypeOK
<1>3. DecoderTypeOK
  BY DEF DecoderTypeOK, Sources, AllKinds
<1>4. TriggerTypeOK /\ RequestTypeOK /\ StateTypeOK /\ LatchTypeOK
  BY DEF TriggerTypeOK, RequestTypeOK, StateTypeOK, CpuStates, LatchTypeOK
<1>5. PcTypeOK /\ AccessTypeOK
  BY AddressAssumption DEF PcTypeOK, AccessTypeOK
<1>6. OperandTypeOK /\ PcpiTypeOK /\ EntryTypeOK
  <2>1. reg_sh \in 0 .. MaxShift
    BY BoundAssumption
  <2>2. pcpi_timeout_counter \in 0 .. PcpiTimeoutMax
    BY BoundAssumption
  <2>3. irq_state \in 0 .. 2
    OBVIOUS
  <2>4. /\ alu_out_0 = FALSE /\ alu_wait = FALSE /\ alu_wait_2 = FALSE
        /\ pcpi_timeout = FALSE /\ irq_delay = FALSE /\ do_waitirq = FALSE
    OBVIOUS
  <2> HIDE DEF Init
  <2> QED
    BY <2>1, <2>2, <2>3, <2>4 DEF OperandTypeOK, PcpiTypeOK, EntryTypeOK
<1>7. IrqTypeOK
  <2>1. timer \in 0 .. MaxTimer
    BY BoundAssumption
  <2>2. q0 \in PC
    BY AddressAssumption
  <2>3. irq_active = FALSE /\ irq_mask = Irqs /\ irq_pending = {} /\ eoi = {} /\ q1 = {}
    OBVIOUS
  <2> HIDE DEF Init
  <2> QED
    BY <2>1, <2>2, <2>3 DEF IrqTypeOK
<1>8. LatchInv
  BY DEF LatchInv
<1> QED
  BY <1>1, <1>2, <1>3, <1>4, <1>5, <1>6, <1>7, <1>8 DEF TypeOK

LEMMA TypeInvNext == TypeOK /\ LatchInv /\ [Next]_vars => TypeOK' /\ LatchInv'
<1> SUFFICES ASSUME TypeOK, LatchInv, [Next]_vars PROVE TypeOK' /\ LatchInv'
  OBVIOUS
<1>1. CASE Next
  <2>1. StepTypeOK' /\ LatchInv'
    BY <1>1, ResetTyped, TrappedTyped, FetchActionsTyped, IllegalActionTyped,
       ResultActionsTyped, RetIrqTyped, ProceedActionsTyped, PcpiActionsTyped,
       ExecActionsTyped, ShiftActionsTyped, DataActionsTyped
    DEF Next, MainStep
  <2>2. MemTypeOK' /\ DecoderTypeOK' /\ PcpiTypeOK'
    BY <1>1, MemTyped, DecoderTyped, PcpiTyped
  <2>3. InputTypeOK'
    BY <1>1, <2>1, InputsTyped DEF StepTypeOK
  <2> QED
    BY <2>1, <2>2, <2>3 DEF TypeOK, StepTypeOK
<1>2. CASE UNCHANGED vars
  <2> USE <1>2 DEF TypeOK, vars
  <2>1. InputTypeOK'
    BY DEF InputTypeOK, inputs
  <2>2. MemTypeOK'
    BY DEF MemTypeOK, bus, fetchUnit
  <2>3. DecoderTypeOK' /\ TriggerTypeOK'
    BY DEF DecoderTypeOK, TriggerTypeOK, decoder
  <2>4. RequestTypeOK' /\ StateTypeOK'
    BY DEF RequestTypeOK, StateTypeOK, requests
  <2>5. PcTypeOK' /\ OperandTypeOK' /\ AccessTypeOK'
    BY DEF PcTypeOK, OperandTypeOK, AccessTypeOK, datapath
  <2>6. LatchTypeOK' /\ PcpiTypeOK' /\ pcpi_valid' \in BOOLEAN
    BY DEF LatchTypeOK, PcpiTypeOK, latches, pcpi
  <2>7. EntryTypeOK' /\ IrqTypeOK'
    BY DEF EntryTypeOK, IrqTypeOK, interrupts
  <2>8. LatchInv'
    BY DEF LatchInv, latches, datapath, interrupts
  <2> QED
    BY <2>1, <2>2, <2>3, <2>4, <2>5, <2>6, <2>7, <2>8
<1> QED
  BY <1>1, <1>2

\* Every register keeps to its range, for any program, any memory timing and
\* any inputs; no counter wraps and no program counter takes an undefined
\* value (picorv32.v:1479-1936, every branch of the main always block).
THEOREM TypeCorrect == Spec => []TypeOK
BY TypeInvInit, TypeInvNext, PTL DEF Spec

------------------------------------------------------------------------------
(* Interrupts.                                                             *)

\* A step that names its effect on irq_pending by Pending keeps what it keeps.
LEMMA PendingKeeps ==
  ASSUME NEW kept, NEW raised, Pending(kept, raised), ENABLE_IRQ, NEW n \in kept \ MASKED_IRQ
  PROVE  n \in irq_pending'
BY DEF Pending

\* Every branch of the main state machine keeps what is latched, but for the
\* last cycle of the entry into the handler.
LEMMA StepsPend ==
  ASSUME MainStep
  PROVE  \/ \E raised : Pending(LatchedPending, raised)
         \/ ~resetn /\ Pending({}, {})
         \/ irq_state = 2 /\ Slot = "q1" /\ \E next, store, branch : Fetch(next, store, branch)
<1>1. CASE Reset
  BY <1>1 DEF Reset
<1>2. CASE Trapped
  BY <1>2 DEF Trapped
<1>3. CASE EnterIrq \/ WaitIrq \/ WaitIrqDone \/ LaunchJal \/ Launch \/ AwaitInsn
  <2>1. PICK next, store, branch : Fetch(next, store, branch)
    BY <1>3 DEF EnterIrq, WaitIrq, WaitIrqDone, LaunchJal, Launch, AwaitInsn
  <2>2. CASE Slot = "q1"
    BY <2>1, <2>2 DEF Slot
  <2>3. CASE Slot # "q1"
    BY <2>1, <2>3 DEF Fetch
  <2> QED
    BY <2>2, <2>3
<1>4. CASE \/ LdRs1Illegal \/ LdRs1Simple \/ LdRs1SetQ \/ LdRs1MaskIrq \/ LdRs1Timer
           \/ LdRs1RetIrq
  BY <1>4 DEF LdRs1Illegal, LdRs1Simple, LdRs1SetQ, LdRs1MaskIrq, LdRs1Timer, LdRs1RetIrq,
     LatchResult, IllegalInsn, NoFault
<1>5. CASE \/ LdRs1Load \/ LdRs1Imm \/ LdRs1ShiftImm \/ LdRs1SinglePort \/ Store \/ Shift \/ Alu
  BY <1>5 DEF LdRs1Load, LdRs1Imm, LdRs1ShiftImm, LdRs1SinglePort, Store, Shift, Alu,
     Proceed, NoFault
<1>6. CASE PcpiReady \/ PcpiAbort \/ PcpiWait
  BY <1>6 DEF PcpiReady, PcpiAbort, PcpiWait, IllegalInsn, NoFault
<1>7. CASE ExecWait \/ ExecBranch \/ ExecAlu
  BY <1>7 DEF ExecWait, ExecBranch, ExecAlu, Exec, NoFault
<1>8. CASE ShiftStep \/ ShiftDone
  BY <1>8 DEF ShiftStep, ShiftDone, NoFault
<1>9. CASE \E state \in {"stmem", "ldmem"} : DataWaits(state) \/ DataAccess(state)
  BY <1>9 DEF DataWaits, DataAccess, DataPhase, NoFault
<1> QED
  BY <1>1, <1>2, <1>3, <1>4, <1>5, <1>6, <1>7, <1>8, <1>9 DEF MainStep

LEMMA PendingNeedsIrq == MainStep => (irq_pending' # {} => ENABLE_IRQ)
<1>1. ASSUME NEW kept, NEW raised, Pending(kept, raised) PROVE irq_pending' # {} => ENABLE_IRQ
  BY <1>1 DEF Pending
<1> QED
  BY <1>1, StepsPend DEF Fetch

\* Outside cpu_state_fetch, reset and trap no interrupt is being entered.
LEMMA StepKeepsIrq ==
  ASSUME LatchInv, IrqInv, NEW state \in CpuStates \ {"fetch", "trap"}, Step(state),
         MASKED_IRQ \subseteq irq_mask', irq_pending' # {} => ENABLE_IRQ,
         cpu_state' \in {"ld_rs1", "ld_rs2"} => UNCHANGED irq_active /\ state \in {"ld_rs1", "ld_rs2"}
  PROVE  IrqInv'
<1>1. irq_state' = 0
  BY DEF Step, LatchInv
<1>2. cpu_state = state /\ UNCHANGED irq_delay
  BY DEF Step
<1> QED
  BY <1>1, <1>2 DEF IrqInv

LEMMA IrqInvInit == Init => IrqInv
BY IrqAssumption DEF Init, IrqInv

LEMMA FetchKeepsIrq ==
  ASSUME TypeOK, LatchInv, IrqInv,
         EnterIrq \/ WaitIrq \/ WaitIrqDone \/ LaunchJal \/ Launch \/ AwaitInsn,
         irq_pending' # {} => ENABLE_IRQ
  PROVE  IrqInv'
<1>1. PICK next, store, branch : Fetch(next, store, branch)
  BY DEF EnterIrq, WaitIrq, WaitIrqDone, LaunchJal, Launch, AwaitInsn
<1>2. UNCHANGED irq_mask /\ cpu_state = "fetch"
  BY <1>1 DEF Fetch
<1> DEFINE Delayed == cpu_state' \in {"ld_rs1", "ld_rs2"} /\ irq_delay' => irq_active'
<1>3. CASE EnterIrq
  <2>0. Delayed
    BY <1>3 DEF EnterIrq, GoTo
  <2>1. irq_state \in 0 .. 2 /\ irq_state' = (irq_state + 1) % 3
    BY <1>3 DEF EnterIrq, TypeOK, EntryTypeOK
  <2>2. irq_state' = 1 => irq_state = 0 /\ ~irq_active
    BY <1>3, <2>1 DEF EnterIrq, IrqTaken
  <2>3. irq_state' = 2 => irq_state = 1
    BY <2>1
  <2>4. irq_state' = 1 => ~irq_active'
    <3>1. irq_active' => irq_active \/ Slot = "q0"
      BY <1>1 DEF Fetch
    <3>2. Slot = "q0" => irq_state = 1
      BY DEF Slot
    <3> QED
      BY <2>2, <3>1, <3>2
  <2>5. latched_rd' = IF irq_state = 1 THEN "q1" ELSE "q0"
    BY <1>3 DEF EnterIrq
  <2>6. ASSUME LATCHED_IRQ = Irqs, irq_state' # 0 PROVE irq_pending' \ irq_mask' # {}
    <3>1. irq_state # 2
      BY <2>1, <2>6
    <3>2. Pending(LatchedPending, {}) /\ ENABLE_IRQ
      BY <1>1, <1>3, <3>1 DEF Fetch, Slot, EnterIrq, IrqTaken
    <3>3. PICK n : n \in irq_pending \ irq_mask
      BY <1>3, <2>6 DEF EnterIrq, IrqTaken, IrqInv
    <3>4. n \in LatchedPending \ MASKED_IRQ
      BY <2>6, <3>3 DEF LatchedPending, TypeOK, IrqTypeOK, IrqInv
    <3> QED
      BY <1>2, <3>2, <3>3, <3>4, PendingKeeps
  <2> QED
    BY <1>2, <2>0, <2>2, <2>3, <2>4, <2>5, <2>6 DEF IrqInv
<1>4. CASE WaitIrq \/ WaitIrqDone \/ LaunchJal \/ Launch \/ AwaitInsn
  <2>1. NoIrq
    BY <1>4 DEF WaitIrq, WaitIrqDone, LaunchJal, Launch, AwaitInsn
  <2>2. irq_state = 0 /\ irq_state' = 0
    BY <2>1 DEF NoIrq, IrqTaken, LatchInv
  <2>3. CASE Launch
    <3>1. irq_delay' = irq_active /\ (irq_active => irq_active')
      BY <1>1, <2>3 DEF Launch, Fetch
    <3> QED
      BY <1>2, <2>2, <3>1 DEF IrqInv
  <2>4. CASE WaitIrq \/ WaitIrqDone \/ LaunchJal \/ AwaitInsn
    <3>1. Delayed
      BY <2>4 DEF WaitIrq, WaitIrqDone, LaunchJal, AwaitInsn, GoTo
    <3> QED
      BY <1>2, <2>2, <3>1 DEF IrqInv
  <2> QED
    BY <1>4, <2>3, <2>4
<1> QED
  BY <1>3, <1>4

LEMMA IrqInvNext == TypeOK /\ LatchInv /\ IrqInv /\ [Next]_vars => IrqInv'
<1> SUFFICES ASSUME TypeOK, LatchInv, IrqInv, [Next]_vars PROVE IrqInv'
  OBVIOUS
<1>1. CASE UNCHANGED vars
  BY <1>1 DEF IrqInv, vars, interrupts, latches
<1>2. ASSUME MainStep PROVE IrqInv'
  <2> USE <1>2, PendingNeedsIrq
  <2>1. CASE Reset
    BY <2>1, IrqAssumption DEF Reset, IrqInv
  <2>2. CASE Trapped
    <3>1. UNCHANGED <<irq_mask, irq_state, irq_active, latched_rd>>
      BY <2>2 DEF Trapped, latches
    <3>0. cpu_state' = "trap"
      BY <2>2 DEF Trapped
    <3>2. ASSUME LATCHED_IRQ = Irqs, irq_state # 0 PROVE irq_pending' \ irq_mask' # {}
      <4>1. Pending(LatchedPending, {}) /\ ENABLE_IRQ
        BY <2>2, <3>2 DEF Trapped, LatchInv
      <4>2. PICK n : n \in irq_pending \ irq_mask
        BY <3>2 DEF IrqInv
      <4>3. n \in LatchedPending \ MASKED_IRQ
        BY <3>2, <4>2 DEF LatchedPending, TypeOK, IrqTypeOK, IrqInv
      <4> QED
        BY <3>1, <4>1, <4>2, <4>3, PendingKeeps
    <3> QED
      BY <3>0, <3>1, <3>2 DEF IrqInv
  <2>3. CASE EnterIrq \/ WaitIrq \/ WaitIrqDone \/ LaunchJal \/ Launch \/ AwaitInsn
    BY <2>3, FetchKeepsIrq
  <2>4. CASE \/ LdRs1Illegal \/ LdRs1Simple \/ LdRs1SetQ \/ LdRs1MaskIrq \/ LdRs1Timer
             \/ LdRs1RetIrq
    <3>1. Step("ld_rs1")
      BY <2>4 DEF LdRs1Illegal, LdRs1Simple, LdRs1SetQ, LdRs1MaskIrq, LdRs1Timer, LdRs1RetIrq
    <3>2. MASKED_IRQ \subseteq irq_mask'
      BY <2>4 DEF LdRs1Illegal, LdRs1Simple, LdRs1SetQ, LdRs1MaskIrq, LdRs1Timer, LdRs1RetIrq,
         KeepIrqState, IrqInv
    <3>3. cpu_state' \in {"fetch", "trap"}
      BY <2>4 DEF LdRs1Illegal, LdRs1Simple, LdRs1SetQ, LdRs1MaskIrq, LdRs1Timer, LdRs1RetIrq,
         LatchResult, IllegalInsn, GoTo
    <3> QED
      BY <3>1, <3>2, <3>3, StepKeepsIrq DEF CpuStates
  <2>5. CASE \/ LdRs1Load \/ LdRs1Imm \/ LdRs1ShiftImm \/ LdRs1SinglePort \/ Store \/ Shift \/ Alu
    <3>1. \E state \in {"ld_rs1", "ld_rs2"} : Step(state)
      BY <2>5 DEF LdRs1Load, LdRs1Imm, LdRs1ShiftImm, LdRs1SinglePort, Store, Shift, Alu,
         SecondOperand
    <3>2. MASKED_IRQ \subseteq irq_mask'
      BY <2>5 DEF LdRs1Load, LdRs1Imm, LdRs1ShiftImm, LdRs1SinglePort, Store, Shift, Alu,
         Proceed, KeepIrqState, IrqInv
    <3>3. UNCHANGED irq_active
      BY <2>5 DEF LdRs1Load, LdRs1Imm, LdRs1ShiftImm, LdRs1SinglePort, Store, Shift, Alu,
         Proceed, KeepIrqState
    <3> QED
      BY <3>1, <3>2, <3>3, StepKeepsIrq DEF CpuStates
  <2>6. CASE PcpiReady \/ PcpiAbort \/ PcpiWait
    <3>1. \E state \in {"ld_rs1", "ld_rs2"} : Step(state)
      BY <2>6 DEF PcpiReady, PcpiAbort, PcpiWait, Pcpi, SecondOperand
    <3>2. MASKED_IRQ \subseteq irq_mask'
      BY <2>6 DEF PcpiReady, PcpiAbort, PcpiWait, Pcpi, KeepIrqState, IrqInv
    <3>3. UNCHANGED irq_active
      BY <2>6 DEF PcpiReady, PcpiAbort, PcpiWait, Pcpi, KeepIrqState
    <3> QED
      BY <3>1, <3>2, <3>3, StepKeepsIrq DEF CpuStates
  <2>7. CASE ExecWait \/ ExecBranch \/ ExecAlu
    <3>1. Step("exec") /\ MASKED_IRQ \subseteq irq_mask'
      BY <2>7 DEF ExecWait, ExecBranch, ExecAlu, Exec, KeepIrqState, IrqInv
    <3>2. cpu_state' \in {"exec", "fetch", "trap"}
      BY <2>7 DEF ExecWait, ExecBranch, ExecAlu, GoTo
    <3> QED
      BY <3>1, <3>2, StepKeepsIrq DEF CpuStates
  <2>8. CASE ShiftStep \/ ShiftDone
    <3>1. Step("shift") /\ MASKED_IRQ \subseteq irq_mask'
      BY <2>8 DEF ShiftStep, ShiftDone, KeepIrqState, IrqInv
    <3>2. cpu_state' \in {"shift", "fetch", "trap"}
      BY <2>8 DEF ShiftStep, ShiftDone, GoTo
    <3> QED
      BY <3>1, <3>2, StepKeepsIrq DEF CpuStates
  <2>9. ASSUME NEW state \in {"stmem", "ldmem"}, DataWaits(state) \/ DataAccess(state)
        PROVE  IrqInv'
    <3>1. Step(state) /\ MASKED_IRQ \subseteq irq_mask'
      BY <2>9 DEF DataWaits, DataAccess, DataPhase, KeepIrqState, IrqInv
    <3>2. cpu_state' \in {"stmem", "ldmem", "fetch", "trap"}
      BY <2>9 DEF DataWaits, DataAccess, GoTo
    <3> QED
      BY <3>1, <3>2, StepKeepsIrq DEF CpuStates
  <2> QED
    BY <1>2, <2>1, <2>2, <2>3, <2>4, <2>5, <2>6, <2>7, <2>8, <2>9 DEF MainStep
<1> QED
  BY <1>1, <1>2 DEF Next

LEMMA IrqCorrect == Spec => [](TypeOK /\ LatchInv /\ IrqInv)
BY TypeInvInit, TypeInvNext, IrqInvInit, IrqInvNext, PTL DEF Spec

\* The handler is only entered from outside of it, and with a pending line
\* that is not masked when every line is latched (picorv32.v:1545-1554).
THEOREM IrqEntryAlwaysHasCause == Spec => []IrqEntryHasCause
<1>1. IrqInv => IrqEntryHasCause
  BY DEF IrqInv, IrqEntryHasCause
<1> QED
  BY <1>1, IrqCorrect, PTL

\* A latched interrupt leaves irq_pending only in the cycle that copies it to
\* eoi and to q1 (picorv32.v:1510-1516 and 1916-1963).
THEOREM LatchedIrqsKept == Spec => LatchedIrqKept
<1> DEFINE Kept == \A n \in LATCHED_IRQ \ MASKED_IRQ :
                     resetn /\ n \in irq_pending /\ n \notin irq_pending' =>
                       irq_state = 2 /\ n \in eoi' /\ n \in q1'
<1>1. TypeOK /\ LatchInv /\ IrqInv /\ [Next]_vars => Kept
  <2> SUFFICES ASSUME TypeOK, LatchInv, IrqInv, [Next]_vars,
                      NEW n \in LATCHED_IRQ \ MASKED_IRQ,
                      resetn, n \in irq_pending, n \notin irq_pending'
               PROVE  irq_state = 2 /\ n \in eoi' /\ n \in q1'
    OBVIOUS
  <2>1. MainStep
    BY DEF Next, vars, interrupts
  <2>2. ENABLE_IRQ /\ n \in LatchedPending \ MASKED_IRQ
    BY DEF IrqInv, LatchedPending
  <2>3. irq_state = 2 /\ Slot = "q1"
    BY <2>1, <2>2, StepsPend, PendingKeeps
  <2>4. PICK next, store, branch : Fetch(next, store, branch)
    BY <2>1, <2>2, StepsPend, PendingKeeps
  <2>5. n \notin irq_mask
    <3>1. Pending(StillPending, {})
      BY <2>3, <2>4 DEF Fetch
    <3> QED
      BY <2>2, <3>1, PendingKeeps DEF StillPending
  <2>6. n \in irq_pending \ irq_mask
    BY <2>5
  <2> QED
    BY <2>3, <2>4, <2>6 DEF Fetch, IrqInv
<1>2. [](TypeOK /\ LatchInv /\ IrqInv) /\ [][Next]_vars => [][Kept]_vars
  BY <1>1, PTL
<1> QED
  BY <1>2, IrqCorrect, PTL DEF Spec, LatchedIrqKept

\* Only cpu_state_fetch decides about interrupts.
LEMMA StepsInside ==
  ASSUME MainStep, resetn
  PROVE  /\ cpu_state = "fetch" =>
              EnterIrq \/ WaitIrq \/ WaitIrqDone \/ LaunchJal \/ Launch \/ AwaitInsn
         /\ cpu_state \in {"ld_rs1", "ld_rs2"} => UNCHANGED irq_delay
<1>1. CASE \/ LdRs1Illegal \/ LdRs1Simple \/ LdRs1SetQ \/ LdRs1MaskIrq \/ LdRs1Timer
           \/ LdRs1RetIrq \/ LdRs1Load \/ LdRs1Imm \/ LdRs1ShiftImm \/ LdRs1SinglePort
  BY <1>1 DEF LdRs1Illegal, LdRs1Simple, LdRs1SetQ, LdRs1MaskIrq, LdRs1Timer, LdRs1RetIrq,
     LdRs1Load, LdRs1Imm, LdRs1ShiftImm, LdRs1SinglePort, Step
<1>2. CASE Store \/ Shift \/ Alu \/ PcpiReady \/ PcpiAbort \/ PcpiWait
  <2>1. SecondOperand
    BY <1>2 DEF Store, Shift, Alu, PcpiReady, PcpiAbort, PcpiWait, Pcpi
  <2> QED
    BY <2>1 DEF SecondOperand, Step
<1>3. CASE ExecWait \/ ExecBranch \/ ExecAlu \/ ShiftStep \/ ShiftDone
  BY <1>3 DEF ExecWait, ExecBranch, ExecAlu, Exec, ShiftStep, ShiftDone, Step
<1>4. CASE \E state \in {"stmem", "ldmem"} : DataWaits(state) \/ DataAccess(state)
  BY <1>4 DEF DataWaits, DataAccess, DataPhase, Step
<1>5. CASE EnterIrq \/ WaitIrq \/ WaitIrqDone \/ LaunchJal \/ Launch \/ AwaitInsn
  BY <1>5 DEF EnterIrq, WaitIrq, WaitIrqDone, LaunchJal, Launch, AwaitInsn, Fetch
<1>6. CASE Reset \/ Trapped
  BY <1>6 DEF Reset, Trapped
<1> QED
  BY <1>1, <1>2, <1>3, <1>4, <1>5, <1>6 DEF MainStep

\* An illegal instruction, ecall or ebreak is never executed in the delay that
\* follows a return, and while its interrupt is pending nothing is launched
\* (picorv32.v:1555-1572 and 1648-1662).
THEOREM FaultsTakenAtOnce == Spec => FaultBeforeNextInsn
<1> DEFINE Executed == cpu_state \in {"ld_rs1", "ld_rs2"} /\ instr_trap /\ IrqEnabled(1) => ~irq_delay'
           Launched == /\ cpu_state = "fetch" /\ 1 \in irq_pending \ irq_mask
                       /\ cpu_state' = "ld_rs1" \/ latched_branch'
                       => irq_active \/ irq_delay
<1>1. TypeOK /\ LatchInv /\ IrqInv /\ Next => (Running => Executed /\ Launched)
  <2> SUFFICES ASSUME TypeOK, LatchInv, IrqInv, MainStep, resetn PROVE Executed /\ Launched
    BY DEF Next, Running
  <2>1. ASSUME cpu_state \in {"ld_rs1", "ld_rs2"}, IrqEnabled(1) PROVE ~irq_delay'
    <3>1. UNCHANGED irq_delay
      BY <2>1, StepsInside
    <3> QED
      BY <2>1, <3>1 DEF IrqInv, IrqEnabled
  <2>2. ASSUME cpu_state = "fetch", 1 \in irq_pending \ irq_mask,
               cpu_state' = "ld_rs1" \/ latched_branch'
        PROVE  irq_active \/ irq_delay
    <3>1. EnterIrq \/ WaitIrq \/ WaitIrqDone \/ LaunchJal \/ Launch \/ AwaitInsn
      BY <2>2, StepsInside
    <3>2. ~(EnterIrq \/ WaitIrq \/ WaitIrqDone \/ AwaitInsn)
      BY <2>2 DEF EnterIrq, WaitIrq, WaitIrqDone, AwaitInsn, Fetch, Latch, GoTo
    <3>3. decoder_trigger /\ ~IrqTaken
      BY <3>1, <3>2 DEF Launch, LaunchJal, NoIrq
    <3> QED
      BY <2>2, <3>3 DEF IrqTaken, IrqInv
  <2> QED
    BY <2>1, <2>2
<1>2. [](TypeOK /\ LatchInv /\ IrqInv) /\ [][Next]_vars => [][Running => Executed /\ Launched]_vars
  BY <1>1, PTL
<1> QED
  BY <1>2, IrqCorrect, PTL DEF Spec, FaultBeforeNextInsn
=============================================================================
