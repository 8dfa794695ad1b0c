----------------------------- MODULE PicoRV32ISA -----------------------------
(***************************************************************************)
(* What the picorv32 core promises to software: instructions run one after *)
(* the other in program order, each one read whole from the address the pc *)
(* has; an interrupt comes between two instructions, saves the address of  *)
(* the first one not executed in q0 and does not nest; after a return at   *)
(* least one instruction of the interrupted program runs.  An instruction  *)
(* at a misaligned address halts the core or is interrupted; only the one  *)
(* a handler returns to is executed, whatever the core reads for it.       *)
(***************************************************************************)
EXTENDS Integers

CONSTANTS
  PC,              \* the addresses
  PROGADDR_RESET, PROGADDR_IRQ,
  JumpOffsets,     \* how far a jump may go
  KindsOf(_, _),   \* the kinds an instruction may be of, by program and pc
  Length(_, _),    \* its length in halfwords
  Plus(_, _),      \* addition of halfword addresses
  Faulting,        \* kinds that may halt the core when no interrupt is allowed
  Misfetch(_)      \* misaligned addresses

None == [kind |-> "none", at |-> <<>>, imm |-> 0]

VARIABLES
  resetn,      \* an input
  prog,
  pc,          \* address of the next instruction to complete
  op,          \* that instruction, None when it has not been read yet
  busy,        \* it has been started and can no longer be postponed
  irq_active,  \* the handler is running
  delay,       \* no instruction has started since the handler returned
  q0,          \* the return address
  halted

vars == <<prog, pc, op, busy, irq_active, delay, q0, halted>>

\* The halfwords an instruction occupies; unknown at a misaligned address.
Extent(a) == CASE Misfetch(a)                             -> <<>>
               [] ~Misfetch(a) /\ Length(prog, a) = 1    -> <<a>>
               [] ~Misfetch(a) /\ Length(prog, a) # 1    -> <<a, Plus(a, 1)>>

Read(a) == [kind : KindsOf(prog, a), at : {Extent(a)}, imm : JumpOffsets \cup {0}]

Init ==
  /\ pc = PROGADDR_RESET /\ op = None /\ busy = FALSE
  /\ irq_active = FALSE /\ delay = FALSE /\ halted = FALSE
  /\ q0 \in PC

Fetch ==
  /\ resetn /\ ~halted /\ op = None
  /\ op' \in Read(pc)
  /\ UNCHANGED <<prog, pc, busy, irq_active, delay, q0, halted>>

Executable == Misfetch(pc) => delay

Start ==
  /\ resetn /\ ~halted /\ op # None /\ ~busy /\ Executable
  /\ busy' = TRUE /\ delay' = FALSE
  /\ UNCHANGED <<prog, pc, op, irq_active, q0, halted>>

Following == Plus(pc, Length(prog, pc))
Successors ==
  CASE op.kind = "jal"    -> {Plus(pc, op.imm)}
    [] op.kind = "branch" -> {Following, Plus(pc, op.imm)}
    [] op.kind = "jalr"   -> {Plus(pc, offset) : offset \in JumpOffsets}
    [] op.kind = "retirq" -> {q0}
    [] OTHER              -> {Following}

\* jal and waitirq complete as they start, the others have been started
\* before; the next instruction may have been read meanwhile.
Complete ==
  /\ resetn /\ ~halted /\ op # None
  /\ ~busy => Executable
  /\ busy <=> op.kind \notin {"jal", "waitirq"}
  /\ pc' \in Successors
  /\ op' \in {None} \cup Read(pc')
  /\ busy' = FALSE
  /\ irq_active' = (irq_active /\ op.kind # "retirq")
  /\ delay' = CASE op.kind = "retirq"  -> irq_active
                [] op.kind = "jal"     -> FALSE
                [] OTHER               -> delay
  /\ IF op.kind = "setq" THEN q0' \in {Plus(pc, offset) : offset \in JumpOffsets}
                         ELSE UNCHANGED q0
  /\ UNCHANGED <<prog, halted>>

\* An interrupt is taken instead of an instruction that has not started.
Interrupt ==
  /\ resetn /\ ~halted /\ op # None /\ ~busy /\ ~irq_active /\ ~delay
  /\ q0' = pc /\ pc' = PROGADDR_IRQ
  /\ op' = None
  /\ irq_active' = TRUE
  /\ UNCHANGED <<prog, busy, delay, halted>>

Halt ==
  /\ resetn /\ ~halted
  /\ op.kind \in Faulting \/ Misfetch(pc)
  /\ halted' = TRUE /\ op' = None /\ busy' = FALSE
  /\ UNCHANGED <<prog, pc, irq_active, delay, q0>>

Reset ==
  /\ ~resetn
  /\ pc' = PROGADDR_RESET /\ op' = None /\ busy' = FALSE
  /\ irq_active' = FALSE /\ delay' = FALSE /\ halted' = FALSE
  /\ q0' \in PC
  /\ UNCHANGED prog

Next == Fetch \/ Start \/ Complete \/ Interrupt \/ Halt \/ Reset

Spec == Init /\ [][Next]_vars
==============================================================================
