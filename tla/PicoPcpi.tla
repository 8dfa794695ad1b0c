------------------------------- MODULE PicoPcpi -------------------------------
(***************************************************************************)
(* The multiplication and division co-processors of picorv32.v on the      *)
(* internal PCPI port: picorv32_pcpi_mul (carry-save, iterative),          *)
(* picorv32_pcpi_fast_mul (pipelined) and picorv32_pcpi_div (restoring),   *)
(* the wires that merge their answers, and the core's side of the          *)
(* handshake.  A step is a clock edge.  Words have W bits (the hardware:   *)
(* 32) and the registers that depend on that are scaled with it.           *)
(*                                                                         *)
(* EXTRA_MUL_FFS, EXTRA_INSN_FFS and MUL_CLKGATE are 0, the core never     *)
(* sets them; CARRY_CHAIN is not 0.  pcpi_wr always equals pcpi_ready.     *)
(***************************************************************************)
EXTENDS Integers

CONSTANTS
  W,              \* bits of a word
  STEPS_AT_ONCE,  \* bits of the multiplier per cycle
  CARRY_CHAIN,    \* bits between two carries that are kept
  ResetEdges,     \* clock edges that a reset lasts at least
  None            \* no instruction

ASSUME WidthAssumption ==
  /\ W \in Nat \ {0} /\ STEPS_AT_ONCE \in Nat \ {0} /\ CARRY_CHAIN \in Nat \ {0}
  /\ (2 * W) % CARRY_CHAIN = 0

MulOps == {"mul", "mulh", "mulhsu", "mulhu"}
DivOps == {"div", "divu", "rem", "remu"}
Ops == MulOps \cup DivOps

\* A reset of one edge, where it meets the edge at which the multiplier decodes
\* its instruction, leaves a pcpi_wait that has just risen, and starts it.
ASSUME ResetAssumption == ResetEdges \in Nat /\ ResetEdges >= 2

ASSUME NoneAssumption == None \notin Ops

\* What mul_counter can still tell from a number below 0.
ASSUME StepsAssumption == STEPS_AT_ONCE < 3 * W

VARIABLES
  resetn,
  edges,      \* of the reset so far
  fast,       \* ENABLE_FAST_MUL: which multiplier is built in
  ld_rs1,     \* the core waits for the answer (cpu_state_ld_rs1), and
  pcpi_valid, \* asks for it, from the second cycle there on
  pcpi_insn, pcpi_rs1, pcpi_rs2,
  mul, fast_mul, div  \* the registers of the co-processors

port == <<ld_rs1, pcpi_valid, pcpi_insn, pcpi_rs1, pcpi_rs2>>
coprocessors == <<mul, fast_mul, div>>

\* 2^n, defined so that the provers can compute with it.
Pow2[n \in 0 .. 2 * W] == IF n = 0 THEN 1 ELSE 2 * Pow2[n - 1]

Word == 0 .. Pow2[W] - 1
Negative(x) == x >= Pow2[W - 1]
Signed(x) == IF Negative(x) THEN x - Pow2[W] ELSE x
Negate(x) == (Pow2[W] - x) % Pow2[W]
High(x) == (x \div Pow2[W]) % Pow2[W]
Low(x) == x % Pow2[W]
Shr(x) == x \div 2
Operand(x, signed) == IF signed THEN Signed(x) ELSE x

Rs1Signed(op) == op \in {"mulh", "mulhsu"}
Rs2Signed(op) == op = "mulh"
AnyMulh(op) == op \in MulOps \ {"mul"}

------------------------------------------------------------------------------
(* picorv32_pcpi_mul.                                                      *)

\* rd and rdx are functions from the numbers of the groups of CARRY_CHAIN bits
\* to what is in them.
GroupCount == (2 * W) \div CARRY_CHAIN
Groups == 0 .. GroupCount - 1
Weight(k) == Pow2[k * CARRY_CHAIN]
Group(x, k) == (x \div Weight(k)) % Pow2[CARRY_CHAIN]
NoBits == [k \in Groups |-> 0]

Joined(groups) ==
  LET below[k \in 0 .. GroupCount] ==
        IF k = 0 THEN 0 ELSE below[k - 1] + groups[k - 1] * Weight(k - 1)
  IN  below[GroupCount]

\* One step of the accumulator: rd + rdx + this_rs2, where the carry that leaves
\* a group goes to rdx, for the next step.  Wrong variant: rdx is forgotten.
SumsWithoutCarry(acc) ==
  [k \in Groups |-> acc.rd[k] + (IF acc.rs1 % 2 = 1 THEN Group(acc.rs2, k) ELSE 0)]
Sums(acc) ==
  [k \in Groups |-> acc.rd[k] + acc.rdx[k] + (IF acc.rs1 % 2 = 1 THEN Group(acc.rs2, k) ELSE 0)]

CarrySaveStep(acc) ==
  [rd  |-> [k \in Groups |-> Sums(acc)[k] % Pow2[CARRY_CHAIN]],
   rdx |-> [k \in Groups |-> IF k = 0 THEN 0 ELSE Sums(acc)[k - 1] \div Pow2[CARRY_CHAIN]],
   rs1 |-> Shr(acc.rs1), rs2 |-> (2 * acc.rs2) % Pow2[2 * W]]

CarrySave(acc) ==
  LET steps[n \in 0 .. STEPS_AT_ONCE] ==
        IF n = 0 THEN acc ELSE CarrySaveStep(steps[n - 1])
  IN  steps[STEPS_AT_ONCE]

\* mul_counter has a bit more than 2 * W needs; the top bit is the sign.
\* Wrong variant: without that bit.
CounterModNarrow == 2 * W
CounterMod == 4 * W
LoadCounter(op) == (IF AnyMulh(op) THEN 2 * W - 1 ELSE W - 1) - STEPS_AT_ONCE

mul_start == mul.wait /\ ~mul.wait_q

\* What the core asks of the multiplier in this cycle.
Decode(ops) == IF resetn /\ pcpi_valid /\ pcpi_insn \in ops THEN pcpi_insn ELSE None

MulIdle == [instr |-> None, wait |-> FALSE, wait_q |-> FALSE, waiting |-> TRUE,
            finish |-> FALSE, ready |-> FALSE, counter |-> 0, out |-> 0,
            acc |-> [rd |-> NoBits, rdx |-> NoBits, rs1 |-> 0, rs2 |-> 0]]

MulWaiting ==
  [waiting |-> ~mul_start, finish |-> FALSE, counter |-> LoadCounter(mul.instr) % CounterMod,
   acc |-> [rd |-> NoBits, rdx |-> NoBits,
            rs1 |-> Operand(pcpi_rs1, Rs1Signed(mul.instr)) % Pow2[2 * W],
            rs2 |-> Operand(pcpi_rs2, Rs2Signed(mul.instr)) % Pow2[2 * W]]]

MulRunning ==
  LET last == mul.counter >= 2 * W   \* mul_counter[6]
  IN  [waiting |-> last, finish |-> last, acc |-> CarrySave(mul.acc),
       counter |-> (mul.counter - STEPS_AT_ONCE) % CounterMod]

MulReset == [waiting |-> TRUE, finish |-> FALSE, acc |-> mul.acc, counter |-> mul.counter]

Mul ==
  LET part   == CASE ~resetn                 -> MulReset
                  [] resetn /\ mul.waiting   -> MulWaiting
                  [] resetn /\ ~mul.waiting  -> MulRunning
      answer == mul.finish /\ resetn
  IN  mul' = [instr |-> Decode(MulOps), wait |-> mul.instr # None, wait_q |-> mul.wait,
              waiting |-> part.waiting, finish |-> part.finish,
              acc |-> part.acc, counter |-> part.counter,
              ready |-> answer,
              out |-> CASE answer /\ AnyMulh(mul.instr)  -> High(Joined(mul.acc.rd))
                        [] answer /\ ~AnyMulh(mul.instr) -> Low(Joined(mul.acc.rd))
                        [] ~answer                       -> mul.out]

------------------------------------------------------------------------------
(* picorv32_pcpi_fast_mul.  active[k] says that the operands taken k + 1   *)
(* edges ago belong to a multiplication; the answer is active[1].          *)

\* Wrong variant: a multiplication starts again while its answer is on the way.
FastStartsAlways == Decode(MulOps) # None
FastStarts == Decode(MulOps) # None /\ ~fast_mul.active[0] /\ ~fast_mul.active[1]

FastIdle == [active |-> [k \in 0 .. 3 |-> FALSE], shift_out |-> FALSE, rs1 |-> 0, rs2 |-> 0, rd |-> 0]

FastMul ==
  LET op == Decode(MulOps)
  IN  fast_mul' =
        [active |-> [k \in 0 .. 3 |-> resetn /\ IF k = 0 THEN FastStarts ELSE fast_mul.active[k - 1]],
         shift_out |-> AnyMulh(op),
         rs1 |-> IF FastStarts THEN Operand(pcpi_rs1, Rs1Signed(op)) ELSE fast_mul.rs1,
         rs2 |-> IF FastStarts THEN Operand(pcpi_rs2, Rs2Signed(op)) ELSE fast_mul.rs2,
         rd  |-> (fast_mul.rs1 * fast_mul.rs2) % Pow2[2 * W]]

------------------------------------------------------------------------------
(* picorv32_pcpi_div.                                                      *)

\* Unlike the multipliers the divider looks at its own answer.
DivDecode == IF div.ready THEN None ELSE Decode(DivOps)

div_start == div.wait /\ ~div.wait_q
Magnitude(x, signed) == IF signed /\ Negative(x) THEN Negate(x) ELSE x

\* Wrong variant: the quotient of a division by zero gets a sign.
OutSignZero(op) ==
  \/ op = "div" /\ Negative(pcpi_rs1) # Negative(pcpi_rs2)
  \/ op = "rem" /\ Negative(pcpi_rs1)
OutSign(op) ==
  \/ op = "div" /\ Negative(pcpi_rs1) # Negative(pcpi_rs2) /\ pcpi_rs2 # 0
  \/ op = "rem" /\ Negative(pcpi_rs1)

DivIdle == [instr |-> None, wait |-> FALSE, wait_q |-> FALSE, ready |-> FALSE, running |-> FALSE,
            dividend |-> 0, divisor |-> 0, quotient |-> 0, quotient_msk |-> 0,
            outsign |-> FALSE, out |-> 0]

DivPart == [running |-> div.running, dividend |-> div.dividend, divisor |-> div.divisor,
            quotient |-> div.quotient, quotient_msk |-> div.quotient_msk, outsign |-> div.outsign]

DivLoad ==
  LET signed == div.instr \in {"div", "rem"}
  IN  [running |-> TRUE, dividend |-> Magnitude(pcpi_rs1, signed),
       divisor |-> Magnitude(pcpi_rs2, signed) * Pow2[W - 1],
       quotient |-> 0, quotient_msk |-> Pow2[W - 1], outsign |-> OutSign(div.instr)]

\* quotient | quotient_msk is a sum: the bit is still clear.
DivSubtract ==
  LET fits == div.divisor <= div.dividend
  IN  [DivPart EXCEPT !.dividend = IF fits THEN @ - div.divisor ELSE @,
                      !.quotient = IF fits THEN @ + div.quotient_msk ELSE @,
                      !.divisor = Shr(@), !.quotient_msk = Shr(@)]

div_finish == resetn /\ ~div_start /\ div.quotient_msk = 0 /\ div.running

DivNext ==
  CASE ~resetn                              -> [DivPart EXCEPT !.running = FALSE]
    [] resetn /\ div_start                  -> DivLoad
    [] div_finish                           -> [DivPart EXCEPT !.running = FALSE]
    [] resetn /\ ~div_start /\ ~div_finish  -> DivSubtract

\* pcpi_rd is 'bx except in the cycle of the answer.
Div ==
  LET part   == DivNext
      result == IF div.instr \in {"div", "divu"} THEN div.quotient ELSE div.dividend
  IN  div' = [instr |-> DivDecode, wait |-> div.instr # None /\ resetn, wait_q |-> div.wait /\ resetn,
              ready |-> div_finish, out |-> IF div_finish
                                              THEN IF div.outsign THEN Negate(result) ELSE result
                                              ELSE 0,
              running |-> part.running, dividend |-> part.dividend, divisor |-> part.divisor,
              quotient |-> part.quotient, quotient_msk |-> part.quotient_msk,
              outsign |-> part.outsign]

------------------------------------------------------------------------------
(* The reset input.                                                        *)

ResetInput(values) ==
  /\ edges' = IF resetn THEN 0 ELSE IF edges < ResetEdges THEN edges + 1 ELSE edges
  /\ resetn' \in IF resetn \/ edges' >= ResetEdges THEN values ELSE {FALSE}

------------------------------------------------------------------------------
(* The answers, merged, and the core.                                      *)

mul_ready == IF fast THEN fast_mul.active[1] ELSE mul.ready
pcpi_mul_rd ==
  CASE fast /\ fast_mul.shift_out  -> High(fast_mul.rd)
    [] fast /\ ~fast_mul.shift_out -> Low(fast_mul.rd)
    [] ~fast                       -> mul.out

pcpi_int_ready == mul_ready \/ div.ready
pcpi_int_rd == IF mul_ready THEN pcpi_mul_rd ELSE div.out

Coprocessors ==
  /\ IF fast THEN FastMul /\ UNCHANGED mul ELSE Mul /\ UNCHANGED fast_mul
  /\ Div

\* The instruction is decoded, and cpu_state_ld_rs1 entered.
Start(op) ==
  /\ resetn /\ ~ld_rs1
  /\ ld_rs1' = TRUE /\ pcpi_insn' = op
  /\ UNCHANGED <<pcpi_valid, pcpi_rs1, pcpi_rs2>>

\* cpu_state_ld_rs1: pcpi_valid rises with the operands, an edge after the
\* state is entered, and falls with the answer.  Back in cpu_state_fetch, the
\* core spends at least a cycle there.
Offer(rs1, rs2) ==
  /\ resetn /\ ld_rs1 /\ ~pcpi_int_ready
  /\ pcpi_valid' = TRUE /\ pcpi_rs1' = rs1 /\ pcpi_rs2' = rs2
  /\ UNCHANGED <<ld_rs1, pcpi_insn>>

Take ==
  /\ resetn /\ ld_rs1 /\ pcpi_int_ready
  /\ pcpi_valid' = FALSE /\ ld_rs1' = FALSE
  /\ UNCHANGED <<pcpi_insn, pcpi_rs1, pcpi_rs2>>

Elsewhere == resetn /\ ~ld_rs1 /\ UNCHANGED port

InReset ==
  /\ ~resetn
  /\ pcpi_valid' = FALSE /\ ld_rs1' = FALSE
  /\ UNCHANGED <<pcpi_insn, pcpi_rs1, pcpi_rs2>>

PortInit ==
  /\ resetn = FALSE /\ edges = 0 /\ ld_rs1 = FALSE /\ pcpi_valid = FALSE
  /\ pcpi_insn = None /\ pcpi_rs1 = 0 /\ pcpi_rs2 = 0
  /\ mul = MulIdle /\ fast_mul = FastIdle /\ div = DivIdle
  /\ fast \in BOOLEAN

\* Any program, with resets at any time.  An instruction keeps its operands.
PortNext ==
  /\ ResetInput(BOOLEAN) /\ UNCHANGED fast
  /\ Coprocessors
  /\ \/ \E op \in Ops : Start(op)
     \/ \E rs1, rs2 \in Word : (pcpi_valid => rs1 = pcpi_rs1 /\ rs2 = pcpi_rs2) /\ Offer(rs1, rs2)
     \/ Take \/ Elsewhere \/ InReset

portVars == <<resetn, edges, fast, port, coprocessors>>
PortSpec == PortInit /\ [][PortNext]_portVars

------------------------------------------------------------------------------
(* What a program gets (multest.c).                                        *)

\* Division of C.
Abs(x) == IF x < 0 THEN -x ELSE x
Quotient(x, y) == IF (x < 0) = (y < 0) THEN Abs(x) \div Abs(y) ELSE -(Abs(x) \div Abs(y))
Remainder(x, y) == x - y * Quotient(x, y)

Soft(op, a, b) ==
  CASE op = "mul"    -> Low(a * b)
    [] op = "mulh"   -> High(Signed(a) * Signed(b))
    [] op = "mulhsu" -> High(Signed(a) * b)
    [] op = "mulhu"  -> High(a * b)
    [] op = "div"    -> IF b # 0 THEN Low(Quotient(Signed(a), Signed(b))) ELSE Pow2[W] - 1
    [] op = "divu"   -> IF b # 0 THEN a \div b ELSE Pow2[W] - 1
    [] op = "rem"    -> IF b # 0 THEN Low(Remainder(Signed(a), Signed(b))) ELSE a
    [] op = "remu"   -> IF b # 0 THEN a % b ELSE a

------------------------------------------------------------------------------
(* Properties.                                                             *)

\* An answer is for the instruction that waits for it, and is given by one
\* co-processor: none comes late, from an operation that is over or was cut off
\* by reset, and none comes twice.
AnsweredOnce ==
  resetn /\ pcpi_int_ready =>
    /\ ld_rs1 /\ pcpi_valid
    /\ mul_ready <=> pcpi_insn \in MulOps
    /\ div.ready <=> pcpi_insn \in DivOps

\* The answer is right: it is what C computes from the operands that the
\* instruction was given, overflow and division by zero included, whatever was
\* cut off by reset before (multest.c:101, 143).
ResultsRight ==
  resetn /\ pcpi_int_ready => pcpi_int_rd = Soft(pcpi_insn, pcpi_rs1, pcpi_rs2)
==============================================================================
