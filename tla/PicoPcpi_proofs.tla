---------------------------- MODULE PicoPcpi_proofs ----------------------------
(***************************************************************************)
(* The co-processors answer the instruction that waits, once, and answer   *)
(* it right, for every word width, every number of steps in a cycle, every *)
(* length of the carry chain and every program.                            *)
(*                                                                         *)
(* First the handshake: which stages of a co-processor may be set in the   *)
(* cycles of an instruction.  What is computed plays no part in it.  Then  *)
(* the arithmetic: powers of two, division, and what the registers of each *)
(* co-processor stand for while it works.  The recursive functions of the  *)
(* model are unfolded by an induction over sets of numbers.                *)
(***************************************************************************)
EXTENDS PicoPcpi, WellFoundedInduction, TLAPS

MulAsked == pcpi_valid /\ pcpi_insn \in MulOps
DivAsked == pcpi_valid /\ pcpi_insn \in DivOps

\* A reset lasts two edges at least; edges tells how far it has come.
ResetInv ==
  /\ resetn \in BOOLEAN /\ edges \in Nat
  /\ resetn => edges # 1

PortInv ==
  /\ fast \in BOOLEAN /\ ld_rs1 \in BOOLEAN /\ pcpi_valid \in BOOLEAN
  /\ pcpi_insn \in Ops \cup {None}
  /\ pcpi_valid => ld_rs1

MulTypeOK ==
  /\ mul.instr \in MulOps \cup {None}
  /\ mul.wait \in BOOLEAN /\ mul.wait_q \in BOOLEAN /\ mul.waiting \in BOOLEAN
  /\ mul.finish \in BOOLEAN /\ mul.ready \in BOOLEAN
  /\ mul.counter \in Int

\* After an edge in reset; after the first one mul.wait and mul.wait_q are those
\* of before.
MulSettling ==
  /\ ~pcpi_valid /\ ~ld_rs1 /\ mul.instr = None
  /\ mul.waiting /\ ~mul.finish /\ ~mul.ready

\* The iteration, its end and the answer exclude each other, and belong to the
\* instruction whose request has gone through instr, wait and wait_q.
MulWorking ==
  /\ ~mul.waiting => ~mul.finish /\ ~mul.ready
  /\ mul.finish => ~mul.ready
  /\ ~mul.waiting \/ mul.finish \/ mul.ready =>
       MulAsked /\ mul.instr # None /\ mul.wait /\ mul.wait_q

\* The request goes through the three stages in the order it came, and leaves
\* them before the next one comes.
MulRequest ==
  /\ mul.instr # None /\ pcpi_valid => pcpi_insn \in MulOps
  /\ mul.instr # None /\ ~mul.wait => pcpi_valid /\ ~mul.wait_q
  /\ mul.wait /\ ~mul.wait_q => pcpi_valid /\ mul.instr # None
  /\ mul.wait /\ mul.instr = None => ~pcpi_valid
  /\ mul.instr # None /\ ~pcpi_valid => ~ld_rs1

MulInv ==
  /\ MulTypeOK
  /\ edges # 0 => MulSettling
  /\ edges # 1 => MulWorking /\ MulRequest

FastInv ==
  /\ fast_mul.active[0] \in BOOLEAN /\ fast_mul.active[1] \in BOOLEAN
  /\ fast_mul.active[0] \/ fast_mul.active[1] => MulAsked
  /\ ~(fast_mul.active[0] /\ fast_mul.active[1])

DivTypeOK ==
  /\ div.instr \in DivOps \cup {None}
  /\ div.wait \in BOOLEAN /\ div.wait_q \in BOOLEAN
  /\ div.running \in BOOLEAN /\ div.ready \in BOOLEAN

DivInv ==
  /\ DivTypeOK
  /\ div.instr # None => DivAsked
  /\ div.running \/ div.ready => div.instr # None /\ div.wait /\ div.wait_q
  /\ ~(div.running /\ div.ready)
  /\ div.wait /\ div.instr = None => ~pcpi_valid /\ div.wait_q

\* The inductive invariant.
PcpiInv ==
  /\ ResetInv /\ PortInv
  /\ IF fast THEN FastInv ELSE MulInv
  /\ DivInv

------------------------------------------------------------------------------
(* What a clock edge does to the stages.                                   *)

LEMMA Kinds == MulOps \cap DivOps = {} /\ None \notin MulOps /\ None \notin DivOps
BY NoneAssumption DEF Ops, MulOps, DivOps

LEMMA DecodeValue ==
  ASSUME NEW ops
  PROVE  /\ resetn /\ pcpi_valid /\ pcpi_insn \in ops => Decode(ops) = pcpi_insn
         /\ ~(resetn /\ pcpi_valid /\ pcpi_insn \in ops) => Decode(ops) = None
BY DEF Decode

\* The registers of the multiplier that are not about data.
LEMMA MulEdge ==
  ASSUME Mul, MulTypeOK, resetn \in BOOLEAN
  PROVE  /\ mul'.instr = Decode(MulOps)
         /\ mul'.wait = (mul.instr # None) /\ mul'.wait_q = mul.wait
         /\ mul'.ready = (mul.finish /\ resetn)
         /\ ~resetn => mul'.waiting = TRUE /\ mul'.finish = FALSE
         /\ resetn /\ mul.waiting => mul'.waiting = ~mul_start /\ mul'.finish = FALSE
         /\ resetn /\ ~mul.waiting => mul'.waiting = mul'.finish /\ mul'.finish \in BOOLEAN
         /\ mul'.counter \in Int
<1>1. CASE ~resetn
  BY <1>1 DEF Mul, MulReset, MulTypeOK
<1>2. CASE resetn /\ mul.waiting
  <2>1. LoadCounter(mul.instr) % CounterMod \in Int
    BY WidthAssumption DEF LoadCounter, CounterMod
  <2>2. QED
    BY <1>2, <2>1 DEF Mul, MulWaiting, MulTypeOK
<1>3. CASE resetn /\ ~mul.waiting
  <2>1. PICK last \in BOOLEAN : last <=> mul.counter >= 2 * W
    OBVIOUS
  <2>2. MulRunning = [waiting |-> last, finish |-> last, acc |-> CarrySave(mul.acc),
                      counter |-> (mul.counter - STEPS_AT_ONCE) % CounterMod]
    BY <2>1, WidthAssumption DEF MulRunning, MulTypeOK
  <2>3. (mul.counter - STEPS_AT_ONCE) % CounterMod \in Int
    BY WidthAssumption DEF CounterMod, MulTypeOK
  <2>4. QED
    BY <1>3, <2>2, <2>3 DEF Mul, MulTypeOK
<1>4. QED
  BY <1>1, <1>2, <1>3

LEMMA FastEdge ==
  ASSUME FastMul
  PROVE  /\ fast_mul'.active[0] = (resetn /\ FastStarts)
         /\ fast_mul'.active[1] = (resetn /\ fast_mul.active[0])
BY DEF FastMul

LEMMA DivEdge ==
  ASSUME Div, DivTypeOK, resetn \in BOOLEAN
  PROVE  /\ div'.instr = DivDecode
         /\ div'.wait = (div.instr # None /\ resetn) /\ div'.wait_q = (div.wait /\ resetn)
         /\ div'.ready = div_finish
         /\ ~resetn => div'.running = FALSE
         /\ resetn /\ div_start => div'.running = TRUE
         /\ div_finish => div'.running = FALSE
         /\ resetn /\ ~div_start /\ ~div_finish => div'.running = div.running
<1>1. CASE ~resetn
  BY <1>1 DEF Div, DivNext, DivPart, div_finish, DivTypeOK
<1>2. CASE resetn /\ div_start
  BY <1>2 DEF Div, DivNext, DivLoad, div_finish, DivTypeOK
<1>3. CASE div_finish
  BY <1>3 DEF Div, DivNext, DivPart, div_finish, DivTypeOK
<1>4. CASE resetn /\ ~div_start /\ ~div_finish
  BY <1>4 DEF Div, DivNext, DivSubtract, DivPart, DivTypeOK
<1>5. QED
  BY <1>1, <1>2, <1>3, <1>4
------------------------------------------------------------------------------
(* Every step keeps the invariant.                                         *)

\* The core holds its request until it is answered, and drops it then.
LEMMA PortEdge ==
  ASSUME PcpiInv, PortNext
  PROVE  /\ ResetInv' /\ PortInv'
         /\ fast' = fast
         /\ edges' = 1 <=> ~resetn /\ edges = 0
         /\ resetn => edges' = 0
         /\ ~resetn => ~pcpi_valid' /\ ~ld_rs1'
         /\ resetn /\ ~ld_rs1 => ~pcpi_valid'
         /\ resetn /\ ld_rs1 => pcpi_insn' = pcpi_insn
         /\ resetn /\ pcpi_valid /\ ~pcpi_int_ready => pcpi_valid'
         /\ resetn /\ ld_rs1 /\ pcpi_int_ready => ~pcpi_valid' /\ ~ld_rs1'
<1>1. ResetInv' /\ (edges' = 1 <=> ~resetn /\ edges = 0) /\ (resetn => edges' = 0)
  <2>1. ResetInv /\ ResetInput(BOOLEAN)
    BY DEF PcpiInv, PortNext
  <2>2. /\ edges' \in Nat /\ (edges' = 1 <=> ~resetn /\ edges = 0)
        /\ resetn => edges' = 0
    BY <2>1, ResetAssumption DEF ResetInv, ResetInput
  <2>3. CASE resetn \/ edges' >= ResetEdges
    <3>1. resetn' \in BOOLEAN
      BY <2>1, <2>3 DEF ResetInput
    <3>2. edges' # 1
      BY <2>1, <2>2, <2>3, ResetAssumption DEF ResetInv
    <3>3. QED
      BY <2>2, <3>1, <3>2 DEF ResetInv
  <2>4. CASE ~(resetn \/ edges' >= ResetEdges)
    BY <2>1, <2>2, <2>4 DEF ResetInv, ResetInput
  <2>5. QED
    BY <2>2, <2>3, <2>4
<1>2. CASE \E op \in Ops : Start(op)
  BY <1>1, <1>2 DEF PcpiInv, PortInv, PortNext, Start
<1>3. CASE \E rs1, rs2 \in Word : Offer(rs1, rs2)
  BY <1>1, <1>3 DEF PcpiInv, PortInv, PortNext, Offer
<1>4. CASE Take
  BY <1>1, <1>4 DEF PcpiInv, PortInv, PortNext, Take
<1>5. CASE Elsewhere
  BY <1>1, <1>5 DEF PcpiInv, PortInv, PortNext, Elsewhere, port
<1>6. CASE InReset
  BY <1>1, <1>6 DEF PcpiInv, PortInv, PortNext, InReset
<1>7. QED
  BY <1>2, <1>3, <1>4, <1>5, <1>6 DEF PortNext

LEMMA MulStep ==
  ASSUME PcpiInv, PortNext, ~fast
  PROVE  MulInv'
<1>1. /\ MulInv /\ DivInv /\ ResetInv /\ PortInv /\ Mul
      /\ MulTypeOK /\ resetn \in BOOLEAN
  BY DEF PcpiInv, PortNext, Coprocessors, ResetInv, MulInv
<1> DEFINE decoded == resetn /\ pcpi_valid /\ pcpi_insn \in MulOps
<1>2. /\ decoded => mul'.instr = pcpi_insn /\ mul'.instr # None
      /\ ~decoded => mul'.instr = None
      /\ mul'.instr \in MulOps \cup {None}
  BY <1>1, MulEdge, DecodeValue, Kinds
<1>3. MulTypeOK'
  <2>1. /\ mul'.wait \in BOOLEAN /\ mul'.wait_q \in BOOLEAN /\ mul'.ready \in BOOLEAN
        /\ mul'.counter \in Int
    BY <1>1, MulEdge DEF MulTypeOK
  <2>2. mul'.waiting \in BOOLEAN /\ mul'.finish \in BOOLEAN
    <3>1. mul_start \in BOOLEAN
      BY <1>1 DEF MulTypeOK, mul_start
    <3>2. CASE ~resetn
      BY <1>1, <3>2, MulEdge
    <3>3. CASE resetn /\ mul.waiting
      BY <1>1, <3>1, <3>3, MulEdge
    <3>4. CASE resetn /\ ~mul.waiting
      BY <1>1, <3>4, MulEdge
    <3>5. QED
      BY <3>2, <3>3, <3>4
  <2>3. QED
    BY <1>2, <2>1, <2>2 DEF MulTypeOK
<1>4. pcpi_int_ready <=> mul.ready \/ div.ready
  BY DEF pcpi_int_ready, mul_ready
<1>5. decoded => ~div.ready
  BY <1>1, Kinds DEF DivInv, DivAsked
<1>6. CASE ~resetn
  <2>1. MulSettling'
    BY <1>1, <1>2, <1>6, MulEdge, PortEdge DEF MulSettling
  <2>2. edges # 0 => ~mul'.wait
    BY <1>1, MulEdge DEF MulInv, MulSettling
  <2>3. QED
    BY <2>1, <2>2, <1>3, <1>6, PortEdge DEF MulInv, MulSettling, MulWorking, MulRequest
<1>7. CASE resetn
  <2>1. MulWorking /\ MulRequest /\ edges' = 0
    BY <1>1, <1>7, PortEdge DEF MulInv, ResetInv
  <2>2. MulWorking'
    BY <1>1, <1>2, <1>4, <1>5, <1>7, <2>1, MulEdge, PortEdge
       DEF MulWorking, MulRequest, MulTypeOK, MulAsked, mul_start, PortInv
  <2>3. MulRequest'
    BY <1>1, <1>2, <1>4, <1>5, <1>7, <2>1, MulEdge, PortEdge
       DEF MulWorking, MulRequest, MulTypeOK, MulAsked, PortInv
  <2>4. QED
    BY <1>3, <2>1, <2>2, <2>3 DEF MulInv
<1>8. QED
  BY <1>1, <1>6, <1>7

LEMMA FastStep ==
  ASSUME PcpiInv, PortNext, fast
  PROVE  FastInv'
<1>1. FastInv /\ DivInv /\ PortInv /\ FastMul /\ resetn \in BOOLEAN
  BY DEF PcpiInv, PortNext, Coprocessors, ResetInv
<1>2. pcpi_int_ready <=> fast_mul.active[1] \/ div.ready
  BY DEF pcpi_int_ready, mul_ready
<1>3. MulAsked => ~div.ready
  BY <1>1, Kinds DEF DivInv, DivAsked, MulAsked
<1>4. FastStarts => MulAsked /\ ~fast_mul.active[0] /\ ~fast_mul.active[1]
  BY DEF FastStarts, Decode, MulAsked
<1>5. QED
  BY <1>1, <1>2, <1>3, <1>4, FastEdge, PortEdge DEF FastInv, MulAsked, PortInv

LEMMA DivStep ==
  ASSUME PcpiInv, PortNext
  PROVE  DivInv'
<1>1. /\ DivInv /\ PortInv /\ Div /\ DivTypeOK /\ resetn \in BOOLEAN
  BY DEF PcpiInv, PortNext, Coprocessors, ResetInv, DivInv
<1> DEFINE decoded == resetn /\ pcpi_valid /\ pcpi_insn \in DivOps /\ ~div.ready
<1>2. /\ decoded => div'.instr = pcpi_insn /\ div'.instr # None
      /\ ~decoded => div'.instr = None
      /\ div'.instr \in DivOps \cup {None}
  BY <1>1, DivEdge, DecodeValue, Kinds DEF DivDecode
<1>3. div_finish <=> resetn /\ ~div_start /\ div.quotient_msk = 0 /\ div.running
  BY DEF div_finish
<1>4. DivTypeOK'
  <2>1. div'.wait \in BOOLEAN /\ div'.wait_q \in BOOLEAN /\ div'.ready \in BOOLEAN
    BY <1>1, <1>3, DivEdge DEF DivTypeOK
  <2>2. div'.running \in BOOLEAN
    <3>1. CASE ~resetn \/ div_finish
      BY <1>1, <3>1, DivEdge
    <3>2. CASE resetn /\ div_start
      BY <1>1, <3>2, DivEdge
    <3>3. CASE resetn /\ ~div_start /\ ~div_finish
      BY <1>1, <3>3, DivEdge DEF DivTypeOK
    <3>4. QED
      BY <3>1, <3>2, <3>3
  <2>3. QED
    BY <1>2, <2>1, <2>2 DEF DivTypeOK
<1>5. DivAsked => (pcpi_int_ready <=> div.ready)
  <2>1. DivAsked => ~mul_ready
    BY Kinds DEF PcpiInv, mul_ready, FastInv, MulInv, MulSettling, MulWorking, MulAsked, DivAsked
  <2>2. QED
    BY <2>1 DEF pcpi_int_ready
<1>6. CASE ~resetn
  BY <1>2, <1>3, <1>4, <1>6, <1>1, DivEdge DEF DivInv
<1>7. CASE resetn
  BY <1>1, <1>2, <1>3, <1>4, <1>5, <1>7, DivEdge, PortEdge
     DEF DivInv, DivTypeOK, DivAsked, div_start, PortInv
<1>8. QED
  BY <1>1, <1>6, <1>7

LEMMA PcpiInvInit == PortInit => PcpiInv
<1> SUFFICES ASSUME PortInit PROVE PcpiInv
  OBVIOUS
<1>1. ResetInv /\ PortInv
  BY DEF PortInit, ResetInv, PortInv
<1>2. MulInv
  BY DEF PortInit, MulIdle, MulInv, MulTypeOK, MulWorking, MulRequest
<1>3. FastInv
  BY DEF PortInit, FastIdle, FastInv
<1>4. DivInv
  BY DEF PortInit, DivIdle, DivInv, DivTypeOK
<1>5. QED
  BY <1>1, <1>2, <1>3, <1>4 DEF PcpiInv

LEMMA PcpiInvNext == PcpiInv /\ [PortNext]_portVars => PcpiInv'
<1> SUFFICES ASSUME PcpiInv, [PortNext]_portVars PROVE PcpiInv'
  OBVIOUS
<1>1. CASE PortNext
  BY <1>1, PortEdge, MulStep, FastStep, DivStep DEF PcpiInv
<1>2. CASE UNCHANGED portVars
  BY <1>2 DEF portVars, port, coprocessors, PcpiInv, ResetInv, PortInv, MulInv, MulTypeOK, MulSettling,
     MulWorking, MulRequest, MulAsked, FastInv, DivInv, DivTypeOK, DivAsked
<1>3. QED
  BY <1>1, <1>2

LEMMA PcpiInvGives == PcpiInv => AnsweredOnce
<1> SUFFICES ASSUME PcpiInv, resetn, pcpi_int_ready
             PROVE  /\ ld_rs1 /\ pcpi_valid
                    /\ mul_ready <=> pcpi_insn \in MulOps
                    /\ div.ready <=> pcpi_insn \in DivOps
  BY DEF AnsweredOnce
<1>1. mul_ready => MulAsked
  BY DEF PcpiInv, mul_ready, FastInv, MulInv, MulSettling, MulWorking, ResetInv
<1>2. div.ready => DivAsked
  BY DEF PcpiInv, DivInv
<1>3. QED
  BY <1>1, <1>2, Kinds DEF pcpi_int_ready, MulAsked, DivAsked, PcpiInv, PortInv

\* An answer of a co-processor is for the instruction that waits for it, and
\* given by one of them: none is late, from an instruction that is over or was cut
\* off by a reset, and none comes twice (picorv32.v:1603-1625, 2186-2509).
THEOREM AnswersOnce == PortSpec => []AnsweredOnce
<1>1. PortSpec => []PcpiInv
  BY PcpiInvInit, PcpiInvNext, PTL DEF PortSpec
<1>2. QED
  BY <1>1, PcpiInvGives, PTL

------------------------------------------------------------------------------
(* Induction and recursion.                                                *)

\* Induction on numbers, for a set in the place of a predicate: the smallest
\* number outside of it would be the successor of one in it.
LEMMA Induction ==
  ASSUME NEW S, 0 \in S, \A n \in Nat : n \in S => n + 1 \in S
  PROVE  \A n \in Nat : n \in S
<1> DEFINE T == {n \in Nat : n \notin S}
           R == {ss \in Nat \X Nat : ss[1] < ss[2]}
<1> SUFFICES ASSUME T # {} PROVE FALSE
  OBVIOUS
<1>1. PICK m \in T : \A y \in T : ~(<<y, m>> \in R)
  <2>1. IsWellFoundedOn(R, Nat)
    BY NatLessThanWellFounded DEF OpToRel
  <2> HIDE DEF R
  <2>2. T \subseteq Nat
    OBVIOUS
  <2> HIDE DEF T
  <2>3. QED
    BY <2>1, <2>2, WFMin
<1>2. m \in Nat /\ m # 0 /\ m - 1 \in Nat /\ m - 1 < m
  OBVIOUS
<1>3. <<m - 1, m>> \in R
  BY <1>2
<1>4. m - 1 \in S
  BY <1>1, <1>2, <1>3
<1>5. (m - 1) + 1 \in S /\ (m - 1) + 1 = m
  BY <1>2, <1>4
<1>6. QED
  BY <1>5

\* g[n] is computed from g[n - 1], up to N.
Recurses(g, a, F, N) == g[0] = a /\ \A k \in 1 .. N : g[k] = F[<<k, g[k - 1]>>]

\* A recursion over 0 .. N defines a function.
LEMMA RecursionExists ==
  ASSUME NEW D, NEW a \in D, NEW N \in Nat, NEW F \in [Nat \X D -> D]
  PROVE  \E g \in [0 .. N -> D] : Recurses(g, a, F, N)
<1> DEFINE S == {n \in Nat : \E g \in [0 .. n -> D] : Recurses(g, a, F, n)}
<1>1. 0 \in S
  <2> DEFINE g == [k \in 0 .. 0 |-> a]
  <2>1. g \in [0 .. 0 -> D] /\ Recurses(g, a, F, 0)
    BY DEF Recurses
  <2>2. QED
    BY <2>1
<1>2. ASSUME NEW n \in Nat, n \in S PROVE n + 1 \in S
  <2>1. PICK g \in [0 .. n -> D] : Recurses(g, a, F, n)
    BY <1>2
  <2> DEFINE h == [k \in 0 .. n + 1 |-> IF k = n + 1 THEN F[<<k, g[n]>>] ELSE g[k]]
  <2>2. h \in [0 .. n + 1 -> D]
    OBVIOUS
  <2>3. h[0] = a
    BY <2>1 DEF Recurses
  <2>4. ASSUME NEW k \in 1 .. n + 1 PROVE h[k] = F[<<k, h[k - 1]>>]
    <3>1. CASE k = n + 1
      BY <3>1
    <3>2. CASE k # n + 1
      <4>1. k \in 1 .. n /\ k \in 0 .. n + 1 /\ k - 1 \in 0 .. n + 1 /\ k - 1 # n + 1
        BY <3>2
      <4>2. g[k] = F[<<k, g[k - 1]>>]
        BY <2>1, <4>1 DEF Recurses
      <4>3. h[k] = g[k] /\ h[k - 1] = g[k - 1]
        BY <3>2, <4>1
      <4>4. QED
        BY <4>2, <4>3
    <3>3. QED
      BY <3>1, <3>2
  <2>5. Recurses(h, a, F, n + 1)
    BY <2>3, <2>4 DEF Recurses
  <2> HIDE DEF h
  <2>6. QED
    BY <2>2, <2>5
<1>3. N \in S
  <2> HIDE DEF S
  <2>1. QED
    BY <1>1, <1>2, Induction
<1>4. QED
  BY <1>3

------------------------------------------------------------------------------
(* Powers of two.                                                          *)

LEMMA PowerValues ==
  /\ Pow2 \in [0 .. 2 * W -> Nat]
  /\ Pow2[0] = 1
  /\ \A n \in 0 .. 2 * W - 1 : Pow2[n + 1] = 2 * Pow2[n]
<1> DEFINE F == [kv \in Nat \X Nat |-> 2 * kv[2]]
<1>1. F \in [Nat \X Nat -> Nat] /\ 2 * W \in Nat /\ 1 \in Nat
  BY WidthAssumption
<1>2. PICK g \in [0 .. 2 * W -> Nat] : Recurses(g, 1, F, 2 * W)
  <2> HIDE DEF F
  <2>1. QED
    BY <1>1, RecursionExists
<1>3. g = [k \in 0 .. 2 * W |-> IF k = 0 THEN 1 ELSE 2 * g[k - 1]]
  <2>1. ASSUME NEW k \in 1 .. 2 * W PROVE g[k] = 2 * g[k - 1]
    <3>1. k \in Nat /\ g[k - 1] \in Nat
      BY WidthAssumption
    <3>2. QED
      BY <1>2, <3>1 DEF Recurses
  <2>2. ASSUME NEW k \in 0 .. 2 * W PROVE g[k] = IF k = 0 THEN 1 ELSE 2 * g[k - 1]
    BY <1>2, <2>1 DEF Recurses
  <2>3. QED
    BY <2>2
<1>4. Pow2 = [k \in 0 .. 2 * W |-> IF k = 0 THEN 1 ELSE 2 * Pow2[k - 1]]
  BY <1>3 DEF Pow2
<1>5. Pow2[0] = 1
  BY <1>4, WidthAssumption
<1>6. ASSUME NEW n \in 0 .. 2 * W - 1 PROVE Pow2[n + 1] = 2 * Pow2[n]
  <2>1. n + 1 \in 0 .. 2 * W /\ n + 1 # 0 /\ (n + 1) - 1 = n
    BY WidthAssumption
  <2>2. QED
    BY <1>4, <2>1
<1>7. ASSUME NEW n \in 0 .. 2 * W PROVE Pow2[n] \in Nat
  <2> DEFINE S == {k \in Nat : k <= 2 * W => Pow2[k] \in Nat}
  <2>1. 0 \in S
    BY <1>5
  <2>2. ASSUME NEW k \in Nat, k \in S PROVE k + 1 \in S
    BY <1>6, <2>2, WidthAssumption, SMTT(30)
  <2> HIDE DEF S
  <2>3. n \in Nat /\ n <= 2 * W
    BY WidthAssumption
  <2>4. n \in S
    BY <2>1, <2>2, <2>3, Induction
  <2>5. QED
    BY <2>3, <2>4 DEF S
<1>8. QED
  BY <1>4, <1>5, <1>6, <1>7

LEMMA Powers ==
  /\ \A n \in 0 .. 2 * W : Pow2[n] \in Nat /\ Pow2[n] >= 1
  /\ \A m, n \in 0 .. 2 * W : m + n <= 2 * W => Pow2[m + n] = Pow2[m] * Pow2[n]
<1>1. ASSUME NEW n \in 0 .. 2 * W PROVE Pow2[n] \in Nat /\ Pow2[n] >= 1
  <2> DEFINE S == {k \in Nat : k <= 2 * W => Pow2[k] \in Nat /\ Pow2[k] >= 1}
  <2>1. 0 \in S
    BY PowerValues
  <2>2. ASSUME NEW k \in Nat, k \in S PROVE k + 1 \in S
    BY PowerValues, <2>2, WidthAssumption
  <2> HIDE DEF S
  <2>3. n \in Nat /\ n <= 2 * W
    BY WidthAssumption
  <2>4. n \in S
    BY <2>1, <2>2, <2>3, Induction
  <2>5. QED
    BY <2>3, <2>4 DEF S
<1>2. ASSUME NEW m \in 0 .. 2 * W, NEW n \in 0 .. 2 * W, m + n <= 2 * W
      PROVE  Pow2[m + n] = Pow2[m] * Pow2[n]
  <2> DEFINE S == {k \in Nat : m + k <= 2 * W => Pow2[m + k] = Pow2[m] * Pow2[k]}
  <2>1. 0 \in S
    <3>1. m + 0 = m /\ Pow2[m] \in Nat
      BY <1>1, WidthAssumption
    <3>2. QED
      BY <3>1, PowerValues
  <2>2. ASSUME NEW k \in Nat, k \in S PROVE k + 1 \in S
    <3> SUFFICES ASSUME m + (k + 1) <= 2 * W PROVE Pow2[m + (k + 1)] = Pow2[m] * Pow2[k + 1]
      OBVIOUS
    <3>1. m + k \in 0 .. 2 * W - 1 /\ k \in 0 .. 2 * W - 1 /\ m + (k + 1) = (m + k) + 1
      BY WidthAssumption
    <3>2. Pow2[(m + k) + 1] = 2 * Pow2[m + k] /\ Pow2[k + 1] = 2 * Pow2[k]
      BY <3>1, PowerValues
    <3>3. Pow2[m + k] = Pow2[m] * Pow2[k]
      BY <2>2, <3>1, WidthAssumption
    <3>4. Pow2[m] \in Nat /\ Pow2[k] \in Nat
      BY <3>1, PowerValues, WidthAssumption, SMTT(30)
    <3>5. \A x, y \in Nat : 2 * (x * y) = x * (2 * y)
      OBVIOUS
    <3>6. QED
      BY <3>1, <3>2, <3>3, <3>4, <3>5
  <2> HIDE DEF S
  <2>3. n \in Nat /\ n <= 2 * W
    BY WidthAssumption
  <2>4. n \in S
    BY <2>1, <2>2, <2>3, Induction
  <2>5. QED
    BY <1>2, <2>3, <2>4 DEF S
<1>3. QED
  BY <1>1, <1>2

------------------------------------------------------------------------------
(* Division of integers.                                                   *)

LEMMA DivMod ==
  ASSUME NEW x \in Int, NEW d \in Nat, d >= 1
  PROVE  /\ x \div d \in Int /\ x % d \in Nat /\ x % d < d
         /\ x = d * (x \div d) + (x % d)
OBVIOUS

LEMMA DivUnique ==
  ASSUME NEW x \in Int, NEW d \in Nat, d >= 1, NEW q \in Int, NEW r \in Nat, r < d,
         x = d * q + r
  PROVE  x \div d = q /\ x % d = r
<1>1. PICK p \in Int : p = x \div d
  BY DivMod
<1>2. PICK s \in Nat : s = x % d /\ s < d
  BY DivMod
<1>3. x = d * p + s
  BY <1>1, <1>2, DivMod
<1>4. d * (p - q) = r - s
  BY <1>3
<1>5. CASE p - q >= 1
  <2>1. \A k \in Int : k >= 1 => d * k >= d
    OBVIOUS
  <2>2. QED
    BY <1>2, <1>4, <1>5, <2>1
<1>6. CASE p - q <= -1
  <2>1. \A k \in Int : k <= -1 => d * k <= -d
    OBVIOUS
  <2>2. QED
    BY <1>2, <1>4, <1>6, <2>1
<1>7. CASE p = q
  BY <1>1, <1>2, <1>3, <1>7
<1>8. QED
  BY <1>5, <1>6, <1>7

\* Multiples do not change a remainder.
LEMMA ModAdd ==
  ASSUME NEW x \in Int, NEW d \in Nat, d >= 1, NEW q \in Int
  PROVE  (x + d * q) % d = x % d /\ (x + d * q) \div d = x \div d + q
<1>1. PICK p \in Int, r \in Nat : r < d /\ x = d * p + r /\ p = x \div d /\ r = x % d
  BY DivMod
<1>2. x + d * q \in Int /\ p + q \in Int /\ x + d * q = d * (p + q) + r
  BY <1>1
<1>3. (x + d * q) \div d = p + q /\ (x + d * q) % d = r
  BY <1>1, <1>2, DivUnique, ZenonT(30)
<1>4. QED
  BY <1>1, <1>3

\* Equal remainders are those of numbers a multiple apart.
LEMMA ModEqual ==
  ASSUME NEW x \in Int, NEW y \in Int, NEW d \in Nat, d >= 1, NEW q \in Int, x = y + d * q
  PROVE  x % d = y % d
BY ModAdd

\* The remainder of a product is that of the product of remainders.
LEMMA ModProduct ==
  ASSUME NEW x \in Int, NEW y \in Int, NEW d \in Nat, d >= 1
  PROVE  ((x % d) * (y % d)) % d = (x * y) % d
<1>1. PICK p \in Int, r \in Nat : x = d * p + r /\ r = x % d
  BY DivMod
<1>2. PICK q \in Int, s \in Nat : y = d * q + s /\ s = y % d
  BY DivMod
<1>3. (d * p + r) * (d * q + s) = r * s + d * (d * (p * q) + p * s + q * r)
  OBVIOUS
<1>4. PICK m \in Int : m = d * (p * q) + p * s + q * r
  BY DivMod
<1>5. PICK z \in Int : z = r * s /\ x * y = z + d * m
  BY <1>1, <1>2, <1>3, <1>4
<1>6. (z + d * m) % d = z % d
  BY ModAdd
<1>7. QED
  BY <1>1, <1>2, <1>5, <1>6

\* The remainder by a multiple, taken further.
LEMMA ModMod ==
  ASSUME NEW x \in Int, NEW d \in Nat, d >= 1, NEW e \in Nat, e >= 1
  PROVE  (x % (d * e)) % d = x % d
<1>1. PICK m \in Nat : m = d * e /\ m >= 1
  OBVIOUS
<1>2. PICK p \in Int, r \in Nat : x = m * p + r /\ r = x % m
  BY <1>1, DivMod
<1>3. PICK k \in Int : k = e * p
  OBVIOUS
<1>4. x = r + d * k
  <2>1. (d * e) * p = d * (e * p)
    OBVIOUS
  <2>2. QED
    BY <1>1, <1>2, <1>3, <2>1
<1>5. (r + d * k) % d = r % d
  <2>1. r \in Int
    OBVIOUS
  <2>2. QED
    BY ONLY <2>1, d \in Nat, d >= 1, k \in Int, ModAdd
<1>6. QED
  BY ONLY <1>1, <1>2, <1>4, <1>5

\* A remainder and a digit: x % (d * e) is put together from them.
LEMMA ModDigit ==
  ASSUME NEW x \in Int, NEW d \in Nat, d >= 1, NEW e \in Nat, e >= 1
  PROVE  x % (d * e) = (x % d) + ((x \div d) % e) * d
<1>1. PICK p \in Int, r \in Nat : r < d /\ x = d * p + r /\ p = x \div d /\ r = x % d
  BY DivMod
<1>2. PICK q \in Int, s \in Nat : s < e /\ p = e * q + s /\ s = p % e
  BY DivMod
<1>3. x = (d * e) * q + (r + s * d)
  <2>1. d * (e * q + s) + r = (d * e) * q + (r + s * d)
    OBVIOUS
  <2>2. QED
    BY <1>1, <1>2, <2>1
<1>4. r + s * d \in Nat /\ r + s * d < d * e
  <2>1. s * d \in Nat /\ s + 1 <= e
    BY <1>2
  <2>2. \A k \in Nat : k * d >= 0
    OBVIOUS
  <2>3. (e - (s + 1)) * d >= 0
    BY <2>1, <2>2
  <2>4. (e - (s + 1)) * d = d * e - s * d - d
    OBVIOUS
  <2>5. QED
    BY <1>1, <2>1, <2>3, <2>4
<1>5. d * e \in Nat /\ d * e >= 1
  OBVIOUS
<1>6. x % (d * e) = r + s * d
  BY <1>3, <1>4, <1>5, DivUnique
<1>7. QED
  BY <1>1, <1>2, <1>6

\* The digit of a remainder.
LEMMA DigitOfMod ==
  ASSUME NEW x \in Int, NEW d \in Nat, d >= 1, NEW e \in Nat, e >= 1
  PROVE  (x % (d * e)) \div d = (x \div d) % e
<1>1. PICK r \in Nat : r = x % d /\ r < d
  BY DivMod
<1>2. PICK s \in Nat : s = (x \div d) % e
  BY DivMod
<1>3. x % (d * e) = (x % d) + ((x \div d) % e) * d
  BY ModDigit
<1>4. PICK m \in Int : m = x % (d * e) /\ m = d * s + r
  <2>1. r + s * d \in Int /\ r + s * d = d * s + r
    OBVIOUS
  <2>2. QED
    BY <1>1, <1>2, <1>3, <2>1
<1>5. m \div d = s
  BY <1>1, <1>4, DivUnique
<1>6. QED
  BY <1>2, <1>4, <1>5

------------------------------------------------------------------------------
(* The divider divides.                                                    *)

\* Powers at the width of a word.
LEMMA WordPowers ==
  /\ W - 1 \in 0 .. 2 * W /\ W \in 0 .. 2 * W /\ 2 * W \in 0 .. 2 * W
  /\ Pow2[W - 1] \in Nat /\ Pow2[W - 1] >= 1 /\ Pow2[W] \in Nat /\ Pow2[2 * W] \in Nat
  /\ Pow2[W] = 2 * Pow2[W - 1] /\ Pow2[2 * W] = Pow2[W] * Pow2[W]
<1>1. /\ W - 1 \in 0 .. 2 * W - 1 /\ W - 1 \in 0 .. 2 * W /\ W \in 0 .. 2 * W /\ 2 * W \in 0 .. 2 * W
      /\ (W - 1) + 1 = W /\ W + W = 2 * W
  BY WidthAssumption
<1>2. QED
  BY <1>1, PowerValues, Powers

\* Negating a word, and what is left of a number of either sign.
LEMMA WordSigns ==
  ASSUME NEW x \in Nat, x < Pow2[W]
  PROVE  /\ Low(x) = x
         /\ x # 0 => Negate(x) = Pow2[W] - x
         /\ Low(-x) = Negate(x)
<1>1. PICK P \in Nat : P = Pow2[W] /\ P >= 1
  BY WordPowers
<1>2. x % P = x
  <2>1. x = P * 0 + x
    OBVIOUS
  <2>2. QED
    BY <1>1, <2>1, DivUnique
<1>3. ASSUME x # 0 PROVE (P - x) % P = P - x
  <2>1. PICK z \in Nat : z = P - x /\ z < P /\ z = P * 0 + z
    BY <1>1, <1>3
  <2>2. z % P = z
    BY <1>1, <2>1, DivUnique
  <2>3. QED
    BY <2>1, <2>2
<1>4. (-x) % P = (P - x) % P
  <2>1. PICK z \in Int : z = -x /\ z + P * 1 = P - x
    BY <1>1
  <2>2. (z + P * 1) % P = z % P
    BY <1>1, ModAdd
  <2>3. QED
    BY <2>1, <2>2
<1>5. QED
  BY <1>1, <1>2, <1>3, <1>4 DEF Low, Negate

\* The two ways to take a sign off a word.
LEMMA Magnitudes ==
  ASSUME NEW x \in Word
  PROVE  /\ Magnitude(x, FALSE) = x /\ x \in Nat
         /\ Magnitude(x, TRUE) \in Nat /\ Magnitude(x, TRUE) < Pow2[W]
         /\ Signed(x) = IF Negative(x) THEN -Magnitude(x, TRUE) ELSE Magnitude(x, TRUE)
         /\ Abs(Signed(x)) = Magnitude(x, TRUE)
         /\ Signed(x) < 0 <=> Negative(x)
         /\ Negative(x) => Magnitude(x, TRUE) # 0 /\ Negate(Magnitude(x, TRUE)) = x
         /\ Magnitude(x, TRUE) = 0 <=> x = 0
<1>1. PICK P \in Nat, H \in Nat : P = Pow2[W] /\ H = Pow2[W - 1] /\ P = 2 * H /\ H >= 1
  BY WordPowers
<1>2. x \in Nat /\ x < P
  BY <1>1 DEF Word
<1>3. Magnitude(x, FALSE) = x /\ Magnitude(x, TRUE) = IF Negative(x) THEN Negate(x) ELSE x
  BY DEF Magnitude
<1>4. CASE Negative(x)
  <2>1. x >= H
    BY <1>1, <1>4 DEF Negative
  <2>2. PICK m \in Nat : m = P - x /\ m < P /\ m # 0
    BY <1>1, <1>2, <2>1
  <2>3. x # 0 /\ x < Pow2[W] /\ m < Pow2[W] /\ P - m = x
    BY <1>1, <1>2, <2>1, <2>2
  <2>4. Negate(x) = P - x /\ Negate(m) = P - m
    BY <1>1, <1>2, <2>2, <2>3, WordSigns
  <2>5. Magnitude(x, TRUE) = m /\ Negate(m) = x
    BY <1>3, <1>4, <2>2, <2>3, <2>4
  <2>6. Signed(x) = -m
    BY <1>1, <1>2, <1>4, <2>2 DEF Signed
  <2>7. Abs(Signed(x)) = m /\ Signed(x) < 0
    BY <2>2, <2>6 DEF Abs
  <2>8. QED
    BY <1>1, <1>2, <1>3, <1>4, <2>2, <2>3, <2>5, <2>6, <2>7
<1>5. CASE ~Negative(x)
  <2>1. Magnitude(x, TRUE) = x /\ Signed(x) = x
    BY <1>3, <1>5 DEF Signed
  <2>2. Abs(Signed(x)) = x /\ ~(Signed(x) < 0)
    BY <1>2, <2>1 DEF Abs
  <2>3. QED
    BY <1>1, <1>2, <1>3, <1>5, <2>1, <2>2
<1>6. QED
  BY <1>4, <1>5

\* One bit of the quotient: p is its weight.
LEMMA SubtractStep ==
  ASSUME NEW n \in Nat, NEW d \in Nat, NEW q \in Nat, NEW r \in Nat, NEW p \in Nat, p >= 1,
         n = q * d + r, d # 0 => r < d * (2 * p)
  PROVE  /\ d * p <= r => n = (q + p) * d + (r - d * p) /\ r - d * p \in Nat /\ (d # 0 => r - d * p < d * p)
         /\ ~(d * p <= r) => d # 0 /\ r < d * p
<1>1. PICK s \in Nat : s = d * p /\ d * (2 * p) = 2 * s
  OBVIOUS
<1>2. (q + p) * d = q * d + s
  BY <1>1
<1>3. PICK t \in Nat : t = q * d
  OBVIOUS
<1>4. d = 0 => s = 0
  BY <1>1
<1>5. QED
  BY <1>1, <1>2, <1>3, <1>4

\* The remainder has the sign of the dividend.
LEMMA SignRules ==
  ASSUME NEW q \in Nat, NEW d \in Nat, NEW r \in Nat
  PROVE  /\ q * d \in Nat /\ q * d = d * q
         /\ (q * d + r) - d * q = r /\ (q * d + r) - (-d) * (-q) = r
         /\ -(q * d + r) - (-d) * q = -r /\ -(q * d + r) - d * (-q) = -r
<1>1. PICK m \in Nat : m = q * d
  OBVIOUS
<1>2. d * q = m /\ (-d) * q = -m /\ d * (-q) = -m /\ (-d) * (-q) = m
  BY <1>1
<1>3. QED
  BY <1>1, <1>2

\* What the quotient and the remainder of the magnitudes mean for the operands.
LEMMA SignedDivision ==
  ASSUME NEW x \in Word, NEW y \in Word, NEW q \in Nat, NEW r \in Nat,
         Magnitude(x, TRUE) = q * Magnitude(y, TRUE) + r, r < Magnitude(y, TRUE)
  PROVE  /\ Quotient(Signed(x), Signed(y)) = IF Negative(x) = Negative(y) THEN q ELSE -q
         /\ Remainder(Signed(x), Signed(y)) = IF Negative(x) THEN -r ELSE r
<1>1. PICK n \in Nat, d \in Nat : n = Magnitude(x, TRUE) /\ d = Magnitude(y, TRUE)
  BY Magnitudes
<1>2. d >= 1 /\ r < d /\ n = q * d + r
  <2>1. r < d /\ n = q * d + r
    BY <1>1, Zenon
  <2>2. QED
    BY <2>1
<1>3. /\ q * d \in Nat /\ q * d = d * q
      /\ (q * d + r) - d * q = r /\ (q * d + r) - (-d) * (-q) = r
      /\ -(q * d + r) - (-d) * q = -r /\ -(q * d + r) - d * (-q) = -r
  BY SignRules
<1>4. n = d * q + r
  BY <1>2, <1>3
<1>5. n \div d = q
  BY <1>2, <1>4, DivUnique
<1>6. /\ Abs(Signed(x)) = n /\ Abs(Signed(y)) = d
      /\ Signed(x) = (IF Negative(x) THEN -n ELSE n) /\ Signed(y) = (IF Negative(y) THEN -d ELSE d)
      /\ Signed(x) < 0 <=> Negative(x)
      /\ Signed(y) < 0 <=> Negative(y)
  BY <1>1, Magnitudes
<1> DEFINE Q == Quotient(Signed(x), Signed(y))
<1>7. /\ (Signed(x) < 0 <=> Signed(y) < 0) => Q = q
      /\ ~(Signed(x) < 0 <=> Signed(y) < 0) => Q = -q
  <2>1. Q = IF (Signed(x) < 0) = (Signed(y) < 0) THEN Abs(Signed(x)) \div Abs(Signed(y))
                                                ELSE -(Abs(Signed(x)) \div Abs(Signed(y)))
    BY DEF Quotient
  <2>2. Abs(Signed(x)) \div Abs(Signed(y)) = q
    BY <1>5, <1>6
  <2> HIDE DEF Q
  <2>3. CASE Signed(x) < 0 <=> Signed(y) < 0
    <3>1. (Signed(x) < 0) = (Signed(y) < 0)
      BY <2>3
    <3>2. QED
      BY <2>1, <2>2, <2>3, <3>1, Zenon
  <2>4. CASE ~(Signed(x) < 0 <=> Signed(y) < 0)
    <3>1. (Signed(x) < 0) # (Signed(y) < 0)
      BY <2>4
    <3>2. QED
      BY <2>1, <2>2, <2>4, <3>1, Zenon
  <2>5. QED
    BY <2>3, <2>4
<1>8. Remainder(Signed(x), Signed(y)) = Signed(x) - Signed(y) * Q
  BY DEF Remainder
<1> HIDE DEF Q
<1>9. CASE Negative(x) /\ Negative(y)
  <2>1. Q = q /\ Signed(x) = -n /\ Signed(y) = -d
    BY <1>6, <1>7, <1>9
  <2>2. Remainder(Signed(x), Signed(y)) = -(q * d + r) - (-d) * q
    BY <1>2, <1>8, <2>1
  <2>3. Remainder(Signed(x), Signed(y)) = -r
    BY <1>3, <2>2
  <2>4. (Negative(x) = Negative(y)) = TRUE
    BY <1>9 DEF Negative
  <2>5. QED
    BY <1>9, <2>1, <2>3, <2>4 DEF Q
<1>10. CASE Negative(x) /\ ~Negative(y)
  <2>1. Q = -q /\ Signed(x) = -n /\ Signed(y) = d
    BY <1>6, <1>7, <1>10
  <2>2. Remainder(Signed(x), Signed(y)) = -(q * d + r) - d * (-q)
    BY <1>2, <1>8, <2>1
  <2>3. Remainder(Signed(x), Signed(y)) = -r
    BY <1>3, <2>2
  <2>4. (Negative(x) = Negative(y)) = FALSE
    BY <1>10 DEF Negative
  <2>5. QED
    BY <1>10, <2>1, <2>3, <2>4 DEF Q
<1>11. CASE ~Negative(x) /\ Negative(y)
  <2>1. Q = -q /\ Signed(x) = n /\ Signed(y) = -d
    BY <1>6, <1>7, <1>11
  <2>2. Remainder(Signed(x), Signed(y)) = (q * d + r) - (-d) * (-q)
    BY <1>2, <1>8, <2>1
  <2>3. Remainder(Signed(x), Signed(y)) = r
    BY <1>3, <2>2
  <2>4. (Negative(x) = Negative(y)) = FALSE
    BY <1>11 DEF Negative
  <2>5. QED
    BY <1>11, <2>1, <2>3, <2>4 DEF Q
<1>12. CASE ~Negative(x) /\ ~Negative(y)
  <2>1. Q = q /\ Signed(x) = n /\ Signed(y) = d
    BY <1>6, <1>7, <1>12
  <2>2. Remainder(Signed(x), Signed(y)) = (q * d + r) - d * q
    BY <1>2, <1>8, <2>1
  <2>3. Remainder(Signed(x), Signed(y)) = r
    BY <1>3, <2>2
  <2>4. (Negative(x) = Negative(y)) = TRUE
    BY <1>12 DEF Negative
  <2>5. QED
    BY <1>12, <2>1, <2>3, <2>4 DEF Q
<1>13. QED
  BY <1>9, <1>10, <1>11, <1>12

DivSigned(op) == op \in {"div", "rem"}
Dividend(op) == Magnitude(pcpi_rs1, DivSigned(op))
Divisor(op) == Magnitude(pcpi_rs2, DivSigned(op))

Operands == pcpi_rs1 \in Word /\ pcpi_rs2 \in Word

LEMMA DivisorZero ==
  ASSUME Operands, NEW op \in DivOps
  PROVE  /\ Dividend(op) \in Nat /\ Dividend(op) < Pow2[W] /\ Divisor(op) \in Nat
         /\ Divisor(op) = 0 <=> pcpi_rs2 = 0
<1>1. Pow2[W] \in Nat
  BY WordPowers
<1>2. pcpi_rs1 < Pow2[W]
  BY <1>1 DEF Operands, Word
<1>3. CASE DivSigned(op)
  <2>1. Dividend(op) = Magnitude(pcpi_rs1, TRUE) /\ Divisor(op) = Magnitude(pcpi_rs2, TRUE)
    BY <1>3 DEF Dividend, Divisor, Magnitude
  <2>2. QED
    BY <2>1, Magnitudes DEF Operands
<1>4. CASE ~DivSigned(op)
  <2>1. Dividend(op) = pcpi_rs1 /\ Divisor(op) = pcpi_rs2
    BY <1>4 DEF Dividend, Divisor, Magnitude
  <2>2. QED
    BY <1>2, <2>1, Magnitudes DEF Operands
<1>5. QED
  BY <1>3, <1>4

\* Quotient and remainder of the magnitudes, with a sign, are the answer of C.
LEMMA DivisionResult ==
  ASSUME Operands, NEW op \in DivOps, NEW q \in Nat, NEW r \in Nat,
         Dividend(op) = q * Divisor(op) + r,
         IF Divisor(op) = 0 THEN q = Pow2[W] - 1 ELSE r < Divisor(op)
  PROVE  LET result == IF op \in {"div", "divu"} THEN q ELSE r
         IN  Soft(op, pcpi_rs1, pcpi_rs2) = IF OutSign(op) THEN Negate(result) ELSE result
<1> DEFINE x == pcpi_rs1
           y == pcpi_rs2
<1>1. PICK P \in Nat : P = Pow2[W] /\ P >= 1
  BY WordPowers
<1>2. x \in Word /\ y \in Word /\ x \in Nat /\ y \in Nat
  BY <1>1 DEF Operands, Word
<1>3. Divisor(op) = 0 <=> y = 0
  BY DivisorZero
<1>4. PICK n \in Nat, d \in Nat : n = Dividend(op) /\ d = Divisor(op) /\ n < P
  BY <1>1, DivisorZero
<1>5. /\ n = q * d + r
      /\ d = 0 => q = P - 1
      /\ d # 0 => r < d
  BY <1>1, <1>4, Zenon
<1>6. CASE y = 0
  <2>1. d = 0 /\ q = P - 1 /\ r = n
    BY <1>3, <1>4, <1>5, <1>6
  <2>2. CASE op = "div"
    BY <1>1, <1>6, <2>1, <2>2 DEF Soft, OutSign
  <2>3. CASE op = "divu"
    BY <1>1, <1>6, <2>1, <2>3 DEF Soft, OutSign
  <2>4. CASE op = "remu"
    <3>1. n = x
      BY <1>4, <2>4 DEF Dividend, DivSigned, Magnitude
    <3>2. QED
      BY <1>1, <1>6, <2>1, <2>4, <3>1 DEF Soft, OutSign
  <2>5. CASE op = "rem"
    <3>1. n = Magnitude(x, TRUE)
      BY <1>4, <2>5 DEF Dividend, DivSigned, Magnitude
    <3>2. IF Negative(x) THEN Negate(n) = x ELSE n = x
      BY <1>2, <3>1, Magnitudes DEF Magnitude
    <3>3. OutSign(op) <=> Negative(x)
      BY <2>5 DEF OutSign
    <3>4. Soft(op, x, y) = x
      BY <1>6, <2>5 DEF Soft
    <3>5. QED
      BY <2>1, <2>5, <3>2, <3>3, <3>4
  <2>6. QED
    BY <2>2, <2>3, <2>4, <2>5 DEF DivOps
<1>7. CASE y # 0
  <2>1. d # 0 /\ d >= 1 /\ r < d
    BY <1>3, <1>4, <1>5, <1>7
  <2>2. q * d = d * q /\ q * d \in Nat /\ q <= q * d
    <3>1. \A a, b \in Nat : b >= 1 => a * b = b * a /\ a * b \in Nat /\ a <= a * b
      OBVIOUS
    <3>2. QED
      BY <2>1, <3>1
  <2>3. n = d * q + r /\ q <= n /\ r <= n /\ q < P /\ r < P
    BY <1>4, <1>5, <2>2
  <2>4. n \div d = q /\ n % d = r
    BY <2>1, <2>3, DivUnique
  <2>5. /\ Low(q) = q /\ Low(-q) = Negate(q)
        /\ Low(r) = r /\ Low(-r) = Negate(r)
    BY <1>1, <2>3, WordSigns
  <2>6. CASE ~DivSigned(op)
    <3>1. n = x /\ d = y
      BY <1>2, <1>4, <2>6, Magnitudes DEF Dividend, Divisor, Magnitude
    <3>2. ~OutSign(op) /\ op \notin {"div", "rem"}
      BY <2>6 DEF OutSign, DivSigned
    <3>3. CASE op = "divu"
      BY <1>7, <2>4, <3>1, <3>2, <3>3 DEF Soft
    <3>4. CASE op = "remu"
      BY <1>7, <2>4, <3>1, <3>2, <3>4 DEF Soft
    <3>5. QED
      BY <3>2, <3>3, <3>4 DEF DivOps
  <2>7. CASE DivSigned(op)
    <3>1. n = Magnitude(x, TRUE) /\ d = Magnitude(y, TRUE)
      BY <1>4, <2>7 DEF Dividend, Divisor, Magnitude
    <3>2. /\ Magnitude(x, TRUE) = q * Magnitude(y, TRUE) + r
          /\ r < Magnitude(y, TRUE)
      BY <1>5, <2>1, <3>1, Zenon
    <3>3. /\ Quotient(Signed(x), Signed(y)) = IF Negative(x) = Negative(y) THEN q ELSE -q
          /\ Remainder(Signed(x), Signed(y)) = IF Negative(x) THEN -r ELSE r
      BY <1>2, <3>2, SignedDivision
    <3>4. CASE op = "div"
      <4>1. OutSign(op) <=> Negative(x) # Negative(y)
        BY <1>7, <3>4 DEF OutSign
      <4>2. Soft(op, x, y) = Low(Quotient(Signed(x), Signed(y)))
        BY <1>7, <3>4 DEF Soft
      <4>3. CASE Negative(x) = Negative(y)
        BY <2>5, <3>3, <3>4, <4>1, <4>2, <4>3, Zenon
      <4>4. CASE Negative(x) # Negative(y)
        BY <2>5, <3>3, <3>4, <4>1, <4>2, <4>4, Zenon
      <4>5. QED
        BY <4>3, <4>4
    <3>5. CASE op = "rem"
      <4>1. OutSign(op) <=> Negative(x)
        BY <3>5 DEF OutSign
      <4>2. Soft(op, x, y) = Low(Remainder(Signed(x), Signed(y)))
        BY <1>7, <3>5 DEF Soft
      <4>3. op \notin {"div", "divu"}
        BY <3>5
      <4>4. QED
        BY <2>5, <3>3, <4>1, <4>2, <4>3
    <3>6. QED
      BY <2>7, <3>4, <3>5 DEF DivSigned
  <2>8. QED
    BY <2>6, <2>7
<1>8. QED
  BY <1>6, <1>7

\* k bits of the quotient of op are still to come.  The divisor is shifted out
\* with the last one.
Divides(part, op, k) ==
  /\ part.quotient \in Nat /\ part.dividend \in Nat
  /\ part.quotient_msk = IF k = 0 THEN 0 ELSE Pow2[k - 1]
  /\ k # 0 => part.divisor = Divisor(op) * Pow2[k - 1]
  /\ Dividend(op) = part.quotient * Divisor(op) + part.dividend
  /\ IF Divisor(op) = 0 THEN part.quotient = Pow2[W] - Pow2[k]
                        ELSE part.dividend < Divisor(op) * Pow2[k]

DivRight ==
  /\ div.instr # None => div.instr = pcpi_insn
  /\ div.running => div.outsign = OutSign(pcpi_insn) /\ \E k \in 0 .. W : Divides(div, pcpi_insn, k)
  /\ div.ready => div.out = Soft(pcpi_insn, pcpi_rs1, pcpi_rs2)

\* An instruction keeps its operands while it waits.
LEMMA OperandsStay ==
  ASSUME PcpiInv, Operands, PortNext
  PROVE  /\ Operands'
         /\ pcpi_valid => pcpi_insn' = pcpi_insn /\ pcpi_rs1' = pcpi_rs1 /\ pcpi_rs2' = pcpi_rs2
<1>1. CASE \E op \in Ops : Start(op)
  BY <1>1 DEF PcpiInv, PortInv, Operands, Start
<1>2. CASE \E rs1, rs2 \in Word : (pcpi_valid => rs1 = pcpi_rs1 /\ rs2 = pcpi_rs2) /\ Offer(rs1, rs2)
  BY <1>2 DEF Operands, Offer
<1>3. CASE Take
  BY <1>3 DEF Operands, Take
<1>4. CASE Elsewhere
  BY <1>4 DEF Operands, Elsewhere, port
<1>5. CASE InReset
  BY <1>5 DEF Operands, InReset
<1>6. QED
  BY <1>1, <1>2, <1>3, <1>4, <1>5 DEF PortNext

\* What the same instruction asks for stays the same.
LEMMA QuestionStays ==
  ASSUME pcpi_insn' = pcpi_insn, pcpi_rs1' = pcpi_rs1, pcpi_rs2' = pcpi_rs2
  PROVE  /\ Dividend(pcpi_insn)' = Dividend(pcpi_insn) /\ Divisor(pcpi_insn)' = Divisor(pcpi_insn)
         /\ OutSign(pcpi_insn)' = OutSign(pcpi_insn)
         /\ Soft(pcpi_insn, pcpi_rs1, pcpi_rs2)' = Soft(pcpi_insn, pcpi_rs1, pcpi_rs2)
BY DEF Dividend, Divisor, OutSign, Soft

LEMMA DivideLoad ==
  ASSUME Operands, NEW op \in DivOps, div.instr = op
  PROVE  Divides(DivLoad, op, W) /\ DivLoad.outsign = OutSign(op)
<1>1. PICK P \in Nat, n \in Nat, d \in Nat : P = Pow2[W] /\ n = Dividend(op) /\ d = Divisor(op) /\ n < P
  BY DivisorZero, WordPowers
<1>2. DivLoad = [running |-> TRUE, dividend |-> n, divisor |-> d * Pow2[W - 1],
                 quotient |-> 0, quotient_msk |-> Pow2[W - 1], outsign |-> OutSign(op)]
  BY <1>1 DEF DivLoad, Dividend, Divisor, DivSigned
<1>3. \A a \in Nat : a # 0 => P <= a * P
  OBVIOUS
<1>4. d # 0 => n < d * P
  <2>1. PICK e \in Nat : e = d * P
    OBVIOUS
  <2>2. QED
    BY <1>1, <1>3, <2>1
<1>5. n = 0 * d + n /\ P - P = 0
  OBVIOUS
<1>6. W # 0
  BY WidthAssumption
<1>7. QED
  BY <1>1, <1>2, <1>4, <1>5, <1>6 DEF Divides

LEMMA DivideSubtract ==
  ASSUME Operands, NEW op \in DivOps, NEW k \in 1 .. W, Divides(div, op, k)
  PROVE  /\ Divides(DivSubtract, op, k - 1)
         /\ DivSubtract.running = div.running /\ DivSubtract.outsign = div.outsign
<1>1. /\ k \in 0 .. 2 * W - 1 /\ k - 1 \in 0 .. 2 * W - 1 /\ k - 1 \in 0 .. 2 * W /\ k # 0 /\ k \in Nat
      /\ W \in Nat
      /\ (k - 1) + 1 = k
  BY WidthAssumption
<1>2. PICK P \in Nat, p \in Nat, n \in Nat, d \in Nat :
           P = Pow2[W] /\ p = Pow2[k - 1] /\ p >= 1 /\ n = Dividend(op) /\ d = Divisor(op)
  <2>1. k - 1 \in 0 .. 2 * W
    BY <1>1
  <2>2. Pow2[k - 1] \in Nat /\ Pow2[k - 1] >= 1
    BY <2>1, Powers
  <2>3. QED
    BY <2>2, DivisorZero, WordPowers
<1>3. PICK q \in Nat, r \in Nat : q = div.quotient /\ r = div.dividend
  BY DEF Divides
<1>4. /\ div.quotient_msk = p /\ div.divisor = d * p /\ Pow2[k] = 2 * p
  BY <1>1, <1>2, PowerValues DEF Divides
<1>5. /\ n = q * d + r
      /\ d = 0 => q = P - 2 * p
      /\ d # 0 => r < d * (2 * p)
  BY <1>2, <1>3, <1>4, Zenon DEF Divides
<1>6. /\ d * p <= r => n = (q + p) * d + (r - d * p) /\ r - d * p \in Nat /\ (d # 0 => r - d * p < d * p)
      /\ ~(d * p <= r) => d # 0 /\ r < d * p
  <2>1. p >= 1 /\ n = q * d + r /\ (d # 0 => r < d * (2 * p))
    BY <1>2, <1>5
  <2>2. QED
    BY ONLY <2>1, n \in Nat, d \in Nat, q \in Nat, r \in Nat, p \in Nat, SubtractStep
<1> DEFINE rest == IF d * p <= r THEN r - d * p ELSE r
           done == IF d * p <= r THEN q + p ELSE q
<1>7. /\ DivSubtract.dividend = rest /\ DivSubtract.quotient = done
      /\ DivSubtract.divisor = Shr(d * p) /\ DivSubtract.quotient_msk = Shr(p)
      /\ DivSubtract.running = div.running /\ DivSubtract.outsign = div.outsign
  BY <1>3, <1>4 DEF DivSubtract, DivPart
<1>8. /\ rest \in Nat /\ done \in Nat /\ n = done * d + rest
      /\ IF d = 0 THEN done = P - p ELSE rest < d * p
  <2>1. d = 0 => d * p = 0
    OBVIOUS
  <2>2. PICK e \in Nat : e = d * p
    OBVIOUS
  <2>3. QED
    BY <1>5, <1>6, <2>1, <2>2
<1> HIDE DEF rest, done
<1>9. k - 1 = 0 => Shr(p) = 0
  <2>1. k - 1 = 0 => p = 1
    BY <1>2, PowerValues
  <2>2. QED
    BY <2>1 DEF Shr
<1>10. k - 1 # 0 => Shr(p) = Pow2[(k - 1) - 1] /\ Shr(d * p) = d * Pow2[(k - 1) - 1]
  <2> SUFFICES ASSUME k - 1 # 0 PROVE Shr(p) = Pow2[(k - 1) - 1] /\ Shr(d * p) = d * Pow2[(k - 1) - 1]
    OBVIOUS
  <2>1. (k - 1) - 1 \in 0 .. 2 * W - 1 /\ ((k - 1) - 1) + 1 = k - 1 /\ (k - 1) - 1 \in 0 .. 2 * W
    BY <1>1
  <2>2. PICK h \in Nat : h = Pow2[(k - 1) - 1] /\ p = 2 * h
    <3>1. Pow2[((k - 1) - 1) + 1] = 2 * Pow2[(k - 1) - 1] /\ Pow2[(k - 1) - 1] \in Nat
      BY <2>1, PowerValues
    <3>2. QED
      BY <1>2, <2>1, <3>1
  <2>3. d * (2 * h) = 2 * (d * h)
    OBVIOUS
  <2>4. PICK e \in Nat : e = d * h
    OBVIOUS
  <2>5. p \div 2 = h /\ (2 * e) \div 2 = e
    BY <2>2
  <2>6. QED
    BY <2>2, <2>3, <2>4, <2>5 DEF Shr
<1>11. QED
  BY <1>2, <1>7, <1>8, <1>9, <1>10 DEF Divides

LEMMA DivideDone ==
  ASSUME Operands, NEW op \in DivOps, NEW k \in 0 .. W, Divides(div, op, k), div.quotient_msk = 0
  PROVE  LET result == IF op \in {"div", "divu"} THEN div.quotient ELSE div.dividend
         IN  Soft(op, pcpi_rs1, pcpi_rs2) = IF OutSign(op) THEN Negate(result) ELSE result
<1>1. k = 0
  <2>1. k # 0 => Pow2[k - 1] # 0
    <3>1. k # 0 => k - 1 \in 0 .. 2 * W
      BY WidthAssumption
    <3>2. QED
      BY <3>1, Powers
  <2>2. QED
    BY <2>1 DEF Divides
<1>2. Divisor(op) \in Nat /\ Divisor(op) * 1 = Divisor(op)
  BY DivisorZero
<1>3. /\ div.quotient \in Nat /\ div.dividend \in Nat
      /\ Dividend(op) = div.quotient * Divisor(op) + div.dividend
      /\ IF Divisor(op) = 0 THEN div.quotient = Pow2[W] - 1 ELSE div.dividend < Divisor(op)
  BY <1>1, <1>2, PowerValues, Zenon DEF Divides
<1>4. QED
  BY <1>3, DivisionResult

\* What happens to the data of the divider.
LEMMA DivData ==
  ASSUME Div
  PROVE  /\ div'.quotient = DivNext.quotient /\ div'.dividend = DivNext.dividend
         /\ div'.quotient_msk = DivNext.quotient_msk /\ div'.divisor = DivNext.divisor
         /\ div'.outsign = DivNext.outsign
         /\ div_finish => LET result == IF div.instr \in {"div", "divu"} THEN div.quotient ELSE div.dividend
                          IN  div'.out = IF div.outsign THEN Negate(result) ELSE result
BY DEF Div

LEMMA DividesStays ==
  ASSUME Div, NEW k, Divides(DivNext, pcpi_insn, k),
         pcpi_insn' = pcpi_insn, pcpi_rs1' = pcpi_rs1, pcpi_rs2' = pcpi_rs2
  PROVE  Divides(div, pcpi_insn, k)'
BY DivData, QuestionStays DEF Divides

LEMMA DivRightStep ==
  ASSUME PcpiInv, Operands, DivRight, PortNext
  PROVE  DivRight'
<1>1. /\ Div /\ DivInv /\ DivTypeOK /\ PortInv /\ resetn \in BOOLEAN
      /\ div.instr # None => div.instr = pcpi_insn /\ pcpi_insn \in DivOps /\ pcpi_valid
  BY DEF PcpiInv, PortNext, Coprocessors, ResetInv, DivInv, DivTypeOK, DivAsked, DivRight
<1>2. pcpi_valid => pcpi_insn' = pcpi_insn /\ pcpi_rs1' = pcpi_rs1 /\ pcpi_rs2' = pcpi_rs2
  BY OperandsStay
<1>3. (div.instr # None => div.instr = pcpi_insn)'
  BY <1>1, <1>2, DivEdge DEF DivDecode, Decode
<1>4. (div.ready => div.out = Soft(pcpi_insn, pcpi_rs1, pcpi_rs2))'
  <2> SUFFICES ASSUME div_finish PROVE (div.out = Soft(pcpi_insn, pcpi_rs1, pcpi_rs2))'
    BY <1>1, DivEdge
  <2>1. div.running /\ div.quotient_msk = 0
    BY DEF div_finish
  <2>2. pcpi_valid /\ div.instr = pcpi_insn /\ pcpi_insn \in DivOps
    BY <1>1, <2>1 DEF DivInv
  <2>3. PICK k \in 0 .. W : Divides(div, pcpi_insn, k)
    BY <2>1 DEF DivRight
  <2>4. div'.out = Soft(pcpi_insn, pcpi_rs1, pcpi_rs2)
    BY <1>1, <2>1, <2>2, <2>3, DivData, DivideDone DEF DivRight
  <2>5. QED
    BY <1>2, <2>2, <2>4, QuestionStays
<1>5. (div.running => div.outsign = OutSign(pcpi_insn) /\ \E k \in 0 .. W : Divides(div, pcpi_insn, k))'
  <2> SUFFICES ASSUME div'.running
               PROVE  (div.outsign = OutSign(pcpi_insn) /\ \E k \in 0 .. W : Divides(div, pcpi_insn, k))'
    OBVIOUS
  <2>1. resetn /\ ~div_finish
    BY <1>1, DivEdge
  <2>2. CASE div_start
    <3>1. div.wait /\ ~div.wait_q
      BY <2>2 DEF div_start
    <3>2. div.instr # None
      BY <1>1, <3>1 DEF DivInv
    <3>3. DivNext = DivLoad
      BY <2>1, <2>2 DEF DivNext, div_finish
    <3>4. Divides(DivNext, pcpi_insn, W) /\ DivNext.outsign = OutSign(pcpi_insn) /\ W \in 0 .. W
      BY <1>1, <3>2, <3>3, DivideLoad, WidthAssumption
    <3>5. Divides(div, pcpi_insn, W)' /\ (div.outsign = OutSign(pcpi_insn))'
      BY <1>1, <1>2, <3>2, <3>4, DivData, DividesStays, QuestionStays
    <3>6. QED
      BY <3>4, <3>5
  <2>3. CASE ~div_start
    <3>1. div.running /\ div.quotient_msk # 0
      BY <1>1, <2>1, <2>3, DivEdge DEF div_finish
    <3>2. div.instr # None
      BY <1>1, <3>1 DEF DivInv
    <3>3. DivNext = DivSubtract
      BY <2>1, <2>3 DEF DivNext
    <3>4. PICK k \in 0 .. W : Divides(div, pcpi_insn, k)
      BY <3>1 DEF DivRight
    <3>5. k \in 1 .. W /\ k - 1 \in 0 .. W
      BY <3>1, <3>4, WidthAssumption DEF Divides
    <3>6. Divides(DivNext, pcpi_insn, k - 1) /\ DivNext.outsign = OutSign(pcpi_insn)
      BY <1>1, <3>1, <3>2, <3>3, <3>4, <3>5, DivideSubtract DEF DivRight
    <3>7. Divides(div, pcpi_insn, k - 1)' /\ (div.outsign = OutSign(pcpi_insn))'
      BY <1>1, <1>2, <3>2, <3>6, DivData, DividesStays, QuestionStays
    <3>8. QED
      BY <3>5, <3>7
  <2>4. QED
    BY <2>2, <2>3
<1>6. QED
  BY <1>3, <1>4, <1>5 DEF DivRight

------------------------------------------------------------------------------
(* The multipliers: what is asked of them, and the fast one.               *)

Factor1 == Operand(pcpi_rs1, Rs1Signed(pcpi_insn))
Factor2 == Operand(pcpi_rs2, Rs2Signed(pcpi_insn))

LEMMA Factors ==
  ASSUME Operands
  PROVE  Factor1 \in Int /\ Factor2 \in Int
<1>1. Pow2[W] \in Nat /\ pcpi_rs1 \in Nat /\ pcpi_rs2 \in Nat
  BY WordPowers DEF Operands, Word
<1>2. QED
  BY <1>1 DEF Factor1, Factor2, Operand, Signed

LEMMA ProductIsSoft ==
  ASSUME Operands, pcpi_insn \in MulOps
  PROVE  Soft(pcpi_insn, pcpi_rs1, pcpi_rs2) =
           IF AnyMulh(pcpi_insn) THEN High(Factor1 * Factor2) ELSE Low(Factor1 * Factor2)
<1>1. CASE pcpi_insn = "mul"
  BY <1>1 DEF Soft, AnyMulh, Factor1, Factor2, Operand, Rs1Signed, Rs2Signed
<1>2. CASE pcpi_insn = "mulh"
  BY <1>2 DEF Soft, AnyMulh, Factor1, Factor2, Operand, Rs1Signed, Rs2Signed, MulOps
<1>3. CASE pcpi_insn = "mulhsu"
  BY <1>3 DEF Soft, AnyMulh, Factor1, Factor2, Operand, Rs1Signed, Rs2Signed, MulOps
<1>4. CASE pcpi_insn = "mulhu"
  BY <1>4 DEF Soft, AnyMulh, Factor1, Factor2, Operand, Rs1Signed, Rs2Signed, MulOps
<1>5. QED
  BY <1>1, <1>2, <1>3, <1>4 DEF MulOps

\* The halves of a product do not depend on the bits above the two words.
LEMMA Halves ==
  ASSUME NEW z \in Int
  PROVE  High(z % Pow2[2 * W]) = High(z) /\ Low(z % Pow2[2 * W]) = Low(z)
<1>1. PICK P \in Nat : P = Pow2[W] /\ P >= 1
  BY WordPowers
<1>2. Pow2[2 * W] = P * P
  BY <1>1, WordPowers
<1>3. (z % (P * P)) % P = z % P
  BY <1>1, ModMod
<1>4. ((z % (P * P)) \div P) % P = ((z \div P) % P) % P
  BY <1>1, DigitOfMod
<1>5. ((z \div P) % P) % P = (z \div P) % P
  <2>1. PICK y \in Int : y = z \div P
    BY <1>1
  <2>2. PICK r \in Nat : r = y % P /\ r < P
    BY <1>1
  <2>3. r = P * 0 + r
    OBVIOUS
  <2>4. r % P = r
    BY <1>1, <2>2, <2>3, DivUnique
  <2>5. QED
    BY <2>1, <2>2, <2>4
<1>6. QED
  BY <1>1, <1>2, <1>3, <1>4, <1>5 DEF High, Low

FastRight ==
  /\ fast_mul.active[0] => fast_mul.rs1 = Factor1 /\ fast_mul.rs2 = Factor2
  /\ fast_mul.active[1] =>
       /\ fast_mul.rd = (Factor1 * Factor2) % Pow2[2 * W]
       /\ fast_mul.shift_out = AnyMulh(pcpi_insn)

LEMMA FastRightStep ==
  ASSUME PcpiInv, Operands, FastRight, PortNext, fast
  PROVE  FastRight'
<1>1. FastInv /\ FastMul /\ resetn \in BOOLEAN
  BY DEF PcpiInv, PortNext, Coprocessors, ResetInv
<1>2. pcpi_valid => Factor1' = Factor1 /\ Factor2' = Factor2 /\ pcpi_insn' = pcpi_insn
  BY OperandsStay DEF Factor1, Factor2
<1>3. fast_mul'.active[0] => fast_mul'.rs1 = Factor1 /\ fast_mul'.rs2 = Factor2 /\ pcpi_valid
  <2> SUFFICES ASSUME fast_mul'.active[0] PROVE fast_mul'.rs1 = Factor1 /\ fast_mul'.rs2 = Factor2 /\ pcpi_valid
    OBVIOUS
  <2>1. FastStarts
    BY <1>1, FastEdge
  <2>2. pcpi_valid /\ Decode(MulOps) = pcpi_insn
    BY <2>1 DEF FastStarts, Decode
  <2>3. QED
    BY <1>1, <2>1, <2>2 DEF FastMul, Factor1, Factor2
<1>4. fast_mul'.active[1] => /\ fast_mul'.rd = (Factor1 * Factor2) % Pow2[2 * W]
                             /\ fast_mul'.shift_out = AnyMulh(pcpi_insn)
                             /\ pcpi_valid
  <2> SUFFICES ASSUME fast_mul'.active[1]
               PROVE  /\ fast_mul'.rd = (Factor1 * Factor2) % Pow2[2 * W]
                      /\ fast_mul'.shift_out = AnyMulh(pcpi_insn)
                      /\ pcpi_valid
    OBVIOUS
  <2>1. resetn /\ fast_mul.active[0]
    BY <1>1, FastEdge
  <2>2. pcpi_valid /\ Decode(MulOps) = pcpi_insn
    BY <1>1, <2>1 DEF FastInv, MulAsked, Decode
  <2>3. QED
    BY <1>1, <2>1, <2>2 DEF FastMul, FastRight
<1>5. QED
  BY <1>2, <1>3, <1>4 DEF FastRight

------------------------------------------------------------------------------
(* The groups of the carry-save multiplier.                                *)

Carry == Pow2[CARRY_CHAIN]
Whole == Pow2[2 * W]

LEMMA GroupFacts ==
  /\ GroupCount \in Nat /\ GroupCount >= 1 /\ GroupCount * CARRY_CHAIN = 2 * W
  /\ CARRY_CHAIN \in 0 .. 2 * W
  /\ Carry \in Nat /\ Carry >= 1 /\ Whole \in Nat /\ Whole >= 1
  /\ \A k \in 0 .. GroupCount : k * CARRY_CHAIN \in 0 .. 2 * W /\ Weight(k) \in Nat /\ Weight(k) >= 1
  /\ \A k \in Groups : k \in Nat /\ k + 1 \in 0 .. GroupCount /\ Weight(k + 1) = Carry * Weight(k)
  /\ Weight(0) = 1 /\ Weight(GroupCount) = Whole
<1>1. PICK c \in Nat, w \in Nat : c = CARRY_CHAIN /\ c >= 1 /\ w = 2 * W /\ w >= 1 /\ w % c = 0
  BY WidthAssumption
<1>2. PICK g \in Int : g = GroupCount /\ w = c * g
  <2>1. c >= 1 /\ w % c = 0
    BY <1>1
  <2>2. PICK g \in Int : g = w \div c /\ w = c * g
    BY <2>1
  <2>3. GroupCount = w \div c
    BY <1>1 DEF GroupCount
  <2>4. QED
    BY <2>2, <2>3
<1>3. g >= 1 /\ g \in Nat
  <2>1. g <= 0 => c * g <= 0
    OBVIOUS
  <2>2. QED
    BY <1>1, <1>2, <2>1
<1>4. g * c = w /\ c <= w
  <2>1. c * g = c + c * (g - 1) /\ g * c = c * g
    OBVIOUS
  <2>2. \A a \in Nat, b \in Nat : a * b >= 0
    OBVIOUS
  <2>3. c * (g - 1) >= 0
    BY <1>3, <2>2
  <2>4. QED
    BY <1>2, <2>1, <2>3
<1>5. ASSUME NEW k \in 0 .. g PROVE k \in Nat /\ k * c \in 0 .. w
  <2>1. k \in Nat /\ g - k \in Nat
    BY <1>3
  <2>2. \A a \in Nat, b \in Nat : a * b \in Nat
    OBVIOUS
  <2>3. k * c \in Nat /\ (g - k) * c \in Nat
    BY <2>1, <2>2
  <2>4. (g - k) * c = g * c - k * c
    OBVIOUS
  <2>5. QED
    BY <1>4, <2>1, <2>3, <2>4
<1>6. \A n \in 0 .. w : Pow2[n] \in Nat /\ Pow2[n] >= 1
  BY <1>1, Powers
<1>7. Carry \in Nat /\ Carry >= 1 /\ Whole \in Nat /\ Whole >= 1
  BY <1>1, <1>4, <1>6 DEF Carry, Whole
<1>8. ASSUME NEW k \in 0 .. g PROVE Weight(k) \in Nat /\ Weight(k) >= 1
  BY <1>1, <1>5, <1>6 DEF Weight
<1>9. ASSUME NEW k \in 0 .. g - 1 PROVE k \in Nat /\ k + 1 \in 0 .. g /\ Weight(k + 1) = Carry * Weight(k)
  <2>1. k \in 0 .. g /\ k + 1 \in 0 .. g
    BY <1>3
  <2>2. k * c \in 0 .. w /\ (k + 1) * c \in 0 .. w /\ c \in 0 .. w
    BY <1>1, <1>4, <1>5, <2>1
  <2>3. (k + 1) * c = c + k * c
    BY <2>1
  <2>4. Pow2[c + k * c] = Pow2[c] * Pow2[k * c]
    BY <1>1, <2>2, <2>3, Powers
  <2>5. QED
    BY <1>1, <1>5, <2>1, <2>3, <2>4 DEF Weight, Carry
<1>10. Weight(0) = 1
  <2>1. 0 * c = 0
    OBVIOUS
  <2>2. QED
    BY <1>1, <2>1, PowerValues DEF Weight
<1>11. Weight(g) = Whole
  BY <1>1, <1>4 DEF Weight, Whole
<1>12. Groups = 0 .. g - 1
  BY <1>2 DEF Groups
<1>13. /\ g \in Nat /\ g >= 1 /\ g * CARRY_CHAIN = 2 * W /\ CARRY_CHAIN \in 0 .. 2 * W
       /\ \A k \in 0 .. g : k * CARRY_CHAIN \in 0 .. 2 * W /\ Weight(k) \in Nat /\ Weight(k) >= 1
       /\ \A k \in 0 .. g - 1 : k \in Nat /\ k + 1 \in 0 .. g /\ Weight(k + 1) = Carry * Weight(k)
  BY <1>1, <1>3, <1>4, <1>5, <1>8, <1>9
<1>14. QED
  BY <1>2, <1>7, <1>10, <1>11, <1>12, <1>13, Zenon

\* s[k] is the sum of the groups below k.
Adds(s, groups) ==
  /\ s \in [0 .. GroupCount -> Nat] /\ s[0] = 0
  /\ \A k \in Groups : s[k + 1] = s[k] + groups[k] * Weight(k)

LEMMA JoinedAdds ==
  ASSUME NEW groups \in [Groups -> Nat]
  PROVE  \E s : Adds(s, groups) /\ Joined(groups) = s[GroupCount]
<1> DEFINE N == GroupCount
           F == [kv \in Nat \X Nat |->
                   kv[2] + (IF kv[1] - 1 \in Groups THEN groups[kv[1] - 1] * Weight(kv[1] - 1) ELSE 0)]
           Body(b) == [k \in 0 .. N |-> IF k = 0 THEN 0 ELSE b[k - 1] + groups[k - 1] * Weight(k - 1)]
<1>1. N \in Nat /\ N >= 1
  BY GroupFacts
<1>2. \A k \in Groups : k \in Nat /\ k \in 0 .. N /\ k + 1 \in 1 .. N /\ Weight(k) \in Nat /\ groups[k] * Weight(k) \in Nat
  <2>1. ASSUME NEW k \in Groups PROVE k \in Nat /\ k \in 0 .. N /\ k + 1 \in 1 .. N
    BY <1>1 DEF Groups
  <2>2. \A k \in Groups : Weight(k) \in Nat /\ groups[k] \in Nat
    BY <2>1, GroupFacts
  <2>3. \A a, b \in Nat : a * b \in Nat
    OBVIOUS
  <2>4. QED
    BY <2>1, <2>2, <2>3
<1>3. F \in [Nat \X Nat -> Nat]
  <2>1. ASSUME NEW kv \in Nat \X Nat
        PROVE  kv[2] + (IF kv[1] - 1 \in Groups THEN groups[kv[1] - 1] * Weight(kv[1] - 1) ELSE 0) \in Nat
    BY <1>2
  <2>2. QED
    BY <2>1
<1>4. PICK s \in [0 .. N -> Nat] : Recurses(s, 0, F, N)
  <2> HIDE DEF F
  <2>1. QED
    BY <1>1, <1>3, RecursionExists
<1>5. s[0] = 0 /\ \A k \in Groups : s[k + 1] = s[k] + groups[k] * Weight(k)
  <2>1. ASSUME NEW k \in Groups PROVE s[k + 1] = s[k] + groups[k] * Weight(k)
    <3>1. k \in Nat /\ k \in 0 .. N /\ k + 1 \in 1 .. N
      BY <1>2
    <3> HIDE DEF N
    <3>2. k + 1 \in Nat /\ (k + 1) - 1 = k /\ s[k] \in Nat
      BY <3>1
    <3>3. s[k + 1] = F[<<k + 1, s[k]>>]
      BY <1>4, <3>1, <3>2, ZenonT(30) DEF Recurses
    <3>4. QED
      BY <3>2, <3>3
  <2>2. QED
    BY <1>4, <2>1 DEF Recurses
<1>6. s = Body(s)
  <2>1. ASSUME NEW k \in 0 .. N PROVE s[k] = IF k = 0 THEN 0 ELSE s[k - 1] + groups[k - 1] * Weight(k - 1)
    <3>1. CASE k = 0
      BY <1>5, <3>1
    <3>2. CASE k # 0
      <4>1. k - 1 \in Groups /\ (k - 1) + 1 = k
        BY <1>1, <3>2 DEF Groups
      <4>2. s[(k - 1) + 1] = s[k - 1] + groups[k - 1] * Weight(k - 1)
        BY <1>5, <4>1
      <4>3. QED
        BY <3>2, <4>1, <4>2
    <3>3. QED
      BY <3>1, <3>2
  <2>2. QED
    BY <2>1
<1>7. PICK below : below = Body(below) /\ Joined(groups) = below[N]
  <2>1. (CHOOSE b : b = Body(b)) = Body(CHOOSE b : b = Body(b))
    <3> HIDE DEF Body
    <3>1. QED
      BY <1>6
  <2>2. Joined(groups) = (CHOOSE b : b = Body(b))[N]
    BY DEF Joined
  <2>3. QED
    BY <2>1, <2>2
<1>8. \A k \in 0 .. N : below[k] = s[k]
  <2> DEFINE S == {k \in Nat : k <= N => below[k] = s[k]}
  <2>1. 0 \in S
    BY <1>1, <1>5, <1>7
  <2>2. ASSUME NEW k \in Nat, k \in S PROVE k + 1 \in S
    <3> SUFFICES ASSUME k + 1 <= N PROVE below[k + 1] = s[k + 1]
      OBVIOUS
    <3>1. k + 1 \in 0 .. N /\ k + 1 # 0 /\ (k + 1) - 1 = k /\ k \in Groups
      BY <1>1 DEF Groups
    <3>2. below[k] = s[k]
      BY <2>2, <1>1
    <3>3. below[k + 1] = below[k] + groups[k] * Weight(k)
      BY <1>7, <3>1
    <3>4. QED
      BY <1>5, <3>1, <3>2, <3>3
  <2> HIDE DEF S
  <2>3. \A k \in Nat : k \in S
    BY <2>1, <2>2, Induction
  <2>4. QED
    BY <1>1, <2>3 DEF S
<1>9. Adds(s, groups)
  BY <1>4, <1>5 DEF Adds
<1>10. Joined(groups) = s[N]
  BY <1>1, <1>7, <1>8
<1>11. QED
  BY <1>9, <1>10

\* Induction over the groups.
LEMMA GroupInduction ==
  ASSUME NEW S, 0 \in S, \A k \in Groups : k \in S => k + 1 \in S
  PROVE  \A k \in 0 .. GroupCount : k \in S
<1> DEFINE N == GroupCount
           T == {k \in Nat : k <= N => k \in S}
<1>1. N \in Nat
  BY GroupFacts
<1>2. 0 \in T
  OBVIOUS
<1>3. ASSUME NEW k \in Nat, k \in T PROVE k + 1 \in T
  BY <1>1, <1>3 DEF Groups
<1> HIDE DEF T
<1>4. \A k \in Nat : k \in T
  BY <1>2, <1>3, Induction
<1>5. QED
  BY <1>1, <1>4 DEF T

LEMMA SmallMod ==
  ASSUME NEW x \in Nat, NEW d \in Nat, x < d
  PROVE  x % d = x /\ x \div d = 0
<1>1. x = d * 0 + x /\ d >= 1
  OBVIOUS
<1>2. QED
  BY <1>1, DivUnique

LEMMA JoinNoBits == NoBits \in [Groups -> 0 .. 0] /\ Joined(NoBits) = 0
<1>1. NoBits \in [Groups -> 0 .. 0] /\ NoBits \in [Groups -> Nat]
  BY DEF NoBits
<1>2. PICK s : Adds(s, NoBits) /\ Joined(NoBits) = s[GroupCount]
  BY <1>1, JoinedAdds
<1> DEFINE S == {k \in 0 .. GroupCount : s[k] = 0}
<1>3. 0 \in S
  BY <1>2, GroupFacts DEF Adds
<1>4. ASSUME NEW k \in Groups, k \in S PROVE k + 1 \in S
  <2>1. k + 1 \in 0 .. GroupCount /\ k \in 0 .. GroupCount /\ Weight(k) \in Nat
    BY GroupFacts, <1>4
  <2>2. s[k + 1] = s[k] + NoBits[k] * Weight(k) /\ NoBits[k] = 0 /\ s[k] = 0
    BY <1>2, <1>4 DEF Adds, NoBits
  <2>3. 0 * Weight(k) = 0
    BY <2>1
  <2>4. QED
    BY <2>1, <2>2, <2>3
<1> HIDE DEF S
<1>5. GroupCount \in S
  BY <1>3, <1>4, GroupFacts, GroupInduction
<1>6. QED
  BY <1>1, <1>2, <1>5 DEF S

\* A number is the sum of its groups.
LEMMA JoinGroups ==
  ASSUME NEW x \in Nat, x < Whole
  PROVE  /\ [k \in Groups |-> Group(x, k)] \in [Groups -> 0 .. Carry - 1]
         /\ Joined([k \in Groups |-> Group(x, k)]) = x
<1> DEFINE bits == [k \in Groups |-> Group(x, k)]
<1>1. \A k \in Groups : Group(x, k) \in 0 .. Carry - 1 /\ Group(x, k) \in Nat
  <2> TAKE k \in Groups
  <2>1. Weight(k) \in Nat /\ Weight(k) >= 1 /\ Carry \in Nat /\ Carry >= 1
    BY GroupFacts DEF Groups
  <2>2. PICK y \in Int : y = x \div Weight(k)
    BY <2>1
  <2>3. y % Carry \in Nat /\ y % Carry < Carry
    BY <2>1, DivMod
  <2>4. QED
    BY <2>1, <2>2, <2>3 DEF Group, Carry
<1>2. bits \in [Groups -> 0 .. Carry - 1] /\ bits \in [Groups -> Nat]
  BY <1>1
<1>3. PICK s : Adds(s, bits) /\ Joined(bits) = s[GroupCount]
  <2> HIDE DEF bits
  <2>1. QED
    BY <1>2, JoinedAdds
<1> DEFINE S == {k \in 0 .. GroupCount : s[k] = x % Weight(k)}
<1>4. 0 \in S
  <2>1. x % 1 = 0
    OBVIOUS
  <2>2. s[0] = 0 /\ Weight(0) = 1 /\ 0 \in 0 .. GroupCount
    BY <1>3, GroupFacts DEF Adds
  <2>3. QED
    BY <2>1, <2>2
<1>5. ASSUME NEW k \in Groups, k \in S PROVE k + 1 \in S
  <2>1. /\ k + 1 \in 0 .. GroupCount /\ k \in 0 .. GroupCount
        /\ Weight(k) \in Nat /\ Weight(k) >= 1 /\ Weight(k + 1) = Carry * Weight(k)
        /\ Carry \in Nat /\ Carry >= 1
    BY GroupFacts, <1>5
  <2>2. s[k + 1] = s[k] + Group(x, k) * Weight(k)
    BY <1>3 DEF Adds
  <2>3. s[k] = x % Weight(k)
    BY <1>5
  <2>4. x % (Weight(k) * Carry) = (x % Weight(k)) + ((x \div Weight(k)) % Carry) * Weight(k)
    <3>1. PICK m \in Nat, c \in Nat : m = Weight(k) /\ c = Carry
      BY <2>1
    <3>2. m >= 1 /\ c >= 1 /\ x \in Int
      BY <2>1, <3>1
    <3>3. x % (m * c) = (x % m) + ((x \div m) % c) * m
      BY ONLY <3>2, m \in Nat, c \in Nat, ModDigit
    <3>4. QED
      BY <3>1, <3>3
  <2>5. Weight(k) * Carry = Carry * Weight(k)
    BY <2>1
  <2>6. QED
    BY <2>1, <2>2, <2>3, <2>4, <2>5 DEF Group, Carry
<1>6. GroupCount \in S
  <2> HIDE DEF S
  <2>1. QED
    BY <1>4, <1>5, GroupFacts, GroupInduction
<1>7. x % Whole = x
  BY GroupFacts, SmallMod
<1>8. QED
  BY <1>2, <1>3, <1>6, <1>7, GroupFacts

------------------------------------------------------------------------------
(* One step of the accumulator.                                            *)

Accumulators ==
  [rd: [Groups -> 0 .. Carry - 1], rdx: [Groups -> 0 .. 1], rs1: Nat, rs2: 0 .. Whole - 1]

\* What the step adds.
Addend(acc) == IF acc.rs1 % 2 = 1 THEN acc.rs2 ELSE 0

\* One group of a sum.
LEMMA SumOfGroup ==
  ASSUME NEW acc \in Accumulators, NEW k \in Groups
  PROVE  /\ Sums(acc)[k] = acc.rd[k] + acc.rdx[k] + Group(Addend(acc), k)
         /\ Sums(acc)[k] \in Nat /\ Sums(acc)[k] % Carry \in 0 .. Carry - 1
         /\ Sums(acc)[k] \div Carry \in 0 .. 1
         /\ Sums(acc)[k] = Carry * (Sums(acc)[k] \div Carry) + (Sums(acc)[k] % Carry)
<1>1. PICK c \in Nat, w \in Nat : c = Carry /\ c >= 1 /\ w = Weight(k) /\ w >= 1
  BY GroupFacts DEF Groups
<1>2. acc.rd[k] \in 0 .. Carry - 1 /\ acc.rdx[k] \in 0 .. 1 /\ acc.rs2 \in Nat /\ acc.rs2 < Whole /\ Whole \in Nat
  BY GroupFacts DEF Accumulators
<1>3. Addend(acc) \in Nat /\ Addend(acc) < Whole
  BY <1>2, GroupFacts DEF Addend
<1>4. Group(Addend(acc), k) \in 0 .. Carry - 1
  <2>1. [j \in Groups |-> Group(Addend(acc), j)] \in [Groups -> 0 .. Carry - 1]
    BY <1>3, JoinGroups
  <2>2. QED
    BY <2>1
<1>5. Group(0, k) = 0
  <2>1. 0 \div w = 0 /\ 0 % c = 0
    BY <1>1, SmallMod
  <2>2. QED
    BY <1>1, <2>1 DEF Group, Carry
<1>6. PICK a \in Nat, b \in Nat, t \in Nat :
         a = acc.rd[k] /\ b = acc.rdx[k] /\ t = Group(Addend(acc), k) /\ a < c /\ b <= 1 /\ t < c
  BY <1>1, <1>2, <1>4
<1>7. Sums(acc)[k] = a + b + t
  <2>1. Sums(acc)[k] = acc.rd[k] + acc.rdx[k] + (IF acc.rs1 % 2 = 1 THEN Group(acc.rs2, k) ELSE 0)
    BY DEF Sums
  <2>2. (IF acc.rs1 % 2 = 1 THEN Group(acc.rs2, k) ELSE 0) = Group(Addend(acc), k)
    BY <1>5 DEF Addend
  <2>3. QED
    BY <1>6, <2>1, <2>2
<1>8. PICK z \in Nat : z = Sums(acc)[k]
  BY <1>7
<1>9. z < 2 * c /\ c >= 1
  BY <1>1, <1>6, <1>7, <1>8
<1>10. PICK q \in Int : q = z \div c
  BY <1>9
<1>11. PICK r \in Nat : r = z % c
  BY <1>9
<1>12. r < c /\ z = c * q + r
  BY <1>9, <1>10, <1>11
<1>13. q \in 0 .. 1
  <2>1. q <= -1 => c * q <= -c
    OBVIOUS
  <2>2. q >= 2 => c * q >= 2 * c
    OBVIOUS
  <2>3. PICK m \in Int : m = c * q
    OBVIOUS
  <2>4. z = m + r
    BY <1>12, <2>3
  <2>5. m >= -c + 1 /\ m < 2 * c
    BY <1>9, <1>12, <2>4
  <2>6. QED
    BY <2>1, <2>2, <2>3, <2>5
<1>14. Sums(acc)[k] = acc.rd[k] + acc.rdx[k] + Group(Addend(acc), k)
  BY <1>6, <1>7
<1>15. /\ Sums(acc)[k] = z /\ Sums(acc)[k] \div Carry = q /\ Sums(acc)[k] % Carry = r
       /\ r \in 0 .. c - 1 /\ c = Carry
  BY <1>1, <1>8, <1>10, <1>11, <1>12
<1>16. QED
  BY <1>12, <1>13, <1>14, <1>15

\* The carry that leaves the groups below k.
CarryOut(acc, k) == IF k = 0 THEN 0 ELSE Sums(acc)[k - 1] \div Carry

LEMMA GroupSumArithmetic ==
  ASSUME NEW w \in Nat, NEW c \in Nat, NEW q \in Nat, NEW r \in Nat, NEW o \in Nat,
         NEW x \in Nat, NEW y \in Nat, NEW z \in Nat,
         NEW a \in Nat, NEW b \in Nat, NEW t \in Nat, NEW a2 \in Nat, NEW b2 \in Nat,
         x + y + z = c * q + r, a2 + b2 + o * w = a + b + t
  PROVE  (a2 + r * w) + (b2 + o * w) + q * (c * w) = (a + x * w) + (b + y * w) + (t + z * w)
<1>1. (x + y + z) * w = x * w + y * w + z * w
  OBVIOUS
<1>2. (c * q + r) * w = q * (c * w) + r * w
  OBVIOUS
<1>3. PICK xw \in Int, yw \in Int, zw \in Int, qw \in Int, rw \in Int, ow \in Int :
         xw = x * w /\ yw = y * w /\ zw = z * w /\ qw = q * (c * w) /\ rw = r * w /\ ow = o * w
  OBVIOUS
<1>4. xw + yw + zw = qw + rw
  BY <1>1, <1>2, <1>3
<1>5. a2 + b2 + ow = a + b + t
  BY <1>3
<1>6. (a2 + rw) + (b2 + ow) + qw = (a + xw) + (b + yw) + (t + zw)
  BY <1>4, <1>5
<1>7. QED
  BY <1>3, <1>6

\* The step adds its addend, but for the carry that leaves the highest group.
LEMMA StepAdds ==
  ASSUME NEW acc \in Accumulators
  PROVE  LET next == CarrySaveStep(acc)
         IN  /\ next \in Accumulators
             /\ \E e \in Nat : Joined(next.rd) + Joined(next.rdx) + Whole * e
                                 = Joined(acc.rd) + Joined(acc.rdx) + Addend(acc)
<1> DEFINE next == CarrySaveStep(acc)
           bits == [k \in Groups |-> Group(Addend(acc), k)]
<1>1. /\ next.rd = [k \in Groups |-> Sums(acc)[k] % Carry]
      /\ next.rdx = [k \in Groups |-> CarryOut(acc, k)]
      /\ next = [rd |-> next.rd, rdx |-> next.rdx, rs1 |-> Shr(acc.rs1), rs2 |-> (2 * acc.rs2) % Whole]
  BY DEF CarrySaveStep, CarryOut, Carry, Whole
<1> HIDE DEF next
<1>2. acc.rd \in [Groups -> 0 .. Carry - 1] /\ acc.rdx \in [Groups -> 0 .. 1] /\ acc.rs1 \in Nat
      /\ acc.rs2 \in Nat /\ acc.rs2 < Whole
  BY GroupFacts DEF Accumulators
<1>3. next.rd \in [Groups -> 0 .. Carry - 1]
  BY <1>1, SumOfGroup
<1>4. next.rdx \in [Groups -> 0 .. 1]
  <2>1. ASSUME NEW k \in Groups PROVE CarryOut(acc, k) \in 0 .. 1
    <3>1. k # 0 => k - 1 \in Groups
      BY GroupFacts DEF Groups
    <3>2. QED
      BY <3>1, SumOfGroup DEF CarryOut
  <2>2. QED
    BY <1>1, <2>1
<1>5. next \in Accumulators
  <2>1. Shr(acc.rs1) \in Nat
    BY <1>2 DEF Shr
  <2>2. (2 * acc.rs2) % Whole \in 0 .. Whole - 1
    <3>1. PICK y \in Int : y = 2 * acc.rs2
      BY <1>2
    <3>2. y % Whole \in Nat /\ y % Whole < Whole /\ Whole \in Nat
      BY GroupFacts, DivMod
    <3>3. QED
      BY <3>1, <3>2
  <2>3. QED
    BY <1>1, <1>3, <1>4, <2>1, <2>2 DEF Accumulators
<1>6. Addend(acc) \in Nat /\ Addend(acc) < Whole
  BY <1>2, GroupFacts DEF Addend
<1>7. bits \in [Groups -> 0 .. Carry - 1] /\ Joined(bits) = Addend(acc)
  BY <1>6, JoinGroups
<1>8. /\ acc.rd \in [Groups -> Nat] /\ acc.rdx \in [Groups -> Nat] /\ bits \in [Groups -> Nat]
      /\ next.rd \in [Groups -> Nat] /\ next.rdx \in [Groups -> Nat]
  BY <1>2, <1>3, <1>4, <1>7, GroupFacts
<1>9. PICK a : Adds(a, acc.rd) /\ Joined(acc.rd) = a[GroupCount]
  BY <1>8, JoinedAdds
<1>10. PICK b : Adds(b, acc.rdx) /\ Joined(acc.rdx) = b[GroupCount]
  BY <1>8, JoinedAdds
<1>11. PICK t : Adds(t, bits) /\ Joined(bits) = t[GroupCount]
  <2> HIDE DEF bits
  <2>1. QED
    BY <1>8, JoinedAdds
<1>12. PICK a2 : Adds(a2, next.rd) /\ Joined(next.rd) = a2[GroupCount]
  BY <1>8, JoinedAdds
<1>13. PICK b2 : Adds(b2, next.rdx) /\ Joined(next.rdx) = b2[GroupCount]
  BY <1>8, JoinedAdds
<1> DEFINE S == {k \in 0 .. GroupCount :
                   a2[k] + b2[k] + CarryOut(acc, k) * Weight(k) = a[k] + b[k] + t[k]}
<1>14. 0 \in S
  <2>1. a[0] = 0 /\ b[0] = 0 /\ t[0] = 0 /\ a2[0] = 0 /\ b2[0] = 0 /\ CarryOut(acc, 0) = 0
    BY <1>9, <1>10, <1>11, <1>12, <1>13 DEF Adds, CarryOut
  <2>2. 0 \in 0 .. GroupCount /\ Weight(0) = 1
    BY GroupFacts
  <2>3. QED
    BY <2>1, <2>2
<1>15. ASSUME NEW k \in Groups, k \in S PROVE k + 1 \in S
  <2>1. /\ k \in Nat /\ k \in 0 .. GroupCount /\ k + 1 \in 0 .. GroupCount
        /\ Weight(k) \in Nat /\ Weight(k + 1) = Carry * Weight(k) /\ Carry \in Nat
    BY GroupFacts DEF Groups
  <2>2. /\ a[k + 1] = a[k] + acc.rd[k] * Weight(k) /\ b[k + 1] = b[k] + acc.rdx[k] * Weight(k)
        /\ t[k + 1] = t[k] + bits[k] * Weight(k)
        /\ a2[k + 1] = a2[k] + next.rd[k] * Weight(k) /\ b2[k + 1] = b2[k] + next.rdx[k] * Weight(k)
    <3> HIDE DEF bits
    <3>1. QED
      BY <1>9, <1>10, <1>11, <1>12, <1>13 DEF Adds
  <2>3. a[k] \in Nat /\ b[k] \in Nat /\ t[k] \in Nat /\ a2[k] \in Nat /\ b2[k] \in Nat
    BY <1>9, <1>10, <1>11, <1>12, <1>13, <2>1 DEF Adds
  <2>4. /\ acc.rd[k] \in Nat /\ acc.rdx[k] \in Nat /\ bits[k] \in Nat /\ CarryOut(acc, k) \in Nat
        /\ next.rd[k] = Sums(acc)[k] % Carry /\ next.rdx[k] = CarryOut(acc, k)
        /\ CarryOut(acc, k + 1) = Sums(acc)[k] \div Carry
        /\ Sums(acc)[k] \div Carry \in Nat /\ Sums(acc)[k] % Carry \in Nat
    <3>1. /\ acc.rd[k] \in Nat /\ acc.rdx[k] \in Nat /\ bits[k] \in Nat /\ next.rdx[k] \in Nat
          /\ next.rd[k] \in Nat
      <4> HIDE DEF bits
      <4>1. QED
        BY <1>8
    <3>2. next.rd[k] = Sums(acc)[k] % Carry /\ next.rdx[k] = CarryOut(acc, k)
      BY <1>1
    <3>3. k + 1 # 0 /\ (k + 1) - 1 = k
      BY <2>1
    <3>4. CarryOut(acc, k + 1) = Sums(acc)[k] \div Carry
      BY <3>3 DEF CarryOut
    <3>5. Sums(acc)[k] \div Carry \in Nat
      BY SumOfGroup
    <3>6. QED
      BY <3>1, <3>2, <3>4, <3>5
  <2>5. acc.rd[k] + acc.rdx[k] + bits[k] = Carry * (Sums(acc)[k] \div Carry) + (Sums(acc)[k] % Carry)
    BY SumOfGroup
  <2>6. a2[k] + b2[k] + CarryOut(acc, k) * Weight(k) = a[k] + b[k] + t[k]
    BY <1>15
  <2> HIDE DEF bits
  <2>7. PICK w \in Nat, c \in Nat, q \in Nat, r \in Nat, o \in Nat :
           w = Weight(k) /\ c = Carry /\ q = Sums(acc)[k] \div Carry /\ r = Sums(acc)[k] % Carry
             /\ o = CarryOut(acc, k)
    BY <2>1, <2>4
  <2>8. PICK x \in Nat, y \in Nat, z \in Nat : x = acc.rd[k] /\ y = acc.rdx[k] /\ z = bits[k]
    BY <2>4
  <2>9. PICK ak \in Nat, bk \in Nat, tk \in Nat, a2k \in Nat, b2k \in Nat :
           ak = a[k] /\ bk = b[k] /\ tk = t[k] /\ a2k = a2[k] /\ b2k = b2[k]
    BY <2>3
  <2>10. x + y + z = c * q + r
    BY <2>5, <2>7, <2>8, Zenon
  <2>11. a2k + b2k + o * w = ak + bk + tk
    BY <2>6, <2>7, <2>9, Zenon
  <2>12. (a2k + r * w) + (b2k + o * w) + q * (c * w) = (ak + x * w) + (bk + y * w) + (tk + z * w)
    BY <2>10, <2>11, GroupSumArithmetic
  <2>13. /\ a2[k + 1] = a2k + r * w /\ b2[k + 1] = b2k + o * w
         /\ CarryOut(acc, k + 1) = q /\ Weight(k + 1) = c * w
         /\ a[k + 1] = ak + x * w /\ b[k + 1] = bk + y * w /\ t[k + 1] = tk + z * w
    BY <2>1, <2>2, <2>4, <2>7, <2>8, <2>9, Zenon
  <2>14. QED
    BY <2>1, <2>12, <2>13, Zenon
<1>16. GroupCount \in S
  <2> HIDE DEF S
  <2>1. QED
    BY <1>14, <1>15, GroupFacts, GroupInduction
<1>17. CarryOut(acc, GroupCount) \in Nat
  <2>1. GroupCount # 0 /\ GroupCount - 1 \in Groups
    BY GroupFacts DEF Groups
  <2>2. QED
    BY <2>1, SumOfGroup DEF CarryOut
<1>18. CarryOut(acc, GroupCount) * Whole = Whole * CarryOut(acc, GroupCount)
  BY <1>17, GroupFacts
<1>19. Joined(next.rd) + Joined(next.rdx) + Whole * CarryOut(acc, GroupCount)
         = Joined(acc.rd) + Joined(acc.rdx) + Addend(acc)
  <2> HIDE DEF bits
  <2>1. QED
    BY <1>7, <1>9, <1>10, <1>11, <1>12, <1>13, <1>16, <1>18, GroupFacts
<1>20. QED
  BY <1>5, <1>17, <1>19 DEF next

------------------------------------------------------------------------------
(* The iteration.                                                          *)

Value(acc) == Joined(acc.rd) + Joined(acc.rdx) + acc.rs1 * acc.rs2

\* After n steps the low n bits of rs2 are clear and so are the carries into the
\* groups that begin there; the registers together stand for the product z.
Accumulates(acc, z, n) ==
  /\ acc \in Accumulators
  /\ \E e \in Int : Value(acc) = z + Whole * e
  /\ \E m \in Nat : acc.rs2 = Pow2[n] * m
  /\ \A k \in Groups : k = 0 \/ k * CARRY_CHAIN < n => acc.rdx[k] = 0

LEMMA JoinedNat ==
  ASSUME NEW groups \in [Groups -> Nat]
  PROVE  Joined(groups) \in Nat
BY JoinedAdds, GroupFacts DEF Adds

LEMMA AccumulatorTypes ==
  ASSUME NEW acc \in Accumulators
  PROVE  /\ acc.rd \in [Groups -> Nat] /\ acc.rdx \in [Groups -> Nat]
         /\ Joined(acc.rd) \in Nat /\ Joined(acc.rdx) \in Nat
         /\ acc.rs1 \in Nat /\ acc.rs2 \in Nat /\ acc.rs2 < Whole
<1>1. /\ acc.rd \in [Groups -> Nat] /\ acc.rdx \in [Groups -> Nat]
      /\ acc.rs1 \in Nat /\ acc.rs2 \in Nat /\ acc.rs2 < Whole
  BY GroupFacts DEF Accumulators
<1>2. QED
  BY <1>1, JoinedNat

\* A step moves a bit of rs1 into the sum.
LEMMA StepValue ==
  ASSUME NEW acc \in Accumulators
  PROVE  \E e \in Int : Value(CarrySaveStep(acc)) = Value(acc) + Whole * e
<1>1. PICK h \in Nat, x \in Nat : h = Shr(acc.rs1) /\ x = acc.rs1 % 2 /\ acc.rs1 = 2 * h + x /\ x <= 1
  <2>1. acc.rs1 \in Nat
    BY AccumulatorTypes
  <2>2. /\ acc.rs1 \div 2 \in Nat /\ acc.rs1 % 2 \in Nat /\ acc.rs1 % 2 <= 1
        /\ acc.rs1 = 2 * (acc.rs1 \div 2) + (acc.rs1 % 2)
    BY <2>1
  <2>3. QED
    BY <2>2, Zenon DEF Shr
<1>2. PICK p \in Nat, y \in Nat, w \in Nat : p = acc.rs1 /\ y = acc.rs2 /\ w = Whole
  BY AccumulatorTypes, GroupFacts
<1>3. p = 2 * h + x /\ x <= 1
  BY <1>1, <1>2, Zenon
<1>4. PICK t \in Int : t = Addend(acc)
  BY AccumulatorTypes DEF Addend
<1>5. t = x * y
  <2>1. CASE x = 1
    BY <1>1, <1>2, <1>4, <2>1 DEF Addend
  <2>2. CASE x = 0
    BY <1>1, <1>2, <1>4, <2>2 DEF Addend
  <2>3. QED
    BY <1>3, <2>1, <2>2
<1>6. PICK e \in Nat : Joined(CarrySaveStep(acc).rd) + Joined(CarrySaveStep(acc).rdx) + Whole * e
                        = Joined(acc.rd) + Joined(acc.rdx) + Addend(acc)
  BY StepAdds
<1>7. CarrySaveStep(acc) \in Accumulators
  BY StepAdds
<1>8. PICK j \in Nat, j2 \in Nat : j = Joined(acc.rd) + Joined(acc.rdx)
                      /\ j2 = Joined(CarrySaveStep(acc).rd) + Joined(CarrySaveStep(acc).rdx)
  BY <1>7, AccumulatorTypes
<1>9. j2 + w * e = j + t
  BY <1>2, <1>4, <1>6, <1>8
<1>10. PICK q \in Int, r \in Nat : q = (2 * y) \div w /\ r = (2 * y) % w /\ 2 * y = w * q + r
  <2>1. w >= 1
    BY <1>2, GroupFacts
  <2>2. \A v \in Int : v \div w \in Int /\ v % w \in Nat /\ v = w * (v \div w) + (v % w)
    BY <2>1, DivMod
  <2>3. 2 * y \in Int
    OBVIOUS
  <2>4. QED
    BY <2>2, <2>3, Zenon
<1>11. 2 * y = w * q + r
  BY <1>10
<1>12. Value(CarrySaveStep(acc)) = j2 + h * r
  BY <1>1, <1>2, <1>8, <1>10 DEF Value, CarrySaveStep, Whole
<1>13. Value(acc) = j + p * y
  BY <1>2, <1>8 DEF Value
<1>14. j2 + h * r = (j + p * y) + w * (-e - h * q)
  <2>1. h * (2 * y) = h * (w * q + r)
    BY <1>11
  <2>2. h * (2 * y) = 2 * (h * y) /\ h * (w * q + r) = w * (h * q) + h * r
        /\ (2 * h + x) * y = 2 * (h * y) + x * y
        /\ w * (-e - h * q) = -(w * e) - w * (h * q)
    OBVIOUS
  <2>3. PICK hy \in Int, hr \in Int, xy \in Int, we \in Int, whq \in Int, py \in Int :
           hy = h * y /\ hr = h * r /\ xy = x * y /\ we = w * e /\ whq = w * (h * q) /\ py = p * y
    OBVIOUS
  <2>4. 2 * hy = whq + hr /\ py = 2 * hy + xy /\ j2 + we = j + xy
    BY <1>3, <1>5, <1>9, <2>1, <2>2, <2>3
  <2>5. w * (-e - h * q) = -we - whq
    BY <2>2, <2>3
  <2>6. j2 + hr = (j + py) + (-we - whq)
    BY <2>4
  <2>7. QED
    BY <2>3, <2>5, <2>6
<1>15. -e - h * q \in Int
  OBVIOUS
<1>16. QED
  BY <1>2, <1>12, <1>13, <1>14, <1>15

Capped(n) == IF n <= 2 * W THEN n ELSE 2 * W

LEMMA ModScale ==
  ASSUME NEW p \in Nat, p >= 1, NEW q \in Nat, q >= 1, NEW m \in Nat
  PROVE  \E j \in Nat : (p * m) % (p * q) = p * j
<1>1. PICK a \in Int, j \in Nat : j < q /\ m = q * a + j
  <2>1. m \div q \in Int /\ m % q \in Nat /\ m % q < q /\ m = q * (m \div q) + (m % q)
    BY DivMod
  <2>2. QED
    BY <2>1, Zenon
<1>2. PICK b \in Nat : b = p * q
  OBVIOUS
<1>3. PICK r \in Nat : r = p * j
  OBVIOUS
<1>4. r < b /\ b >= 1
  <2>1. \A x, y \in Nat : x >= 1 /\ y >= 1 => x * y >= 1
    OBVIOUS
  <2>2. q - j \in Nat /\ q - j >= 1
    BY <1>1
  <2>3. p * (q - j) >= 1 /\ p * q >= 1
    BY <2>1, <2>2
  <2>4. p * (q - j) = p * q - p * j
    OBVIOUS
  <2>5. QED
    BY <1>2, <1>3, <2>3, <2>4
<1>5. p * m = b * a + r
  <2>1. p * (q * a + j) = (p * q) * a + p * j
    OBVIOUS
  <2>2. QED
    BY <1>1, <1>2, <1>3, <2>1
<1>6. PICK x \in Int : x = p * m
  OBVIOUS
<1>7. x = b * a + r
  BY <1>5, <1>6
<1>8. x % b = r
  BY <1>4, <1>7, DivUnique
<1>9. QED
  BY <1>2, <1>3, <1>6, <1>8

\* The multiplicand moves up.
LEMMA StepClears ==
  ASSUME NEW acc \in Accumulators, NEW n \in 0 .. 2 * W, NEW m \in Nat, acc.rs2 = Pow2[n] * m
  PROVE  \E j \in Nat : CarrySaveStep(acc).rs2 = Pow2[Capped(n + 1)] * j
<1>1. PICK y \in Nat, w \in Nat : y = acc.rs2 /\ w = Whole
  BY AccumulatorTypes, GroupFacts
<1>2. y < w /\ w >= 1
  BY <1>1, AccumulatorTypes, GroupFacts
<1>3. CarrySaveStep(acc).rs2 = (2 * y) % w
  BY <1>1 DEF CarrySaveStep, Whole
<1>4. PICK u \in Nat : u = 2 * W
  BY WidthAssumption
<1>5. PICK p \in Nat : p = Pow2[n] /\ p >= 1
  BY Powers
<1>6. y = p * m
  BY <1>1, <1>5
<1>7. CASE n < 2 * W
  <2>1. /\ n \in 0 .. 2 * W - 1 /\ n + 1 \in 0 .. 2 * W /\ 2 * W - (n + 1) \in 0 .. 2 * W
        /\ (n + 1) + (2 * W - (n + 1)) = 2 * W /\ n + 1 <= 2 * W
    BY <1>7, WidthAssumption
  <2>2. PICK p1 \in Nat, q \in Nat : p1 = Pow2[n + 1] /\ q = Pow2[2 * W - (n + 1)] /\ p1 >= 1 /\ q >= 1
    BY <2>1, Powers
  <2>3. w = p1 * q
    <3>1. Pow2[(n + 1) + (2 * W - (n + 1))] = Pow2[n + 1] * Pow2[2 * W - (n + 1)]
      BY <2>1, Powers, WidthAssumption
    <3>2. QED
      BY <1>1, <2>1, <2>2, <3>1 DEF Whole
  <2>4. p1 = 2 * p
    BY <1>5, <2>1, <2>2, PowerValues
  <2>5. 2 * y = p1 * m
    <3>1. 2 * (p * m) = (2 * p) * m
      OBVIOUS
    <3>2. QED
      BY <1>6, <2>4, <3>1
  <2>6. p1 >= 1 /\ q >= 1
    BY <2>2
  <2>7. PICK j \in Nat : (p1 * m) % (p1 * q) = p1 * j
    BY <2>6, ModScale, ZenonT(30)
  <2>8. QED
    BY <1>3, <2>1, <2>2, <2>3, <2>5, <2>7 DEF Capped
<1>8. CASE n = 2 * W
  <2>1. p = w
    BY <1>1, <1>5, <1>8 DEF Whole
  <2>2. m = 0
    <3>1. m >= 1 => w * m >= w
      OBVIOUS
    <3>2. PICK x \in Nat : x = w * m
      OBVIOUS
    <3>3. y = x
      BY <1>6, <2>1, <3>2
    <3>4. QED
      BY <1>2, <3>1, <3>2, <3>3
  <2>3. y = 0
    <3>1. p * 0 = 0
      OBVIOUS
    <3>2. QED
      BY <1>6, <2>2, <3>1
  <2>4. (2 * y) % w = 0
    <3>1. 2 * y = 0 /\ 0 < w /\ 0 \in Nat
      BY <1>2, <2>3
    <3>2. 0 % w = 0
      BY <3>1, SmallMod
    <3>3. QED
      BY <3>1, <3>2
  <2>5. Capped(n + 1) = 2 * W /\ Pow2[2 * W] = w
    BY <1>1, <1>4, <1>8 DEF Capped, Whole
  <2>6. w * 0 = 0
    OBVIOUS
  <2>7. QED
    BY <1>3, <2>4, <2>5, <2>6
<1>9. QED
  BY <1>4, <1>7, <1>8

\* Multiples of a power have no bits in the groups below it.
LEMMA ClearGroup ==
  ASSUME NEW n \in 0 .. 2 * W, NEW m \in Nat, NEW k \in Groups, (k + 1) * CARRY_CHAIN <= n
  PROVE  Group(Pow2[n] * m, k) = 0
<1>1. PICK u \in Nat : u = (k + 1) * CARRY_CHAIN /\ u \in 0 .. 2 * W
  BY GroupFacts
<1>2. n - u \in 0 .. 2 * W /\ u + (n - u) = n /\ n <= 2 * W
  BY <1>1, WidthAssumption
<1>3. PICK w \in Nat, c \in Nat, v \in Nat : w = Weight(k) /\ c = Carry /\ v = Pow2[n - u]
  <2>1. Pow2[n - u] \in Nat
    BY <1>2, Powers
  <2>2. Weight(k) \in Nat /\ Carry \in Nat
    BY GroupFacts DEF Groups
  <2>3. QED
    BY <2>1, <2>2
<1>4. w >= 1 /\ c >= 1
  BY <1>3, GroupFacts DEF Groups
<1>5. Pow2[u] = c * w
  BY <1>1, <1>3, GroupFacts DEF Weight
<1>6. Pow2[n] = (c * w) * v
  <2>1. Pow2[u + (n - u)] = Pow2[u] * Pow2[n - u]
    BY <1>1, <1>2, Powers
  <2>2. QED
    BY <1>2, <1>3, <1>5, <2>1
<1>7. PICK h \in Nat : h = v * m
  OBVIOUS
<1>8. PICK ch \in Nat : ch = c * h
  OBVIOUS
<1>9. PICK x \in Nat : x = Pow2[n] * m /\ x = w * ch + 0
  <2>1. ((c * w) * v) * m = w * (c * (v * m))
    OBVIOUS
  <2>2. w * ch \in Nat
    OBVIOUS
  <2>3. QED
    BY <1>6, <1>7, <1>8, <2>1, <2>2
<1>10. x \div w = ch
  <2>1. x = w * ch + 0 /\ 0 < w /\ ch \in Int
    BY <1>4, <1>9
  <2>2. QED
    BY ONLY <1>4, <2>1, x \in Int, w \in Nat, 0 \in Nat, DivUnique
<1>11. ch % c = 0
  <2>1. ch = c * h + 0 /\ 0 < c /\ h \in Int
    BY <1>4, <1>8
  <2>2. QED
    BY ONLY <1>4, <2>1, ch \in Int, c \in Nat, 0 \in Nat, DivUnique
<1>12. QED
  BY <1>3, <1>9, <1>10, <1>11 DEF Group, Carry

LEMMA StepAccumulates ==
  ASSUME NEW acc, NEW z \in Int, NEW n \in 0 .. 2 * W, Accumulates(acc, z, n)
  PROVE  Accumulates(CarrySaveStep(acc), z, Capped(n + 1))
<1> DEFINE next == CarrySaveStep(acc)
<1>1. acc \in Accumulators
  BY DEF Accumulates
<1>2. next \in Accumulators
  BY <1>1, StepAdds
<1>3. \E e \in Int : Value(next) = z + Whole * e
  <2>1. PICK w \in Nat, v \in Int, v2 \in Int : w = Whole /\ v = Value(acc) /\ v2 = Value(next)
    <3>1. /\ Joined(acc.rd) \in Nat /\ Joined(acc.rdx) \in Nat /\ acc.rs1 \in Nat /\ acc.rs2 \in Nat
          /\ Joined(next.rd) \in Nat /\ Joined(next.rdx) \in Nat /\ next.rs1 \in Nat /\ next.rs2 \in Nat
      BY <1>1, <1>2, AccumulatorTypes
    <3>2. \A a, b, c, d \in Nat : a + b + c * d \in Int
      OBVIOUS
    <3>3. Value(acc) \in Int /\ Value(next) \in Int
      BY <3>1, <3>2 DEF Value
    <3>4. QED
      BY <3>3, GroupFacts
  <2>2. PICK e \in Int : v = z + w * e
    BY <2>1 DEF Accumulates
  <2>3. PICK f \in Int : v2 = v + w * f
    BY <1>1, <2>1, StepValue
  <2>4. w * (e + f) = w * e + w * f /\ e + f \in Int
    OBVIOUS
  <2>5. v2 = z + w * (e + f)
    BY <2>2, <2>3, <2>4
  <2>6. QED
    BY <2>1, <2>4, <2>5
<1>4. PICK m \in Nat : acc.rs2 = Pow2[n] * m
  BY DEF Accumulates
<1>5. \E j \in Nat : next.rs2 = Pow2[Capped(n + 1)] * j
  BY <1>1, <1>4, StepClears
<1>6. ASSUME NEW k \in Groups, k = 0 \/ k * CARRY_CHAIN < Capped(n + 1) PROVE next.rdx[k] = 0
  <2>1. next.rdx[k] = CarryOut(acc, k)
    BY DEF CarrySaveStep, CarryOut, Carry
  <2>2. CASE k = 0
    BY <2>1, <2>2 DEF CarryOut
  <2>3. CASE k # 0
    <3>1. k - 1 \in Groups /\ k \in Nat /\ (k - 1) + 1 = k /\ k - 1 \in Nat /\ k \in 0 .. GroupCount
      BY <2>3, GroupFacts DEF Groups
    <3>2. k * CARRY_CHAIN \in Nat /\ k * CARRY_CHAIN <= n
      BY <1>6, <2>3, <3>1, GroupFacts, WidthAssumption DEF Capped
    <3>3. (k - 1) * CARRY_CHAIN < n
      <4>1. PICK c \in Nat : c = CARRY_CHAIN /\ c >= 1
        BY WidthAssumption
      <4>2. (k - 1) * c = k * c - c
        BY <3>1
      <4>3. PICK kc \in Nat : kc = k * c
        BY <3>2, <4>1
      <4>4. QED
        BY <3>2, <4>1, <4>2, <4>3
    <3>4. acc.rdx[k - 1] = 0
      BY <3>1, <3>3 DEF Accumulates
    <3>5. Group(Addend(acc), k - 1) = 0
      <4>1. Group(acc.rs2, k - 1) = 0
        BY <1>4, <3>1, <3>2, ClearGroup
      <4>2. Group(0, k - 1) = 0
        <5>1. Pow2[n] * 0 = 0
          BY Powers
        <5>2. Group(Pow2[n] * 0, k - 1) = 0
          BY <3>1, <3>2, ClearGroup
        <5>3. QED
          BY <5>1, <5>2
      <4>3. QED
        BY <4>1, <4>2 DEF Addend
    <3>6. PICK a \in Nat, c \in Nat : a = acc.rd[k - 1] /\ c = Carry /\ a < c
      <4>1. acc.rd[k - 1] \in 0 .. Carry - 1 /\ Carry \in Nat
        BY <1>1, <3>1, GroupFacts DEF Accumulators
      <4>2. QED
        BY <4>1
    <3>7. Sums(acc)[k - 1] = a
      <4>1. Sums(acc)[k - 1] = acc.rd[k - 1] + acc.rdx[k - 1] + Group(Addend(acc), k - 1)
        BY <1>1, <3>1, SumOfGroup
      <4>2. QED
        BY <3>4, <3>5, <3>6, <4>1
    <3>8. a < c
      BY <3>6
    <3>9. a \div c = 0
      BY <3>8, SmallMod
    <3>10. QED
      BY <2>1, <2>3, <3>6, <3>7, <3>9 DEF CarryOut
  <2>4. QED
    BY <2>2, <2>3
<1>7. QED
  BY <1>2, <1>3, <1>5, <1>6 DEF Accumulates

LEMMA CarrySaveAccumulates ==
  ASSUME NEW acc, NEW z \in Int, NEW n \in 0 .. 2 * W, Accumulates(acc, z, n)
  PROVE  Accumulates(CarrySave(acc), z, Capped(n + STEPS_AT_ONCE))
<1> DEFINE N == STEPS_AT_ONCE
           F == [kv \in Nat \X Accumulators |-> CarrySaveStep(kv[2])]
           Body(g) == [k \in 0 .. N |-> IF k = 0 THEN acc ELSE CarrySaveStep(g[k - 1])]
<1>1. N \in Nat /\ acc \in Accumulators
  BY WidthAssumption DEF Accumulates
<1>2. F \in [Nat \X Accumulators -> Accumulators]
  BY StepAdds
<1>3. PICK s \in [0 .. N -> Accumulators] : Recurses(s, acc, F, N)
  <2> HIDE DEF F, N
  <2>1. QED
    BY <1>1, <1>2, RecursionExists
<1>4. s = Body(s)
  <2>1. ASSUME NEW k \in 0 .. N PROVE s[k] = IF k = 0 THEN acc ELSE CarrySaveStep(s[k - 1])
    <3>1. CASE k = 0
      BY <1>3, <3>1 DEF Recurses
    <3>2. CASE k # 0
      <4>1. k \in 1 .. N /\ k - 1 \in 0 .. N /\ k \in Nat
        BY <1>1, <3>2
      <4>2. s[k] = F[<<k, s[k - 1]>>] /\ s[k - 1] \in Accumulators
        BY <1>3, <4>1 DEF Recurses
      <4>3. QED
        BY <3>2, <4>1, <4>2
    <3>3. QED
      BY <3>1, <3>2
  <2>2. QED
    BY <2>1
<1>5. PICK steps : steps = Body(steps) /\ CarrySave(acc) = steps[N]
  <2>1. (CHOOSE g : g = Body(g)) = Body(CHOOSE g : g = Body(g))
    <3> HIDE DEF Body
    <3>1. QED
      BY <1>4
  <2>2. CarrySave(acc) = (CHOOSE g : g = Body(g))[N]
    BY DEF CarrySave
  <2>3. QED
    BY <2>1, <2>2
<1> DEFINE S == {k \in Nat : k <= N => Accumulates(steps[k], z, Capped(n + k))}
<1>6. 0 \in S
  <2>1. steps[0] = acc
    BY <1>1, <1>5
  <2>2. Capped(n + 0) = n
    BY WidthAssumption DEF Capped
  <2>3. QED
    BY <2>1, <2>2
<1>7. ASSUME NEW k \in Nat, k \in S PROVE k + 1 \in S
  <2> SUFFICES ASSUME k + 1 <= N PROVE Accumulates(steps[k + 1], z, Capped(n + (k + 1)))
    OBVIOUS
  <2>1. k + 1 \in 0 .. N /\ k + 1 # 0 /\ (k + 1) - 1 = k /\ k <= N
    BY <1>1
  <2>2. steps[k + 1] = CarrySaveStep(steps[k])
    BY <1>5, <2>1
  <2>3. Accumulates(steps[k], z, Capped(n + k))
    BY <1>7, <2>1
  <2>4. Capped(n + k) \in 0 .. 2 * W /\ Capped(Capped(n + k) + 1) = Capped(n + (k + 1))
    BY WidthAssumption DEF Capped
  <2>5. Accumulates(CarrySaveStep(steps[k]), z, Capped(Capped(n + k) + 1))
    BY <2>3, <2>4, StepAccumulates
  <2>6. QED
    BY <2>2, <2>4, <2>5
<1>8. N \in S
  <2> HIDE DEF S
  <2>1. QED
    BY <1>1, <1>6, <1>7, Induction
<1>9. QED
  BY <1>1, <1>5, <1>8

\* Before the first step.
LEMMA LoadAccumulates ==
  ASSUME NEW x \in Int, NEW y \in Int
  PROVE  Accumulates([rd |-> NoBits, rdx |-> NoBits, rs1 |-> x % Whole, rs2 |-> y % Whole], x * y, 0)
<1>1. PICK w \in Nat : w = Whole
  BY GroupFacts
<1>2. w >= 1
  BY <1>1, GroupFacts
<1>3. PICK p \in Int, r \in Nat : p = x \div w /\ r = x % w
  BY <1>2
<1>4. PICK q \in Int, s \in Nat : q = y \div w /\ s = y % w
  BY <1>2
<1>5. x = w * p + r /\ y = w * q + s /\ r < w /\ s < w
  BY <1>2, <1>3, <1>4
<1> DEFINE acc == [rd |-> NoBits, rdx |-> NoBits, rs1 |-> r, rs2 |-> s]
<1>6. acc \in Accumulators
  BY <1>1, <1>5, JoinNoBits, GroupFacts DEF Accumulators
<1>7. Value(acc) = r * s
  <2>1. PICK v \in Int : v = r * s
    OBVIOUS
  <2>2. QED
    BY <2>1, JoinNoBits DEF Value
<1>8. PICK e \in Int : e = -(w * (p * q) + p * s + q * r)
  OBVIOUS
<1>9. r * s = x * y + w * e
  <2>1. (w * p + r) * (w * q + s) + w * (-(w * (p * q) + p * s + q * r)) = r * s
    OBVIOUS
  <2>2. QED
    BY <1>5, <1>8, <2>1
<1>10. s = 1 * s /\ Pow2[0] = 1
  BY PowerValues
<1>11. \A k \in Groups : acc.rdx[k] = 0
  BY DEF NoBits
<1>12. acc.rs2 = s
  OBVIOUS
<1> HIDE DEF acc
<1>13. Accumulates(acc, x * y, 0)
  BY <1>1, <1>6, <1>7, <1>9, <1>10, <1>11, <1>12 DEF Accumulates
<1>14. QED
  BY <1>1, <1>3, <1>4, <1>13 DEF acc

\* After as many steps as there are bits to compute, the sum is the product.
LEMMA AccumulatesProduct ==
  ASSUME NEW acc, NEW z \in Int, NEW n \in 0 .. 2 * W, Accumulates(acc, z, n),
         NEW L \in 0 .. 2 * W, L <= n
  PROVE  \E e \in Int : Joined(acc.rd) = z + Pow2[L] * e
<1>1. acc \in Accumulators
  BY DEF Accumulates
<1>2. PICK p \in Nat : p = Pow2[L]
  BY Powers
<1>3. \A u \in 0 .. 2 * W : L <= u => \E j \in Nat : Pow2[u] = p * j
  <2> SUFFICES ASSUME NEW u \in 0 .. 2 * W, L <= u PROVE \E j \in Nat : Pow2[u] = p * j
    OBVIOUS
  <2>1. u - L \in 0 .. 2 * W /\ L + (u - L) = u /\ u <= 2 * W
    BY WidthAssumption
  <2>2. Pow2[L + (u - L)] = Pow2[L] * Pow2[u - L] /\ Pow2[u - L] \in Nat
    BY <2>1, Powers
  <2>3. QED
    BY <1>2, <2>1, <2>2
<1>4. PICK a \in Nat : Whole = p * a
  <2>1. 2 * W \in 0 .. 2 * W /\ L <= 2 * W
    BY WidthAssumption
  <2>2. QED
    BY <1>3, <2>1 DEF Whole
<1>5. PICK b \in Nat : acc.rs1 * acc.rs2 = p * b
  <2>1. PICK m \in Nat : acc.rs2 = Pow2[n] * m
    BY DEF Accumulates
  <2>2. PICK j \in Nat : Pow2[n] = p * j
    BY <1>3
  <2>3. PICK x \in Nat : x = acc.rs1
    BY <1>1, AccumulatorTypes
  <2>4. x * ((p * j) * m) = p * (x * (j * m)) /\ x * (j * m) \in Nat
    OBVIOUS
  <2>5. QED
    BY <2>1, <2>2, <2>3, <2>4
<1>6. PICK d \in Nat : Joined(acc.rdx) = p * d
  <2>1. acc.rdx \in [Groups -> Nat]
    BY <1>1, AccumulatorTypes
  <2>2. PICK s : Adds(s, acc.rdx) /\ Joined(acc.rdx) = s[GroupCount]
    BY <2>1, JoinedAdds
  <2> DEFINE S == {k \in 0 .. GroupCount : \E j \in Nat : s[k] = p * j}
  <2>3. 0 \in S
    <3>1. p * 0 = 0
      OBVIOUS
    <3>2. s[0] = p * 0 /\ 0 \in 0 .. GroupCount /\ 0 \in Nat
      BY <2>2, <3>1, GroupFacts DEF Adds
    <3>3. QED
      BY <3>2
  <2>4. ASSUME NEW k \in Groups, k \in S PROVE k + 1 \in S
    <3>1. PICK j \in Nat : s[k] = p * j
      BY <2>4
    <3>2. k + 1 \in 0 .. GroupCount /\ k \in 0 .. GroupCount /\ Weight(k) \in Nat
      BY <2>4, GroupFacts
    <3>3. s[k + 1] = s[k] + acc.rdx[k] * Weight(k)
      BY <2>2 DEF Adds
    <3>4. PICK f \in Nat : acc.rdx[k] * Weight(k) = p * f
      <4>1. CASE k * CARRY_CHAIN < n
        <5>1. acc.rdx[k] = 0
          BY <4>1 DEF Accumulates
        <5>2. 0 * Weight(k) = p * 0
          BY <3>2
        <5>3. QED
          BY <5>1, <5>2
      <4>2. CASE ~(k * CARRY_CHAIN < n)
        <5>1. k * CARRY_CHAIN \in 0 .. 2 * W
          BY <3>2, GroupFacts
        <5>2. L <= k * CARRY_CHAIN
          BY <4>2, <5>1, WidthAssumption
        <5>3. PICK i \in Nat : Weight(k) = p * i
          BY <1>3, <5>1, <5>2 DEF Weight
        <5>4. PICK x \in Nat : x = acc.rdx[k]
          BY <2>1
        <5>5. x * (p * i) = p * (x * i) /\ x * i \in Nat
          OBVIOUS
        <5>6. QED
          BY <5>3, <5>4, <5>5
      <4>3. QED
        BY <4>1, <4>2
    <3>5. p * j + p * f = p * (j + f) /\ j + f \in Nat
      OBVIOUS
    <3>6. s[k + 1] = p * (j + f)
      BY <3>1, <3>3, <3>4, <3>5
    <3>7. QED
      BY <3>2, <3>5, <3>6
  <2>5. GroupCount \in S
    <3> HIDE DEF S
    <3>1. QED
      BY <2>3, <2>4, GroupFacts, GroupInduction
  <2>6. QED
    BY <2>2, <2>5
<1>7. PICK e \in Int : Value(acc) = z + Whole * e
  BY DEF Accumulates
<1>8. PICK r \in Nat : r = Joined(acc.rd)
  BY <1>1, AccumulatorTypes
<1>9. r + p * d + p * b = z + (p * a) * e
  BY <1>4, <1>5, <1>6, <1>7, <1>8 DEF Value
<1>10. (p * a) * e = p * (a * e) /\ p * (a * e - d - b) = p * (a * e) - p * d - p * b
  OBVIOUS
<1>11. PICK x \in Int, y \in Int, v \in Int : x = p * d /\ y = p * b /\ v = p * (a * e)
  OBVIOUS
<1>12. r = z + (v - x - y) /\ p * (a * e - d - b) = v - x - y
  BY <1>9, <1>10, <1>11
<1>13. r = z + p * (a * e - d - b) /\ a * e - d - b \in Int
  BY <1>12
<1>14. QED
  BY <1>2, <1>8, <1>13

\* The bits of the product that the answer to op needs.
Bits(op) == IF AnyMulh(op) THEN 2 * W ELSE W

\* n steps are done, and mul.counter tells how many of the bits are left, less
\* those of the next step.
Iterates(part, op, z, n) ==
  /\ Accumulates(part.acc, z, n) /\ n < Bits(op)
  /\ n = 0 \/ STEPS_AT_ONCE < 2 * W
  /\ part.counter = (Bits(op) - 1 - STEPS_AT_ONCE - n) % CounterMod

MulRight ==
  /\ mul.instr # None /\ pcpi_valid => mul.instr = pcpi_insn
  /\ ~mul.waiting => \E n \in 0 .. 2 * W : Iterates(mul, pcpi_insn, Factor1 * Factor2, n)
  /\ mul.finish => \E n \in 0 .. 2 * W :
                     Bits(pcpi_insn) <= n /\ Accumulates(mul.acc, Factor1 * Factor2, n)
  /\ mul.ready => mul.out = Soft(pcpi_insn, pcpi_rs1, pcpi_rs2)

\* A number and the same number in the counter of mul_counter's width: the top
\* bit is its sign.
LEMMA CounterSign ==
  ASSUME NEW x \in Int, -(2 * W) <= x, x < 2 * W
  PROVE  x % CounterMod >= 2 * W <=> x < 0
<1>1. PICK m \in Nat : m = 4 * W /\ m >= 1
  BY WidthAssumption
<1>2. CASE x < 0
  <2>1. x + m >= 2 * W /\ x + m \in Nat
    BY <1>1, <1>2, WidthAssumption
  <2>2. PICK r \in Nat : r = x + m
    BY <2>1
  <2>3. r < m /\ x = m * (-1) + r /\ m >= 1
    BY <1>1, <1>2, <2>2
  <2>4. x % m = r
    BY <2>3, DivUnique
  <2>5. QED
    BY <1>1, <1>2, <2>1, <2>2, <2>4 DEF CounterMod
<1>3. CASE x >= 0
  <2>1. x \in Nat /\ x < m
    BY <1>1, <1>3, WidthAssumption
  <2>2. x % m = x
    BY <2>1, SmallMod
  <2>3. x % CounterMod = x
    BY <1>1, <2>2 DEF CounterMod
  <2>4. QED
    BY <1>3, <2>3, WidthAssumption
<1>4. QED
  BY <1>2, <1>3

\* Counting down wraps around.
LEMMA CounterStep ==
  ASSUME NEW x \in Int, NEW s \in Nat
  PROVE  ((x % CounterMod) - s) % CounterMod = (x - s) % CounterMod
<1>1. PICK m \in Nat : m = 4 * W
  BY WidthAssumption
<1>2. m >= 1
  BY <1>1, WidthAssumption
<1>3. PICK r \in Nat : r = x % m
  BY <1>2
<1>4. PICK q \in Int : q = x \div m
  BY <1>2
<1>5. x = m * q + r
  BY <1>2, <1>3, <1>4
<1>6. PICK y \in Int : y = r - s
  OBVIOUS
<1>7. x - s = y + m * q
  BY <1>5, <1>6
<1>8. (y + m * q) % m = y % m
  BY <1>2, ModAdd
<1>9. QED
  BY <1>1, <1>3, <1>6, <1>7, <1>8 DEF CounterMod

LEMMA BitsRange ==
  ASSUME NEW op
  PROVE  Bits(op) \in Nat /\ Bits(op) <= 2 * W /\ W <= Bits(op)
BY WidthAssumption DEF Bits

LEMMA MulLoad ==
  ASSUME Operands, pcpi_insn \in MulOps, mul.instr = pcpi_insn
  PROVE  Iterates(MulWaiting, pcpi_insn, Factor1 * Factor2, 0)
<1>1. PICK x \in Int, y \in Int : x = Factor1 /\ y = Factor2
  BY Factors
<1>2. MulWaiting.acc = [rd |-> NoBits, rdx |-> NoBits, rs1 |-> x % Whole, rs2 |-> y % Whole]
  BY <1>1 DEF MulWaiting, Factor1, Factor2, Whole
<1>3. Accumulates(MulWaiting.acc, x * y, 0)
  BY <1>2, LoadAccumulates
<1>4. MulWaiting.counter = (Bits(pcpi_insn) - 1 - STEPS_AT_ONCE) % CounterMod
  BY DEF MulWaiting, LoadCounter, Bits
<1>5. PICK b \in Int : b = Bits(pcpi_insn) - 1 - STEPS_AT_ONCE
  BY BitsRange, WidthAssumption
<1>6. b - 0 = b
  OBVIOUS
<1>7. 0 < Bits(pcpi_insn)
  BY BitsRange, WidthAssumption
<1>8. QED
  BY <1>1, <1>3, <1>4, <1>5, <1>6, <1>7 DEF Iterates

\* The iteration goes on exactly while bits of the answer are missing.
LEMMA MulIterate ==
  ASSUME NEW z \in Int, NEW n \in 0 .. 2 * W, NEW op, Iterates(mul, op, z, n)
  PROVE  /\ MulRunning.waiting = MulRunning.finish
         /\ ~MulRunning.waiting => \E j \in 0 .. 2 * W : Iterates(MulRunning, op, z, j)
         /\ MulRunning.finish => \E j \in 0 .. 2 * W : Bits(op) <= j /\ Accumulates(MulRunning.acc, z, j)
<1>1. PICK s \in Nat, b \in Nat, u \in Nat : s = STEPS_AT_ONCE /\ b = Bits(op) /\ u = 2 * W
  BY WidthAssumption, BitsRange
<1>2. s >= 1 /\ b <= u /\ u <= 2 * b /\ 2 * s < 3 * u /\ n <= u /\ n \in Nat /\ n < b
      /\ (n = 0 \/ s < u)
  BY <1>1, WidthAssumption, BitsRange, StepsAssumption DEF Iterates
<1>3. PICK v \in Int : v = b - 1 - s - n
  BY <1>2
<1>4. -u <= v /\ v < u
  BY <1>2, <1>3
<1>5. mul.counter = v % CounterMod
  BY <1>1, <1>3 DEF Iterates
<1>6. mul.counter >= 2 * W <=> v < 0
  BY <1>1, <1>4, <1>5, CounterSign
<1>7. /\ MulRunning.waiting = (mul.counter >= 2 * W) /\ MulRunning.finish = (mul.counter >= 2 * W)
      /\ MulRunning.acc = CarrySave(mul.acc)
      /\ MulRunning.counter = (mul.counter - s) % CounterMod
  BY <1>1 DEF MulRunning
<1>8. Accumulates(MulRunning.acc, z, Capped(n + s))
  BY <1>1, <1>7, CarrySaveAccumulates DEF Iterates
<1>9. ASSUME v >= 0 PROVE Iterates(MulRunning, op, z, n + s) /\ n + s \in 0 .. 2 * W
  <2>1. n + s < b /\ n + s <= u /\ n + s \in Nat /\ s < u
    BY <1>2, <1>3, <1>9
  <2>2. Capped(n + s) = n + s
    BY <1>1, <2>1 DEF Capped
  <2>3. ((v % CounterMod) - s) % CounterMod = (v - s) % CounterMod
    BY CounterStep
  <2>4. b - 1 - s - (n + s) = v - s
    BY <1>2, <1>3
  <2>5. MulRunning.counter = (b - 1 - s - (n + s)) % CounterMod
    BY <1>5, <1>7, <2>3, <2>4
  <2>6. QED
    BY <1>1, <1>8, <2>1, <2>2, <2>5 DEF Iterates
<1>10. ASSUME v < 0 PROVE Bits(op) <= Capped(n + s) /\ Capped(n + s) \in 0 .. 2 * W
  BY <1>1, <1>2, <1>3, <1>10 DEF Capped
<1>11. MulRunning.waiting = MulRunning.finish
  BY <1>7, Zenon
<1>12. ~MulRunning.waiting => \E j \in 0 .. 2 * W : Iterates(MulRunning, op, z, j)
  <2> SUFFICES ASSUME ~MulRunning.waiting PROVE \E j \in 0 .. 2 * W : Iterates(MulRunning, op, z, j)
    OBVIOUS
  <2>1. ~(mul.counter >= 2 * W)
    BY <1>7, Zenon
  <2>2. v >= 0
    BY <1>6, <2>1
  <2>3. QED
    BY <1>9, <2>2
<1>13. MulRunning.finish => \E j \in 0 .. 2 * W : Bits(op) <= j /\ Accumulates(MulRunning.acc, z, j)
  <2> SUFFICES ASSUME MulRunning.finish
               PROVE  \E j \in 0 .. 2 * W : Bits(op) <= j /\ Accumulates(MulRunning.acc, z, j)
    OBVIOUS
  <2>1. mul.counter >= 2 * W
    BY <1>7, Zenon
  <2>2. v < 0
    BY <1>6, <2>1
  <2>3. QED
    BY <1>8, <1>10, <2>2
<1>14. QED
  BY <1>11, <1>12, <1>13

\* The sum that is left holds the answer.
LEMMA MulDone ==
  ASSUME Operands, pcpi_insn \in MulOps, NEW acc, NEW n \in 0 .. 2 * W, Bits(pcpi_insn) <= n,
         Accumulates(acc, Factor1 * Factor2, n)
  PROVE  Soft(pcpi_insn, pcpi_rs1, pcpi_rs2) =
           IF AnyMulh(pcpi_insn) THEN High(Joined(acc.rd)) ELSE Low(Joined(acc.rd))
<1>1. PICK z \in Int : z = Factor1 * Factor2
  BY Factors
<1>2. Bits(pcpi_insn) \in 0 .. 2 * W
  BY BitsRange, WidthAssumption
<1>3. PICK e \in Int : Joined(acc.rd) = z + Pow2[Bits(pcpi_insn)] * e
  BY <1>1, <1>2, AccumulatesProduct
<1>4. PICK p \in Nat, w \in Nat : p = Pow2[W] /\ w = Pow2[2 * W]
  BY WordPowers
<1>5. p >= 1 /\ w >= 1
  BY <1>4, WordPowers, Powers
<1>6. CASE AnyMulh(pcpi_insn)
  <2>1. PICK x \in Int : x = z + w * e
    BY <1>4
  <2>2. Joined(acc.rd) = x
    BY <1>3, <1>4, <1>6, <2>1 DEF Bits
  <2>3. x % w = z % w
    BY <1>5, <2>1, ModEqual, ZenonT(30)
  <2>4. High(x % w) = High(x) /\ High(z % w) = High(z)
    BY <1>4, Halves
  <2>5. QED
    BY <1>1, <1>6, <2>2, <2>3, <2>4, ProductIsSoft
<1>7. CASE ~AnyMulh(pcpi_insn)
  <2>1. PICK x \in Int : x = z + p * e
    BY <1>4
  <2>2. Joined(acc.rd) = x
    BY <1>3, <1>4, <1>7, <2>1 DEF Bits
  <2>3. x % p = z % p
    BY <1>5, <2>1, ModEqual, ZenonT(30)
  <2>4. QED
    BY <1>1, <1>4, <1>7, <2>2, <2>3, ProductIsSoft DEF Low
<1>8. QED
  BY <1>6, <1>7

LEMMA FactorsStay ==
  ASSUME pcpi_insn' = pcpi_insn, pcpi_rs1' = pcpi_rs1, pcpi_rs2' = pcpi_rs2
  PROVE  (Factor1 * Factor2)' = Factor1 * Factor2
BY DEF Factor1, Factor2

\* What happens to the data of the multiplier.
LEMMA MulData ==
  ASSUME Mul, resetn \in BOOLEAN, mul.waiting \in BOOLEAN, resetn
  PROVE  /\ mul.waiting => /\ mul'.waiting = MulWaiting.waiting /\ mul'.finish = FALSE
                           /\ mul'.acc = MulWaiting.acc /\ mul'.counter = MulWaiting.counter
         /\ ~mul.waiting => /\ mul'.waiting = MulRunning.waiting /\ mul'.finish = MulRunning.finish
                            /\ mul'.acc = MulRunning.acc /\ mul'.counter = MulRunning.counter
         /\ mul.finish => mul'.out = IF AnyMulh(mul.instr) THEN High(Joined(mul.acc.rd))
                                                           ELSE Low(Joined(mul.acc.rd))
<1>1. mul.waiting => /\ mul'.waiting = MulWaiting.waiting /\ mul'.finish = FALSE
                     /\ mul'.acc = MulWaiting.acc /\ mul'.counter = MulWaiting.counter
  BY DEF Mul, MulWaiting
<1>2. ~mul.waiting => /\ mul'.waiting = MulRunning.waiting /\ mul'.finish = MulRunning.finish
                      /\ mul'.acc = MulRunning.acc /\ mul'.counter = MulRunning.counter
  BY DEF Mul
<1>3. mul.finish => mul'.out = IF AnyMulh(mul.instr) THEN High(Joined(mul.acc.rd))
                                                     ELSE Low(Joined(mul.acc.rd))
  BY DEF Mul
<1>4. QED
  BY <1>1, <1>2, <1>3

LEMMA MulRightStep ==
  ASSUME PcpiInv, Operands, MulRight, PortNext, ~fast
  PROVE  MulRight'
<1>1. /\ Mul /\ MulInv /\ MulTypeOK /\ ResetInv /\ PortInv /\ resetn \in BOOLEAN
      /\ mul.waiting \in BOOLEAN
  BY DEF PcpiInv, PortNext, Coprocessors, ResetInv, MulInv, MulTypeOK
<1>2. pcpi_valid => pcpi_insn' = pcpi_insn /\ pcpi_rs1' = pcpi_rs1 /\ pcpi_rs2' = pcpi_rs2
  BY OperandsStay
<1>3. (mul.instr # None /\ pcpi_valid => mul.instr = pcpi_insn)'
  BY <1>1, <1>2, MulEdge DEF Decode
<1>4. CASE ~resetn
  BY <1>1, <1>3, <1>4, MulEdge DEF MulRight
<1>5. CASE resetn
  <2>1. MulWorking /\ MulRequest
    BY <1>1, <1>5 DEF MulInv, ResetInv
  <2>2. CASE mul.waiting
    <3>1. ~mul'.finish /\ mul'.waiting = ~mul_start
      BY <1>1, <1>5, <2>2, MulEdge
    <3>2. ASSUME ~mul'.waiting
          PROVE  (\E n \in 0 .. 2 * W : Iterates(mul, pcpi_insn, Factor1 * Factor2, n))'
      <4>1. mul.wait /\ ~mul.wait_q
        BY <3>1, <3>2 DEF mul_start
      <4>2. pcpi_valid /\ mul.instr # None /\ pcpi_insn \in MulOps /\ mul.instr = pcpi_insn
        BY <2>1, <4>1 DEF MulRequest, MulRight
      <4>3. Iterates(MulWaiting, pcpi_insn, Factor1 * Factor2, 0)
        BY <4>2, MulLoad
      <4>4. mul'.acc = MulWaiting.acc /\ mul'.counter = MulWaiting.counter
        BY <1>1, <1>5, <2>2, MulData
      <4>5. pcpi_insn' = pcpi_insn /\ (Factor1 * Factor2)' = Factor1 * Factor2
        BY <1>2, <4>2, FactorsStay
      <4>6. Iterates(mul, pcpi_insn, Factor1 * Factor2, 0)'
        BY <4>3, <4>4, <4>5 DEF Iterates
      <4>7. 0 \in 0 .. 2 * W
        BY WidthAssumption
      <4>8. QED
        BY <4>6, <4>7
    <3>3. QED
      <4>1. mul.finish => MulAsked /\ mul.instr # None
        BY <2>1 DEF MulWorking
      <4>2. (mul.ready => mul.out = Soft(pcpi_insn, pcpi_rs1, pcpi_rs2))'
        <5> SUFFICES ASSUME mul'.ready PROVE (mul.out = Soft(pcpi_insn, pcpi_rs1, pcpi_rs2))'
          OBVIOUS
        <5>1. mul.finish
          BY <1>1, MulEdge
        <5>2. pcpi_valid /\ pcpi_insn \in MulOps /\ mul.instr = pcpi_insn
          BY <4>1, <5>1 DEF MulAsked, MulRight
        <5>3. PICK n \in 0 .. 2 * W : Bits(pcpi_insn) <= n /\ Accumulates(mul.acc, Factor1 * Factor2, n)
          BY <5>1 DEF MulRight
        <5>4. mul'.out = Soft(pcpi_insn, pcpi_rs1, pcpi_rs2)
          BY <1>1, <1>5, <5>1, <5>2, <5>3, MulData, MulDone
        <5>5. QED
          BY <1>2, <5>2, <5>4, QuestionStays
      <4>3. QED
        BY <1>3, <3>1, <3>2, <4>2 DEF MulRight
  <2>3. CASE ~mul.waiting
    <3>1. MulAsked /\ ~mul.finish
      BY <2>1, <2>3 DEF MulWorking
    <3>2. PICK n \in 0 .. 2 * W : Iterates(mul, pcpi_insn, Factor1 * Factor2, n)
      BY <2>3 DEF MulRight
    <3>3. PICK z \in Int : z = Factor1 * Factor2
      BY Factors
    <3>4. /\ ~MulRunning.waiting => \E j \in 0 .. 2 * W : Iterates(MulRunning, pcpi_insn, z, j)
          /\ MulRunning.finish => \E j \in 0 .. 2 * W : Bits(pcpi_insn) <= j /\ Accumulates(MulRunning.acc, z, j)
      BY <3>2, <3>3, MulIterate
    <3>5. /\ mul'.waiting = MulRunning.waiting /\ mul'.finish = MulRunning.finish
          /\ mul'.acc = MulRunning.acc /\ mul'.counter = MulRunning.counter
      BY <1>1, <1>5, <2>3, MulData
    <3>6. pcpi_insn' = pcpi_insn /\ (Factor1 * Factor2)' = z
      BY <1>2, <3>1, <3>3, FactorsStay DEF MulAsked
    <3>7. ~mul'.ready
      BY <1>1, <3>1, MulEdge
    <3>8. (~mul.waiting => \E j \in 0 .. 2 * W : Iterates(mul, pcpi_insn, Factor1 * Factor2, j))'
      BY <3>4, <3>5, <3>6 DEF Iterates
    <3>9. (mul.finish => \E j \in 0 .. 2 * W :
                           Bits(pcpi_insn) <= j /\ Accumulates(mul.acc, Factor1 * Factor2, j))'
      BY <3>4, <3>5, <3>6
    <3>10. QED
      BY <1>3, <3>7, <3>8, <3>9 DEF MulRight
  <2>4. QED
    BY <1>1, <2>2, <2>3
<1>6. QED
  BY <1>1, <1>4, <1>5

------------------------------------------------------------------------------
(* Every step keeps what the co-processors have computed right.             *)

\* The inductive invariant of the data: what the registers of a co-processor stand
\* for in every cycle of its work.
RightInv == PcpiInv /\ Operands /\ DivRight /\ IF fast THEN FastRight ELSE MulRight

LEMMA RightInvInit == PortInit => RightInv
<1> SUFFICES ASSUME PortInit PROVE RightInv
  OBVIOUS
<1>1. Operands
  BY WordPowers DEF PortInit, Operands, Word
<1>2. DivRight /\ FastRight /\ MulRight
  BY DEF PortInit, DivIdle, FastIdle, MulIdle, DivRight, FastRight, MulRight
<1>3. QED
  BY <1>1, <1>2, PcpiInvInit DEF RightInv

LEMMA RightInvNext == RightInv /\ [PortNext]_portVars => RightInv'
<1> SUFFICES ASSUME RightInv, [PortNext]_portVars PROVE RightInv'
  OBVIOUS
<1>1. PcpiInv'
  BY PcpiInvNext DEF RightInv
<1>2. CASE PortNext
  <2>1. fast' = fast
    BY <1>2 DEF PortNext
  <2>2. QED
    BY <1>1, <1>2, <2>1, OperandsStay, DivRightStep, FastRightStep, MulRightStep DEF RightInv
<1>3. CASE UNCHANGED portVars
  <2>1. Operands' /\ fast' = fast
    BY <1>3 DEF portVars, port, RightInv, Operands
  <2>2. UNCHANGED <<pcpi_insn, pcpi_rs1, pcpi_rs2, pcpi_valid, mul, fast_mul, div>>
    BY <1>3 DEF portVars, port, coprocessors
  <2>3. DivRight' <=> DivRight
    BY <2>2 DEF DivRight, Divides, Dividend, Divisor, OutSign, Soft
  <2>4. FastRight' <=> FastRight
    BY <2>2 DEF FastRight, Factor1, Factor2
  <2>5. MulRight' <=> MulRight
    BY <2>2 DEF MulRight, Iterates, Factor1, Factor2, Soft
  <2>6. QED
    BY <1>1, <2>1, <2>3, <2>4, <2>5 DEF RightInv
<1>4. QED
  BY <1>2, <1>3

LEMMA RightInvGives == RightInv => ResultsRight
<1> SUFFICES ASSUME RightInv, resetn, pcpi_int_ready
             PROVE  pcpi_int_rd = Soft(pcpi_insn, pcpi_rs1, pcpi_rs2)
  BY DEF ResultsRight
<1>1. PcpiInv /\ Operands
  BY DEF RightInv
<1>2. mul_ready => pcpi_insn \in MulOps
  BY <1>1, PcpiInvGives DEF AnsweredOnce
<1>3. CASE mul_ready /\ fast
  <2>1. pcpi_int_rd = IF AnyMulh(pcpi_insn) THEN High(fast_mul.rd) ELSE Low(fast_mul.rd)
    BY <1>3 DEF RightInv, FastRight, mul_ready, pcpi_int_rd, pcpi_mul_rd
  <2>2. fast_mul.rd = (Factor1 * Factor2) % Pow2[2 * W]
    BY <1>3 DEF RightInv, FastRight, mul_ready
  <2>3. PICK z \in Int : z = Factor1 * Factor2
    BY <1>1, Factors
  <2>4. QED
    BY <1>1, <1>2, <1>3, <2>1, <2>2, <2>3, Halves, ProductIsSoft
<1>4. CASE mul_ready /\ ~fast
  BY <1>4 DEF RightInv, MulRight, mul_ready, pcpi_int_rd, pcpi_mul_rd
<1>5. CASE ~mul_ready
  BY <1>5 DEF RightInv, DivRight, pcpi_int_ready, pcpi_int_rd
<1>6. QED
  BY <1>1, <1>3, <1>4, <1>5 DEF PcpiInv, PortInv

\* Every answer of a co-processor is what C computes from the operands of the
\* instruction that waits: the low word of a product and the high word of a signed,
\* mixed or unsigned one, quotient and remainder with their signs, division by
\* zero and overflow (picorv32.v:2186-2509, firmware/multest.c:77-143).
THEOREM ResultsAlwaysRight == PortSpec => []ResultsRight
<1>1. PortSpec => []RightInv
  BY RightInvInit, RightInvNext, PTL DEF PortSpec
<1>2. QED
  BY <1>1, RightInvGives, PTL
==============================================================================
