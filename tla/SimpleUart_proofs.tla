--------------------------- MODULE SimpleUart_proofs ---------------------------
(***************************************************************************)
(* What is read is what was sent: the receiver follows the sender, bit by  *)
(* bit, once the two have the same rate and a dummy frame has passed.      *)
(***************************************************************************)
EXTENDS SimpleUart, TLAPS

TypeOK ==
  /\ waiting \in Bytes \cup {None} /\ {cfg_divider, far_divider} \subseteq Dividers
  /\ recv_state \in 0 .. StopState /\ recv_divcnt \in Nat
  /\ recv_pattern \in Bytes /\ recv_buf_data \in Bytes /\ recv_buf_valid \in BOOLEAN
  /\ send_pattern \in [Frame -> {0, 1}] /\ send_bitcnt \in 0 .. DummyBits
  /\ send_divcnt \in Nat /\ send_dummy \in BOOLEAN
  /\ frame \in {"byte", "dummy", None} /\ unsettled \in 0 .. 2
  /\ in_flight \in {<<>>} \cup {<<byte>> : byte \in Bytes}

\* The dummy frame that follows a change of rate: each bit of it sees the
\* receiver leave a state, so that it comes to rest before the last one.
SettlingInv ==
  unsettled = 1 =>
    /\ ~send_dummy /\ frame = "dummy" /\ send_bitcnt > 0 /\ send_pattern = AllOnes
    /\ send_divcnt <= cfg_divider + 1
    /\ cfg_divider = far_divider /\ recv_state # 0 =>
         LET sent == DummyBits - send_bitcnt
         IN  \/ recv_state - 1 > sent
             \/ recv_state - 1 = sent /\ recv_divcnt >= send_divcnt

\* How far into each bit the receiver samples it.
SampledAt == far_divider \div 2 + 2
Shifted_out == FrameBits - send_bitcnt

\* Where the receiver is in the frame that is sent.
PhaseInv ==
  unsettled = 0 =>
    /\ ~send_dummy /\ cfg_divider = far_divider /\ send_divcnt <= cfg_divider + 1
    /\ send_bitcnt = 0 => frame = None /\ recv_state = 0 /\ in_flight = <<>>
    /\ send_bitcnt > 0 =>
         /\ frame = "byte" /\ send_bitcnt <= FrameBits
         /\ recv_state = 0 /\ in_flight = <<>> =>
              Shifted_out = BITS + 1 /\ send_divcnt > SampledAt
         /\ recv_state = 0 /\ in_flight # <<>> => Shifted_out = 0 /\ send_divcnt = 0
         /\ recv_state # 0 => in_flight # <<>>
         /\ recv_state = 1 =>
              /\ Shifted_out = 0 /\ recv_divcnt = send_divcnt - 1
              /\ send_divcnt <= SampledAt
         /\ recv_state > 1 =>
              \/ /\ send_divcnt > SampledAt /\ Shifted_out = recv_state - 2
                 /\ recv_divcnt = send_divcnt - SampledAt - 1
              \/ /\ send_divcnt <= SampledAt /\ Shifted_out = recv_state - 1
                 /\ recv_divcnt = send_divcnt + cfg_divider + 1 - SampledAt

\* What of the byte is still in the sender, and what is in the receiver.
BitsInv ==
  unsettled = 0 =>
    /\ \A n \in Frame : n + Shifted_out > BITS => send_pattern[n] = 1
    /\ in_flight # <<>> =>
         /\ \A n \in Frame : n + Shifted_out <= BITS =>
              send_pattern[n] = Framed(Head(in_flight))[n + Shifted_out]
         /\ recv_state > 1 => \A n \in Byte : n >= BITS + 2 - recv_state =>
              recv_pattern[n] = Head(in_flight)[n + recv_state - 2 - BITS]

UartInv == TypeOK /\ SettlingInv /\ PhaseInv /\ BitsInv /\ ReadsWhatWasSent

------------------------------------------------------------------------------
(* A clock edge.                                                           *)

Edge(resetn, far_resetn, access, far_access) ==
  /\ \/ resetn /\ Sends(access)
     \/ ~resetn /\ SenderReset
  /\ \/ far_resetn /\ Receives(far_access)
     \/ ~far_resetn /\ ReceiverReset
  /\ History(access, far_access, resetn, far_resetn)

LEMMA Sampling ==
  ASSUME NEW d \in Nat \ {0}
  PROVE  /\ d \div 2 + 2 \in Nat /\ d \div 2 + 2 >= 2 /\ d \div 2 + 2 <= d + 1
         /\ \A j \in Nat : 2 * j > d <=> j + 1 >= d \div 2 + 2
OBVIOUS

LEMMA Widths ==
  /\ BITS \in Nat \ {0} /\ FrameBits = BITS + 2 /\ DummyBits = BITS + 7 /\ StopState = BITS + 2
  /\ Frame = 0 .. BITS + 1 /\ Byte = 0 .. BITS - 1
  /\ \A d \in Dividers : d \in Nat \ {0}
  /\ DEFAULT_DIV \in Dividers
<1>1. \A d \in Dividers : d \in Nat \ {0}
  <2>1. \A d \in 1 .. 2 ^ DIV_BITS - 3 : d \in Nat \ {0}
    OBVIOUS
  <2> QED
    BY <2>1, UartAssumption
<1> QED
  BY <1>1, UartAssumption DEF FrameBits, DummyBits, StopState, Frame, Byte

LEMMA Patterns ==
  /\ AllOnes \in [Frame -> {0, 1}] /\ AllZeros \in Bytes
  /\ \A byte \in Bytes : Framed(byte) \in [Frame -> {0, 1}]
  /\ \A p \in [Frame -> {0, 1}] : Shifted(p, 1, FrameBits) \in [Frame -> {0, 1}]
  /\ \A p \in Bytes, bit \in {0, 1} : Shifted(p, bit, BITS) \in Bytes
<1>1. AllOnes \in [Frame -> {0, 1}] /\ AllZeros \in Bytes
  BY DEF AllOnes, AllZeros, Bytes
<1>2. ASSUME NEW byte \in Bytes PROVE Framed(byte) \in [Frame -> {0, 1}]
  BY <1>2, Widths DEF Framed, Bytes
<1>3. ASSUME NEW p \in [Frame -> {0, 1}] PROVE Shifted(p, 1, FrameBits) \in [Frame -> {0, 1}]
  BY <1>3, Widths DEF Shifted
<1>4. ASSUME NEW p \in Bytes, NEW bit \in {0, 1} PROVE Shifted(p, bit, BITS) \in Bytes
  BY <1>4, Widths DEF Shifted, Bytes
<1> QED
  BY <1>1, <1>2, <1>3, <1>4

LEMMA FramedBits ==
  ASSUME NEW byte
  PROVE  /\ Framed(byte)[0] = 0 /\ Framed(byte)[BITS + 1] = 1
         /\ \A n \in 1 .. BITS : Framed(byte)[n] = byte[n - 1]
<1>1. Framed(byte)[0] = 0
  BY Widths DEF Framed
<1>2. Framed(byte)[BITS + 1] = 1
  BY Widths DEF Framed
<1>3. ASSUME NEW n \in 1 .. BITS PROVE Framed(byte)[n] = byte[n - 1]
  BY Widths DEF Framed
<1> QED
  BY <1>1, <1>2, <1>3

\* What the programs may ask for.
LEMMA AccessFacts ==
  ASSUME TypeOK, NEW resetn \in BOOLEAN, NEW access \in AccessesNow(resetn)
  PROVE  /\ reg_dat_we(access) => access.value \in Bytes
         /\ reg_div_we(access) => access.value \in Dividers
         /\ ~resetn => ~reg_dat_we(access) /\ ~reg_div_we(access)
<1>1. CASE ~resetn
  BY <1>1 DEF AccessesNow, Idle, reg_dat_we, reg_div_we
<1>2. CASE resetn /\ waiting = None
  BY <1>2 DEF AccessesNow, Accesses, DividerWrites, Idle, reg_dat_we, reg_div_we
<1>3. CASE resetn /\ waiting # None
  BY <1>3 DEF AccessesNow, TypeOK, reg_dat_we, reg_div_we
<1> QED
  BY <1>1, <1>2, <1>3

LEMMA FarAccessFacts ==
  ASSUME NEW far_resetn \in BOOLEAN,
         NEW far_access \in IF far_resetn THEN FarAccesses ELSE {Idle}
  PROVE  /\ reg_div_we(far_access) => far_access.value \in Dividers
         /\ ~far_resetn => ~reg_dat_re(far_access) /\ ~reg_div_we(far_access)
BY DEF FarAccesses, DividerWrites, Idle, reg_dat_re, reg_div_we

LEMMA SenderTypes ==
  ASSUME TypeOK, NEW resetn \in BOOLEAN, NEW access \in AccessesNow(resetn),
         (resetn /\ Sends(access)) \/ (~resetn /\ SenderReset)
  PROVE  /\ waiting' \in Bytes \cup {None} /\ cfg_divider' \in Dividers
         /\ send_pattern' \in [Frame -> {0, 1}] /\ send_bitcnt' \in 0 .. DummyBits
         /\ send_divcnt' \in Nat /\ send_dummy' \in BOOLEAN
<1>1. CASE SenderReset
  BY <1>1, Widths, Patterns DEF SenderReset
<1>2. CASE resetn /\ Sends(access)
  <2>1. cfg_divider' \in Dividers
    BY <1>2, AccessFacts DEF Sends, DividerNext, TypeOK
  <2>2. waiting' \in Bytes \cup {None}
    BY <1>2, AccessFacts DEF Sends, reg_dat_wait
  <2>3. send_dummy' \in BOOLEAN
    BY <1>2 DEF Sends, DummyBegun, DummyNext, TypeOK, reg_div_we
  <2>4. send_pattern' \in [Frame -> {0, 1}]
    BY <1>2, Patterns, AccessFacts DEF Sends, SendsByte, TypeOK
  <2>5. send_bitcnt' \in 0 .. DummyBits /\ send_divcnt' \in Nat
    BY <1>2, Widths DEF Sends, Shifts, CountOn, TypeOK
  <2> QED
    BY <2>1, <2>2, <2>3, <2>4, <2>5
<1> QED
  BY <1>1, <1>2

LEMMA ReceiverTypes ==
  ASSUME TypeOK, NEW far_resetn \in BOOLEAN,
         NEW far_access \in IF far_resetn THEN FarAccesses ELSE {Idle},
         (far_resetn /\ Receives(far_access)) \/ (~far_resetn /\ ReceiverReset)
  PROVE  /\ far_divider' \in Dividers /\ recv_state' \in 0 .. StopState /\ recv_divcnt' \in Nat
         /\ recv_pattern' \in Bytes /\ recv_buf_data' \in Bytes /\ recv_buf_valid' \in BOOLEAN
<1>1. CASE ReceiverReset
  <2>1. 0 \in 0 .. StopState /\ AllZeros \in Bytes /\ DEFAULT_DIV \in Dividers
    BY Widths, Patterns
  <2> QED
    BY <1>1, <2>1 DEF ReceiverReset
<1>2. CASE Receives(far_access)
  <2>1. far_divider' \in Dividers
    BY <1>2, FarAccessFacts DEF Receives, DividerNext, TypeOK, ReceiverReset
  <2>2. recv_buf_data' \in Bytes /\ recv_buf_valid' \in BOOLEAN
    BY <1>2 DEF Receives, BufferValid, TypeOK, Arrives, reg_dat_re
  <2>3. ser_rx \in {0, 1}
    BY Widths DEF TypeOK, ser_rx, ser_tx
  <2>4. recv_pattern' \in Bytes
    BY <1>2, <2>3, Patterns DEF Receives, TypeOK
  <2>5. recv_state' \in 0 .. StopState /\ recv_divcnt' \in Nat
    <3>1. CASE recv_state = 0
      BY <1>2, <2>3, <3>1, Widths DEF Receives, TypeOK
    <3>2. CASE recv_state = 1
      BY <1>2, <3>2, Widths DEF Receives, ReceiveStep, TypeOK
    <3>3. CASE recv_state \in 2 .. StopState - 1
      BY <1>2, <3>3, Widths DEF Receives, ReceiveStep, TypeOK
    <3>4. CASE recv_state = StopState
      BY <1>2, <3>4, Widths DEF Receives, TypeOK
    <3> QED
      BY <3>1, <3>2, <3>3, <3>4, Widths DEF TypeOK
  <2> QED
    BY <2>1, <2>2, <2>4, <2>5
<1> QED
  BY <1>1, <1>2

------------------------------------------------------------------------------
(* An edge at which nothing changes the rates.                             *)

LEMMA DummyKeptOff ==
  ASSUME NEW access, Sends(access), ~send_dummy, ~reg_div_we(access)
  PROVE  ~send_dummy'
<1>1. send_dummy' = DummyNext(access)
  BY DEF Sends, SendsDummy
<1> QED
  BY <1>1 DEF DummyNext

\* Which edges leave the rates settled.
LEMMA SettledEdge ==
  ASSUME UartInv, NEW resetn \in BOOLEAN, NEW far_resetn \in BOOLEAN,
         NEW access \in AccessesNow(resetn),
         NEW far_access \in IF far_resetn THEN FarAccesses ELSE {Idle},
         Edge(resetn, far_resetn, access, far_access), unsettled' = 0
  PROVE  /\ resetn /\ far_resetn /\ ~reg_div_we(access) /\ ~reg_div_we(far_access)
         /\ ~send_dummy /\ ~send_dummy' /\ cfg_divider' = cfg_divider /\ far_divider' = far_divider
         /\ cfg_divider = far_divider
         /\ unsettled = 0 \/ (unsettled = 1 /\ Shifts /\ send_bitcnt = 1 /\ frame' = None)
<1> DEFINE changes ==
      ~resetn \/ ~far_resetn \/ reg_div_we(access) \/ reg_div_we(far_access)
<1>1. unsettled \in {0, 1, 2} /\ (unsettled # 2 => ~send_dummy)
  BY DEF UartInv, TypeOK, SettlingInv, PhaseInv
<1>2. unsettled' = CASE resetn /\ SendsDummy /\ (changes \/ unsettled > 0) -> 1
                     [] ~(resetn /\ SendsDummy) /\ changes -> 2
                     [] frame = "dummy" /\ (Shifts /\ send_bitcnt = 1) /\ ~changes /\ unsettled = 1 ->
                          IF cfg_divider' = far_divider' THEN 0 ELSE 2
                     [] OTHER -> unsettled
  BY DEF Edge, History
<1>3. ~changes
  BY <1>2
<1>4. unsettled = 0 \/ (unsettled = 1 /\ frame = "dummy" /\ Shifts /\ send_bitcnt = 1
                          /\ cfg_divider' = far_divider')
  BY <1>1, <1>2
<1>5. Sends(access) /\ Receives(far_access) /\ resetn /\ far_resetn
  BY <1>3 DEF Edge
<1>6. cfg_divider' = cfg_divider /\ far_divider' = far_divider
  BY <1>3, <1>5 DEF Sends, Receives, DividerNext
<1>7. ~send_dummy /\ ~send_dummy'
  BY <1>1, <1>3, <1>4, <1>5, DummyKeptOff
<1>8. cfg_divider = far_divider
  BY <1>4, <1>6 DEF UartInv, PhaseInv
<1>9. unsettled = 1 => frame' = None
  BY <1>4, <1>5 DEF Edge, History, SendsDummy, SendsByte
<1> QED
  BY <1>3, <1>4, <1>5, <1>6, <1>7, <1>8, <1>9

LEMMA SettlingKept ==
  ASSUME UartInv, NEW resetn \in BOOLEAN, NEW far_resetn \in BOOLEAN,
         NEW access \in AccessesNow(resetn),
         NEW far_access \in IF far_resetn THEN FarAccesses ELSE {Idle},
         Edge(resetn, far_resetn, access, far_access)
  PROVE  SettlingInv'
<1> SUFFICES ASSUME unsettled' = 1
             PROVE  /\ ~send_dummy' /\ frame' = "dummy" /\ send_bitcnt' > 0
                    /\ send_pattern' = AllOnes /\ send_divcnt' <= cfg_divider' + 1
                    /\ cfg_divider' = far_divider' /\ recv_state' # 0 =>
                         LET sent == DummyBits - send_bitcnt'
                         IN  \/ recv_state' - 1 > sent
                             \/ recv_state' - 1 = sent /\ recv_divcnt' >= send_divcnt'
  BY DEF SettlingInv
<1> DEFINE changes ==
      ~resetn \/ ~far_resetn \/ reg_div_we(access) \/ reg_div_we(far_access)
<1>1. /\ recv_state' \in 0 .. StopState /\ recv_divcnt' \in Nat /\ cfg_divider' \in Nat \ {0}
      /\ recv_state \in 0 .. StopState /\ recv_divcnt \in Nat /\ cfg_divider \in Nat \ {0}
      /\ send_bitcnt \in 0 .. DummyBits /\ send_divcnt \in Nat
  BY SenderTypes, ReceiverTypes, Widths DEF UartInv, TypeOK, Edge
<1>2. unsettled' = CASE resetn /\ SendsDummy /\ (changes \/ unsettled > 0) -> 1
                     [] ~(resetn /\ SendsDummy) /\ changes -> 2
                     [] frame = "dummy" /\ (Shifts /\ send_bitcnt = 1) /\ ~changes /\ unsettled = 1 ->
                          IF cfg_divider' = far_divider' THEN 0 ELSE 2
                     [] OTHER -> unsettled
  BY DEF Edge, History
<1>a. recv_state' \in Nat /\ recv_divcnt' \in Nat /\ cfg_divider' \in Nat
  <2>1. \A s \in 0 .. StopState : s \in Nat
    BY Widths
  <2> QED
    BY <1>1, <2>1
<1>3. CASE resetn /\ SendsDummy
  <2>1. /\ ~send_dummy' /\ frame' = "dummy" /\ send_bitcnt' = DummyBits /\ send_divcnt' = 0
        /\ send_pattern' = AllOnes
    BY <1>3 DEF Edge, Sends, SendsByte, Shifts, SendsDummy, DummyBegun, History
  <2>2. send_bitcnt' = DummyBits /\ send_divcnt' = 0
    BY <2>1
  <2>3. StopState \in Nat /\ DummyBits \in Nat \ {0}
    BY Widths
  <2>4. DummyBits > 0 /\ DummyBits - DummyBits = 0
    BY <2>3
  <2>5. 0 <= cfg_divider' + 1
    <3>1. \A d \in Nat : 0 <= d + 1
      OBVIOUS
    <3> QED
      BY <1>a, <3>1
  <2>6. recv_state' # 0 => (recv_state' - 1 > 0 \/ (recv_state' - 1 = 0 /\ recv_divcnt' >= 0))
    <3>1. \A s \in Nat : s # 0 => s - 1 > 0 \/ s - 1 = 0
      OBVIOUS
    <3>2. \A d \in Nat : d >= 0
      OBVIOUS
    <3>3. recv_divcnt' >= 0
      BY <1>a, <3>2
    <3> QED
      BY <1>a, <3>1, <3>3, Zenon
  <2> QED
    BY <2>1, <2>4, <2>5, <2>6, Zenon
<1>4. CASE ~(resetn /\ SendsDummy)
  <2>a. ~changes
    BY <1>2, <1>4
  <2>b. unsettled = 1
    <3>1. CASE frame = "dummy" /\ (Shifts /\ send_bitcnt = 1) /\ unsettled = 1
      BY <3>1
    <3>2. CASE ~(frame = "dummy" /\ (Shifts /\ send_bitcnt = 1) /\ unsettled = 1)
      BY <1>2, <1>4, <2>a, <3>2
    <3> QED
      BY <3>1, <3>2
  <2>2. /\ ~send_dummy /\ frame = "dummy" /\ send_bitcnt > 0 /\ send_pattern = AllOnes
        /\ send_divcnt <= cfg_divider + 1
        /\ cfg_divider = far_divider /\ recv_state # 0 =>
             LET sent == DummyBits - send_bitcnt
             IN  \/ recv_state - 1 > sent
                 \/ recv_state - 1 = sent /\ recv_divcnt >= send_divcnt
    BY <2>b DEF UartInv, SettlingInv
  <2>1. ~changes /\ unsettled = 1 /\ ~(Shifts /\ send_bitcnt = 1)
    BY <1>2, <1>4, <2>a, <2>b, <2>2
  <2>3. Sends(access) /\ Receives(far_access) /\ resetn /\ far_resetn
    BY <2>1 DEF Edge
  <2>4. /\ cfg_divider' = cfg_divider /\ far_divider' = far_divider /\ ~send_dummy'
        /\ ~SendsDummy /\ ~SendsByte(access)
    <3>1. ~send_dummy'
      BY <2>1, <2>2, <2>3, DummyKeptOff
    <3>2. ~SendsDummy /\ ~SendsByte(access)
      BY <1>1, <2>2 DEF SendsDummy, SendsByte
    <3> QED
      BY <2>1, <2>3, <3>1, <3>2 DEF Sends, Receives, DividerNext
  <2>5. frame' = "dummy"
    BY <2>1, <2>2, <2>3, <2>4 DEF Edge, History
  <2>6. \/ Shifts /\ send_bitcnt' = send_bitcnt - 1 /\ send_divcnt' = 0
        \/ ~Shifts /\ send_bitcnt' = send_bitcnt /\ send_divcnt' = send_divcnt + 1
    BY <1>1, <2>2, <2>3, <2>4 DEF Sends, CountOn
  <2>7. Shifts <=> send_divcnt = cfg_divider + 1
    BY <1>1, <2>2 DEF Shifts, BitOver
  <2>8. send_pattern' = AllOnes
    <3>1. Shifted(AllOnes, 1, FrameBits) = AllOnes
      BY Widths DEF Shifted, AllOnes
    <3> QED
      BY <2>2, <2>3, <2>4, <3>1 DEF Sends
  <2>9. send_bitcnt' > 0 /\ send_divcnt' <= cfg_divider' + 1
    BY <1>1, <2>1, <2>2, <2>4, <2>6, <2>7
  <2>10. ASSUME cfg_divider' = far_divider', recv_state' # 0
         PROVE  \/ recv_state' - 1 > DummyBits - send_bitcnt'
                \/ recv_state' - 1 = DummyBits - send_bitcnt' /\ recv_divcnt' >= send_divcnt'
    <3>1. cfg_divider = far_divider /\ ser_rx = 1
      BY <2>2, <2>4, <2>10, Widths DEF ser_rx, ser_tx, AllOnes
    <3>2. recv_state # 0
      BY <1>1, <2>3, <2>10, <3>1, Widths DEF Receives
    <3>3. \/ recv_state' = recv_state /\ recv_divcnt' = recv_divcnt + 1 /\ recv_divcnt <= cfg_divider
          \/ recv_state' = recv_state + 1
      <4>1. CASE recv_state = 1
        BY <1>1, <2>3, <3>1, <4>1, Widths DEF Receives, ReceiveStep, StartOver
      <4>2. CASE recv_state \in 2 .. StopState - 1
        BY <1>1, <2>3, <3>1, <4>2, Widths DEF Receives, ReceiveStep, BitOver
      <4>3. CASE recv_state = StopState
        BY <1>1, <2>3, <2>10, <3>1, <4>3, Widths DEF Receives, Arrives, BitOver
      <4> QED
        BY <1>1, <3>2, <4>1, <4>2, <4>3, Widths
    <3> QED
      BY <1>1, <2>2, <2>6, <2>7, <3>1, <3>2, <3>3, Widths
  <2> QED
    BY <2>4, <2>5, <2>8, <2>9, <2>10
<1> QED
  BY <1>3, <1>4

------------------------------------------------------------------------------
(* An edge with the rates settled before and after.                        *)

\* What the sender does.
LEMMA SettledSender ==
  ASSUME UartInv, NEW resetn \in BOOLEAN, NEW far_resetn \in BOOLEAN,
         NEW access \in AccessesNow(resetn),
         NEW far_access \in IF far_resetn THEN FarAccesses ELSE {Idle},
         Edge(resetn, far_resetn, access, far_access), unsettled = 0, unsettled' = 0
  PROVE  \/ /\ send_bitcnt = 0 /\ SendsByte(access) /\ access.value \in Bytes
            /\ send_bitcnt' = FrameBits /\ send_divcnt' = 0
            /\ send_pattern' = Framed(access.value) /\ frame' = "byte"
         \/ /\ send_bitcnt = 0 /\ ~SendsByte(access) /\ send_bitcnt' = 0 /\ send_divcnt' = 0
            /\ send_pattern' = send_pattern /\ frame' = frame
         \/ /\ send_bitcnt > 0 /\ ~SendsByte(access) /\ send_divcnt = cfg_divider + 1
            /\ send_bitcnt' = send_bitcnt - 1 /\ send_divcnt' = 0
            /\ send_pattern' = Shifted(send_pattern, 1, FrameBits)
            /\ frame' = IF send_bitcnt = 1 THEN None ELSE frame
         \/ /\ send_bitcnt > 0 /\ ~SendsByte(access) /\ send_divcnt <= cfg_divider
            /\ send_bitcnt' = send_bitcnt /\ send_divcnt' = send_divcnt + 1
            /\ send_pattern' = send_pattern /\ frame' = frame
<1>1. resetn /\ ~send_dummy /\ Sends(access)
  BY SettledEdge DEF Edge
<1>2. ~SendsDummy /\ cfg_divider \in Nat /\ send_bitcnt \in Nat /\ send_divcnt \in Nat
      /\ send_divcnt <= cfg_divider + 1
  BY <1>1, Widths DEF SendsDummy, UartInv, TypeOK, PhaseInv
<1>3. frame' = CASE Shifts /\ send_bitcnt = 1 -> None
                 [] SendsByte(access) -> "byte"
                 [] OTHER -> frame
  BY <1>1, <1>2 DEF Edge, History
<1>4. CASE send_bitcnt = 0
  <2>1. ~Shifts
    BY <1>2, <1>4 DEF Shifts
  <2>2. CASE SendsByte(access)
    <3>1. access.value \in Bytes
      BY <2>2, AccessFacts DEF SendsByte, UartInv
    <3> QED
      BY <1>1, <1>2, <1>3, <1>4, <2>1, <2>2, <3>1 DEF Sends
  <2>3. CASE ~SendsByte(access)
    BY <1>1, <1>2, <1>3, <1>4, <2>1, <2>3 DEF Sends, CountOn
  <2> QED
    BY <2>2, <2>3
<1>5. CASE send_bitcnt > 0
  <2>1. send_bitcnt # 0 /\ ~SendsByte(access)
    BY <1>2, <1>5 DEF SendsByte
  <2>2. CASE Shifts
    <3>1. send_divcnt = cfg_divider + 1
      BY <1>2, <2>2 DEF Shifts, BitOver
    <3> QED
      BY <1>1, <1>2, <1>3, <1>5, <2>1, <2>2, <3>1 DEF Sends
  <2>3. CASE ~Shifts
    <3>1. send_divcnt <= cfg_divider
      BY <1>2, <1>5, <2>3 DEF Shifts, BitOver
    <3> QED
      BY <1>1, <1>2, <1>3, <1>5, <2>1, <2>3, <3>1 DEF Sends, CountOn
  <2> QED
    BY <2>2, <2>3
<1> QED
  BY <1>2, <1>4, <1>5

\* The level of the line when the receiver looks at it.
LEMMA LineLevel ==
  ASSUME UartInv, unsettled = 0
  PROVE  /\ ser_rx \in {0, 1}
         /\ recv_state = 0 /\ in_flight = <<>> => ser_rx = 1
         /\ recv_state = 0 /\ in_flight # <<>> => ser_rx = 0
<1>1. ser_rx \in {0, 1}
  BY Widths DEF UartInv, TypeOK, ser_rx, ser_tx
<1>2. send_bitcnt \in Nat /\ 0 \in Frame
  BY Widths DEF UartInv, TypeOK
<1>3. ASSUME recv_state = 0, in_flight = <<>> PROVE ser_rx = 1
  <2>1. Shifted_out = BITS + 1 \/ Shifted_out = BITS + 2
    BY <1>2, <1>3, Widths DEF UartInv, PhaseInv, Shifted_out
  <2>2. 0 + Shifted_out > BITS
    BY <2>1, Widths
  <2> QED
    BY <1>2, <2>2 DEF UartInv, BitsInv, ser_rx, ser_tx
<1>4. ASSUME recv_state = 0, in_flight # <<>> PROVE ser_rx = 0
  <2>1. Shifted_out = 0
    BY <1>2, <1>4 DEF UartInv, PhaseInv
  <2>2. 0 + Shifted_out <= BITS /\ 0 + Shifted_out = 0
    BY <2>1, Widths
  <2>3. send_pattern[0] = Framed(Head(in_flight))[0]
    <3>1. \A n \in Frame : n + Shifted_out <= BITS =>
            send_pattern[n] = Framed(Head(in_flight))[n + Shifted_out]
      BY <1>4 DEF UartInv, BitsInv
    <3>2. send_pattern[0] = Framed(Head(in_flight))[0 + Shifted_out]
      BY <1>2, <2>2, <3>1
    <3> QED
      BY <2>2, <3>2
  <2>4. Framed(Head(in_flight))[0] = 0
    BY FramedBits
  <2> QED
    BY <2>3, <2>4 DEF ser_rx, ser_tx
<1> QED
  BY <1>1, <1>3, <1>4

\* What arrives, and what is on its way.
LEMMA SettledFlight ==
  ASSUME UartInv, NEW resetn \in BOOLEAN, NEW far_resetn \in BOOLEAN,
         NEW access \in AccessesNow(resetn),
         NEW far_access \in IF far_resetn THEN FarAccesses ELSE {Idle},
         Edge(resetn, far_resetn, access, far_access), unsettled = 0, unsettled' = 0
  PROVE  /\ SendsByte(access) => /\ recv_state = 0 /\ in_flight = <<>> /\ ~Arrives
                                 /\ in_flight' = <<access.value>>
         /\ ~SendsByte(access) /\ ~Arrives => in_flight' = in_flight
         /\ Arrives => ~SendsByte(access) /\ in_flight' = <<>>
         /\ recv_state = StopState => in_flight # <<>>
<1>1. in_flight' = IF Arrives
                   THEN IF (IF SendsByte(access) THEN Append(in_flight, access.value) ELSE in_flight) = <<>>
                        THEN <<>>
                        ELSE Tail(IF SendsByte(access) THEN Append(in_flight, access.value) ELSE in_flight)
                   ELSE IF SendsByte(access) THEN Append(in_flight, access.value) ELSE in_flight
  BY DEF Edge, History
<1>2. recv_state # 0 => in_flight # <<>> /\ send_bitcnt # 0
  BY Widths DEF UartInv, TypeOK, PhaseInv
<1>3. StopState # 0
  BY Widths
<1>4. ASSUME SendsByte(access)
      PROVE  recv_state = 0 /\ in_flight = <<>> /\ ~Arrives /\ in_flight' = <<access.value>>
  <2>1. send_bitcnt = 0
    BY <1>4 DEF SendsByte
  <2>2. recv_state = 0 /\ in_flight = <<>>
    BY <2>1 DEF UartInv, PhaseInv
  <2>3. ~Arrives
    BY <1>3, <2>2 DEF Arrives
  <2>4. Append(<<>>, access.value) = <<access.value>>
    OBVIOUS
  <2> QED
    BY <1>1, <1>4, <2>2, <2>3, <2>4
<1>5. Tail(in_flight) = <<>> \/ in_flight = <<>>
  <2>1. \A byte : Tail(<<byte>>) = <<>>
    OBVIOUS
  <2>2. in_flight = <<>> \/ \E byte \in Bytes : in_flight = <<byte>>
    BY DEF UartInv, TypeOK
  <2> QED
    BY <2>1, <2>2
<1>6. Arrives => recv_state = StopState
  BY DEF Arrives
<1> QED
  BY <1>1, <1>2, <1>3, <1>4, <1>5, <1>6

\* Where the receiver goes.
LEMMA SettledReceiver ==
  ASSUME UartInv, NEW resetn \in BOOLEAN, NEW far_resetn \in BOOLEAN,
         NEW access \in AccessesNow(resetn),
         NEW far_access \in IF far_resetn THEN FarAccesses ELSE {Idle},
         Edge(resetn, far_resetn, access, far_access), unsettled = 0, unsettled' = 0
  PROVE  /\ recv_state = 0 => /\ recv_state' = IF in_flight = <<>> THEN 0 ELSE 1
                              /\ recv_divcnt' = 0 /\ ~Arrives
         /\ recv_state = 1 =>
              /\ ~Arrives
              /\ IF recv_divcnt + 1 >= SampledAt
                 THEN recv_state' = 2 /\ recv_divcnt' = 0
                 ELSE recv_state' = 1 /\ recv_divcnt' = recv_divcnt + 1
         /\ recv_state \in 2 .. StopState - 1 =>
              /\ ~Arrives
              /\ IF recv_divcnt > cfg_divider
                 THEN /\ recv_state' = recv_state + 1 /\ recv_divcnt' = 0
                      /\ recv_pattern' = Shifted(recv_pattern, ser_rx, BITS)
                 ELSE /\ recv_state' = recv_state /\ recv_divcnt' = recv_divcnt + 1
                      /\ recv_pattern' = recv_pattern
         /\ recv_state = StopState =>
              IF recv_divcnt > cfg_divider
              THEN Arrives /\ recv_state' = 0
              ELSE /\ ~Arrives /\ recv_state' = StopState /\ recv_divcnt' = recv_divcnt + 1
                   /\ recv_pattern' = recv_pattern
<1>1. Receives(far_access) /\ cfg_divider = far_divider
  BY SettledEdge DEF Edge
<1>2. /\ StopState \in Nat /\ StopState >= 3 /\ recv_state \in Nat /\ recv_divcnt \in Nat
      /\ cfg_divider \in Nat \ {0}
  BY Widths DEF UartInv, TypeOK
<1>3. ASSUME recv_state = 0
      PROVE  /\ recv_state' = IF in_flight = <<>> THEN 0 ELSE 1
             /\ recv_divcnt' = 0 /\ ~Arrives
  BY <1>1, <1>2, <1>3, LineLevel DEF Receives, Arrives
<1>4. ASSUME recv_state = 1
      PROVE  /\ ~Arrives
             /\ IF recv_divcnt + 1 >= SampledAt
                THEN recv_state' = 2 /\ recv_divcnt' = 0
                ELSE recv_state' = 1 /\ recv_divcnt' = recv_divcnt + 1
  <2>1. ~Arrives
    BY <1>2, <1>4 DEF Arrives
  <2>2. StartOver <=> recv_divcnt + 1 >= SampledAt
    BY <1>1, <1>2, Sampling DEF StartOver, SampledAt
  <2>3. ReceiveStep(StartOver, 2)
    BY <1>1, <1>2, <1>4 DEF Receives
  <2> QED
    BY <1>4, <2>1, <2>2, <2>3 DEF ReceiveStep
<1>5. ASSUME recv_state \in 2 .. StopState - 1
      PROVE  /\ ~Arrives
             /\ IF recv_divcnt > cfg_divider
                THEN /\ recv_state' = recv_state + 1 /\ recv_divcnt' = 0
                     /\ recv_pattern' = Shifted(recv_pattern, ser_rx, BITS)
                ELSE /\ recv_state' = recv_state /\ recv_divcnt' = recv_divcnt + 1
                     /\ recv_pattern' = recv_pattern
  <2>1. ~Arrives
    BY <1>2, <1>5 DEF Arrives
  <2>2. /\ ReceiveStep(recv_divcnt > cfg_divider, recv_state + 1)
        /\ recv_pattern' = IF recv_state' > recv_state THEN Shifted(recv_pattern, ser_rx, BITS)
                                                       ELSE recv_pattern
    BY <1>1, <1>2, <1>5 DEF Receives, BitOver
  <2> QED
    BY <1>2, <2>1, <2>2 DEF ReceiveStep
<1>6. ASSUME recv_state = StopState
      PROVE  IF recv_divcnt > cfg_divider
             THEN Arrives /\ recv_state' = 0
             ELSE /\ ~Arrives /\ recv_state' = StopState /\ recv_divcnt' = recv_divcnt + 1
                  /\ recv_pattern' = recv_pattern
  <2>1. Arrives <=> recv_divcnt > cfg_divider
    BY <1>1, <1>6 DEF Arrives, BitOver
  <2> QED
    BY <1>1, <1>2, <1>6, <2>1 DEF Receives
<1> QED
  BY <1>3, <1>4, <1>5, <1>6

LEMMA PhaseKept ==
  ASSUME UartInv, NEW resetn \in BOOLEAN, NEW far_resetn \in BOOLEAN,
         NEW access \in AccessesNow(resetn),
         NEW far_access \in IF far_resetn THEN FarAccesses ELSE {Idle},
         Edge(resetn, far_resetn, access, far_access), unsettled = 0, unsettled' = 0
  PROVE  PhaseInv'
<1> DEFINE P == SampledAt
<1>a. PICK sb \in Nat, sd \in Nat, rs \in Nat, rd \in Nat :
        send_bitcnt' = sb /\ send_divcnt' = sd /\ recv_state' = rs /\ recv_divcnt' = rd
  <2>1. send_bitcnt' \in Nat /\ send_divcnt' \in Nat /\ recv_state' \in Nat /\ recv_divcnt' \in Nat
    <3>1. /\ \A n \in 0 .. DummyBits : n \in Nat
          /\ \A n \in 0 .. StopState : n \in Nat
      BY Widths
    <3> QED
      BY <3>1, SenderTypes, ReceiverTypes DEF UartInv, Edge
  <2> QED
    BY <2>1
<1>b. sb \in Nat /\ sd \in Nat /\ rs \in Nat /\ rd \in Nat
  BY <1>a
<1> DEFINE follows ==
             /\ sd <= cfg_divider + 1
             /\ sb = 0 => frame' = None /\ rs = 0 /\ in_flight' = <<>>
             /\ sb > 0 =>
                  /\ frame' = "byte" /\ sb <= FrameBits
                  /\ rs = 0 /\ in_flight' = <<>> =>
                       FrameBits - sb = BITS + 1 /\ sd > P
                  /\ rs = 0 /\ in_flight' # <<>> => sb = FrameBits /\ sd = 0
                  /\ rs # 0 => in_flight' # <<>>
                  /\ rs = 1 =>
                       /\ sb = FrameBits /\ rd = sd - 1
                       /\ sd <= P
                  /\ rs > 1 =>
                       \/ /\ sd > P /\ FrameBits - sb = rs - 2
                          /\ rd = sd - P - 1
                       \/ /\ sd <= P /\ FrameBits - sb = rs - 1
                          /\ rd = sd + cfg_divider + 1 - P
<1>1. /\ cfg_divider' = cfg_divider /\ far_divider' = far_divider /\ cfg_divider = far_divider
      /\ ~send_dummy'
  BY SettledEdge
<1>2. /\ BITS \in Nat \ {0} /\ FrameBits = BITS + 2 /\ StopState = BITS + 2
      /\ recv_state \in Nat /\ recv_state <= StopState /\ recv_divcnt \in Nat
      /\ cfg_divider \in Nat \ {0}
      /\ send_bitcnt \in Nat /\ send_divcnt \in Nat
  BY Widths DEF UartInv, TypeOK
<1>3. P \in Nat /\ 2 <= P /\ P <= cfg_divider + 1
  BY <1>1, <1>2, Sampling DEF SampledAt
<1>4. SampledAt' = P
  BY <1>1 DEF SampledAt
<1> SUFFICES follows
  BY <1>1, <1>4, <1>a DEF PhaseInv, Shifted_out
<1>5. /\ send_divcnt <= cfg_divider + 1
      /\ send_bitcnt = 0 => frame = None /\ recv_state = 0 /\ in_flight = <<>>
      /\ send_bitcnt > 0 =>
           /\ frame = "byte" /\ send_bitcnt <= FrameBits
           /\ recv_state = 0 /\ in_flight = <<>> =>
                FrameBits - send_bitcnt = BITS + 1 /\ send_divcnt > P
           /\ recv_state = 0 /\ in_flight # <<>> => send_bitcnt = FrameBits /\ send_divcnt = 0
           /\ recv_state # 0 => in_flight # <<>>
           /\ recv_state = 1 =>
                /\ send_bitcnt = FrameBits /\ recv_divcnt = send_divcnt - 1
                /\ send_divcnt <= P
           /\ recv_state > 1 =>
                \/ /\ send_divcnt > P /\ FrameBits - send_bitcnt = recv_state - 2
                   /\ recv_divcnt = send_divcnt - P - 1
                \/ /\ send_divcnt <= P /\ FrameBits - send_bitcnt = recv_state - 1
                   /\ recv_divcnt = send_divcnt + cfg_divider + 1 - P
  BY <1>2 DEF UartInv, PhaseInv, Shifted_out
<1> HIDE DEF P
<1>6. \A byte : <<byte>> # <<>>
  OBVIOUS
<1>7. CASE recv_state = 0 /\ in_flight = <<>>
  <2>1. rs = 0 /\ ~Arrives
    BY <1>7, SettledReceiver, <1>a
  <2>2. CASE send_bitcnt = 0 /\ SendsByte(access)
    <3>1. in_flight' = <<access.value>> /\ in_flight' # <<>>
      BY <1>6, <2>2, SettledFlight
    <3>2. sb = FrameBits /\ sd = 0 /\ frame' = "byte"
      BY <1>2, <2>2, SettledSender, <1>a
    <3> QED
      BY <1>b, <1>2, <1>3, <2>1, <3>1, <3>2
  <2>3. CASE send_bitcnt = 0 /\ ~SendsByte(access)
    <3>1. in_flight' = <<>>
      BY <1>7, <2>1, <2>3, SettledFlight
    <3>2. sb = 0 /\ sd = 0 /\ frame' = None
      BY <1>2, <1>5, <2>3, SettledSender, <1>a
    <3> QED
      BY <1>b, <1>2, <1>3, <2>1, <3>1, <3>2
  <2>4. CASE send_bitcnt > 0
    <3>1. send_bitcnt = 1 /\ send_divcnt > P /\ frame = "byte"
      BY <1>2, <1>5, <1>7, <2>4
    <3>2. in_flight' = <<>>
      BY <1>7, <2>1, <2>4, SettledFlight, SettledSender, <1>a
    <3>3. CASE send_divcnt = cfg_divider + 1
      <4>1. sb = 0 /\ sd = 0 /\ frame' = None
        BY <1>2, <3>1, <3>3, SettledSender, <1>a
      <4> QED
        BY <1>b, <1>2, <1>3, <2>1, <3>2, <4>1
    <3>4. CASE send_divcnt # cfg_divider + 1
      <4>1. sb = 1 /\ sd = send_divcnt + 1 /\ frame' = "byte"
            /\ send_divcnt <= cfg_divider
        BY <1>2, <3>1, <3>4, SettledSender, <1>a
      <4> QED
        BY <1>b, <1>2, <1>3, <2>1, <3>1, <3>2, <4>1
    <3> QED
      BY <3>3, <3>4
  <2> QED
    BY <1>2, <2>2, <2>3, <2>4
<1>8. CASE recv_state = 0 /\ in_flight # <<>>
  <2>1. rs = 1 /\ rd = 0 /\ ~Arrives
    BY <1>8, SettledReceiver, <1>a
  <2>2. send_bitcnt = FrameBits /\ send_divcnt = 0 /\ frame = "byte"
    BY <1>2, <1>5, <1>8
  <2>3. sb = FrameBits /\ sd = 1 /\ frame' = "byte" /\ ~SendsByte(access)
    BY <1>2, <2>2, SettledSender, <1>a
  <2>4. in_flight' # <<>>
    BY <1>8, <2>1, <2>3, SettledFlight
  <2> QED
    BY <1>b, <1>2, <1>3, <2>1, <2>3, <2>4
<1>9. ASSUME recv_state > 0
      PROVE  /\ send_bitcnt > 0 /\ frame = "byte" /\ ~SendsByte(access)
             /\ ~Arrives => in_flight' # <<>>
             /\ Arrives => in_flight' = <<>>
  <2>1. send_bitcnt > 0 /\ frame = "byte" /\ in_flight # <<>>
    BY <1>2, <1>5, <1>9
  <2>2. ~SendsByte(access)
    BY <1>2, <2>1, SettledSender, <1>a
  <2> QED
    BY <2>1, <2>2, SettledFlight
<1>10. ASSUME send_bitcnt > 1
       PROVE  /\ sb > 0 /\ frame' = frame
              /\ \/ send_divcnt = cfg_divider + 1 /\ sb = send_bitcnt - 1 /\ sd = 0
                 \/ /\ send_divcnt <= cfg_divider
                    /\ sb = send_bitcnt /\ sd = send_divcnt + 1
  BY <1>2, <1>10, SettledSender, <1>a
<1>11. CASE recv_state = 1
  <2>1. send_bitcnt = FrameBits /\ recv_divcnt = send_divcnt - 1 /\ send_divcnt <= P /\ ~Arrives
    BY <1>2, <1>5, <1>9, <1>11, SettledReceiver, <1>a
  <2>2. frame' = "byte" /\ in_flight' # <<>> /\ send_bitcnt > 1
    BY <1>2, <1>9, <1>10, <1>11, <2>1
  <2>3. CASE recv_divcnt + 1 >= P
    <3>1. rs = 2 /\ rd = 0 /\ send_divcnt = P
      BY <1>2, <1>3, <1>11, <2>1, <2>3, SettledReceiver, <1>a DEF P
    <3> QED
      BY <1>b, <1>2, <1>3, <1>10, <2>1, <2>2, <3>1
  <2>4. CASE ~(recv_divcnt + 1 >= P)
    <3>1. rs = 1 /\ rd = recv_divcnt + 1 /\ send_divcnt < P
      BY <1>2, <1>3, <1>11, <2>1, <2>4, SettledReceiver, <1>a DEF P
    <3> QED
      BY <1>b, <1>2, <1>3, <1>10, <2>1, <2>2, <3>1
  <2> QED
    BY <2>3, <2>4
<1>12. CASE recv_state > 1
  <2>0. recv_state > 0
    BY <1>2, <1>12
  <2>1. send_bitcnt > 0 /\ FrameBits - send_bitcnt <= recv_state - 1
    BY <1>2, <1>5, <1>9, <1>12
  <2>2. \/ /\ send_divcnt > P /\ FrameBits - send_bitcnt = recv_state - 2
           /\ recv_divcnt = send_divcnt - P - 1
        \/ /\ send_divcnt <= P /\ FrameBits - send_bitcnt = recv_state - 1
           /\ recv_divcnt = send_divcnt + cfg_divider + 1 - P
    BY <1>5, <1>12, <2>1
  <2>3. CASE ~(recv_divcnt > cfg_divider)
    <3>1. rs = recv_state /\ rd = recv_divcnt + 1 /\ ~Arrives
      BY <1>2, <1>12, <2>3, SettledReceiver, <1>a
    <3>2. in_flight' # <<>> /\ frame = "byte"
      BY <1>9, <2>0, <3>1
    <3>3. CASE send_divcnt > P
      <4>1. send_bitcnt > 1 /\ FrameBits - send_bitcnt = recv_state - 2
            /\ recv_divcnt = send_divcnt - P - 1
        BY <1>2, <1>3, <2>2, <3>3
      <4> QED
        BY <1>b, <1>2, <1>3, <1>10, <1>12, <3>1, <3>2, <3>3, <4>1
    <3>4. CASE ~(send_divcnt > P)
      <4>1. send_divcnt < P /\ FrameBits - send_bitcnt = recv_state - 1
            /\ recv_divcnt = send_divcnt + cfg_divider + 1 - P
        BY <1>2, <1>3, <2>2, <2>3, <3>4
      <4>2. send_bitcnt # 0 /\ send_divcnt <= cfg_divider /\ send_divcnt # cfg_divider + 1
        BY <1>2, <1>3, <2>1, <4>1
      <4>3. sb = send_bitcnt /\ sd = send_divcnt + 1 /\ frame' = "byte"
        BY <3>2, <4>2, SettledSender, <1>a
      <4> QED
        BY <1>b, <1>2, <1>3, <1>12, <2>1, <3>1, <3>2, <4>1, <4>3
    <3> QED
      BY <3>3, <3>4
  <2>4. CASE recv_divcnt > cfg_divider
    <3>1. send_divcnt = P /\ FrameBits - send_bitcnt = recv_state - 1
      BY <1>2, <1>3, <1>5, <2>2, <2>4
    <3>2. CASE recv_state # StopState
      <4>1. rs = recv_state + 1 /\ rd = 0 /\ ~Arrives
        BY <1>2, <1>12, <2>4, <3>2, SettledReceiver, <1>a
      <4>2. in_flight' # <<>> /\ frame = "byte"
        BY <1>9, <2>0, <4>1
      <4>3. send_bitcnt > 1
        BY <1>2, <3>1, <3>2
      <4> QED
        BY <1>b, <1>2, <1>3, <1>10, <1>12, <3>1, <3>2, <4>1, <4>2, <4>3
    <3>3. CASE recv_state = StopState
      <4>1. rs = 0 /\ Arrives
        BY <2>4, <3>3, SettledReceiver, <1>a
      <4>2. in_flight' = <<>> /\ frame = "byte" /\ send_bitcnt = 1
        BY <1>2, <1>9, <1>12, <3>1, <3>3, <4>1
      <4>3. CASE P = cfg_divider + 1
        <5>1. sb = 0 /\ sd = 0 /\ frame' = None
          BY <1>2, <3>1, <4>2, <4>3, SettledSender, <1>a
        <5> QED
          BY <1>b, <1>2, <1>3, <4>1, <4>2, <5>1
      <4>4. CASE P # cfg_divider + 1
        <5>1. sb = 1 /\ sd = P + 1 /\ frame' = "byte"
          BY <1>2, <3>1, <4>2, <4>4, SettledSender, <1>a
        <5> QED
          BY <1>b, <1>2, <1>3, <4>1, <4>2, <4>4, <5>1
      <4> QED
        BY <4>3, <4>4
    <3> QED
      BY <3>2, <3>3
  <2> QED
    BY <2>3, <2>4
<1> QED
  BY <1>2, <1>7, <1>8, <1>11, <1>12

\* What is left in the sender, and what is on its way.
LEMMA SettledShift ==
  ASSUME UartInv, NEW resetn \in BOOLEAN, NEW far_resetn \in BOOLEAN,
         NEW access \in AccessesNow(resetn),
         NEW far_access \in IF far_resetn THEN FarAccesses ELSE {Idle},
         Edge(resetn, far_resetn, access, far_access), unsettled = 0, unsettled' = 0
  PROVE  /\ Shifted_out \in Nat
         /\ \/ /\ Shifted_out' = 0 /\ send_pattern' = Framed(access.value)
               /\ in_flight' = <<access.value>> /\ recv_state = 0
            \/ /\ Shifted_out' = Shifted_out /\ send_pattern' = send_pattern
               /\ in_flight' = in_flight \/ in_flight' = <<>>
            \/ /\ Shifted_out' = Shifted_out + 1
               /\ send_pattern' = Shifted(send_pattern, 1, FrameBits)
               /\ in_flight' = in_flight \/ in_flight' = <<>>
<1>1. BITS \in Nat /\ FrameBits = BITS + 2 /\ send_bitcnt \in Nat
  BY Widths DEF UartInv, TypeOK
<1>2. Shifted_out \in Nat
  BY <1>1 DEF UartInv, PhaseInv, Shifted_out
<1>3. CASE SendsByte(access)
  <2>1. send_bitcnt' = FrameBits /\ send_pattern' = Framed(access.value)
    BY <1>3, SettledSender
  <2>2. FrameBits - FrameBits = 0
    BY <1>1
  <2> QED
    BY <1>2, <1>3, <2>1, <2>2, SettledFlight DEF Shifted_out
<1>4. CASE ~SendsByte(access)
  <2>1. in_flight' = in_flight \/ in_flight' = <<>>
    BY <1>4, SettledFlight
  <2>2. \/ send_bitcnt' = send_bitcnt /\ send_pattern' = send_pattern
        \/ send_bitcnt' = send_bitcnt - 1 /\ send_pattern' = Shifted(send_pattern, 1, FrameBits)
    BY <1>4, SettledSender
  <2>3. FrameBits - (send_bitcnt - 1) = Shifted_out + 1
    BY <1>1 DEF Shifted_out
  <2>4. \/ Shifted_out' = Shifted_out /\ send_pattern' = send_pattern
        \/ /\ Shifted_out' = Shifted_out + 1
           /\ send_pattern' = Shifted(send_pattern, 1, FrameBits)
    BY <2>2, <2>3, Zenon DEF Shifted_out
  <2> QED
    BY <1>2, <2>1, <2>4
<1> QED
  BY <1>3, <1>4

\* The bit that the receiver samples is the one whose turn it is.
LEMMA SampledBit ==
  ASSUME UartInv, unsettled = 0, recv_state \in 2 .. StopState - 1, recv_divcnt > cfg_divider
  PROVE  in_flight # <<>> /\ ser_rx = Head(in_flight)[recv_state - 2]
<1>1. /\ BITS \in Nat \ {0} /\ StopState = BITS + 2 /\ send_divcnt \in Nat
      /\ cfg_divider \in Nat \ {0} /\ cfg_divider = far_divider
      /\ send_bitcnt \in Nat /\ 0 \in Frame /\ send_divcnt <= cfg_divider + 1
  BY Widths DEF UartInv, TypeOK, PhaseInv
<1>2. SampledAt \in Nat /\ 2 <= SampledAt
  BY <1>1, Sampling DEF SampledAt
<1>3. in_flight # <<>> /\ send_bitcnt > 0
  BY <1>1 DEF UartInv, PhaseInv
<1>4. Shifted_out = recv_state - 1
  <2>1. \/ send_divcnt > SampledAt /\ recv_divcnt = send_divcnt - SampledAt - 1
        \/ Shifted_out = recv_state - 1
    BY <1>1, <1>3 DEF UartInv, PhaseInv
  <2> QED
    BY <1>1, <1>2, <2>1
<1>5. 0 + Shifted_out = recv_state - 1 /\ 0 + Shifted_out <= BITS
  BY <1>1, <1>4
<1>6. send_pattern[0] = Framed(Head(in_flight))[0 + Shifted_out]
  BY <1>1, <1>3, <1>5 DEF UartInv, BitsInv
<1>7. Framed(Head(in_flight))[recv_state - 1] = Head(in_flight)[(recv_state - 1) - 1]
  <2>1. recv_state - 1 \in 1 .. BITS
    BY <1>1
  <2> QED
    BY <2>1, FramedBits
<1>8. (recv_state - 1) - 1 = recv_state - 2
  BY <1>1
<1> QED
  BY <1>3, <1>5, <1>6, <1>7, <1>8 DEF ser_rx, ser_tx

\* The byte that arrives is the one that was sent.
LEMMA ArrivedByte ==
  ASSUME UartInv, unsettled = 0, recv_state = StopState
  PROVE  in_flight # <<>> /\ Head(in_flight) \in Bytes /\ recv_pattern = Head(in_flight)
<1>1. BITS \in Nat \ {0} /\ StopState = BITS + 2 /\ Byte = 0 .. BITS - 1
  BY Widths
<1>2. in_flight # <<>>
  BY <1>1, Widths DEF UartInv, TypeOK, PhaseInv
<1>3. Head(in_flight) \in Bytes /\ recv_pattern \in Bytes
  <2>1. PICK byte \in Bytes : in_flight = <<byte>>
    BY <1>2 DEF UartInv, TypeOK
  <2>2. Head(<<byte>>) = byte
    OBVIOUS
  <2> QED
    BY <2>1, <2>2 DEF UartInv, TypeOK
<1>4. \A n \in Byte : n >= BITS + 2 - StopState =>
        recv_pattern[n] = Head(in_flight)[n + StopState - 2 - BITS]
  BY <1>1, <1>2 DEF UartInv, BitsInv
<1>5. ASSUME NEW n \in Byte PROVE recv_pattern[n] = Head(in_flight)[n]
  <2>1. n >= BITS + 2 - StopState /\ n + StopState - 2 - BITS = n
    BY <1>1
  <2> QED
    BY <1>4, <2>1
<1> QED
  BY <1>2, <1>3, <1>5 DEF Bytes

LEMMA BitsKept ==
  ASSUME UartInv, NEW resetn \in BOOLEAN, NEW far_resetn \in BOOLEAN,
         NEW access \in AccessesNow(resetn),
         NEW far_access \in IF far_resetn THEN FarAccesses ELSE {Idle},
         Edge(resetn, far_resetn, access, far_access), unsettled = 0, unsettled' = 0
  PROVE  BitsInv'
<1>1. /\ BITS \in Nat \ {0} /\ FrameBits = BITS + 2 /\ StopState = BITS + 2
      /\ Frame = 0 .. BITS + 1 /\ Byte = 0 .. BITS - 1
      /\ Shifted_out \in Nat /\ recv_state \in 0 .. StopState
  BY Widths, SettledShift DEF UartInv, TypeOK
<1>2. \A n \in Frame : n + Shifted_out > BITS => send_pattern[n] = 1
  BY DEF UartInv, BitsInv
<1>3. ASSUME NEW n \in Frame, n + Shifted_out' > BITS PROVE send_pattern'[n] = 1
  <2>1. CASE Shifted_out' = 0 /\ send_pattern' = Framed(access.value)
    <3>1. n + 0 > BITS
      BY <1>3, <2>1
    <3>2. n = BITS + 1
      BY <1>1, <3>1
    <3> QED
      BY <2>1, <3>2, FramedBits
  <2>2. CASE Shifted_out' = Shifted_out /\ send_pattern' = send_pattern
    BY <1>2, <1>3, <2>2
  <2>3. CASE /\ Shifted_out' = Shifted_out + 1
             /\ send_pattern' = Shifted(send_pattern, 1, FrameBits)
    <3>1. n + (Shifted_out + 1) > BITS
      BY <1>3, <2>3
    <3>2. (n + 1) + Shifted_out > BITS /\ (n # FrameBits - 1 => n + 1 \in Frame)
      BY <1>1, <3>1
    <3>3. n \in 0 .. FrameBits - 1
      BY <1>1
    <3>4. Shifted(send_pattern, 1, FrameBits)[n] = IF n = FrameBits - 1 THEN 1 ELSE send_pattern[n + 1]
      BY <3>3 DEF Shifted
    <3> QED
      BY <1>2, <2>3, <3>2, <3>4
  <2> QED
    BY <2>1, <2>2, <2>3, SettledShift
<1>4. ASSUME in_flight' # <<>>, NEW n \in Frame, n + Shifted_out' <= BITS
      PROVE  send_pattern'[n] = Framed(Head(in_flight'))[n + Shifted_out']
  <2>1. CASE Shifted_out' = 0 /\ send_pattern' = Framed(access.value) /\ in_flight' = <<access.value>>
    <3>1. n + 0 = n /\ Head(<<access.value>>) = access.value
      BY <1>1
    <3> QED
      BY <2>1, <3>1
  <2>2. CASE Shifted_out' = Shifted_out /\ send_pattern' = send_pattern /\ in_flight' = in_flight
    BY <1>4, <2>2 DEF UartInv, BitsInv
  <2>3. CASE /\ Shifted_out' = Shifted_out + 1 /\ in_flight' = in_flight
             /\ send_pattern' = Shifted(send_pattern, 1, FrameBits)
    <3>1. n + (Shifted_out + 1) <= BITS
      BY <1>4, <2>3
    <3>2. /\ (n + 1) + Shifted_out <= BITS /\ n # FrameBits - 1 /\ n + 1 \in Frame
          /\ (n + 1) + Shifted_out = n + (Shifted_out + 1) /\ n \in 0 .. FrameBits - 1
      BY <1>1, <3>1
    <3>3. Shifted(send_pattern, 1, FrameBits)[n] = send_pattern[n + 1]
      BY <3>2 DEF Shifted
    <3>4. send_pattern[n + 1] = Framed(Head(in_flight))[(n + 1) + Shifted_out]
      BY <1>4, <2>3, <3>2 DEF UartInv, BitsInv
    <3> QED
      BY <2>3, <3>2, <3>3, <3>4
  <2> QED
    BY <1>4, <2>1, <2>2, <2>3, SettledShift
<1>5. ASSUME in_flight' # <<>>, recv_state' > 1, NEW n \in Byte, n >= BITS + 2 - recv_state'
      PROVE  recv_pattern'[n] = Head(in_flight')[n + recv_state' - 2 - BITS]
  <2>1. ~(recv_state = 0) /\ (recv_state = 1 => FALSE)
    <3>1. CASE recv_state = 0
      <4>1. recv_state' = 0 \/ recv_state' = 1
        BY <3>1, SettledReceiver
      <4> QED
        BY <1>5, <4>1
    <3>2. CASE recv_state = 1
      <4>1. recv_state' = 1 \/ recv_state' = 2
        BY <3>2, SettledReceiver
      <4>2. CASE recv_state' = 2
        <5>1. n >= BITS + 2 - 2
          BY <1>5, <4>2
        <5> QED
          BY <1>1, <5>1
      <4> QED
        BY <1>5, <4>1, <4>2
    <3> QED
      BY <3>1, <3>2
  <2>2. in_flight' = in_flight
    BY <1>1, <1>5, <2>1, SettledShift
  <2>3. CASE recv_state' = recv_state /\ recv_pattern' = recv_pattern
    BY <1>5, <2>2, <2>3 DEF UartInv, BitsInv
  <2>4. CASE /\ recv_state \in 2 .. StopState - 1 /\ recv_divcnt > cfg_divider
             /\ recv_state' = recv_state + 1
             /\ recv_pattern' = Shifted(recv_pattern, ser_rx, BITS)
    <3>1. n >= BITS + 2 - (recv_state + 1)
      BY <1>5, <2>4
    <3>2. Shifted(recv_pattern, ser_rx, BITS)[n] = IF n = BITS - 1 THEN ser_rx ELSE recv_pattern[n + 1]
      BY <1>1 DEF Shifted
    <3>3. CASE n = BITS - 1
      <4>1. n + (recv_state + 1) - 2 - BITS = recv_state - 2
        BY <1>1, <3>3
      <4> QED
        BY <2>2, <2>4, <3>2, <3>3, <4>1, SampledBit
    <3>4. CASE n # BITS - 1
      <4>1. /\ n + 1 \in Byte /\ n + 1 >= BITS + 2 - recv_state
            /\ (n + 1) + recv_state - 2 - BITS = n + (recv_state + 1) - 2 - BITS
            /\ recv_state > 1
        BY <1>1, <2>4, <3>1, <3>4
      <4>2. recv_pattern[n + 1] = Head(in_flight)[(n + 1) + recv_state - 2 - BITS]
        BY <1>5, <2>2, <4>1 DEF UartInv, BitsInv
      <4> QED
        BY <2>2, <2>4, <3>2, <3>4, <4>1, <4>2
    <3> QED
      BY <3>3, <3>4
  <2>5. CASE Arrives
    BY <1>5, <2>5, SettledFlight
  <2> QED
    <3>1. recv_state \in 2 .. StopState - 1 \/ recv_state = StopState
      BY <1>1, <2>1
    <3> QED
      BY <2>3, <2>4, <2>5, <3>1, SettledReceiver
<1> QED
  BY <1>3, <1>4, <1>5 DEF BitsInv

LEMMA ReadsKept ==
  ASSUME UartInv, NEW resetn \in BOOLEAN, NEW far_resetn \in BOOLEAN,
         NEW access \in AccessesNow(resetn),
         NEW far_access \in IF far_resetn THEN FarAccesses ELSE {Idle},
         Edge(resetn, far_resetn, access, far_access)
  PROVE  ReadsWhatWasSent'
<1> SUFFICES ASSUME unsettled' = 0
             PROVE  unread' = IF recv_buf_valid' THEN recv_buf_data' ELSE None
  BY DEF ReadsWhatWasSent
<1>1. Receives(far_access)
  BY SettledEdge DEF Edge
<1>2. CASE unsettled # 0
  BY <1>2 DEF Edge, History
<1>3. CASE unsettled = 0 /\ Arrives
  <2>1. recv_state = StopState
    BY <1>3 DEF Arrives
  <2>2. in_flight # <<>> /\ recv_pattern = Head(in_flight)
    BY <1>3, <2>1, ArrivedByte
  <2>3. recv_buf_valid' /\ recv_buf_data' = recv_pattern
    BY <1>1, <1>3 DEF Receives, BufferValid
  <2>4. unread' = Head(in_flight)
    BY <1>3, <2>2 DEF Edge, History
  <2> QED
    BY <2>2, <2>3, <2>4
<1>4. CASE unsettled = 0 /\ ~Arrives
  <2>1. recv_buf_data' = recv_buf_data /\ recv_buf_valid' = BufferValid(far_access)
    BY <1>1, <1>4 DEF Receives
  <2>2. recv_buf_valid' <=> (recv_buf_valid /\ ~reg_dat_re(far_access))
    BY <1>4, <2>1 DEF BufferValid
  <2>3. unread' = IF reg_dat_re(far_access) THEN None ELSE unread
    BY <1>4 DEF Edge, History
  <2>4. unread = IF recv_buf_valid THEN recv_buf_data ELSE None
    BY <1>4 DEF UartInv, ReadsWhatWasSent
  <2> QED
    BY <2>1, <2>2, <2>3, <2>4
<1> QED
  BY <1>2, <1>3, <1>4

------------------------------------------------------------------------------
(* The end of the dummy frame after a change of rate.                      *)

LEMMA Settles ==
  ASSUME UartInv, NEW resetn \in BOOLEAN, NEW far_resetn \in BOOLEAN,
         NEW access \in AccessesNow(resetn),
         NEW far_access \in IF far_resetn THEN FarAccesses ELSE {Idle},
         Edge(resetn, far_resetn, access, far_access), unsettled # 0, unsettled' = 0
  PROVE  PhaseInv' /\ BitsInv'
<1>1. /\ cfg_divider' = far_divider' /\ cfg_divider = far_divider /\ ~send_dummy /\ ~send_dummy'
      /\ unsettled = 1 /\ Shifts /\ send_bitcnt = 1 /\ frame' = None
      /\ Sends(access) /\ Receives(far_access)
  BY SettledEdge DEF Edge
<1>2. /\ BITS \in Nat \ {0} /\ DummyBits = BITS + 7 /\ FrameBits = BITS + 2 /\ StopState = BITS + 2
      /\ Frame = 0 .. BITS + 1 /\ recv_state \in 0 .. StopState
      /\ \A d \in Dividers : d \in Nat \ {0}
  BY Widths DEF UartInv, TypeOK
<1>3. send_pattern = AllOnes /\ recv_state = 0
  <2>1. /\ send_pattern = AllOnes
        /\ recv_state # 0 => \/ recv_state - 1 > DummyBits - 1
                             \/ recv_state - 1 = DummyBits - 1
    BY <1>1 DEF UartInv, SettlingInv
  <2> QED
    BY <1>2, <2>1
<1>4. ser_rx = 1
  BY <1>2, <1>3 DEF ser_rx, ser_tx, AllOnes
<1>5. recv_state' = 0
  BY <1>1, <1>2, <1>3, <1>4 DEF Receives
<1>6. send_bitcnt' = 0 /\ send_divcnt' = 0 /\ send_pattern' = Shifted(AllOnes, 1, FrameBits)
  BY <1>1, <1>3 DEF Sends, SendsDummy, SendsByte
<1>7. Shifted(AllOnes, 1, FrameBits) = AllOnes
  BY <1>2, Widths DEF Shifted, AllOnes
<1>8. in_flight' = <<>>
  BY <1>1 DEF Edge, History
<1>9. cfg_divider' \in Nat
  BY <1>2, SenderTypes DEF UartInv, Edge
<1>10. PhaseInv'
  <2>1. 0 <= cfg_divider' + 1
    <3>1. \A d \in Nat : 0 <= d + 1
      OBVIOUS
    <3> QED
      BY <1>9, <3>1
  <2>2. send_divcnt' <= cfg_divider' + 1
    BY <1>6, <2>1, Zenon
  <2>3. ~(0 > 0)
    OBVIOUS
  <2>4. ~(send_bitcnt' > 0)
    BY <1>6, <2>3
  <2> QED
    BY <1>1, <1>5, <1>8, <2>2, <2>4 DEF PhaseInv
<1>11. BitsInv'
  <2>1. \A n \in Frame : AllOnes[n] = 1
    BY DEF AllOnes
  <2> QED
    BY <1>6, <1>7, <1>8, <2>1 DEF BitsInv
<1> QED
  BY <1>10, <1>11

\* At most one byte is on its way.
LEMMA FlightType ==
  ASSUME UartInv, NEW resetn \in BOOLEAN, NEW far_resetn \in BOOLEAN,
         NEW access \in AccessesNow(resetn),
         NEW far_access \in IF far_resetn THEN FarAccesses ELSE {Idle},
         Edge(resetn, far_resetn, access, far_access)
  PROVE  in_flight' \in {<<>>} \cup {<<byte>> : byte \in Bytes}
<1>1. CASE unsettled = 0 /\ unsettled' = 0
  <2>1. CASE SendsByte(access)
    <3>1. access.value \in Bytes
      BY <2>1, AccessFacts DEF SendsByte, UartInv
    <3>2. in_flight' = <<access.value>>
      BY <1>1, <2>1, SettledFlight
    <3> QED
      BY <3>1, <3>2
  <2>2. CASE ~SendsByte(access)
    BY <1>1, <2>2, SettledFlight DEF UartInv, TypeOK
  <2> QED
    BY <2>1, <2>2
<1>2. CASE ~(unsettled = 0 /\ unsettled' = 0)
  BY <1>2 DEF Edge, History
<1> QED
  BY <1>1, <1>2

LEMMA HistoryTypes ==
  ASSUME UartInv, NEW resetn \in BOOLEAN, NEW far_resetn \in BOOLEAN,
         NEW access, NEW far_access, Edge(resetn, far_resetn, access, far_access)
  PROVE  frame' \in {"byte", "dummy", None} /\ unsettled' \in 0 .. 2
<1>1. frame \in {"byte", "dummy", None} /\ unsettled \in {0, 1, 2}
  BY DEF UartInv, TypeOK
<1>2. frame' \in {"byte", "dummy", None}
  BY <1>1 DEF Edge, History
<1>3. unsettled' \in {0, 1, 2}
  <2> DEFINE changes ==
        ~resetn \/ ~far_resetn \/ reg_div_we(access) \/ reg_div_we(far_access)
  <2>1. unsettled' = CASE resetn /\ SendsDummy /\ (changes \/ unsettled > 0) -> 1
                       [] ~(resetn /\ SendsDummy) /\ changes -> 2
                       [] frame = "dummy" /\ (Shifts /\ send_bitcnt = 1) /\ ~changes /\ unsettled = 1 ->
                            IF cfg_divider' = far_divider' THEN 0 ELSE 2
                       [] OTHER -> unsettled
    BY DEF Edge, History
  <2> HIDE DEF changes
  <2> QED
    BY <1>1, <2>1
<1>4. {0, 1, 2} = 0 .. 2
  OBVIOUS
<1> QED
  BY <1>2, <1>3, <1>4

LEMMA UartKept ==
  ASSUME UartInv, [Next]_vars
  PROVE  UartInv'
<1>1. ASSUME NEW resetn \in BOOLEAN, NEW far_resetn \in BOOLEAN,
             NEW access \in AccessesNow(resetn),
             NEW far_access \in IF far_resetn THEN FarAccesses ELSE {Idle},
             Edge(resetn, far_resetn, access, far_access)
      PROVE  UartInv'
  <2>1. TypeOK'
    BY <1>1, SenderTypes, ReceiverTypes, HistoryTypes, FlightType DEF UartInv, TypeOK, Edge
  <2>2. SettlingInv' /\ ReadsWhatWasSent'
    BY <1>1, SettlingKept, ReadsKept
  <2>3. PhaseInv' /\ BitsInv'
    <3>1. CASE unsettled' # 0
      BY <3>1 DEF PhaseInv, BitsInv
    <3>2. CASE unsettled' = 0 /\ unsettled = 0
      BY <1>1, <3>2, PhaseKept, BitsKept
    <3>3. CASE unsettled' = 0 /\ unsettled # 0
      BY <1>1, <3>3, Settles
    <3> QED
      BY <3>1, <3>2, <3>3
  <2> QED
    BY <2>1, <2>2, <2>3 DEF UartInv
<1>2. CASE Next
  BY <1>1, <1>2 DEF Next, Edge
<1>3. CASE UNCHANGED vars
  <2>1. TypeOK'
    BY <1>3 DEF UartInv, TypeOK, vars, receiver, sender, history
  <2>2. SettlingInv'
    BY <1>3 DEF UartInv, SettlingInv, vars, receiver, sender, history
  <2>3. PhaseInv' /\ BitsInv'
    BY <1>3 DEF UartInv, PhaseInv, BitsInv, SampledAt, Shifted_out, vars, receiver, sender, history
  <2>4. ReadsWhatWasSent'
    BY <1>3 DEF UartInv, ReadsWhatWasSent, vars, receiver, sender, history
  <2> QED
    BY <2>1, <2>2, <2>3, <2>4 DEF UartInv
<1> QED
  BY <1>2, <1>3

LEMMA UartInit == Init => UartInv
<1> SUFFICES ASSUME Init PROVE UartInv
  OBVIOUS
<1>1. TypeOK
  <2>1. 0 \in 0 .. StopState /\ 0 \in 0 .. DummyBits /\ 2 \in 0 .. 2 /\ 0 \in Nat
    BY Widths
  <2> QED
    BY <2>1, Widths, Patterns, Zenon DEF Init, TypeOK
<1>2. unsettled # 1 /\ unsettled # 0
  BY DEF Init
<1> QED
  BY <1>1, <1>2 DEF UartInv, SettlingInv, PhaseInv, BitsInv, ReadsWhatWasSent

\* The receiver is where the frame that is sent has brought it, in every state:
\* the invariant that the two theorems below rest on.
THEOREM UartInvariant == Spec => []UartInv
BY UartInit, UartKept, PTL DEF Spec

\* Whatever the rates and the width of a byte, and whenever either end is reset
\* or its rate changed: what a program reads is the byte sent last, once.
THEOREM ReadsAreRight == Spec => []ReadsWhatWasSent
<1>1. UartInv => ReadsWhatWasSent
  BY DEF UartInv
<1> QED
  BY <1>1, UartInvariant, PTL

\* Nothing arrives that was not sent, and a byte has arrived before the next is
\* sent, for every rate and width: the receiver is never a frame behind.
THEOREM FramesArrive == Spec => EachFrameArrives
<1>1. ASSUME UartInv, [Next]_vars, unsettled = 0, unsettled' = 0
      PROVE  /\ recv_state = StopState /\ recv_state' = 0 => in_flight # <<>>
             /\ frame # "byte" /\ frame' = "byte" => in_flight = <<>>
  <2>1. recv_state = StopState => in_flight # <<>>
    BY <1>1, ArrivedByte
  <2>2. frame # "byte" => in_flight = <<>>
    <3>1. send_bitcnt \in Nat
      BY <1>1, Widths DEF UartInv, TypeOK
    <3>2. CASE send_bitcnt = 0
      BY <1>1, <3>2 DEF UartInv, PhaseInv
    <3>3. CASE send_bitcnt > 0
      BY <1>1, <3>3 DEF UartInv, PhaseInv
    <3> QED
      BY <3>1, <3>2, <3>3
  <2> QED
    BY <2>1, <2>2
<1>2. UartInv /\ [Next]_vars =>
        [unsettled = 0 /\ unsettled' = 0 =>
           /\ recv_state = StopState /\ recv_state' = 0 => in_flight # <<>>
           /\ frame # "byte" /\ frame' = "byte" => in_flight = <<>>]_vars
  BY <1>1
<1> QED
  BY <1>2, UartInvariant, PTL DEF Spec, EachFrameArrives
==============================================================================
