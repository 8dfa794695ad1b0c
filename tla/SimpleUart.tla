------------------------------ MODULE SimpleUart ------------------------------
(***************************************************************************)
(* Two simpleuarts (picosoc/simpleuart.v): the sender of one and the       *)
(* receiver of the other, and the serial line between them, so that what   *)
(* arrives can be compared with what was sent.  Each end has its divider,  *)
(* set by its own program at any time.  A step is a clock edge.  Bytes     *)
(* have BITS bits (the hardware: 8), and frames are shortened with them.   *)
(***************************************************************************)
EXTENDS Integers, Sequences

CONSTANTS
  BITS,
  DIV_BITS,               \* the width of the divider register and of the counters
  DEFAULT_DIV, Dividers,  \* what the divider register is, and is set to
  None

\* With divider 0 the receiver samples each bit when it is over, so that the
\* two ends garble every byte even when their rates agree; with the two largest
\* ones twice the counter wraps around before it is past the divider.
ASSUME UartAssumption ==
  /\ BITS \in Nat \ {0} /\ DIV_BITS \in Nat
  /\ Dividers \subseteq 1 .. 2 ^ DIV_BITS - 3 /\ DEFAULT_DIV \in Dividers

\* A byte or a frame is a function from the numbers of its bits, 0 first on the line.
FrameBits == BITS + 2
Byte == 0 .. BITS - 1
Frame == 0 .. FrameBits - 1
Bytes == [Byte -> {0, 1}]
ASSUME NoneAssumption == None \notin Bytes \cup {"byte", "dummy"}

VARIABLES
  waiting,      \* the byte that the program is held up with, None if it is not
  cfg_divider, far_divider,
  recv_state, recv_divcnt, recv_pattern, recv_buf_data, recv_buf_valid,
  send_pattern, send_bitcnt, send_divcnt, send_dummy,
  \* The properties need to know:
  frame,        \* what is being sent: "byte", "dummy" or None
  in_flight,    \* bytes that were sent and have not arrived
  unread,       \* the last byte that arrived, None when it has been read
  unsettled     \* 2 after a change of rate, 1 in the dummy frame after it

receiver == <<recv_state, recv_divcnt, recv_pattern, recv_buf_data, recv_buf_valid>>
sender == <<send_pattern, send_bitcnt, send_divcnt, send_dummy>>
history == <<frame, in_flight, unread, unsettled>>
vars == <<waiting, cfg_divider, far_divider, receiver, sender, history>>

\* A frame is a start bit, a byte and a stop bit, or the line at rest for 5 bits longer.
\* Wrong variant: a dummy frame as short as a stop bit.
DummyShort == 2
DummyBits == BITS + 7
AllZeros == [n \in Byte |-> 0]
AllOnes == [n \in Frame |-> 1]
Framed(byte) ==
  [n \in Frame |-> CASE n = 0 -> 0 [] n = BITS + 1 -> 1 [] n \in 1 .. BITS -> byte[n - 1]]
StopState == BITS + 2
Shifted(pattern, bit, bits) ==
  [n \in 0 .. bits - 1 |-> IF n = bits - 1 THEN bit ELSE pattern[n + 1]]

Idle == [kind |-> "none", value |-> None]
DividerWrites == [kind : {"divider"}, value : Dividers]
Accesses == {Idle} \cup [kind : {"send"}, value : Bytes] \cup DividerWrites
FarAccesses == {Idle} \cup [kind : {"read"}, value : {None}] \cup DividerWrites

reg_div_we(access) == access.kind = "divider"
reg_dat_we(access) == access.kind = "send"
reg_dat_re(access) == access.kind = "read"
reg_dat_wait(access) == reg_dat_we(access) /\ (send_bitcnt > 0 \/ send_dummy)

ser_tx == send_pattern[0]
ser_rx == ser_tx

\* Any subset of the bytes of the register may be written: any value results.
DividerNext(divider, access) == IF reg_div_we(access) THEN access.value ELSE divider

------------------------------------------------------------------------------
(* The receiver.                                                           *)

BitOver(divcnt, divider) == divcnt > divider

\* Half a bit after the line has fallen.
StartOver == 2 * recv_divcnt > far_divider

Arrives == recv_state = StopState /\ BitOver(recv_divcnt, far_divider)

ReceiverReset ==
  /\ far_divider' = DEFAULT_DIV
  /\ recv_state' = 0 /\ recv_divcnt' = 0 /\ recv_pattern' = AllZeros
  /\ recv_buf_data' = AllZeros /\ recv_buf_valid' = FALSE

\* A read empties the buffer unless a byte arrives at the same edge.
\* Wrong variant: it does in any case.
BufferValidReadWins(access) == ~reg_dat_re(access) /\ (Arrives \/ recv_buf_valid)
BufferValid(access) == Arrives \/ (recv_buf_valid /\ ~reg_dat_re(access))

ReceiveStep(over, state) ==
  IF over THEN recv_state' = state /\ recv_divcnt' = 0
          ELSE recv_state' = recv_state /\ recv_divcnt' = recv_divcnt + 1

\* recv_divcnt runs on after the stop bit, until the next edge clears it.
Receives(access) ==
  /\ \/ recv_state = 0 /\ recv_state' = 1 - ser_rx /\ recv_divcnt' = 0 /\ UNCHANGED recv_pattern
     \/ recv_state = 1 /\ ReceiveStep(StartOver, 2) /\ UNCHANGED recv_pattern
     \/ /\ recv_state \in 2 .. StopState - 1
        /\ ReceiveStep(BitOver(recv_divcnt, far_divider), recv_state + 1)
        /\ recv_pattern' = IF recv_state' > recv_state THEN Shifted(recv_pattern, ser_rx, BITS)
                                                      ELSE recv_pattern
     \/ /\ recv_state = StopState
        /\ recv_state' = IF Arrives THEN 0 ELSE StopState
        /\ recv_divcnt' = recv_divcnt + 1 /\ UNCHANGED recv_pattern
  /\ recv_buf_data' = IF Arrives THEN recv_pattern ELSE recv_buf_data
  /\ recv_buf_valid' = BufferValid(access)
  /\ far_divider' = DividerNext(far_divider, access)

------------------------------------------------------------------------------
(* The sender.                                                             *)

SendsDummy == send_dummy /\ send_bitcnt = 0
SendsByte(access) == ~send_dummy /\ send_bitcnt = 0 /\ reg_dat_we(access)
Shifts == send_bitcnt > 0 /\ BitOver(send_divcnt, cfg_divider)

\* A new divider asks for a dummy frame.
DummyNext(access) == send_dummy \/ reg_div_we(access)

\* Wrong variant: the request for it stays.
DummyKept == send_dummy
DummyBegun == FALSE

\* The counter wraps around while there is nothing to send; it is cleared
\* before it matters.
CountOn == IF send_bitcnt = 0 THEN 0 ELSE send_divcnt + 1

SenderReset ==
  /\ waiting' = None /\ cfg_divider' = DEFAULT_DIV
  /\ send_pattern' = AllOnes /\ send_bitcnt' = 0 /\ send_divcnt' = 0 /\ send_dummy' = TRUE

Sends(access) ==
  /\ \/ /\ SendsDummy
        /\ send_pattern' = AllOnes /\ send_bitcnt' = DummyBits /\ send_divcnt' = 0
        /\ send_dummy' = DummyBegun
     \/ /\ SendsByte(access)
        /\ send_pattern' = Framed(access.value)
        /\ send_bitcnt' = FrameBits /\ send_divcnt' = 0 /\ send_dummy' = DummyNext(access)
     \/ /\ Shifts
        /\ send_pattern' = Shifted(send_pattern, 1, FrameBits)
        /\ send_bitcnt' = send_bitcnt - 1 /\ send_divcnt' = 0 /\ send_dummy' = DummyNext(access)
     \/ /\ ~SendsDummy /\ ~SendsByte(access) /\ ~Shifts
        /\ send_divcnt' = CountOn /\ send_dummy' = DummyNext(access)
        /\ UNCHANGED <<send_pattern, send_bitcnt>>
  /\ cfg_divider' = DividerNext(cfg_divider, access)
  /\ waiting' = IF reg_dat_wait(access) THEN access.value ELSE None

------------------------------------------------------------------------------
(* Clock edges.                                                            *)

History(access, far_access, resetn, far_resetn) ==
  LET ends    == Shifts /\ send_bitcnt = 1
      changes == ~resetn \/ ~far_resetn \/ reg_div_we(access) \/ reg_div_we(far_access)
      sent    == IF SendsByte(access) THEN Append(in_flight, access.value) ELSE in_flight
      settled == unsettled = 0 /\ unsettled' = 0
      ready   == cfg_divider' = far_divider'
  IN  /\ frame' = CASE ~resetn \/ ends -> None
                    [] resetn /\ SendsDummy -> "dummy"
                    [] resetn /\ SendsByte(access) -> "byte"
                    [] OTHER -> frame
      /\ unsettled' = CASE resetn /\ SendsDummy /\ (changes \/ unsettled > 0) -> 1
                        [] ~(resetn /\ SendsDummy) /\ changes -> 2
                        [] frame = "dummy" /\ ends /\ ~changes /\ unsettled = 1 -> IF ready THEN 0 ELSE 2
                        [] OTHER -> unsettled
      /\ in_flight' = CASE ~settled            -> <<>>
                        [] settled /\ ~Arrives -> sent
                        [] settled /\ Arrives  -> IF sent = <<>> THEN <<>> ELSE Tail(sent)
      /\ unread' = CASE ~settled -> IF recv_buf_valid' THEN recv_buf_data' ELSE None
                     [] settled /\ Arrives -> IF in_flight = <<>> THEN None ELSE Head(in_flight)
                     [] settled /\ ~Arrives -> IF reg_dat_re(far_access) THEN None ELSE unread

------------------------------------------------------------------------------
Init ==
  /\ waiting = None /\ cfg_divider = DEFAULT_DIV /\ far_divider = DEFAULT_DIV
  /\ recv_state = 0 /\ recv_divcnt = 0 /\ recv_pattern = AllZeros
  /\ recv_buf_data = AllZeros /\ recv_buf_valid = FALSE
  /\ send_pattern = AllOnes /\ send_bitcnt = 0 /\ send_divcnt = 0 /\ send_dummy = TRUE
  /\ frame = None /\ in_flight = <<>> /\ unread = None /\ unsettled = 2

\* The bus repeats an access until it is served; only sending makes it wait.
AccessesNow(resetn) ==
  CASE ~resetn -> {Idle}
    [] resetn /\ waiting = None -> Accesses
    [] resetn /\ waiting # None -> {[kind |-> "send", value |-> waiting]}

Next ==
  \E resetn, far_resetn \in BOOLEAN :
    \E access \in AccessesNow(resetn), far_access \in IF far_resetn THEN FarAccesses ELSE {Idle} :
      /\ \/ resetn /\ Sends(access)
         \/ ~resetn /\ SenderReset
      /\ \/ far_resetn /\ Receives(far_access)
         \/ ~far_resetn /\ ReceiverReset
      /\ History(access, far_access, resetn, far_resetn)

\* The clock runs.
Spec == Init /\ [][Next]_vars /\ WF_vars(Next)

------------------------------------------------------------------------------
(* Properties.                                                             *)

\* What a program reads is the byte that was sent last, once and in time: no
\* byte is garbled, and none is lost to a read at the edge at which it arrives
\* (simpleuart.v:75, :92).
ReadsWhatWasSent ==
  unsettled = 0 => unread = IF recv_buf_valid THEN recv_buf_data ELSE None

\* Nothing arrives but what was sent, and when the next byte is sent the one
\* before it has arrived.  A change of rate may garble what is on the line, but
\* not what is sent after it: the dummy frame that it asks for is long enough
\* for the receiver to come to rest (simpleuart.v:110).
EachFrameArrives ==
  [][unsettled = 0 /\ unsettled' = 0 =>
       /\ recv_state = StopState /\ recv_state' = 0 => in_flight # <<>>
       /\ frame # "byte" /\ frame' = "byte" => in_flight = <<>>]_vars

\* The program is not held up for ever at the data register, unless it is
\* reset again and again.
SendServed == []<>(waiting = None)
==============================================================================
