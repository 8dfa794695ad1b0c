--------------------------- MODULE PicoAxi_proofs ---------------------------
(***************************************************************************)
(* picorv32_axi_adapter, for all sets of addresses and data: at most one   *)
(* AXI transfer is in flight, and the adapter with any AXI4-lite slave     *)
(* implements the memory side of the native interface.                     *)
(***************************************************************************)
EXTENDS PicoAxi, TLAPS

USE AxiAssumption

------------------------------------------------------------------------------
(* Sequences of length at most one.                                        *)

LEMMA OneLong ==
  ASSUME NEW S, NEW x \in S
  PROVE  /\ Append(<<>>, x) = <<x>> /\ Tail(<<x>>) = <<>> /\ Head(<<x>>) = x
         /\ <<x>> # <<>> /\ Len(<<x>>) = 1 /\ <<x>> \in Seq(S)
         /\ <<>> \o <<x>> = <<x>> /\ <<x>> \o <<>> = <<x>>
OBVIOUS

LEMMA Nothing == ASSUME NEW S PROVE <<>> \o <<>> = <<>> /\ <<>> \in Seq(S)
OBVIOUS

------------------------------------------------------------------------------
(* The slave: what an edge leaves in its queues.                           *)

\* Reset empties the slave.
LEMMA SlaveResets ==
  ASSUME Next, ~resetn
  PROVE  BusIdle' /\ performed' = <<>>
<1>1. aw' = <<>> /\ w' = <<>> /\ ar' = <<>> BY DEF Next, SlaveAccepts
<1>2. ~mem_axi_bvalid' /\ ~mem_axi_rvalid'
  BY DEF Next, SlaveAnswers, newWrite, newRead, writeAnswerHeld, readAnswerHeld
<1>3. performed' = <<>>
  BY <1>2, Nothing DEF Next, SlaveAnswers, newWrite, newRead, Native!Continuing
<1>. QED BY <1>1, <1>2, <1>3 DEF BusIdle

\* What stays accepted is what was offered and taken, less the answered head.
LEMMA Accepting ==
  ASSUME Next, resetn
  PROVE  /\ aw' = Without(Addresses, writeAnswered)
         /\ w' = Without(Writes, writeAnswered)
         /\ ar' = Without(Reads, readAnswered)
BY DEF Next, SlaveAccepts

\* With nothing accepted and nothing offered the slave stays silent.
LEMMA Silence ==
  ASSUME Next, resetn, aw' = <<>>, ar' = <<>>, ~mem_axi_awvalid', ~mem_axi_arvalid',
         ~Native!Continuing, ~writeAnswerHeld, ~readAnswerHeld
  PROVE  ~mem_axi_bvalid' /\ ~mem_axi_rvalid' /\ performed' = <<>>
<1>1. Addresses' = <<>> /\ Reads' = <<>> BY DEF Addresses, Reads, With
<1>2. ~mem_axi_bvalid' /\ ~mem_axi_rvalid'
  BY <1>1 DEF Next, SlaveAnswers, newWrite, newRead
<1>3. performed' = <<>>
  BY <1>2, Nothing DEF Next, SlaveAnswers, newWrite, newRead
<1>. QED BY <1>2, <1>3

------------------------------------------------------------------------------
(* Types.                                                                  *)

LEMMA QueueTypes ==
  ASSUME TypeOK
  PROVE  /\ request.addr \in Addrs /\ (writing => request.write \in Data)
         /\ [instr |-> request.instr, addr |-> request.addr, write |-> None]
              \in Native!Requests
         /\ Addresses \in Seq(Addrs) /\ Writes \in Seq(Data)
         /\ Reads \in Seq(Native!Requests)
<1>1. request \in Native!Requests BY DEF TypeOK
<1>2. /\ request.addr \in Addrs /\ (writing => request.write \in Data)
      /\ [instr |-> request.instr, addr |-> request.addr, write |-> None]
           \in Native!Requests
  BY <1>1 DEF Native!Requests, writing
<1>3. aw \in Seq(Addrs) /\ w \in Seq(Data) /\ ar \in Seq(Native!Requests) BY DEF TypeOK
<1>. QED BY <1>2, <1>3 DEF Addresses, Writes, Reads, With, mem_axi_wvalid

LEMMA MasterTypes ==
  ASSUME TypeOK, Next
  PROVE  mem_valid' \in BOOLEAN /\ request' \in Native!Requests
<1>1. request \in Native!Requests BY DEF TypeOK
<1>2. Native!MasterStep BY DEF Next
<1>3. CASE Native!Withdraws BY <1>1, <1>3 DEF Native!Withdraws
<1>4. CASE Native!Waits BY <1>1, <1>4 DEF Native!Waits
<1>5. CASE Native!Ends BY <1>1, <1>5 DEF Native!Ends
<1>6. \A a \in Addrs : Native!Fetch(a) \in Native!Requests
  BY DEF Native!Fetch, Native!Requests
<1>7. CASE Native!Continues BY <1>6, <1>7 DEF Native!Continues
<1>8. CASE Native!Starts BY <1>8 DEF Native!Starts
<1>9. CASE Native!Idles BY <1>1, <1>6, <1>9 DEF Native!Idles
<1>. QED BY <1>2, <1>3, <1>4, <1>5, <1>7, <1>8, <1>9 DEF Native!MasterStep

LEMMA AdapterTypes ==
  ASSUME TypeOK, Next
  PROVE  /\ ack_awvalid' \in BOOLEAN /\ ack_arvalid' \in BOOLEAN
         /\ ack_wvalid' \in BOOLEAN /\ xfer_done' \in BOOLEAN
<1>1. CASE AdapterReset BY <1>1 DEF TypeOK, AdapterReset
<1>2. CASE AdapterStep BY <1>2 DEF TypeOK, AdapterStep
<1>. QED BY <1>1, <1>2 DEF Next

LEMMA QueueTypesAfter ==
  ASSUME TypeOK, Next, (mem_valid /\ TransferOpen)' \/ (BusIdle /\ performed = <<>>)'
  PROVE  /\ aw' \in Seq(Addrs) /\ w' \in Seq(Data) /\ ar' \in Seq(Native!Requests)
         /\ performed' \in Seq(Native!Requests)
<1>1. request' \in Native!Requests BY MasterTypes
<1>2. /\ request'.addr \in Addrs /\ (writing' => request'.write \in Data)
  BY <1>1 DEF Native!Requests, writing
<1>3. CASE (BusIdle /\ performed = <<>>)' BY <1>3, Nothing DEF BusIdle
<1>4. CASE (mem_valid /\ TransferOpen)'
  <2>1. Clearing' \/ (writing /\ WriteOpen)' \/ ReadOpen' BY <1>4 DEF TransferOpen
  <2>2. CASE Clearing' BY <2>2, Nothing DEF Clearing, BusIdle
  <2>3. CASE (writing /\ WriteOpen)'
    <3>1. aw' \in {<<>>, <<request'.addr>>} /\ w' \in {<<>>, <<request'.write>>}
          /\ ar' = <<>> /\ performed' \in {<<>>, <<request'>>}
      BY <2>3 DEF WriteOpen
    <3>2. /\ <<request'.addr>> \in Seq(Addrs) /\ <<request'.write>> \in Seq(Data)
          /\ <<request'>> \in Seq(Native!Requests)
      BY <1>1, <1>2, <2>3, OneLong
    <3>. QED BY <3>1, <3>2, Nothing
  <2>4. CASE ReadOpen'
    <3>1. aw' = <<>> /\ w' = <<>> /\ ar' \in {<<>>, <<request'>>}
          /\ performed' \in {<<>>, <<request'>>}
      BY <2>4 DEF ReadOpen
    <3>. QED BY <1>1, <3>1, OneLong, Nothing
  <2>. QED BY <2>1, <2>2, <2>3, <2>4
<1>. QED BY <1>3, <1>4 DEF AxiInv

LEMMA TypesKept ==
  ASSUME TypeOK, Next, (mem_valid /\ TransferOpen)' \/ (BusIdle /\ performed = <<>>)'
  PROVE  TypeOK'
<1>1. resetn' \in BOOLEAN BY DEF Next
<1>2. /\ mem_axi_awready' \in BOOLEAN /\ mem_axi_wready' \in BOOLEAN
      /\ mem_axi_arready' \in BOOLEAN
  BY DEF Next, SlaveAccepts
<1>3. mem_axi_bvalid' \in BOOLEAN /\ mem_axi_rvalid' \in BOOLEAN BY DEF Next, SlaveAnswers
<1>. QED BY <1>1, <1>2, <1>3, MasterTypes, AdapterTypes, QueueTypesAfter DEF TypeOK

------------------------------------------------------------------------------
(* The adapter: from one transfer to the next.                             *)

\* While no transfer is on the bus nothing happens, and the flags are cleared.
LEMMA Between ==
  ASSUME TypeOK, Next, resetn, ~mem_valid, BusIdle
  PROVE  /\ aw' = <<>> /\ w' = <<>> /\ ar' = <<>>
         /\ ~ack_awvalid' /\ ~ack_wvalid' /\ ~ack_arvalid' /\ ~xfer_done'
         /\ ~Native!Continuing /\ ~writeAnswerHeld /\ ~readAnswerHeld
<1>1. ~mem_axi_awvalid /\ ~mem_axi_wvalid /\ ~mem_axi_arvalid
  BY DEF mem_axi_awvalid, mem_axi_wvalid, mem_axi_arvalid
<1>2. aw' = <<>> /\ w' = <<>> /\ ar' = <<>>
  BY <1>1, Accepting
     DEF BusIdle, Without, With, Addresses, Writes, Reads, writeAnswered, readAnswered
<1>3. ~ack_awvalid' /\ ~ack_wvalid' /\ ~ack_arvalid' /\ ~xfer_done'
  BY DEF Next, AdapterReset, AdapterStep, forgets
<1>4. ~Native!Continuing /\ ~writeAnswerHeld /\ ~readAnswerHeld
  BY DEF Native!Continuing, writeAnswerHeld, readAnswerHeld, BusIdle
<1>. QED BY <1>2, <1>3, <1>4

\* The two kinds of answer.
LEMMA WriteMade ==
  ASSUME Next, resetn, ~Native!Continuing \/ performed = <<>>,
         ~writeAnswerHeld, ~mem_axi_rvalid'
  PROVE  performed' = IF mem_axi_bvalid'
                        THEN <<[instr |-> FALSE, addr |-> Head(Addresses'),
                                write |-> Head(Writes')]>>
                        ELSE <<>>
<1>1. performed' = (<<>> \o (IF mem_axi_bvalid'
                        THEN <<[instr |-> FALSE, addr |-> Head(Addresses'),
                                write |-> Head(Writes')]>>
                        ELSE <<>>)) \o <<>>
  BY DEF Next, SlaveAnswers, newWrite, newRead
<1>. DEFINE r == [instr |-> FALSE, addr |-> Head(Addresses'), write |-> Head(Writes')]
<1>2. <<>> \o <<r>> = <<r>> /\ <<r>> \o <<>> = <<r>> BY OneLong
<1>. QED BY <1>1, <1>2, Nothing

LEMMA ReadMade ==
  ASSUME Next, resetn, ~Native!Continuing \/ performed = <<>>,
         ~readAnswerHeld, ~mem_axi_bvalid'
  PROVE  performed' = IF mem_axi_rvalid' THEN <<Head(Reads')>> ELSE <<>>
<1>1. performed' = (<<>> \o <<>>) \o (IF mem_axi_rvalid' THEN <<Head(Reads')>> ELSE <<>>)
  BY DEF Next, SlaveAnswers, newWrite, newRead
<1>2. <<>> \o <<Head(Reads')>> = <<Head(Reads')>> BY OneLong
<1>. QED BY <1>1, <1>2, Nothing

\* A transfer that starts with the flags cleared is open in its first cycle.
LEMMA Opening ==
  ASSUME TypeOK, Next, resetn, ~mem_valid, BusIdle, mem_valid'
  PROVE  TransferOpen'
<1>1. Native!Starts
  BY DEF Next, Native!MasterStep, Native!Withdraws, Native!Waits, Native!Ends,
         Native!Continues, Native!Starts, Native!Idles, Native!Continuing
<1>2. request' \in Native!Requests /\ (request'.instr => request'.write = None)
  BY <1>1 DEF Native!Starts, Native!Proper
<1>3. CASE writing'
  <2>1. ~mem_axi_arvalid' BY <1>3 DEF mem_axi_arvalid
  <2>2. Reads' = <<>> BY <2>1, Between DEF Reads, With
  <2>3. ~mem_axi_rvalid' BY <2>2, Between DEF Next, SlaveAnswers, newRead
  <2>4. /\ Addresses' = IF mem_axi_awready' THEN <<request'.addr>> ELSE <<>>
        /\ Writes' = IF mem_axi_wready' THEN <<request'.write>> ELSE <<>>
    BY <1>3, Between, OneLong, <1>2
       DEF Addresses, Writes, With, mem_axi_awvalid, mem_axi_wvalid
  <2>5. mem_axi_bvalid' => mem_axi_awready' /\ mem_axi_wready'
    BY <2>4, Between DEF Next, SlaveAnswers, newWrite
  <2>6. ~request'.instr BY <1>2, <1>3 DEF writing
  <2>7. request' = [instr |-> FALSE, addr |-> request'.addr, write |-> request'.write]
    BY <1>2, <2>6 DEF Native!Requests
  <2>8. performed' = IF mem_axi_bvalid' THEN <<request'>> ELSE <<>>
    BY <2>3, <2>4, <2>5, <2>7, WriteMade, Between, OneLong
  <2>. QED BY <1>3, <2>3, <2>5, <2>6, <2>8, Between DEF TransferOpen, WriteOpen
<1>4. CASE ~writing'
  <2>1. ~mem_axi_awvalid' BY <1>4 DEF mem_axi_awvalid
  <2>2. Addresses' = <<>> BY <2>1, Between DEF Addresses, With
  <2>3. ~mem_axi_bvalid' BY <2>2, Between DEF Next, SlaveAnswers, newWrite
  <2>4. request' = [instr |-> request'.instr, addr |-> request'.addr, write |-> None]
    BY <1>2, <1>4 DEF Native!Requests, writing
  <2>5. Reads' = IF mem_axi_arready' THEN <<request'>> ELSE <<>>
    BY <1>4, <2>4, Between, OneLong DEF Reads, With, mem_axi_arvalid
  <2>6. mem_axi_rvalid' => mem_axi_arready'
    BY <2>5, Between DEF Next, SlaveAnswers, newRead
  <2>7. performed' = IF mem_axi_rvalid' THEN <<request'>> ELSE <<>>
    BY <2>3, <2>5, <2>6, ReadMade, Between, OneLong
  <2>. QED BY <1>4, <2>3, <2>6, <2>7, Between DEF TransferOpen, ReadOpen
<1>. QED BY <1>3, <1>4

------------------------------------------------------------------------------
(* The adapter: during a transfer.                                         *)

\* What the core may do in each case.
LEMMA CoreHolds ==
  ASSUME Next, resetn, mem_valid, ~mem_ready
  PROVE  mem_valid' /\ request' = request /\ Native!Continuing
BY DEF Next, Native!MasterStep, Native!Withdraws, Native!Waits, Native!Ends,
       Native!Continues, Native!Starts, Native!Idles, Native!Continuing

LEMMA CoreGoesOn ==
  ASSUME Next, resetn, mem_valid, mem_ready, mem_valid'
  PROVE  Native!Continues
BY DEF Next, Native!MasterStep, Native!Withdraws, Native!Waits, Native!Ends,
       Native!Continues, Native!Starts, Native!Idles, Native!Continuing

\* The flags of a transfer in progress are the handshakes seen so far.
LEMMA FlagsKept ==
  ASSUME TypeOK, Next, resetn, mem_valid, ~xfer_done
  PROVE  /\ xfer_done' = mem_ready
         /\ ack_awvalid' = (ack_awvalid \/ (mem_axi_awready /\ writing))
         /\ ack_wvalid' = (ack_wvalid \/ (mem_axi_wready /\ writing))
         /\ ack_arvalid' = (ack_arvalid \/ (mem_axi_arready /\ ~writing))
<1>1. AdapterStep /\ ~forgets BY DEF Next, AdapterReset, forgets
<1>2. /\ ack_awvalid \in BOOLEAN /\ ack_wvalid \in BOOLEAN /\ ack_arvalid \in BOOLEAN
      /\ mem_ready \in BOOLEAN
  BY DEF TypeOK, mem_ready
<1>. QED BY <1>1, <1>2 DEF AdapterStep, mem_axi_awvalid, mem_axi_wvalid, mem_axi_arvalid

\* What the slave holds of an open write once this cycle's handshakes count.
LEMMA WriteAccepted ==
  ASSUME TypeOK, mem_valid, writing, WriteOpen
  PROVE  /\ Addresses = IF ack_awvalid \/ mem_axi_awready THEN <<request.addr>> ELSE <<>>
         /\ Writes = IF ack_wvalid \/ mem_axi_wready THEN <<request.write>> ELSE <<>>
         /\ Reads = <<>>
BY OneLong, QueueTypes
   DEF WriteOpen, Addresses, Writes, Reads, With,
       mem_axi_awvalid, mem_axi_wvalid, mem_axi_arvalid

LEMMA ReadAccepted ==
  ASSUME TypeOK, mem_valid, ~writing, ReadOpen
  PROVE  /\ Addresses = <<>> /\ Writes = <<>>
         /\ Reads = IF ack_arvalid \/ mem_axi_arready THEN <<request>> ELSE <<>>
<1>1. request = [instr |-> request.instr, addr |-> request.addr, write |-> None]
  BY DEF TypeOK, Native!Requests, writing
<1>. QED BY <1>1, OneLong, QueueTypes
     DEF ReadOpen, Addresses, Writes, Reads, With,
         mem_axi_awvalid, mem_axi_wvalid, mem_axi_arvalid

LEMMA WriteWaits ==
  ASSUME TypeOK, Next, resetn, mem_valid, ~xfer_done, writing, WriteOpen, ~mem_ready
  PROVE  (mem_valid /\ TransferOpen)'
<1>1. mem_valid' /\ request' = request /\ Native!Continuing BY CoreHolds
<1>2. writing' BY <1>1 DEF writing
<1>3. ~mem_axi_bvalid BY DEF mem_ready
<1>4. /\ ~xfer_done'
      /\ ack_awvalid' = (ack_awvalid \/ mem_axi_awready)
      /\ ack_wvalid' = (ack_wvalid \/ mem_axi_wready)
  BY FlagsKept
<1>5. /\ aw' = IF ack_awvalid' THEN <<request'.addr>> ELSE <<>>
      /\ w' = IF ack_wvalid' THEN <<request'.write>> ELSE <<>>
      /\ ar' = <<>>
  BY <1>1, <1>3, <1>4, Accepting, WriteAccepted
     DEF Without, writeAnswered, readAnswered, WriteOpen
<1>6. ~mem_axi_rvalid'
  <2>1. Reads' = <<>> BY <1>2, <1>5 DEF Reads, With, mem_axi_arvalid
  <2>. QED BY <2>1 DEF Next, SlaveAnswers, newRead, readAnswerHeld, WriteOpen
<1>7. request' \in Native!Requests BY MasterTypes
<1>8. /\ Addresses' = IF ack_awvalid' \/ mem_axi_awready' THEN <<request'.addr>> ELSE <<>>
      /\ Writes' = IF ack_wvalid' \/ mem_axi_wready' THEN <<request'.write>> ELSE <<>>
  BY <1>1, <1>2, <1>5, <1>7, OneLong
     DEF Addresses, Writes, With, mem_axi_awvalid, mem_axi_wvalid
<1>9. mem_axi_bvalid' =>
        (ack_awvalid' \/ mem_axi_awready') /\ (ack_wvalid' \/ mem_axi_wready')
  BY <1>3, <1>8 DEF Next, SlaveAnswers, newWrite, writeAnswerHeld
<1>10. performed' = IF mem_axi_bvalid' THEN <<request'>> ELSE <<>>
  <2>1. request' = [instr |-> FALSE, addr |-> request'.addr, write |-> request'.write]
    BY <1>1, <1>7 DEF Native!Requests, WriteOpen
  <2>2. performed = <<>> /\ ~writeAnswerHeld BY <1>3 DEF WriteOpen, writeAnswerHeld
  <2>3. performed' = IF mem_axi_bvalid'
                        THEN <<[instr |-> FALSE, addr |-> Head(Addresses'),
                                write |-> Head(Writes')]>>
                        ELSE <<>>
    BY <1>6, <2>2, WriteMade
  <2>. QED BY <1>8, <1>9, <2>1, <2>3, OneLong
<1>. QED BY <1>1, <1>2, <1>4, <1>5, <1>6, <1>9, <1>10 DEF TransferOpen, WriteOpen

LEMMA ReadWaits ==
  ASSUME TypeOK, Next, resetn, mem_valid, ~xfer_done, ~writing, ReadOpen, ~mem_ready
  PROVE  (mem_valid /\ TransferOpen)'
<1>1. mem_valid' /\ request' = request /\ Native!Continuing BY CoreHolds
<1>2. ~writing' BY <1>1 DEF writing
<1>3. ~mem_axi_rvalid BY DEF mem_ready
<1>4. ~xfer_done' /\ ack_arvalid' = (ack_arvalid \/ mem_axi_arready)
  BY FlagsKept
<1>5. /\ aw' = <<>> /\ w' = <<>>
      /\ ar' = IF ack_arvalid' THEN <<request'>> ELSE <<>>
  BY <1>1, <1>3, <1>4, Accepting, ReadAccepted
     DEF Without, writeAnswered, readAnswered, ReadOpen
<1>6. ~mem_axi_bvalid'
  <2>1. Addresses' = <<>> BY <1>2, <1>5 DEF Addresses, With, mem_axi_awvalid
  <2>. QED BY <2>1 DEF Next, SlaveAnswers, newWrite, writeAnswerHeld, ReadOpen
<1>7. request' \in Native!Requests BY MasterTypes
<1>8. Reads' = IF ack_arvalid' \/ mem_axi_arready' THEN <<request'>> ELSE <<>>
  <2>1. request' = [instr |-> request'.instr, addr |-> request'.addr, write |-> None]
    BY <1>2, <1>7 DEF Native!Requests, writing
  <2>. QED BY <1>1, <1>2, <1>5, <1>7, <2>1, OneLong DEF Reads, With, mem_axi_arvalid
<1>9. mem_axi_rvalid' => ack_arvalid' \/ mem_axi_arready'
  BY <1>3, <1>8 DEF Next, SlaveAnswers, newRead, readAnswerHeld
<1>10. performed' = IF mem_axi_rvalid' THEN <<request'>> ELSE <<>>
  <2>1. performed = <<>> /\ ~readAnswerHeld BY <1>3 DEF ReadOpen, readAnswerHeld
  <2>2. performed' = IF mem_axi_rvalid' THEN <<Head(Reads')>> ELSE <<>>
    BY <1>6, <2>1, ReadMade
  <2>. QED BY <1>7, <1>8, <1>9, <2>2, OneLong
<1>. QED BY <1>1, <1>2, <1>4, <1>5, <1>6, <1>9, <1>10 DEF TransferOpen, ReadOpen

\* The answer empties the queues.
LEMMA WriteEnds ==
  ASSUME TypeOK, Next, resetn, mem_valid, ~xfer_done, writing, WriteOpen, mem_ready
  PROVE  (~mem_valid /\ BusIdle /\ performed = <<>>)'
<1>1. ~mem_valid' BY CoreGoesOn DEF Native!Continues, writing
<1>2. mem_axi_bvalid BY DEF mem_ready, WriteOpen
<1>3. Addresses = <<request.addr>> /\ Writes = <<request.write>> /\ Reads = <<>>
  BY <1>2, WriteAccepted DEF WriteOpen
<1>4. aw' = <<>> /\ w' = <<>> /\ ar' = <<>>
  BY <1>2, <1>3, Accepting, QueueTypes, OneLong
     DEF Without, writeAnswered, readAnswered, mem_axi_bready, WriteOpen
<1>5. ~Native!Continuing /\ ~writeAnswerHeld /\ ~readAnswerHeld
  BY DEF Native!Continuing, writeAnswerHeld, readAnswerHeld, mem_axi_bready, WriteOpen
<1>6. ~mem_axi_awvalid' /\ ~mem_axi_arvalid'
  BY <1>1 DEF mem_axi_awvalid, mem_axi_arvalid
<1>. QED BY <1>1, <1>4, <1>5, <1>6, Silence DEF BusIdle

LEMMA ReadEnds ==
  ASSUME TypeOK, Next, resetn, mem_valid, ~xfer_done, ~writing, ReadOpen, mem_ready
  PROVE  (BusIdle /\ performed = <<>>)' /\ (mem_valid' => TransferOpen')
<1>1. mem_axi_rvalid BY DEF mem_ready, ReadOpen
<1>2. Addresses = <<>> /\ Writes = <<>> /\ Reads = <<request>>
  BY <1>1, ReadAccepted DEF ReadOpen
<1>3. aw' = <<>> /\ w' = <<>> /\ ar' = <<>>
  BY <1>1, <1>2, Accepting, OneLong
     DEF Without, writeAnswered, readAnswered, mem_axi_rready, ReadOpen, TypeOK
<1>4. ~Native!Continuing /\ ~writeAnswerHeld /\ ~readAnswerHeld
  BY DEF Native!Continuing, writeAnswerHeld, readAnswerHeld, mem_axi_rready, ReadOpen
<1>5. xfer_done' /\ ack_arvalid' BY <1>1, FlagsKept DEF ReadOpen
<1>6. ~(mem_valid' /\ writing')
  <2>1. CASE ~mem_valid' BY <2>1
  <2>2. CASE mem_valid'
    <3>1. \E a \in Addrs : request' = Native!Fetch(a)
      BY <2>2, CoreGoesOn DEF Native!Continues
    <3>. QED BY <3>1 DEF Native!Fetch, writing
  <2>. QED BY <2>1, <2>2
<1>7. ~mem_axi_awvalid' /\ ~mem_axi_arvalid'
  BY <1>5, <1>6 DEF mem_axi_awvalid, mem_axi_arvalid
<1>8. (BusIdle /\ performed = <<>>)' BY <1>3, <1>4, <1>7, Silence DEF BusIdle
<1>. QED BY <1>5, <1>6, <1>8 DEF TransferOpen, Clearing

\* The cycle that clears the flags opens the second transfer.
LEMMA Cleared ==
  ASSUME TypeOK, Next, resetn, mem_valid, xfer_done, Clearing
  PROVE  (mem_valid /\ TransferOpen)'
<1>1. ~mem_ready BY DEF mem_ready, Clearing, BusIdle
<1>2. mem_valid' /\ request' = request BY <1>1, CoreHolds
<1>3. ~writing' BY <1>2 DEF writing, Clearing
<1>4. ~mem_axi_awvalid /\ ~mem_axi_wvalid /\ ~mem_axi_arvalid
  BY DEF mem_axi_awvalid, mem_axi_wvalid, mem_axi_arvalid, Clearing
<1>5. aw' = <<>> /\ w' = <<>> /\ ar' = <<>>
  BY <1>4, Accepting
     DEF Clearing, BusIdle, Without, With, Addresses, Writes, Reads,
         writeAnswered, readAnswered
<1>6. ~xfer_done' /\ ~ack_arvalid'
  BY <1>1 DEF Next, AdapterReset, AdapterStep, forgets
<1>7. ~mem_axi_bvalid'
  <2>1. Addresses' = <<>> BY <1>3, <1>5 DEF Addresses, With, mem_axi_awvalid
  <2>. QED BY <2>1 DEF Next, SlaveAnswers, newWrite, writeAnswerHeld, Clearing, BusIdle
<1>8. request' \in Native!Requests BY MasterTypes
<1>9. Reads' = IF mem_axi_arready' THEN <<request'>> ELSE <<>>
  <2>1. request' = [instr |-> request'.instr, addr |-> request'.addr, write |-> None]
    BY <1>3, <1>8 DEF Native!Requests, writing
  <2>. QED BY <1>2, <1>3, <1>5, <1>6, <1>8, <2>1, OneLong
       DEF Reads, With, mem_axi_arvalid
<1>10. mem_axi_rvalid' => mem_axi_arready'
  BY <1>9 DEF Next, SlaveAnswers, newRead, readAnswerHeld, Clearing, BusIdle
<1>11. performed' = IF mem_axi_rvalid' THEN <<request'>> ELSE <<>>
  <2>1. performed = <<>> /\ ~readAnswerHeld
    BY DEF Clearing, BusIdle, readAnswerHeld
  <2>2. performed' = IF mem_axi_rvalid' THEN <<Head(Reads')>> ELSE <<>>
    BY <1>7, <2>1, ReadMade
  <2>. QED BY <1>8, <1>9, <1>10, <2>2, OneLong
<1>. QED BY <1>2, <1>3, <1>5, <1>6, <1>7, <1>10, <1>11 DEF TransferOpen, ReadOpen

------------------------------------------------------------------------------
(* The inductive invariant.                                                *)

LEMMA AxiInvInit == Init => AxiInv
<1>. SUFFICES ASSUME Init PROVE AxiInv OBVIOUS
<1>1. TypeOK BY Nothing DEF Init, TypeOK, Native!MasterInit
<1>2. BusIdle /\ performed = <<>> /\ ~resetn BY DEF Init, BusIdle
<1>. QED BY <1>1, <1>2 DEF AxiInv

LEMMA AxiInvNext == AxiInv /\ [Next]_vars => AxiInv'
<1>. SUFFICES ASSUME AxiInv, [Next]_vars PROVE AxiInv' OBVIOUS
<1>1. CASE UNCHANGED vars
  BY <1>1 DEF vars, adapter, readies, responses, accepted, AxiInv, TypeOK, BusIdle,
              TransferOpen, Clearing, WriteOpen, ReadOpen, writing
<1>2. CASE Next
  <2>0. TypeOK BY DEF AxiInv
  <2>1. (mem_valid /\ TransferOpen)' \/ (~mem_valid /\ BusIdle /\ performed = <<>>)'
    <3>1. CASE ~resetn
      <4>1. ~mem_valid'
        BY <1>2, <3>1
           DEF Next, Native!MasterStep, Native!Withdraws, Native!Waits, Native!Ends,
               Native!Continues, Native!Starts, Native!Idles, Native!Continuing
      <4>. QED BY <1>2, <3>1, <4>1, SlaveResets
    <3>2. CASE resetn /\ ~mem_valid
      <4>1. BusIdle BY <3>2 DEF AxiInv
      <4>2. CASE mem_valid' BY <1>2, <2>0, <3>2, <4>1, <4>2, Opening
      <4>3. CASE ~mem_valid'
        <5>1. ~mem_axi_awvalid' /\ ~mem_axi_arvalid'
          BY <4>3 DEF mem_axi_awvalid, mem_axi_arvalid
        <5>. QED BY <1>2, <2>0, <3>2, <4>1, <4>3, <5>1, Between, Silence DEF BusIdle
      <4>. QED BY <4>2, <4>3
    <3>3. CASE resetn /\ mem_valid
      <4>1. TransferOpen BY <3>3 DEF AxiInv
      <4>2. CASE xfer_done /\ Clearing BY <1>2, <2>0, <3>3, <4>2, Cleared
      <4>3. CASE ~xfer_done /\ writing /\ WriteOpen
        BY <1>2, <2>0, <3>3, <4>3, WriteWaits, WriteEnds
      <4>4. CASE ~xfer_done /\ ~writing /\ ReadOpen
        BY <1>2, <2>0, <3>3, <4>4, ReadWaits, ReadEnds
      <4>. QED BY <2>0, <4>1, <4>2, <4>3, <4>4 DEF TransferOpen, TypeOK
    <3>. QED BY <3>1, <3>2, <3>3
  <2>2. TypeOK' BY <1>2, <2>0, <2>1, TypesKept
  <2>. QED BY <2>1, <2>2 DEF AxiInv
<1>. QED BY <1>1, <1>2

LEMMA AxiInvAlways == Spec => []AxiInv
BY AxiInvInit, AxiInvNext, PTL DEF Spec

------------------------------------------------------------------------------
(* The theorems.                                                           *)

\* However the slave mixes the channels, and whenever reset comes, there is at
\* most one AXI transfer in flight.
THEOREM OneTransferInFlight == Spec => []OneInFlight
<1>1. AxiInv => OneInFlight
  <2>. SUFFICES ASSUME AxiInv, resetn
                PROVE  /\ aw # <<>> => ~mem_axi_awvalid /\ Len(aw) = 1
                       /\ w # <<>> => ~mem_axi_wvalid /\ Len(w) = 1
                       /\ ar # <<>> => ~mem_axi_arvalid /\ Len(ar) = 1
                       /\ aw # <<>> \/ w # <<>> => ar = <<>>
    BY DEF OneInFlight
  <2>1. CASE BusIdle BY <2>1 DEF BusIdle
  <2>2. CASE mem_valid /\ Clearing BY <2>2 DEF Clearing, BusIdle
  <2>3. CASE mem_valid /\ WriteOpen
    BY <2>3, OneLong DEF WriteOpen, mem_axi_awvalid, mem_axi_wvalid
  <2>4. CASE mem_valid /\ ReadOpen BY <2>4, OneLong DEF ReadOpen, mem_axi_arvalid
  <2>. QED BY <2>1, <2>2, <2>3, <2>4 DEF AxiInv, TransferOpen
<1>. QED BY <1>1, AxiInvAlways, PTL

\* An open transfer is answered only when its channels have been accepted.
LEMMA NothingOfferedWhenReady ==
  ASSUME AxiInv, resetn, mem_valid, mem_ready
  PROVE  /\ ~(mem_axi_awvalid /\ ~mem_axi_awready)
         /\ ~(mem_axi_wvalid /\ ~mem_axi_wready)
         /\ ~(mem_axi_arvalid /\ ~mem_axi_arready)
BY DEF AxiInv, TransferOpen, Clearing, BusIdle, WriteOpen, ReadOpen, mem_ready,
       mem_axi_awvalid, mem_axi_wvalid, mem_axi_arvalid

\* An offer stays on its channel, unchanged, until the slave accepts it.
THEOREM OffersHold == Spec => ChannelsHold
<1>. DEFINE Hold ==
       resetn =>
         /\ mem_axi_awvalid /\ ~mem_axi_awready => mem_axi_awvalid' /\ UNCHANGED request
         /\ mem_axi_wvalid /\ ~mem_axi_wready => mem_axi_wvalid' /\ UNCHANGED request
         /\ mem_axi_arvalid /\ ~mem_axi_arready => mem_axi_arvalid' /\ UNCHANGED request
<1>1. AxiInv /\ [Next]_vars => [Hold]_vars
  <2>. SUFFICES ASSUME AxiInv, Next, resetn,
                       \/ mem_axi_awvalid /\ ~mem_axi_awready
                       \/ mem_axi_wvalid /\ ~mem_axi_wready
                       \/ mem_axi_arvalid /\ ~mem_axi_arready
                PROVE  Hold
    OBVIOUS
  <2>1. TypeOK /\ mem_valid
    BY DEF AxiInv, mem_axi_awvalid, mem_axi_wvalid, mem_axi_arvalid
  <2>2. mem_valid' /\ request' = request
    BY <2>1, NothingOfferedWhenReady, CoreHolds
  <2>3. ~xfer_done
    BY <2>1 DEF AxiInv, TransferOpen, Clearing, mem_axi_awvalid, mem_axi_wvalid,
                mem_axi_arvalid
  <2>4. /\ ack_awvalid' = (ack_awvalid \/ (mem_axi_awready /\ writing))
        /\ ack_wvalid' = (ack_wvalid \/ (mem_axi_wready /\ writing))
        /\ ack_arvalid' = (ack_arvalid \/ (mem_axi_arready /\ ~writing))
    BY <2>1, <2>3, FlagsKept
  <2>. QED BY <2>2, <2>4
       DEF mem_axi_awvalid, mem_axi_wvalid, mem_axi_arvalid, writing
<1>2. Spec => [][Hold]_vars BY <1>1, AxiInvAlways, PTL DEF Spec
<1>. QED BY <1>2 DEF ChannelsHold

\* The adapter with any slave implements the native memory: each transfer of
\* the core becomes one access, and mem_ready comes with its answer.
THEOREM AdapterServesNative == Spec => ServesNative
<1>1. Init => Native!NativeInit BY DEF Init, Native!NativeInit
<1>2. AxiInv /\ AxiInv' /\ Next => Native!MasterStep /\ Native!MemoryStep
  <2>. SUFFICES ASSUME AxiInv, AxiInv', Next PROVE Native!MemoryStep BY DEF Next
  <2>1. performed' \in {<<>>, <<request'>>}
    BY DEF AxiInv, TransferOpen, Clearing, WriteOpen, ReadOpen
  <2>2. Native!Continuing => performed = <<>>
    BY DEF Native!Continuing, AxiInv, TransferOpen, Clearing, WriteOpen, ReadOpen, mem_ready
  <2>3. ~mem_valid' => performed' = <<>> BY DEF AxiInv
  <2>4. resetn' /\ mem_valid' /\ mem_ready' => performed' # <<>>
    <3>1. <<request'>> # <<>> BY OneLong
    <3>. QED BY <3>1 DEF AxiInv, TransferOpen, Clearing, BusIdle, WriteOpen, ReadOpen,
                         mem_ready
  <2>. QED BY <2>1, <2>2, <2>3, <2>4 DEF Native!MemoryStep
<1>3. UNCHANGED vars => UNCHANGED Native!nativeVars
  BY DEF vars, responses, Native!nativeVars, Native!masterVars, mem_ready
<1>4. AxiInv /\ AxiInv' /\ [Next]_vars
        => [Native!MasterStep /\ Native!MemoryStep]_(Native!nativeVars)
  BY <1>2, <1>3
<1>. QED BY <1>1, <1>4, AxiInvAlways, PTL DEF Spec, ServesNative, Native!NativeSpec
==============================================================================
