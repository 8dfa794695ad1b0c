------------------------------ MODULE PicoAxi ------------------------------
(***************************************************************************)
(* picorv32_axi_adapter (picorv32.v:2731-2808) between the core, known by  *)
(* its contract NativeBus, and an AXI4-lite slave that accepts the address *)
(* and the data of a write in any order, holds each channel up as long as  *)
(* it likes, and may answer in the very cycle in which it accepts          *)
(* (scripts/smtbmc/axicheck.v:103-143, testbench.v:281-479).               *)
(*                                                                         *)
(* A step is a rising edge of clk.  The read and write data travel with    *)
(* the request they belong to.                                             *)
(***************************************************************************)
EXTENDS Integers, Sequences

CONSTANTS COMPRESSED_ISA, Addrs, Data, None

ASSUME AxiAssumption == COMPRESSED_ISA \in BOOLEAN /\ None \notin Data

VARIABLES
  resetn, mem_valid, request,                       \* the core
  ack_awvalid, ack_arvalid, ack_wvalid, xfer_done,  \* the adapter
  mem_axi_awready, mem_axi_wready, mem_axi_arready, \* the slave
  mem_axi_bvalid, mem_axi_rvalid,
  aw, w, ar,  \* what the slave accepted on each channel and did not answer
  performed   \* the accesses the slave made for the transfer on the bus

adapter == <<ack_awvalid, ack_arvalid, ack_wvalid, xfer_done>>
readies == <<mem_axi_awready, mem_axi_wready, mem_axi_arready>>
responses == <<mem_axi_bvalid, mem_axi_rvalid>>
accepted == <<aw, w, ar>>
vars == <<resetn, mem_valid, request, adapter, readies, responses, accepted, performed>>

------------------------------------------------------------------------------
(* The adapter.                                                            *)

writing == request.write # None

mem_axi_awvalid == mem_valid /\ writing /\ ~ack_awvalid
mem_axi_arvalid == mem_valid /\ ~writing /\ ~ack_arvalid

\* Wrong variants: the data channel looks at the address channel's flag, or
\* at none, or offers data for reads.
wvalid_by_address == mem_valid /\ writing /\ ~ack_awvalid
wvalid_always == mem_valid /\ writing
wvalid_on_reads == mem_valid /\ ~ack_wvalid
mem_axi_wvalid == mem_valid /\ writing /\ ~ack_wvalid

mem_axi_bready == mem_valid /\ writing
mem_axi_rready == mem_valid /\ ~writing

\* Wrong variant: a write is taken for done when its address is accepted.
ready_on_address == mem_axi_rvalid \/ (mem_axi_awvalid /\ mem_axi_awready)
mem_ready == mem_axi_bvalid \/ mem_axi_rvalid

Native == INSTANCE NativeBus

\* The flags are cleared after a transfer and while there is none.
\* Wrong variant: the end of a transfer does not clear them.
forgets_between == ~mem_valid
forgets == xfer_done \/ ~mem_valid

AdapterReset == /\ ~resetn
                /\ ack_awvalid' = FALSE
                /\ UNCHANGED <<ack_arvalid, ack_wvalid, xfer_done>>

AdapterStep ==
  /\ resetn
  /\ xfer_done' = (mem_valid /\ mem_ready)
  /\ ack_awvalid' = (~forgets /\ (ack_awvalid \/ (mem_axi_awready /\ mem_axi_awvalid)))
  /\ ack_arvalid' = (~forgets /\ (ack_arvalid \/ (mem_axi_arready /\ mem_axi_arvalid)))
  /\ ack_wvalid'  = (~forgets /\ (ack_wvalid \/ (mem_axi_wready /\ mem_axi_wvalid)))

------------------------------------------------------------------------------
(* The slave.                                                              *)

\* What a channel has accepted, with what it accepts in this cycle.
With(queue, handshake, item) == IF handshake THEN Append(queue, item) ELSE queue
Addresses == With(aw, mem_axi_awvalid /\ mem_axi_awready, request.addr)
Writes == With(w, mem_axi_wvalid /\ mem_axi_wready, request.write)
Reads == With(ar, mem_axi_arvalid /\ mem_axi_arready,
              [instr |-> request.instr, addr |-> request.addr, write |-> None])

Without(queue, answer) == IF answer THEN Tail(queue) ELSE queue
writeAnswered == mem_axi_bvalid /\ mem_axi_bready
readAnswered == mem_axi_rvalid /\ mem_axi_rready

SlaveAccepts ==
  /\ aw' = IF resetn THEN Without(Addresses, writeAnswered) ELSE <<>>
  /\ w' = IF resetn THEN Without(Writes, writeAnswered) ELSE <<>>
  /\ ar' = IF resetn THEN Without(Reads, readAnswered) ELSE <<>>
  /\ mem_axi_awready' \in BOOLEAN
  /\ mem_axi_wready' \in BOOLEAN
  /\ mem_axi_arready' \in BOOLEAN

\* An answer stays until it is taken; a new one needs an accepted request,
\* one of the cycle after this edge included, and is when the access is made.
writeAnswerHeld == resetn /\ mem_axi_bvalid /\ ~mem_axi_bready
readAnswerHeld == resetn /\ mem_axi_rvalid /\ ~mem_axi_rready
newWrite == mem_axi_bvalid' /\ ~writeAnswerHeld
newRead == mem_axi_rvalid' /\ ~readAnswerHeld

SlaveAnswers ==
  /\ mem_axi_bvalid' \in BOOLEAN
  /\ writeAnswerHeld => mem_axi_bvalid'
  /\ newWrite => resetn /\ Addresses' # <<>> /\ Writes' # <<>>
  /\ mem_axi_rvalid' \in BOOLEAN
  /\ readAnswerHeld => mem_axi_rvalid'
  /\ newRead => resetn /\ Reads' # <<>>
  /\ performed' =
       (IF Native!Continuing THEN performed ELSE <<>>)
       \o (IF newWrite
             THEN <<[instr |-> FALSE, addr |-> Head(Addresses'), write |-> Head(Writes')]>>
             ELSE <<>>)
       \o (IF newRead THEN <<Head(Reads')>> ELSE <<>>)

------------------------------------------------------------------------------
\* At power-up the adapter's registers hold anything.
Init ==
  /\ resetn = FALSE /\ mem_valid \in BOOLEAN /\ Native!MasterInit
  /\ ack_awvalid \in BOOLEAN /\ ack_arvalid \in BOOLEAN
  /\ ack_wvalid \in BOOLEAN /\ xfer_done \in BOOLEAN
  /\ mem_axi_awready = FALSE /\ mem_axi_wready = FALSE /\ mem_axi_arready = FALSE
  /\ mem_axi_bvalid = FALSE /\ mem_axi_rvalid = FALSE
  /\ aw = <<>> /\ w = <<>> /\ ar = <<>>
  /\ performed = <<>>

Next ==
  /\ resetn' \in BOOLEAN
  /\ Native!MasterStep
  /\ AdapterReset \/ AdapterStep
  /\ SlaveAccepts
  /\ SlaveAnswers

Spec == Init /\ [][Next]_vars

\* The clock runs, whether reset comes or not; the slave accepts and answers
\* in the end.
Running == resetn' = TRUE /\ Next
FairSpec ==
  /\ Spec
  /\ WF_vars(Running)
  /\ WF_vars(mem_axi_awready' = TRUE /\ Running)
  /\ WF_vars(mem_axi_wready' = TRUE /\ Running)
  /\ WF_vars(mem_axi_arready' = TRUE /\ Running)
  /\ WF_vars(mem_axi_bvalid' = TRUE /\ Running)
  /\ WF_vars(mem_axi_rvalid' = TRUE /\ Running)

------------------------------------------------------------------------------
(* Properties.                                                             *)

\* Registers, inputs and queues keep to their types.
TypeOK ==
  /\ resetn \in BOOLEAN /\ mem_valid \in BOOLEAN /\ request \in Native!Requests
  /\ ack_awvalid \in BOOLEAN /\ ack_arvalid \in BOOLEAN
  /\ ack_wvalid \in BOOLEAN /\ xfer_done \in BOOLEAN
  /\ mem_axi_awready \in BOOLEAN /\ mem_axi_wready \in BOOLEAN
  /\ mem_axi_arready \in BOOLEAN
  /\ mem_axi_bvalid \in BOOLEAN /\ mem_axi_rvalid \in BOOLEAN
  /\ aw \in Seq(Addrs) /\ w \in Seq(Data) /\ ar \in Seq(Native!Requests)
  /\ performed \in Seq(Native!Requests)

\* One AXI transfer at a time (scripts/smtbmc/axicheck.v:103-134): a channel
\* that has been accepted does not offer again before the answer, and no read
\* is open together with a write.
OneInFlight ==
  resetn =>
    /\ aw # <<>> => ~mem_axi_awvalid /\ Len(aw) = 1
    /\ w # <<>> => ~mem_axi_wvalid /\ Len(w) = 1
    /\ ar # <<>> => ~mem_axi_arvalid /\ Len(ar) = 1
    /\ aw # <<>> \/ w # <<>> => ar = <<>>

\* The rule of AXI for a master (scripts/smtbmc/axicheck.v:148-183): an offer
\* stays, unchanged, until it is accepted.
ChannelsHold ==
  [][resetn =>
       /\ mem_axi_awvalid /\ ~mem_axi_awready => mem_axi_awvalid' /\ UNCHANGED request
       /\ mem_axi_wvalid /\ ~mem_axi_wready => mem_axi_wvalid' /\ UNCHANGED request
       /\ mem_axi_arvalid /\ ~mem_axi_arready => mem_axi_arvalid' /\ UNCHANGED request]_vars

\* The adapter and a slave are a memory: each native transfer is one access,
\* with its own address and data, and mem_ready comes with its answer.
ServesNative == Native!NativeSpec

\* Every transfer is answered in the end, unless reset withdraws it: no flag
\* left over from another transfer keeps a channel silent.
TransfersAnswered == mem_valid ~> mem_ready \/ ~resetn

------------------------------------------------------------------------------
(* The inductive invariant behind the theorems of PicoAxi_proofs.          *)

BusIdle == aw = <<>> /\ w = <<>> /\ ar = <<>> /\ ~mem_axi_bvalid /\ ~mem_axi_rvalid

\* The second half of a straddling instruction waits a cycle for the flags of
\* the first to be cleared; nothing is offered meanwhile.
Clearing == BusIdle /\ ~writing /\ ack_arvalid /\ performed = <<>>

WriteOpen ==
  /\ ar = <<>> /\ ~mem_axi_rvalid /\ ~request.instr
  /\ aw = IF ack_awvalid THEN <<request.addr>> ELSE <<>>
  /\ w = IF ack_wvalid THEN <<request.write>> ELSE <<>>
  /\ mem_axi_bvalid => (ack_awvalid \/ mem_axi_awready) /\ (ack_wvalid \/ mem_axi_wready)
  /\ performed = IF mem_axi_bvalid THEN <<request>> ELSE <<>>

ReadOpen ==
  /\ aw = <<>> /\ w = <<>> /\ ~mem_axi_bvalid
  /\ ar = IF ack_arvalid THEN <<request>> ELSE <<>>
  /\ mem_axi_rvalid => ack_arvalid \/ mem_axi_arready
  /\ performed = IF mem_axi_rvalid THEN <<request>> ELSE <<>>

TransferOpen ==
  CASE xfer_done              -> Clearing
    [] ~xfer_done /\ writing  -> WriteOpen
    [] ~xfer_done /\ ~writing -> ReadOpen

\* The flags say what the slave has accepted of the transfer on the bus, and
\* between two transfers nothing is left of the first; before the first reset
\* the flags say nothing, but the slave has accepted nothing either.
AxiInv ==
  /\ TypeOK
  /\ \/ mem_valid /\ TransferOpen
     \/ (mem_valid => ~resetn) /\ BusIdle /\ performed = <<>>
==============================================================================
