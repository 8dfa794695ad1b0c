------------------------------- MODULE PicoWb -------------------------------
(***************************************************************************)
(* picorv32_wb (picorv32.v:2814-3049), the core with a Wishbone master,    *)
(* and a Wishbone slave.  The core is known by its contract NativeBus; the *)
(* slave acknowledges after any number of cycles, in the first one or with *)
(* an acknowledge that is still up in the cycle after (testbench_wb.v).    *)
(*                                                                         *)
(* A step is a rising edge of wb_clk_i; resetn is ~wb_rst_i.  mem_rdata is *)
(* known by the access it answers.                                         *)
(***************************************************************************)
EXTENDS Integers, Sequences

CONSTANTS COMPRESSED_ISA, Addrs, Data, None

ASSUME WbAssumption == COMPRESSED_ISA \in BOOLEAN /\ None \notin Data

VARIABLES
  resetn, mem_valid, request,   \* the core
  state, mem_ready,             \* the bridge
  wbm_stb_o,                    \* and wbm_cyc_o, which always has its value
  wbm_we_o, wbm_adr_o,
  wbm_dat_o,                    \* and wbm_sel_o: None when no byte is selected
  wbm_ack_i,                    \* the slave
  performed                     \* the accesses it made for the transfer on the bus

wishbone == <<wbm_stb_o, wbm_we_o, wbm_adr_o, wbm_dat_o>>
vars == <<resetn, mem_valid, request, state, mem_ready, wishbone, wbm_ack_i, performed>>

Native == INSTANCE NativeBus

------------------------------------------------------------------------------
(* The bridge.                                                             *)

\* Wrong variant: reset leaves the state alone.
state_kept == state
StateOnReset == "IDLE"

BridgeReset ==
  /\ ~resetn
  /\ state' = StateOnReset
  /\ wbm_stb_o' = FALSE /\ wbm_we_o' = FALSE
  /\ wbm_adr_o' = 0 /\ wbm_dat_o' = None
  /\ UNCHANGED mem_ready

BridgeStart ==
  /\ resetn /\ state = "IDLE" /\ mem_valid
  /\ state' = "WBSTART"
  /\ wbm_stb_o' = TRUE
  /\ wbm_we_o' = (request.write # None)
  /\ wbm_adr_o' = request.addr /\ wbm_dat_o' = request.write
  /\ UNCHANGED mem_ready

\* Wrong variant: mem_ready is not cleared here; it may be up after a reset.
ready_kept == mem_ready
ReadyWhenIdle == FALSE

BridgeIdle ==
  /\ resetn /\ state = "IDLE" /\ ~mem_valid
  /\ mem_ready' = ReadyWhenIdle
  /\ wbm_stb_o' = FALSE /\ wbm_we_o' = FALSE
  /\ UNCHANGED <<state, wbm_adr_o, wbm_dat_o>>

\* Wrong variant: the bus is given up without waiting for the acknowledge.
strobe_pulse == FALSE
StrobeHeld == ~wbm_ack_i

BridgeWaits ==
  /\ resetn /\ state = "WBSTART" /\ ~wbm_ack_i
  /\ wbm_stb_o' = StrobeHeld
  /\ UNCHANGED <<state, mem_ready, wbm_we_o, wbm_adr_o, wbm_dat_o>>

\* Wrong variant: the bridge looks at mem_valid again in the cycle of mem_ready.
no_end == "IDLE"
AfterAck == "WBEND"

BridgeAcknowledged ==
  /\ resetn /\ state = "WBSTART" /\ wbm_ack_i
  /\ state' = AfterAck
  /\ mem_ready' = TRUE
  /\ wbm_stb_o' = FALSE /\ wbm_we_o' = FALSE
  /\ UNCHANGED <<wbm_adr_o, wbm_dat_o>>

BridgeEnds ==
  /\ resetn /\ state = "WBEND"
  /\ state' = "IDLE" /\ mem_ready' = FALSE
  /\ UNCHANGED wishbone

Bridge == \/ BridgeReset \/ BridgeStart \/ BridgeIdle
          \/ BridgeWaits \/ BridgeAcknowledged \/ BridgeEnds

------------------------------------------------------------------------------
(* The slave makes the access in the cycle it acknowledges.                *)

Access == [instr |-> request.instr, addr |-> wbm_adr_o,
           write |-> IF wbm_we_o THEN wbm_dat_o ELSE None]

Slave ==
  /\ wbm_ack_i' \in {FALSE, wbm_stb_o' \/ (wbm_stb_o /\ resetn)}
  /\ performed' = (IF Native!Continuing THEN performed ELSE <<>>)
                  \o (IF resetn /\ wbm_stb_o /\ wbm_ack_i THEN <<Access>> ELSE <<>>)

------------------------------------------------------------------------------
\* At power-up the registers of the bridge hold anything.
Init ==
  /\ resetn = FALSE /\ mem_valid \in BOOLEAN /\ Native!MasterInit
  /\ state \in {"IDLE", "WBSTART", "WBEND", "default"}
  /\ mem_ready \in BOOLEAN /\ wbm_stb_o \in BOOLEAN /\ wbm_we_o \in BOOLEAN
  /\ wbm_adr_o \in Addrs /\ wbm_dat_o \in Data \cup {None}
  /\ wbm_ack_i = FALSE
  /\ performed = <<>>

Next ==
  /\ resetn' \in BOOLEAN
  /\ Native!MasterStep
  /\ Bridge
  /\ Slave

Spec == Init /\ [][Next]_vars

\* The clock runs, whether reset comes or not; the slave acknowledges in the
\* end.
Running == resetn' = TRUE /\ Next
FairSpec == Spec /\ WF_vars(Running) /\ WF_vars(wbm_ack_i' = TRUE /\ Running)

------------------------------------------------------------------------------
(* Properties.                                                             *)

\* Registers and inputs keep to their types; after reset the state register
\* never takes its fourth value and mem_ready is only up in WBEND or idle.
TypeOK ==
  /\ resetn \in BOOLEAN /\ mem_valid \in BOOLEAN /\ request \in Native!Requests
  /\ mem_ready \in BOOLEAN /\ wbm_stb_o \in BOOLEAN /\ wbm_we_o \in BOOLEAN
  /\ wbm_adr_o \in Addrs \cup {0} /\ wbm_dat_o \in Data \cup {None}
  /\ wbm_ack_i \in BOOLEAN /\ performed \in Seq(Native!Requests)
  /\ resetn => state \in {"IDLE", "WBSTART", "WBEND"}

\* The rules of Wishbone for a master: a cycle stays on the bus, unchanged,
\* until it is acknowledged, and ends then.
WbCycleHeld ==
  [][resetn /\ wbm_stb_o =>
       IF wbm_ack_i THEN ~wbm_stb_o' ELSE UNCHANGED wishbone]_vars

\* The bridge and a slave are a memory: each native transfer is one Wishbone
\* cycle, and mem_ready comes with its answer, also when reset came while
\* mem_ready, which it does not clear, was up.
ServesNative == Native!NativeSpec

\* Every transfer is answered in the end, unless reset withdraws it.
TransfersAnswered == mem_valid ~> mem_ready \/ ~resetn

------------------------------------------------------------------------------
(* The inductive invariant behind the theorems of PicoWb_proofs.           *)

\* What the state of the bridge says of the transfer on the native side and of
\* the cycle on the Wishbone side.  mem_ready may be up in IDLE only while
\* there is no transfer it could answer.
Serving ==
  CASE state = "IDLE"    -> /\ ~wbm_stb_o /\ performed = <<>>
                            /\ mem_valid => ~mem_ready
    [] state = "WBSTART" -> /\ wbm_stb_o /\ performed = <<>>
                            /\ mem_valid /\ ~mem_ready
                            /\ wbm_we_o = (request.write # None)
                            /\ wbm_adr_o = request.addr /\ wbm_dat_o = request.write
    [] state = "WBEND"   -> /\ ~wbm_stb_o /\ performed = <<request>>
                            /\ mem_valid /\ mem_ready
    [] OTHER             -> FALSE

WbInv ==
  /\ TypeOK
  /\ Serving \/ (~resetn /\ performed = <<>>)
==============================================================================
