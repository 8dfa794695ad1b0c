------------------------------ MODULE PicoSram ------------------------------
(***************************************************************************)
(* picorv32_with_sram (picorv32_with_sram.v): the core, known by its       *)
(* contract NativeBus, with a synchronous SRAM macro that has no ready     *)
(* signal and whose chip select is always active: the macro makes an       *)
(* access at every clock edge, whether there is a transfer or not, and     *)
(* writes again and again what mem_addr, mem_wdata and mem_wstrb show.     *)
(* The byte address mem_addr meets a port of 9 bits that counts words.     *)
(*                                                                         *)
(* Of each word the model follows one byte; a write is what it does to     *)
(* that byte, Other when wmask0 leaves it out.                             *)
(***************************************************************************)
EXTENDS Integers, Sequences

CONSTANTS Addrs, Rows, Data, Other, None  \* addr0 counts to Rows, 512

ASSUME SramAssumption ==
  /\ Addrs \subseteq Nat /\ Rows \in Nat \ {0}
  /\ None \notin Data /\ Other \notin Data /\ Other # None

VARIABLES
  resetn, mem_valid, request,  \* the core
  mem_ready,                   \* the wrapper
  memory,                      \* the contents of the macro
  sampled,  \* the request the macro saw at the last edge, and
  mem_rdata,                   \* what it read for it
  answered, \* whether that edge belongs to the transfer on the bus
  written   \* what the program knows of each word: written there last, or None

vars == <<resetn, mem_valid, request, mem_ready, memory, sampled, mem_rdata, answered, written>>

\* The wrapper leaves COMPRESSED_ISA at its default, 0.
Native == INSTANCE NativeBus WITH
  COMPRESSED_ISA <- FALSE, Data <- Data \cup {Other},
  performed <- IF mem_valid /\ answered THEN <<sampled>> ELSE <<>>

------------------------------------------------------------------------------
\* The macro has no cycle to look the word up in.
\* Wrong variant: ready without a wait.
ready_at_once == TRUE
ReadyNext == mem_valid

\* web0 is active low.  Wrong variant: active high.
web0_inverted == request.write # None
web0 == ~(request.write # None)

Ready == mem_ready' = ReadyNext

addr0(a) == a % Rows

\* One port: an access writes or reads.  After a write dout0 is undefined.
Macro ==
  /\ sampled' = request
  /\ \/ /\ ~web0 /\ request.write # Other
        /\ memory' = [memory EXCEPT ![addr0(request.addr)] = request.write]
        /\ mem_rdata' \in Data
     \/ ~web0 /\ request.write = Other /\ mem_rdata' \in Data /\ UNCHANGED memory
     \/ web0 /\ mem_rdata' = memory[addr0(request.addr)] /\ UNCHANGED memory
  /\ answered' = Native!Continuing

Writing == request.write \in Data

\* written belongs to the properties.  A write counts from the edge that ends
\* its transfer; one that reset cuts off may or may not have been made.
Written ==
  written' = CASE Writing /\ mem_valid /\ ~resetn -> [written EXCEPT ![request.addr] = None]
               [] Writing /\ mem_valid /\ resetn /\ mem_ready ->
                    [written EXCEPT ![request.addr] = request.write]
               [] OTHER -> written

------------------------------------------------------------------------------
Init ==
  /\ resetn = FALSE /\ mem_valid \in BOOLEAN /\ Native!MasterInit
  /\ mem_ready \in BOOLEAN
  /\ memory \in [{addr0(a) : a \in Addrs} -> Data] /\ mem_rdata \in Data
  /\ sampled = request /\ answered = FALSE
  /\ written = [a \in Addrs |-> None]

Next ==
  /\ resetn' \in BOOLEAN
  /\ Native!MasterStep
  /\ Ready
  /\ Macro
  /\ Written

Spec == Init /\ [][Next]_vars

------------------------------------------------------------------------------
(* Properties.                                                             *)

\* Registers keep to their types.
TypeOK ==
  /\ resetn \in BOOLEAN /\ mem_valid \in BOOLEAN /\ request \in Native!Requests
  /\ mem_ready \in BOOLEAN /\ answered \in BOOLEAN
  /\ memory \in [{addr0(a) : a \in Addrs} -> Data] /\ sampled \in Native!Requests /\ mem_rdata \in Data
  /\ written \in [Addrs -> Data \cup {None}]

\* mem_ready, which is mem_valid a cycle late and still up in the cycle after
\* a transfer, never answers a transfer the macro has not seen.
ServesNative == Native!NativeSpec

\* A read returns what the program wrote last, although the macro repeats
\* writes while there is no transfer and through reset and trap.  It needs
\* addresses that addr0 tells apart: 512 bytes, not the 2 kbytes of
\* sky130_sram_2kbyte_1rw1r_32x512_8 (picorv32_with_sram.v:48).
ReadsLastWrite ==
  resetn /\ mem_valid /\ mem_ready /\ request.write = None /\ written[request.addr] # None =>
    mem_rdata = written[request.addr]

------------------------------------------------------------------------------
(* The inductive invariant behind the theorems of PicoSram_proofs.         *)

\* No two addresses share a row of the macro.
RowsApart == \A a, b \in Addrs : addr0(a) = addr0(b) => a = b

\* The macro has seen the transfer that mem_ready answers.
SeenInv ==
  /\ TypeOK
  /\ mem_valid /\ answered => sampled = request /\ mem_ready
  /\ resetn /\ mem_valid /\ mem_ready => answered

\* Its contents are what the program wrote, except for a write that is not
\* over yet.  What it keeps writing while there is no transfer is what is there.
SramInv ==
  /\ SeenInv
  /\ mem_valid /\ answered /\ request.write = None => mem_rdata = memory[addr0(request.addr)]
  /\ mem_valid /\ answered /\ Writing => memory[addr0(request.addr)] = request.write
  /\ ~mem_valid /\ Writing => written[request.addr] \in {None, request.write}
  /\ \A a \in Addrs :
       \/ written[a] \in {None, memory[addr0(a)]}
       \/ mem_valid /\ answered /\ Writing /\ request.addr = a
==============================================================================
