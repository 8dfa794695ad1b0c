----------------------------- MODULE NativeBus -----------------------------
(***************************************************************************)
(* The contract of the native memory interface: what the memories and bus  *)
(* bridges may expect of the picorv32 core (MasterSpec, implemented by the *)
(* core itself), and what the core may expect of them (NativeSpec): every  *)
(* transfer becomes exactly one access, and mem_ready comes with the       *)
(* answer to the transfer it ends.                                         *)
(*                                                                         *)
(* A step is a rising edge of clk.  A request is what mem_instr, mem_addr, *)
(* mem_wdata and mem_wstrb show together; write is None when mem_wstrb is  *)
(* 0.  The core looks at mem_ready only in cycles with mem_valid.          *)
(***************************************************************************)
EXTENDS Sequences

CONSTANTS
  COMPRESSED_ISA,
  Addrs, Data,  \* addresses, and what mem_wdata and mem_wstrb show of a write
  None          \* not in Data

VARIABLES
  resetn,
  mem_valid, request,  \* driven by the core
  mem_ready,           \* driven by the memory
  performed            \* the accesses made for the transfer on the bus

masterVars == <<resetn, mem_valid, request, mem_ready>>
nativeVars == <<masterVars, performed>>

Requests == [instr : BOOLEAN, addr : Addrs, write : Data \cup {None}]
Proper(r) == r.instr => r.write = None
Fetch(a) == [instr |-> TRUE, addr |-> a, write |-> None]

\* The transfer on the bus stays there for another cycle.
Continuing == resetn /\ mem_valid /\ ~mem_ready

------------------------------------------------------------------------------
(* The core.                                                               *)

\* Reset withdraws a transfer and leaves the other registers alone.
Withdraws == ~resetn /\ mem_valid' = FALSE /\ UNCHANGED request

Waits == Continuing /\ mem_valid' = TRUE /\ UNCHANGED request

Ends == resetn /\ mem_valid /\ mem_ready /\ mem_valid' = FALSE /\ UNCHANGED request

\* A full-size instruction that straddles two words is fetched in two
\* transfers without a cycle between them.
Continues ==
  /\ COMPRESSED_ISA
  /\ resetn /\ mem_valid /\ mem_ready
  /\ request.instr /\ request.write = None
  /\ mem_valid' = TRUE
  /\ \E a \in Addrs : request' = Fetch(a)

Starts == resetn /\ ~mem_valid /\ mem_valid' = TRUE /\ request' \in Requests /\ Proper(request')

\* A fetch that begins in the half-word buffer shows itself without mem_valid.
Idles ==
  /\ resetn /\ ~mem_valid /\ mem_valid' = FALSE
  /\ \/ UNCHANGED request
     \/ \E a \in Addrs : request' = Fetch(a)

MasterStep == Withdraws \/ Waits \/ Ends \/ Continues \/ Starts \/ Idles

\* At power-up nothing is known until reset has been seen.
MasterInit == request \in Requests /\ (resetn => ~mem_valid)

MasterSpec == MasterInit /\ [][MasterStep]_masterVars

------------------------------------------------------------------------------
(* The memory.                                                             *)

\* The access is made once, while its transfer is on the bus, and before or in
\* the cycle that answers it.
MemoryStep ==
  /\ performed' \in {<<>>, <<request'>>}
  /\ Continuing /\ performed # <<>> => performed' = performed
  /\ ~mem_valid' => performed' = <<>>
  /\ resetn' /\ mem_valid' /\ mem_ready' => performed' # <<>>

NativeInit == MasterInit /\ performed = <<>>
NativeSpec == NativeInit /\ [][MasterStep /\ MemoryStep]_nativeVars
==============================================================================
