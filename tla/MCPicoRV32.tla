----------------------------- MODULE MCPicoRV32 -----------------------------
(* Instances of the core small enough for TLC. *)
EXTENDS PicoRV32Inv

AnyProgram == [PC -> BOOLEAN]
\* The first instruction is compressed; the last halfword begins a full-size
\* one, which goes on at 0.
WrappingProgram == {p \in AnyProgram : ~p[0] /\ p[PcN - 1]}
\* Full-size instructions that straddle two words, compressed ones before them.
MixedProgram == {[pc \in PC |-> pc % 2 = 1]}
WideProgram == {[pc \in PC |-> TRUE]}
OneDataWord == {PcN \div 2}
==============================================================================
