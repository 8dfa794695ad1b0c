------------------------------ MODULE MCPrograms ------------------------------
(***************************************************************************)
(* Programs with a word of a few bits, where all operands can be tried.    *)
(***************************************************************************)
EXTENDS Programs

\* 0x1772A48F (sieve.c:77).
SieveChecksum == <<6002, 42127>>
==============================================================================
