------------------------------- MODULE Programs -------------------------------
(***************************************************************************)
(* The programs of the repository that run on the bare core, one of which  *)
(* is in memory: the test firmware, the Dhrystone benchmark, or any call   *)
(* of the library the benchmark is linked with.                            *)
(***************************************************************************)
EXTENDS Firmware, Dhrystone, Stdlib

VARIABLE loaded

vars == <<loaded, firmwareVars, dhrystoneVars, stdlibVars>>

NoCall ==
  /\ function = "" /\ ram = <<>> /\ s1 = 0 /\ s2 = 0 /\ arguments = <<>> /\ result = <<>>

Init ==
  \/ loaded = "firmware" /\ FirmwareInit /\ DhrystoneInit /\ NoCall
  \/ loaded = "dhrystone" /\ FirmwareInit /\ ~fast /\ DhrystoneInit /\ NoCall
  \/ loaded = "stdlib" /\ FirmwareInit /\ ~fast /\ DhrystoneInit /\ StdlibInit

Next ==
  /\ UNCHANGED loaded
  /\ \/ loaded = "firmware" /\ FirmwareNext /\ UNCHANGED <<dhrystoneVars, stdlibVars>>
     \/ loaded = "dhrystone" /\ DhrystoneNext /\ UNCHANGED <<firmwareVars, stdlibVars>>
     \/ loaded = "stdlib" /\ StdlibNext /\ UNCHANGED <<firmwareVars, dhrystoneVars>>

\* The clock runs on and a program that can go on does.
Fairness ==
  /\ WF_vars(loaded = "firmware" /\ ProgramStep /\ Edge /\ UNCHANGED <<loaded, dhrystoneVars, stdlibVars>>)

Spec == Init /\ [][Next]_vars /\ Fairness

\* The test program gets to its end unless it is reset again and again: no
\* instruction of multest is left without an answer (multest.c:13-150).
FirmwareEnds == loaded = "firmware" /\ <>[]resetn => <>(stage = "done")
==============================================================================
