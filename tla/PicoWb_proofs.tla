--------------------------- MODULE PicoWb_proofs ---------------------------
(***************************************************************************)
(* The Wishbone bridge picorv32_wb, for all sets of addresses and data:    *)
(* its bus cycles obey the protocol, and with any slave it implements the  *)
(* memory side of the native interface, whenever reset comes.              *)
(***************************************************************************)
EXTENDS PicoWb, TLAPS

LEMMA OneLong ==
  ASSUME NEW S, NEW x \in S
  PROVE  /\ <<x>> # <<>> /\ <<x>> \in Seq(S)
         /\ <<>> \o <<x>> = <<x>> /\ <<x>> \o <<>> = <<x>>
OBVIOUS

LEMMA Nothing == ASSUME NEW S PROVE <<>> \o <<>> = <<>> /\ <<>> \in Seq(S)
OBVIOUS

\* What the core may do in each case.
LEMMA CoreHolds ==
  ASSUME Next, Native!Continuing
  PROVE  mem_valid' /\ request' = request
BY DEF Next, Native!MasterStep, Native!Withdraws, Native!Waits, Native!Ends,
       Native!Continues, Native!Starts, Native!Idles, Native!Continuing

LEMMA CoreWithdraws == ASSUME Next, ~resetn PROVE ~mem_valid'
BY DEF Next, Native!MasterStep, Native!Withdraws, Native!Waits, Native!Ends,
       Native!Continues, Native!Starts, Native!Idles, Native!Continuing

LEMMA RequestType == ASSUME TypeOK, Next PROVE request' \in Native!Requests /\ mem_valid' \in BOOLEAN
<1>1. request \in Native!Requests BY DEF TypeOK
<1>2. Native!MasterStep BY DEF Next
<1>3. CASE Native!Withdraws BY <1>1, <1>3 DEF Native!Withdraws
<1>4. CASE Native!Waits BY <1>1, <1>4 DEF Native!Waits
<1>5. CASE Native!Ends BY <1>1, <1>5 DEF Native!Ends
<1>6. \A a \in Addrs : Native!Fetch(a) \in Native!Requests
  BY DEF Native!Fetch, Native!Requests
<1>7. CASE Native!Continues BY <1>6, <1>7 DEF Native!Continues
<1>8. CASE Native!Starts BY <1>8 DEF Native!Starts
<1>9. CASE Native!Idles BY <1>1, <1>6, <1>9 DEF Native!Idles
<1>. QED BY <1>2, <1>3, <1>4, <1>5, <1>7, <1>8, <1>9 DEF Native!MasterStep

\* An edge at which the slave does not acknowledge leaves performed alone.
LEMMA NoAccess ==
  ASSUME Next, ~(resetn /\ wbm_stb_o /\ wbm_ack_i), ~Native!Continuing \/ performed = <<>>
  PROVE  performed' = <<>>
BY Nothing DEF Next, Slave

------------------------------------------------------------------------------
(* One step of the bridge at a time.                                       *)

LEMMA ServingKept ==
  ASSUME WbInv, Next
  PROVE  Serving'
<1>. USE DEF Next
<1>0. TypeOK BY DEF WbInv
<1>1. CASE BridgeReset
  <2>1. ~mem_valid' BY <1>1, CoreWithdraws DEF BridgeReset
  <2>2. performed' = <<>> BY <1>1, NoAccess DEF BridgeReset, Native!Continuing
  <2>. QED BY <1>1, <2>1, <2>2 DEF BridgeReset, StateOnReset, Serving
<1>2. CASE BridgeStart
  <2>1. Serving /\ ~mem_ready /\ ~wbm_stb_o /\ performed = <<>>
    BY <1>2 DEF BridgeStart, WbInv, Serving
  <2>2. mem_valid' /\ request' = request
    BY <1>2, <2>1, CoreHolds DEF BridgeStart, Native!Continuing
  <2>3. performed' = <<>> BY <2>1, NoAccess
  <2>. QED BY <1>2, <2>1, <2>2, <2>3 DEF BridgeStart, Serving
<1>3. CASE BridgeIdle
  <2>1. ~wbm_stb_o BY <1>3 DEF BridgeIdle, WbInv, Serving
  <2>2. performed' = <<>> BY <1>3, <2>1, NoAccess DEF BridgeIdle, Native!Continuing
  <2>. QED BY <1>3, <2>2 DEF BridgeIdle, ReadyWhenIdle, Serving
<1>4. CASE BridgeWaits
  <2>1. Serving BY <1>4 DEF BridgeWaits, WbInv
  <2>2. Native!Continuing /\ performed = <<>>
    BY <1>4, <2>1 DEF BridgeWaits, Native!Continuing, Serving
  <2>3. mem_valid' /\ request' = request BY <2>2, CoreHolds
  <2>4. performed' = <<>> BY <1>4, <2>2, NoAccess DEF BridgeWaits
  <2>. QED BY <1>4, <2>1, <2>3, <2>4 DEF BridgeWaits, StrobeHeld, Serving
<1>5. CASE BridgeAcknowledged
  <2>1. Serving BY <1>5 DEF BridgeAcknowledged, WbInv
  <2>2. Native!Continuing /\ performed = <<>> /\ wbm_stb_o
    BY <1>5, <2>1 DEF BridgeAcknowledged, Native!Continuing, Serving
  <2>3. mem_valid' /\ request' = request BY <2>2, CoreHolds
  <2>4. Access = request
    <3>1. request \in Native!Requests BY <1>0 DEF TypeOK
    <3>. QED BY <1>5, <2>1, <3>1
         DEF BridgeAcknowledged, Serving, Access, Native!Requests
  <2>5. performed' = <<request'>>
    <3>1. performed' = <<>> \o <<request>>
      BY <1>5, <2>2, <2>4 DEF BridgeAcknowledged, Slave
    <3>. QED BY <2>3, <3>1, OneLong
  <2>. QED BY <1>5, <2>3, <2>5 DEF BridgeAcknowledged, AfterAck, Serving
<1>6. CASE BridgeEnds
  <2>1. Serving BY <1>6 DEF BridgeEnds, WbInv
  <2>2. ~wbm_stb_o /\ ~Native!Continuing
    BY <1>6, <2>1 DEF BridgeEnds, Serving, Native!Continuing
  <2>3. performed' = <<>> BY <2>2, NoAccess
  <2>. QED BY <1>6, <2>2, <2>3 DEF BridgeEnds, wishbone, Serving
<1>. QED BY <1>1, <1>2, <1>3, <1>4, <1>5, <1>6 DEF Bridge

LEMMA TypesKept ==
  ASSUME TypeOK, Next, Serving'
  PROVE  TypeOK'
<1>1. request' \in Native!Requests /\ mem_valid' \in BOOLEAN /\ resetn' \in BOOLEAN
  BY RequestType DEF Next
<1>2. performed' \in Seq(Native!Requests) BY <1>1, OneLong, Nothing DEF Serving
<1>3. state' \in {"IDLE", "WBSTART", "WBEND"} BY DEF Serving
<1>4. /\ mem_ready' \in BOOLEAN /\ wbm_stb_o' \in BOOLEAN /\ wbm_we_o' \in BOOLEAN
      /\ wbm_adr_o' \in Addrs \cup {0} /\ wbm_dat_o' \in Data \cup {None}
  <2>1. request.addr \in Addrs /\ request.write \in Data \cup {None}
    BY DEF TypeOK, Native!Requests
  <2>. QED BY <2>1
       DEF TypeOK, Next, Bridge, BridgeReset, BridgeStart, BridgeIdle, BridgeWaits,
           BridgeAcknowledged, BridgeEnds, ReadyWhenIdle, StrobeHeld, wishbone
<1>5. wbm_ack_i' \in BOOLEAN
  <2>1. wbm_stb_o \in BOOLEAN /\ resetn \in BOOLEAN BY DEF TypeOK
  <2>. QED BY <1>4, <2>1 DEF Next, Slave
<1>. QED BY <1>1, <1>2, <1>3, <1>4, <1>5 DEF TypeOK

LEMMA WbInvInit == Init => WbInv
<1>. SUFFICES ASSUME Init PROVE WbInv OBVIOUS
<1>1. performed \in Seq(Native!Requests) BY Nothing DEF Init
<1>. QED BY <1>1 DEF Init, WbInv, TypeOK, Native!MasterInit

LEMMA WbInvNext == WbInv /\ [Next]_vars => WbInv'
<1>1. WbInv /\ Next => WbInv' BY ServingKept, TypesKept DEF WbInv
<1>2. WbInv /\ UNCHANGED vars => WbInv'
  BY DEF vars, wishbone, WbInv, TypeOK, Serving
<1>. QED BY <1>1, <1>2

LEMMA WbInvAlways == Spec => []WbInv
BY WbInvInit, WbInvNext, PTL DEF Spec

------------------------------------------------------------------------------
(* The theorems.                                                           *)

\* A Wishbone cycle stays on the bus until it is acknowledged and ends then.
THEOREM CyclesHeld == Spec => WbCycleHeld
<1>. DEFINE Held ==
       resetn /\ wbm_stb_o => IF wbm_ack_i THEN ~wbm_stb_o' ELSE UNCHANGED wishbone
<1>1. WbInv /\ [Next]_vars => [Held]_vars
  <2>. SUFFICES ASSUME WbInv, Next, resetn, wbm_stb_o PROVE Held OBVIOUS
  <2>1. state = "WBSTART" BY DEF WbInv, Serving
  <2>2. BridgeWaits \/ BridgeAcknowledged
    BY <2>1 DEF Next, Bridge, BridgeReset, BridgeStart, BridgeIdle, BridgeEnds
  <2>. QED BY <2>2 DEF BridgeWaits, BridgeAcknowledged, StrobeHeld, wishbone, WbInv, TypeOK
<1>2. Spec => [][Held]_vars BY <1>1, WbInvAlways, PTL DEF Spec
<1>. QED BY <1>2 DEF WbCycleHeld

\* The bridge with any slave implements the native memory: each transfer of
\* the core becomes one Wishbone cycle, and a mem_ready that reset left behind
\* answers nothing.
THEOREM BridgeServesNative == Spec => ServesNative
<1>1. Init => Native!NativeInit BY DEF Init, Native!NativeInit
<1>2. WbInv /\ WbInv' /\ Next => Native!MasterStep /\ Native!MemoryStep
  <2>. SUFFICES ASSUME WbInv, Next, Serving' PROVE Native!MemoryStep
    BY ServingKept DEF Next
  <2>1. performed' \in {<<>>, <<request'>>} BY DEF Serving
  <2>2. Native!Continuing => performed = <<>> BY DEF Native!Continuing, WbInv, Serving
  <2>3. ~mem_valid' => performed' = <<>> BY DEF Serving
  <2>4. mem_valid' /\ mem_ready' => performed' # <<>>
    <3>1. <<request'>> # <<>> BY OneLong
    <3>. QED BY <3>1 DEF Serving
  <2>. QED BY <2>1, <2>2, <2>3, <2>4 DEF Native!MemoryStep
<1>3. UNCHANGED vars => UNCHANGED Native!nativeVars
  BY DEF vars, Native!nativeVars, Native!masterVars
<1>4. WbInv /\ WbInv' /\ [Next]_vars
        => [Native!MasterStep /\ Native!MemoryStep]_(Native!nativeVars)
  BY <1>2, <1>3
<1>. QED BY <1>1, <1>4, WbInvAlways, PTL DEF Spec, ServesNative, Native!NativeSpec
==============================================================================
