-------------------------- MODULE PicoSram_proofs --------------------------
(***************************************************************************)
(* picorv32_with_sram, for all sets of addresses and data: the delayed     *)
(* mem_valid is a correct mem_ready, and the writes the macro repeats      *)
(* never show.                                                             *)
(***************************************************************************)
EXTENDS PicoSram, TLAPS

LEMMA OneLong == ASSUME NEW x PROVE <<x>> # <<>>
OBVIOUS

\* The steps of the core that are possible without COMPRESSED_ISA.
LEMMA CoreSteps ==
  ASSUME Next
  PROVE  \/ ~resetn /\ ~mem_valid' /\ request' = request
         \/ resetn /\ mem_valid /\ ~mem_ready /\ mem_valid' /\ request' = request
         \/ resetn /\ mem_valid /\ mem_ready /\ ~mem_valid' /\ request' = request
         \/ resetn /\ ~mem_valid /\ mem_valid' /\ request' \in Native!Requests
         \/ /\ resetn /\ ~mem_valid /\ ~mem_valid'
            /\ \/ request' = request
               \/ request' \in Native!Requests /\ request'.write = None
<1>1. \A a \in Addrs : Native!Fetch(a) \in Native!Requests /\ Native!Fetch(a).write = None
  BY DEF Native!Fetch, Native!Requests
<1>. QED
  BY <1>1 DEF Next, Native!MasterStep, Native!Withdraws, Native!Waits, Native!Ends,
     Native!Continues, Native!Starts, Native!Idles, Native!Continuing

LEMMA TypesKept ==
  ASSUME TypeOK, Next
  PROVE  TypeOK'
<1>1. /\ request \in Native!Requests /\ request.addr \in Addrs
      /\ request.write \in Data \cup {Other, None}
  BY DEF TypeOK, Native!Requests
<1>2. request' \in Native!Requests /\ mem_valid' \in BOOLEAN
  <2>1. mem_valid' \in BOOLEAN
    BY DEF Next, Native!MasterStep, Native!Withdraws, Native!Waits, Native!Ends,
           Native!Continues, Native!Starts, Native!Idles
  <2>. QED BY <1>1, <2>1, CoreSteps
<1>3. /\ memory' \in [{addr0(a) : a \in Addrs} -> Data]
      /\ mem_rdata' \in Data /\ sampled' \in Native!Requests
  BY <1>1 DEF TypeOK, Next, Macro, web0
<1>4. written' \in [Addrs -> Data \cup {None}]
  BY <1>1 DEF TypeOK, Next, Written, Writing
<1>5. mem_ready' \in BOOLEAN /\ answered' \in BOOLEAN /\ resetn' \in BOOLEAN
  BY DEF TypeOK, Next, Ready, ReadyNext, Macro, Native!Continuing
<1>. QED BY <1>2, <1>3, <1>4, <1>5 DEF TypeOK

\* mem_ready is up exactly in the second cycle of a transfer.
LEMMA AnswersKept ==
  ASSUME SeenInv, Next
  PROVE  /\ (mem_valid /\ answered)' =>
              /\ sampled' = request' /\ mem_ready'
              /\ resetn /\ mem_valid /\ request' = request
              /\ sampled' = request
         /\ (mem_valid /\ mem_ready)' => answered'
<1>1. answered' = Native!Continuing /\ sampled' = request /\ mem_ready' = mem_valid
  BY DEF Next, Macro, Ready, ReadyNext
<1>. QED BY <1>1, CoreSteps DEF Native!Continuing

LEMMA SeenInvAlways == Spec => []SeenInv
<1>1. Init => SeenInv
  <2>. SUFFICES ASSUME Init PROVE SeenInv OBVIOUS
  <2>1. TypeOK BY DEF Init, TypeOK, Native!MasterInit
  <2>. QED BY <2>1 DEF Init, SeenInv
<1>2. SeenInv /\ [Next]_vars => SeenInv'
  <2>1. SeenInv /\ Next => SeenInv'
    <3>. SUFFICES ASSUME SeenInv, Next PROVE SeenInv' OBVIOUS
    <3>1. TypeOK' BY TypesKept DEF SeenInv
    <3>. QED BY <3>1, AnswersKept DEF SeenInv
  <2>2. SeenInv /\ UNCHANGED vars => SeenInv' BY DEF vars, SeenInv, TypeOK
  <2>. QED BY <2>1, <2>2
<1>. QED BY <1>1, <1>2, PTL DEF Spec

\* The macro writes what the request shows.
LEMMA Contents ==
  ASSUME RowsApart, TypeOK, Next, NEW a \in Addrs
  PROVE  memory'[addr0(a)] =
           IF Writing /\ request.addr = a THEN request.write ELSE memory[addr0(a)]
<1>1. memory \in [{addr0(b) : b \in Addrs} -> Data] BY DEF TypeOK
<1>2. request.addr \in Addrs /\ request.write \in Data \cup {Other, None}
  BY DEF TypeOK, Native!Requests
<1>3. addr0(request.addr) = addr0(a) <=> request.addr = a BY <1>2 DEF RowsApart
<1>4. CASE Writing
  <2>1. memory' = [memory EXCEPT ![addr0(request.addr)] = request.write]
    BY <1>4, SramAssumption DEF Next, Macro, web0, Writing
  <2>. QED BY <1>1, <1>3, <1>4, <2>1
<1>5. CASE ~Writing
  <2>1. memory' = memory BY <1>2, <1>5 DEF Next, Macro, web0, Writing
  <2>. QED BY <1>5, <2>1
<1>. QED BY <1>4, <1>5

\* What the program knows changes at the end of a write or when it is cut off.
LEMMA Knowledge ==
  ASSUME TypeOK, Next, NEW a \in Addrs
  PROVE  written'[a] = IF Writing /\ mem_valid /\ request.addr = a /\ (~resetn \/ mem_ready)
                         THEN IF resetn THEN request.write ELSE None
                         ELSE written[a]
<1>1. written \in [Addrs -> Data \cup {None}] BY DEF TypeOK
<1>. QED BY <1>1 DEF Next, Written, Writing

\* A read shows the contents.
LEMMA ReadKept ==
  ASSUME RowsApart, SramInv, Next, (mem_valid /\ answered)'
  PROVE  /\ request'.write = None => mem_rdata' = memory'[addr0(request'.addr)]
         /\ Writing' => memory'[addr0(request'.addr)] = request'.write
<1>1. request' = request BY AnswersKept DEF SramInv
<1>2. Writing' <=> Writing BY <1>1 DEF Writing
<1>3. TypeOK /\ request.addr \in Addrs BY DEF SramInv, SeenInv, TypeOK, Native!Requests
<1>4. memory'[addr0(request.addr)] =
        IF Writing THEN request.write ELSE memory[addr0(request.addr)]
  BY <1>3, Contents
<1>5. request.write = None => ~Writing /\ mem_rdata' = memory[addr0(request.addr)]
  BY SramAssumption DEF Next, Macro, web0, Writing
<1>. QED BY <1>1, <1>2, <1>4, <1>5

\* What is written again while there is no transfer is known or unknown, but
\* never out of date.
LEMMA RepeatsHarmless ==
  ASSUME SramInv, Next
  PROVE  (~mem_valid /\ Writing)' => written'[request'.addr] \in {None, request'.write}
<1>. SUFFICES ASSUME ~mem_valid', Writing'
              PROVE  written'[request'.addr] \in {None, request'.write}
  OBVIOUS
<1>1. TypeOK BY DEF SramInv, SeenInv
<1>2. request' = request
  BY CoreSteps, SramAssumption DEF Writing
<1>3. Writing /\ request.addr \in Addrs BY <1>1, <1>2 DEF Writing, TypeOK, Native!Requests
<1>4. written'[request.addr] = IF mem_valid /\ (~resetn \/ mem_ready)
                                 THEN IF resetn THEN request.write ELSE None
                                 ELSE written[request.addr]
  BY <1>1, <1>3, Knowledge
<1>5. CASE mem_valid
  <2>1. ~resetn \/ mem_ready BY <1>5, CoreSteps
  <2>. QED BY <1>2, <1>4, <1>5, <2>1
<1>6. CASE ~mem_valid
  <2>1. written[request.addr] \in {None, request.write} BY <1>3, <1>6 DEF SramInv
  <2>. QED BY <1>2, <1>4, <1>6, <2>1
<1>. QED BY <1>5, <1>6

LEMMA KnownIsThere ==
  ASSUME RowsApart, SramInv, Next, NEW a \in Addrs
  PROVE  \/ written'[a] \in {None, memory'[addr0(a)]}
         \/ (mem_valid /\ answered /\ Writing)' /\ request'.addr = a
<1>1. TypeOK BY DEF SramInv, SeenInv
<1>2. memory'[addr0(a)] =
        IF Writing /\ request.addr = a THEN request.write ELSE memory[addr0(a)]
  BY <1>1, Contents
<1>3. written'[a] = IF Writing /\ mem_valid /\ request.addr = a /\ (~resetn \/ mem_ready)
                      THEN IF resetn THEN request.write ELSE None
                      ELSE written[a]
  BY <1>1, Knowledge
<1>4. CASE ~(Writing /\ request.addr = a)
  <2>1. written[a] \in {None, memory[addr0(a)]} BY <1>4 DEF SramInv
  <2>. QED BY <1>2, <1>3, <1>4, <2>1
<1>5. CASE Writing /\ request.addr = a /\ ~mem_valid
  <2>1. written[a] \in {None, request.write} BY <1>5 DEF SramInv
  <2>. QED BY <1>2, <1>3, <1>5, <2>1
<1>6. CASE Writing /\ request.addr = a /\ mem_valid /\ (~resetn \/ mem_ready)
  BY <1>2, <1>3, <1>6
<1>7. CASE Writing /\ request.addr = a /\ mem_valid /\ resetn /\ ~mem_ready
  <2>1. mem_valid' /\ request' = request BY <1>7, CoreSteps
  <2>2. answered' BY <1>7 DEF Next, Macro, Native!Continuing
  <2>. QED BY <1>7, <2>1, <2>2 DEF Writing
<1>. QED BY <1>4, <1>5, <1>6, <1>7 DEF TypeOK

LEMMA SramInvAlways ==
  ASSUME RowsApart
  PROVE  Spec => []SramInv
<1>1. Init => SramInv
  <2>. SUFFICES ASSUME Init PROVE SramInv OBVIOUS
  <2>1. TypeOK BY DEF Init, TypeOK, Native!MasterInit
  <2>. QED BY <2>1 DEF Init, SramInv, SeenInv, Native!MasterInit, Native!Requests
<1>2. SramInv /\ SeenInv' /\ [Next]_vars => SramInv'
  <2>1. SramInv /\ SeenInv' /\ Next => SramInv'
    <3>. SUFFICES ASSUME SramInv, SeenInv', Next PROVE SramInv' OBVIOUS
    <3>. QED BY ReadKept, RepeatsHarmless, KnownIsThere DEF SramInv
  <2>2. SramInv /\ SeenInv' /\ UNCHANGED vars => SramInv' BY DEF vars, SramInv, Writing
  <2>. QED BY <2>1, <2>2
<1>. QED BY <1>1, <1>2, SeenInvAlways, PTL DEF Spec

------------------------------------------------------------------------------
(* The theorems.                                                           *)

\* A read returns what the program wrote last, through repeated writes, reset
\* and reuse of the bus, for programs whose addresses have rows of their own.
THEOREM ReadsReturnLastWrite ==
  ASSUME RowsApart
  PROVE  Spec => []ReadsLastWrite
<1>1. SramInv => ReadsLastWrite
  <2>. SUFFICES ASSUME SramInv, resetn, mem_valid, mem_ready, request.write = None,
                       written[request.addr] # None
                PROVE  mem_rdata = written[request.addr]
    BY DEF ReadsLastWrite
  <2>1. request.addr \in Addrs BY DEF SramInv, SeenInv, TypeOK, Native!Requests
  <2>2. answered /\ mem_rdata = memory[addr0(request.addr)] BY DEF SramInv, SeenInv
  <2>3. written[request.addr] \in {None, memory[addr0(request.addr)]}
    BY <2>1, SramAssumption DEF SramInv, Writing
  <2>. QED BY <2>2, <2>3
<1>. QED BY <1>1, SramInvAlways, PTL

\* The wrapper implements the native memory: mem_valid a cycle late never
\* answers a transfer that the macro has not seen.
THEOREM WrapperServesNative == Spec => ServesNative
<1>. DEFINE seen == IF mem_valid /\ answered THEN <<sampled>> ELSE <<>>
<1>1. Init => Native!NativeInit BY DEF Init, Native!NativeInit
<1>2. SeenInv /\ SeenInv' /\ Next => Native!MasterStep /\ Native!MemoryStep
  <2>. SUFFICES ASSUME SeenInv, SeenInv', Next PROVE Native!MemoryStep BY DEF Next
  <2>1. seen' \in {<<>>, <<request'>>} BY DEF SeenInv
  <2>2. Native!Continuing => seen = <<>> BY DEF Native!Continuing, SeenInv
  <2>3. ~mem_valid' => seen' = <<>> OBVIOUS
  <2>4. resetn' /\ mem_valid' /\ mem_ready' => seen' # <<>> BY OneLong DEF SeenInv
  <2>. QED BY <2>1, <2>2, <2>3, <2>4 DEF Native!MemoryStep
<1>3. UNCHANGED vars => UNCHANGED Native!nativeVars
  BY DEF vars, Native!nativeVars, Native!masterVars
<1>4. SeenInv /\ SeenInv' /\ [Next]_vars
        => [Native!MasterStep /\ Native!MemoryStep]_(Native!nativeVars)
  BY <1>2, <1>3
<1>. QED BY <1>1, <1>4, SeenInvAlways, PTL DEF Spec, ServesNative, Native!NativeSpec
==============================================================================
