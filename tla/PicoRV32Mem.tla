----------------------------- MODULE PicoRV32Mem -----------------------------
(***************************************************************************)
(* The clocked half of the memory interface: the four-state machine that   *)
(* turns the requests of the main state machine (mem_do_prefetch,          *)
(* mem_do_rinst, mem_do_rdata, mem_do_wdata) into transfers on the native  *)
(* memory interface, and the buffer that lets a 32 bit instruction         *)
(* straddle two words when COMPRESSED_ISA is set.                          *)
(***************************************************************************)
EXTENDS PicoRV32State

\* The register that remembers whether the transfer in progress fetches the
\* first half of a straddling instruction.
FirstwordTracking ==
  /\ last_mem_valid' = (resetn /\ mem_valid /\ ~mem_ready)
  /\ mem_la_firstword_reg' = (resetn /\ IF last_mem_valid THEN mem_la_firstword_reg
                                                          ELSE mem_la_firstword)
  /\ clear_prefetched_high_word_q' = clear_prefetched_high_word

\* The latched word; a write transfer latches the bus as well.
WordCapture ==
  mem_rdata_q' = IF mem_xfer THEN mem_rdata_latched ELSE mem_rdata_q

\* The buffer after this edge; clear_prefetched_high_word wins.
HighWord(valid, half) ==
  /\ prefetched_high_word' = (valid /\ ~clear_prefetched_high_word)
  /\ mem_16bit_buffer' = half
KeepHighWord == HighWord(prefetched_high_word, mem_16bit_buffer)

\* A trap does not withdraw a transfer, reset does.
\* Wrong variants: both do, neither does.
NeverValidWhenHalted == FALSE
ValidThroughReset == mem_valid /\ ~mem_ready
ValidWhenHalted == mem_valid /\ resetn /\ ~mem_ready

MemHalted ==
  /\ ~resetn \/ trap
  /\ mem_state' = IF resetn THEN mem_state ELSE 0
  /\ mem_valid' = ValidWhenHalted
  /\ mem_la_secondword' = FALSE
  /\ HighWord(FALSE, mem_16bit_buffer)
  /\ UNCHANGED <<mem_addr, mem_wstrb, mem_instr>>

LookAheadAddress ==
  mem_addr' = IF mem_la_read \/ mem_la_write THEN mem_la_addr ELSE mem_addr

MemIdle ==
  LET reading == mem_do_prefetch \/ mem_do_rinst \/ mem_do_rdata
  IN  /\ resetn /\ ~trap /\ mem_state = 0
      /\ LookAheadAddress
      /\ mem_wstrb' = (~reading /\ (mem_do_wdata \/ mem_wstrb))
      /\ mem_valid' = CASE mem_do_wdata -> TRUE
                        [] reading /\ ~mem_do_wdata -> ~mem_la_use_prefetched_high_word
                        [] OTHER -> mem_valid
      /\ mem_instr' = CASE mem_do_wdata -> FALSE
                        [] reading /\ ~mem_do_wdata -> mem_do_prefetch \/ mem_do_rinst
                        [] OTHER -> mem_instr
      /\ mem_state' = CASE mem_do_wdata -> 2
                        [] reading /\ ~mem_do_wdata -> 1
                        [] OTHER -> 0
      /\ mem_la_secondword' = mem_la_secondword
      /\ KeepHighWord

\* A read is waiting for the memory, or for mem_do_rinst when the buffer
\* already holds the first half.
ReadWaits ==
  /\ resetn /\ ~trap /\ mem_state = 1 /\ ~mem_xfer
  /\ KeepHighWord
  /\ UNCHANGED <<bus, mem_la_secondword>>

\* The first half has arrived and the instruction continues in the next word.
ReadSecondWord ==
  /\ resetn /\ ~trap /\ mem_state = 1 /\ mem_xfer
  /\ COMPRESSED_ISA /\ mem_la_read
  /\ LookAheadAddress
  /\ mem_wstrb' = FALSE
  /\ mem_valid' = TRUE
  /\ mem_la_secondword' = TRUE
  /\ HighWord(prefetched_high_word,
              IF mem_la_use_prefetched_high_word THEN mem_16bit_buffer ELSE mem_rdata[2])
  /\ UNCHANGED <<mem_instr, mem_state>>

\* The read completes.  The high half of mem_rdata is buffered when the
\* instruction ended in the low half; when the instruction came from the
\* buffer, nothing drives mem_rdata and what is buffered is arbitrary.
ReadCompletes ==
  /\ resetn /\ ~trap /\ mem_state = 1 /\ mem_xfer
  /\ ~(COMPRESSED_ISA /\ mem_la_read)
  /\ mem_valid' = FALSE
  /\ mem_la_secondword' = FALSE
  /\ mem_state' = IF mem_do_rinst \/ mem_do_rdata THEN 0 ELSE 3
  /\ CASE ~COMPRESSED_ISA \/ mem_do_rdata -> KeepHighWord
       [] COMPRESSED_ISA /\ ~mem_do_rdata /\ mem_valid ->
            LET more == ~Wide(mem_rdata[1]) \/ mem_la_secondword
            IN  HighWord(more, IF more THEN mem_rdata[2] ELSE mem_16bit_buffer)
       [] OTHER ->
            \E garbage \in BOOLEAN :
              HighWord(garbage, IF garbage THEN X ELSE mem_16bit_buffer)
  /\ UNCHANGED <<mem_addr, mem_instr, mem_wstrb>>

MemWrite ==
  /\ resetn /\ ~trap /\ mem_state = 2
  /\ mem_valid' = (mem_valid /\ ~mem_xfer)
  /\ mem_state' = IF mem_xfer THEN 0 ELSE 2
  /\ KeepHighWord
  /\ UNCHANGED <<mem_addr, mem_instr, mem_wstrb, mem_la_secondword>>

\* A prefetched word is kept until the main state machine asks for it.
MemPrefetched ==
  /\ resetn /\ ~trap /\ mem_state = 3
  /\ mem_state' = IF mem_do_rinst THEN 0 ELSE 3
  /\ KeepHighWord
  /\ UNCHANGED <<mem_valid, mem_addr, mem_instr, mem_wstrb, mem_la_secondword>>

MemInterface ==
  /\ FirstwordTracking
  /\ WordCapture
  /\ \/ MemHalted
     \/ MemIdle
     \/ ReadWaits
     \/ ReadSecondWord
     \/ ReadCompletes
     \/ MemWrite
     \/ MemPrefetched

\* The requests after this edge: pf and ri are what the main state machine
\* assigns to mem_do_prefetch and mem_do_rinst, mem_done clears all four, and
\* set_mem_do_* (set names it) is applied last.
Requests(pf, ri, set) ==
  /\ mem_do_prefetch' = (pf /\ ~mem_done)
  /\ mem_do_rinst' = ((ri /\ ~mem_done) \/ set = "rinst")
  /\ mem_do_rdata' = ((mem_do_rdata /\ ~mem_done) \/ set = "rdata")
  /\ mem_do_wdata' = ((mem_do_wdata /\ ~mem_done) \/ set = "wdata")
==============================================================================
