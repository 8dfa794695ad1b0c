------------------------------- MODULE SpiMemIo -------------------------------
(***************************************************************************)
(* The flash controller picosoc/spimemio.v and the chip.  The CPU asks for *)
(* a word; the controller reads it and goes on to the next one unasked.    *)
(* A step is the transfer of a byte, of the address, or of a word: the CPU *)
(* can change its mind about where to read in between.  In the hardware it *)
(* can also do so in the middle of a transfer, which is then cut off.      *)
(***************************************************************************)
EXTENDS SpiFlash

VARIABLES
  addr,         \* the word that the CPU waits for, None if for none
  chip,
  config,       \* [ddr, qspi, cont : BOOLEAN, dummy]
  state,        \* "exit" 0, 1; "wake" 2, 3; "command" 4; "address" 5-7; "mode" 8; "data" 9-12
  rdata, rd_addr, rd_valid, rd_wait, rd_inc

memio == <<state, rdata, rd_addr, rd_valid, rd_wait, rd_inc>>

ResetConfig == [ddr |-> FALSE, qspi |-> FALSE, cont |-> FALSE, dummy |-> LATENCY]

valid == addr # None
ready == valid /\ addr = rd_addr /\ rd_valid
jump == valid /\ ~ready /\ addr # Succ(rd_addr) /\ rd_valid

ConfigLanes ==
  CASE config.qspi /\ config.ddr   -> QDDR
    [] config.qspi /\ ~config.ddr  -> QUAD
    [] ~config.qspi /\ config.ddr  -> DUAL
    [] ~config.qspi /\ ~config.ddr -> SPI
ReadCommand ==
  CASE ConfigLanes = QDDR -> 237 [] ConfigLanes = QUAD -> 235 [] ConfigLanes = DUAL -> 187 [] OTHER -> 3

\* Every write of the configuration, and bit banging, resets the controller.
SoftReset ==
  /\ state' = "exit" /\ rd_valid' = FALSE
  /\ UNCHANGED <<rdata, rd_addr, rd_wait, rd_inc>>

\* The chip may still be reading continuously, or be asleep.
ExitXip ==
  /\ state = "exit"
  /\ chip' = Deselected(Receive(chip, <<255>>, SPI)) /\ state' = "wake"
  /\ UNCHANGED <<rdata, rd_addr, rd_valid, rd_wait, rd_inc>>

Wake ==
  /\ state = "wake"
  /\ chip' = Deselected(Receive(chip, <<WakeUp>>, SPI)) /\ state' = "command"
  /\ UNCHANGED <<rdata, rd_addr, rd_valid, rd_wait, rd_inc>>

Command ==
  /\ state = "command"
  /\ chip' = Receive(chip, <<ReadCommand>>, SPI) /\ state' = "address" /\ rd_inc' = FALSE
  /\ UNCHANGED <<rdata, rd_addr, rd_valid, rd_wait>>

Address ==
  /\ state = "address" /\ valid /\ ~ready
  /\ chip' = Receive(chip, <<addr, addr, addr>>, ConfigLanes)
  /\ state' = IF ConfigLanes = SPI THEN "data" ELSE "mode"
  /\ UNCHANGED <<rdata, rd_addr, rd_valid, rd_wait, rd_inc>>

Mode ==
  /\ state = "mode"
  /\ chip' = Receive(chip, <<IF config.cont THEN 165 ELSE 255>>, ConfigLanes) /\ state' = "data"
  /\ UNCHANGED <<rdata, rd_addr, rd_valid, rd_wait, rd_inc>>

\* The word after the next one is not read before the CPU asks for something.
\* Wrong variant: not before it takes the one that has been read.
MayReadTaken == ~rd_wait
MayRead == ~rd_wait \/ valid

Data ==
  /\ state = "data" /\ ~ready /\ ~jump /\ MayRead
  /\ rdata' = WordRead(chip, ConfigLanes, config.dummy) /\ chip' = ReadsOn(chip, rdata')
  /\ rd_addr' = IF rd_inc THEN Succ(rd_addr) ELSE addr
  /\ rd_valid' = TRUE /\ rd_wait' = (rd_inc /\ ~valid) /\ rd_inc' = TRUE
  /\ UNCHANGED state

\* The CPU wants a word that is neither here nor next.
Jump ==
  /\ jump
  /\ chip' = Deselected(chip) /\ state' = IF config.cont THEN "address" ELSE "command"
  /\ rd_valid' = FALSE /\ rd_wait' = FALSE /\ rd_inc' = FALSE
  /\ UNCHANGED <<rdata, rd_addr>>

\* The CPU takes the word.
Ready ==
  /\ ready /\ addr' = None /\ rd_wait' = FALSE
  /\ UNCHANGED <<chip, config, state, rdata, rd_addr, rd_valid, rd_inc>>

MemIoInit ==
  /\ addr = None /\ config = ResetConfig /\ state = "exit"
  /\ rdata = Garbage /\ rd_addr = 0 /\ rd_valid = FALSE /\ rd_wait = FALSE /\ rd_inc = FALSE

MemIoStep ==
  /\ ExitXip \/ Wake \/ Command \/ Address \/ Mode \/ Data \/ Jump
  /\ UNCHANGED <<addr, config>>
===============================================================================
