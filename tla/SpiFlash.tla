------------------------------- MODULE SpiFlash -------------------------------
(***************************************************************************)
(* The flash chip behind spimemio, as picosoc/spiflash.v models it and as  *)
(* the firmware expects the chips of the two boards to be, which have      *)
(* registers that spiflash.v leaves out.                                   *)
(*                                                                         *)
(* Bytes are numbers.  The three bytes of an address are three times the   *)
(* number of the word.  The number of lanes is that of bits in a cycle.    *)
(***************************************************************************)
EXTENDS Integers, Sequences

CONSTANTS
  WORDS,     \* how many words of flash the program uses; the next of the last is the first
  LATENCY    \* dummy cycles of the chip of the HX8K board after power-up (the chip: 8)

ASSUME FlashAssumption == WORDS \in {1, 2, 3} /\ LATENCY \in 1 .. 8

Words == 0 .. WORDS - 1
Succ(word) == (word + 1) % WORDS
Garbage == -1
None == -2

SPI == 1
DUAL == 2
QUAD == 4
QDDR == 8
Boards == {"HX8KDEMO", "ICEBREAKER"}

\* AB wakes the chip, 03, BB, EB and ED read.
WakeUp == 171
LanesOf(command) == CASE command = 187 -> DUAL [] command = 235 -> QUAD [] command = 237 -> QDDR [] OTHER -> SPI

\* frame: what came since CS fell; out: the word that is next read.
\* mode_reset: whether FF in eight cycles ends continuous reading also with two
\* lanes (a Cypress chip), and not only where that fills the mode byte.
Chips == [
  board : Boards, mode_reset : BOOLEAN,
  powered_up : BOOLEAN, xip_cmd : {0, 187, 235, 237}, frame : {<<>>}, out : {None},
  wel : {FALSE}, quad : BOOLEAN, latency : {LATENCY}]

\* The chip has understood the command it is in.
Understands(c) ==
  /\ c.powered_up /\ c.frame # <<>>
  /\ LanesOf(c.frame[1]) > DUAL => c.quad
Lanes(c) == IF Understands(c) THEN LanesOf(c.frame[1]) ELSE SPI

\* Bytes on the given lanes: the chip, on more lanes, takes each for several.
\* (On fewer, it does not get a whole byte.)  None of them is taken for A5.  In
\* continuous reading the command is there when CS falls; the fifth byte is the
\* mode byte.
Receive(c, bytes, lanes) ==
  LET before == IF c.frame = <<>> /\ c.xip_cmd # 0 THEN <<c.xip_cmd>> ELSE c.frame
      many   == Lanes([c EXCEPT !.frame = before]) \div lanes
      after  == before \o IF many = 1 THEN bytes ELSE [k \in 1 .. many * Len(bytes) |-> Garbage]
      first  == after[1]
      mode   == Len(before) < 5 /\ Len(after) >= 5 /\ LanesOf(first) # SPI
  IN  IF after = <<>> THEN c
      ELSE [c EXCEPT
             !.frame = SubSeq(after, 1, IF Len(after) < 8 THEN Len(after) ELSE 8),
             !.powered_up = c.powered_up \/ first = WakeUp,
             !.xip_cmd =
               CASE first = 255 \/ (c.mode_reset /\ c.frame = <<>> /\ bytes = <<255>> /\ lanes = SPI) -> 0
                 [] mode -> IF after[5] = 165 THEN first ELSE 0
                 [] OTHER -> c.xip_cmd]

\* The word that is read after the header, with so many dummy cycles.
DummyCycles(c, lanes) ==
  CASE c.board = "HX8KDEMO" -> c.latency
    [] c.board = "ICEBREAKER" -> CASE lanes = DUAL -> 0 [] lanes = QUAD -> 4 [] OTHER -> 7
HeaderRight(c, lanes, dummy) ==
  /\ Understands(c)
  /\ \/ lanes = SPI /\ c.frame[1] = 3 /\ Len(c.frame) = 4
     \/ lanes # SPI /\ lanes = Lanes(c) /\ Len(c.frame) = 5 /\ dummy = DummyCycles(c, lanes)
  /\ c.frame[2] \in Words
WordRead(c, lanes, dummy) ==
  CASE c.out # None -> c.out
    [] c.out = None /\ HeaderRight(c, lanes, dummy) -> c.frame[2]
    [] c.out = None /\ ~HeaderRight(c, lanes, dummy) -> Garbage
ReadsOn(c, word) == [c EXCEPT !.out = IF word = Garbage THEN Garbage ELSE Succ(word)]

\* CS rises: a register is written if that was allowed just before.
\* 06 and 50 allow it; 71 writes the register named by the address, 31 the second one.
Bit1(value) == (value \div 2) % 2 = 1
Deselected(c) ==
  LET says(command, count) == Understands(c) /\ c.frame[1] = command /\ Len(c.frame) = count
      writes(register) == c.wel /\ says(113, 5) /\ c.frame[4] = register
  IN  [c EXCEPT
        !.frame = <<>>, !.out = None,
        !.wel = says(6, 1) \/ says(80, 1),
        !.quad = CASE writes(2) -> Bit1(c.frame[5])
                   [] c.wel /\ says(49, 2) -> Bit1(c.frame[2])
                   [] OTHER -> c.quad,
        !.latency = IF writes(4) THEN c.frame[5] % 16 ELSE c.latency]

\* What the chip has answered to a command when CS is about to rise: 65 reads
\* the register named by the address if the dummy byte (8 cycles, LATENCY here)
\* is what the chip expects, 35, 05 and 15 read the status registers, 9F the
\* identity.
Answer(c) ==
  LET command == c.frame[1]
      status  == IF c.quad THEN 2 ELSE 0
  IN  CASE ~Understands(c) \/ LanesOf(command) # SPI -> Garbage
        [] OTHER ->
             CASE command = 101 -> IF c.latency # LATENCY THEN Garbage
                                   ELSE CASE c.frame[4] = 2 -> status
                                          [] c.frame[4] = 4 -> 112 + c.latency
                                          [] OTHER -> 0
               [] command = 53 -> status
               [] command = 159 -> 239
               [] OTHER -> 0
===============================================================================
