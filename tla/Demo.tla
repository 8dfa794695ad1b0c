--------------------------------- MODULE Demo ---------------------------------
(***************************************************************************)
(* The demo firmware of PicoSoC (picosoc/firmware.c, start.s), which runs  *)
(* from the flash whose controller it reconfigures.  The program is a list *)
(* of things to do; before each the CPU fetches a word of it, and while it *)
(* waits for a key it fetches on.  flashio runs from RAM and is one step.  *)
(***************************************************************************)
EXTENDS SpiMemIo, SequencesExt

VARIABLES
  todo,      \* what is left of the command
  place,     \* where the program waits for a key: "enter", "menu", "echo"
  fetched,   \* there is a word to execute
  buffer,    \* what the chip answered to the last command
  console,   \* the last number printed since, its digits, and whether the chip was reading continuously
  lost,      \* the CPU has executed what is not the program
  exposed    \* continuous reading was on with one lane, or with two if it cannot be ended

program == <<todo, place, fetched, buffer, console, lost, exposed>>
vars == <<addr, chip, config, memio, program>>

Nothing == [kind |-> "nothing", value |-> 0, digits |-> <<>>, crm |-> FALSE]

\* Things to do.
Set(fields) == [op |-> "set", fields |-> fields]
ToggleCrm == [op |-> "toggle"]
FlashIO(bytes, wrencmd) == [op |-> "flashio", bytes |-> bytes, wrencmd |-> wrencmd]
EnableQuad(bytes, wrencmd) == [op |-> "enable", bytes |-> bytes, wrencmd |-> wrencmd]
PrintHex(digits) == [op |-> "hex", digits |-> digits]
PrintBits == [op |-> "bits"]
PrintState == [op |-> "state"]
PrintMemory == [op |-> "memory"]
Work == [op |-> "work"]

HX8K == chip.board = "HX8KDEMO"

------------------------------------------------------------------------------
(* The parts of the commands.                                              *)

\* HX8KDEMO: 0x800002 is CR1V, 0x800004 CR3V.  ICEBREAKER: the second register.
set_flash_qspi_flag ==
  IF HX8K THEN <<FlashIO(<<101, 128, 0, 2, 0, 0>>, 0), EnableQuad(<<113, 128, 0, 2>>, 6)>>
          ELSE <<FlashIO(<<53, 0>>, 0), EnableQuad(<<49>>, 80)>>

\* Wrong variant: the reading mode stays (mask 0x000f0000).
set_flash_latency_in_mode(value) ==
  <<Set([dummy |-> value]), FlashIO(<<113, 128, 0, 4, 112 + value>>, 6)>>
\* The controller reads with one lane until the chip has the new value.
set_flash_latency(value) ==
  <<Set([ddr |-> FALSE, qspi |-> FALSE, cont |-> FALSE, dummy |-> value]),
    FlashIO(<<113, 128, 0, 4, 112 + value>>, 6)>>

ModeOf(lanes, crm) == [ddr |-> lanes \in {DUAL, QDDR}, qspi |-> lanes \in {QUAD, QDDR}, cont |-> crm]
set_flash_mode(lanes) ==
  IF HX8K THEN <<Set(ModeOf(lanes, FALSE))>>
  ELSE LET dummy == CASE lanes = QUAD -> 4 [] lanes = QDDR -> 7 [] OTHER -> 0
       IN  <<Set([dummy |-> dummy] @@ ModeOf(lanes, FALSE))>>
enable_flash_crm == <<Set([cont |-> TRUE])>>

cmd_read_flash_id == <<FlashIO(<<159>> \o [k \in 1 .. 6 |-> 0], 0), PrintHex(2)>>

\* Register 4 is the one with the latency: it reads as 112 + latency.
\* Wrong variant: read at the latency at hand.
cmd_read_flash_regs_print_now(register) == <<FlashIO(<<101, 128, 0, register, 0, 0>>, 0), PrintHex(2)>>
cmd_read_flash_regs_print(register) ==
  set_flash_latency(LATENCY) \o <<FlashIO(<<101, 128, 0, register, 0, 0>>, 0), PrintHex(2)>>
cmd_read_flash_reg(command) == <<FlashIO(<<command, 0>>, 0), PrintBits>>
cmd_read_flash_regs ==
  FlattenSeq(IF HX8K THEN [k \in 1 .. 6 |-> cmd_read_flash_regs_print(k - 1)]
                     ELSE <<cmd_read_flash_reg(5), cmd_read_flash_reg(53), cmd_read_flash_reg(21)>>)

\* Several words in a row: loops, and printing the cycles.
cmd_benchmark == <<Work, Work, Work>>

BenchmarkAt(lanes, crm) ==
  FlattenSeq([k \in 1 .. LATENCY |->
    set_flash_latency(LATENCY + 1 - k) \o <<Set(ModeOf(lanes, crm))>> \o cmd_benchmark])
cmd_benchmark_all ==
  IF HX8K
  THEN set_flash_mode(SPI) \o cmd_benchmark
       \o BenchmarkAt(DUAL, FALSE) \o BenchmarkAt(DUAL, TRUE)
       \o BenchmarkAt(QUAD, FALSE) \o BenchmarkAt(QUAD, TRUE)
       \o BenchmarkAt(QDDR, FALSE) \o BenchmarkAt(QDDR, TRUE)
  ELSE set_flash_mode(SPI) \o cmd_benchmark \o set_flash_mode(DUAL) \o cmd_benchmark
       \o set_flash_mode(QUAD) \o cmd_benchmark \o enable_flash_crm \o cmd_benchmark
       \o set_flash_mode(QDDR) \o cmd_benchmark \o enable_flash_crm \o cmd_benchmark

------------------------------------------------------------------------------
(* Printing.                                                               *)

\* The highest digit is left out when it is 0, and so is the next one.
print_dec(v) ==
  IF v >= 1000 THEN <<">=1000">>
  ELSE LET hundreds == v \div 100
           tens     == (v \div 10) % 10
           Shown(d) == IF d = 0 THEN <<>> ELSE <<d>>
       IN  Shown(hundreds) \o Shown(tens) \o <<v % 10>>

\* At least so many digits; v is below 16^4 here.
print_hex(v, digits) ==
  LET digit(k) == (v \div 16^k) % 16
      shown == {k \in 0 .. 3 : k < digits \/ \E j \in k .. 3 : digit(j) # 0}
  IN  [n \in 1 .. Cardinality(shown) |-> digit(Cardinality(shown) - n)]

print_reg_bit(val) == <<IF val # 0 THEN 1 ELSE 0>>

Number(kind, value, digits) ==
  [kind |-> kind, value |-> value, digits |-> digits, crm |-> config.cont]
Byte(value) == value % 256

MEM_TOTAL == IF HX8K THEN 512 ELSE 131072

------------------------------------------------------------------------------
(* Doing them.                                                             *)

\* From RAM: the chip is selected by hand, first for the command that allows
\* to write, if any.
flashio(bytes, wrencmd) ==
  \E begun \in {Deselected(chip)} :
    \E allowed \in {IF wrencmd = 0 THEN begun ELSE Deselected(Receive(begun, <<wrencmd>>, SPI))} :
      \E end \in {Receive(allowed, bytes, SPI)} :
        /\ chip' = Deselected(end) /\ buffer' = Answer(end)
        /\ SoftReset

SetConfig(new) ==
  /\ config' = new /\ chip' = Deselected(chip) /\ SoftReset
  /\ exposed' = (exposed \/ (new.cont /\ ~new.qspi /\ ~(new.ddr /\ chip.mode_reset)))

WithBit1(value) == IF Bit1(value) THEN value ELSE value + 2

Executing == fetched /\ addr = None /\ todo # <<>> /\ ~lost
Is(op) == Executing /\ todo[1].op = op
Done == todo' = Tail(todo) /\ fetched' = FALSE /\ UNCHANGED <<addr, place, lost>>

DoSet ==
  /\ Is("set") /\ SetConfig(todo[1].fields @@ config)
  /\ Done /\ UNCHANGED <<buffer, console>>

DoToggle ==
  /\ Is("toggle") /\ SetConfig([config EXCEPT !.cont = ~@])
  /\ Done /\ UNCHANGED <<buffer, console>>

DoFlashIO ==
  /\ \/ Is("flashio") /\ flashio(todo[1].bytes, todo[1].wrencmd)
     \/ Is("enable") /\ flashio(Append(todo[1].bytes, WithBit1(buffer)), todo[1].wrencmd)
  /\ Done /\ UNCHANGED <<config, console, exposed>>

DoPrint ==
  /\ \/ Is("hex") /\ console' = Number("register", buffer, print_hex(Byte(buffer), todo[1].digits))
     \/ Is("bits") /\ console' = Number("bit", buffer, print_reg_bit(IF Bit1(buffer) THEN 2 ELSE 0))
     \/ Is("state") /\ console' = Number("latency", config.dummy, print_dec(config.dummy))
     \/ Is("memory") /\ console' = Number("memory", MEM_TOTAL \div 1024, print_dec(MEM_TOTAL \div 1024))
  /\ buffer' = 0
  /\ Done /\ UNCHANGED <<chip, config, memio, exposed>>

DoWork ==
  /\ Is("work") /\ Done
  /\ UNCHANGED <<chip, config, memio, buffer, console, exposed>>

------------------------------------------------------------------------------
(* The main loop.                                                          *)

Keys == {"1", "2", "3", "4", "5", "6", "7", "9", "0", "S", "e"}

Chosen(key) ==
  CASE key = "1" -> cmd_read_flash_id
    [] key = "2" -> cmd_read_flash_regs
    [] key = "3" -> set_flash_mode(SPI)
    [] key = "4" -> set_flash_mode(DUAL)
    [] key = "5" -> set_flash_mode(QUAD)
    [] key = "6" -> set_flash_mode(QDDR)
    [] key = "7" -> <<ToggleCrm>>
    [] key = "9" -> cmd_benchmark
    [] key = "0" -> cmd_benchmark_all
    [] key = "S" -> <<PrintState>>
    [] OTHER     -> <<>>

\* The program waits for a key, and polls the UART.
Asking == todo = <<>> /\ fetched /\ addr = None /\ ~lost

Poll == Asking /\ fetched' = FALSE /\ UNCHANGED <<todo, place, console>>

\* RETURN in main, then the menu, in which "e" is cmd_echo until "!".
Key ==
  /\ Asking /\ fetched' = FALSE
  /\ console' = Nothing
  /\ \/ place = "enter" /\ place' = "menu" /\ todo' = <<PrintMemory, PrintState>>
     \/ /\ place = "menu"
        /\ \E key \in Keys :
             todo' = Chosen(key) /\ place' = IF key = "e" THEN "echo" ELSE "menu"
     \/ place = "echo" /\ place' = "menu" /\ UNCHANGED todo

AtPrompt ==
  /\ Poll \/ Key
  /\ UNCHANGED <<addr, chip, config, memio, buffer, lost, exposed>>

\* The CPU asks for a word of the program, and gets it or something else.
Fetch ==
  /\ ~fetched /\ addr = None /\ ~lost /\ addr' \in Words
  /\ UNCHANGED <<chip, config, memio, program>>

Fetched ==
  /\ Ready /\ fetched' = TRUE /\ lost' = (lost \/ rdata # addr)
  /\ UNCHANGED <<todo, place, buffer, console, exposed>>

Init ==
  /\ chip \in Chips
  /\ chip.xip_cmd = 187 => chip.mode_reset
  /\ chip.xip_cmd # 0 => chip.powered_up /\ chip.quad
  /\ MemIoInit
  /\ todo = set_flash_qspi_flag /\ place = "enter" /\ fetched = FALSE
  /\ buffer = 0 /\ console = Nothing /\ lost = FALSE /\ exposed = FALSE

Execute == DoSet \/ DoToggle \/ DoFlashIO \/ DoPrint \/ DoWork
Transfer == MemIoStep /\ UNCHANGED program

Next == Transfer \/ Fetch \/ Fetched \/ Execute \/ AtPrompt

\* The clock runs: controller and CPU go on.
Spec == Init /\ [][Next]_vars /\ WF_vars(Transfer \/ Fetched) /\ WF_vars(Fetch \/ Execute)

------------------------------------------------------------------------------
(* Properties.                                                             *)

\* Whatever the program switches to, it goes on reading itself: the latency of
\* the chip agrees with that of the controller whenever it matters, the chip is
\* out of continuous reading when it is sent a command, and a word read ahead is
\* not taken for another (spimemio.v:49-50, :226).  Excepted is continuous
\* reading with one lane, which is not a mode of the chip, and with two if the
\* chip cannot be got out of it.
FetchesRight == lost => exposed

\* What is printed is what the chip and the controller are set to, in decimal or
\* hexadecimal, also after the benchmarks have changed the latency, which the
\* reading of a register depends on (firmware.c:361).  Excepted is what a chip
\* answers that takes the command for an address, in continuous reading.
ValueOf(digits, base) == FoldLeft(LAMBDA v, d : v * base + d, 0, digits)
ReportsRight ==
  CASE console.kind \in {"latency", "memory"} -> ValueOf(console.digits, 10) = console.value
    [] console.kind = "register" /\ ~console.crm ->
         console.value # Garbage /\ ValueOf(console.digits, 16) = console.value
    [] console.kind = "bit" /\ ~console.crm -> console.value # Garbage
    [] OTHER -> TRUE

\* The program always gets back to where it asks for a key, unless it is lost.
AsksAgain == []<>(lost \/ Asking)
===============================================================================
