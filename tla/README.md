# TLA+ models of PicoRV32

PicoRV32 (`picorv32.v`) is a small RISC-V core; the repository also holds
bridges to AXI4-lite and Wishbone, co-processors, an SRAM wrapper, PicoSoC and
the programs that run on them. This directory models the hardware clock edge by
clock edge and the programs statement by statement, model-checks them with TLC on
small instances and proves what TLC cannot check for every parameter with TLAPS.

## 1. Inventory

| component | state | operations | talks to |
|---|---|---|---|
| memory interface (`picorv32.v` 351-399, 431-641) | `mem_state`, `mem_valid`, `mem_addr`, `mem_instr`, `mem_wstrb`, half-word buffer (`mem_16bit_buffer`, `prefetched_high_word`, `mem_la_secondword`, `mem_la_firstword_reg`, `last_mem_valid`), `mem_rdata_q` | start, continue and finish a transfer; keep a prefetched word; reset and trap | main state machine by `mem_do_*` and `mem_done`; the memory by `mem_valid`/`mem_ready` and the look-ahead wires |
| decoder (858-1166) | `instr_*`, `decoded_*`, the two triggers | stage 1 on the arrival of a word, stage 2 one cycle later | memory interface, main state machine |
| main state machine (1172-1961) | `cpu_state`, `reg_pc`, `reg_next_pc`, `reg_out`, `latched_*`, ALU and shift registers | fetch/launch, operands, execute, shift, load, store, trap | all of the others |
| interrupts (1309-1334, 1440-1444, 1506-1555, 1667-1695, 1915-1963) | `irq_pending`, `irq_mask`, `irq_active`, `irq_delay`, `irq_state`, `eoi`, `timer`, q0, q1 | collect, enter, return, mask, wait, timer | main state machine, `irq` inputs, `eoi` |
| PCPI port (325-346, 1423-1430, 1617-1656, 1768-1786) | `pcpi_valid`, `pcpi_timeout_counter`, `pcpi_timeout` | offer an instruction, take the result, give up | co-processors |
| `picorv32_pcpi_mul`, `_fast_mul`, `_div` (2197-2510) | counters, partial results, start/finish flags | one operation per `pcpi_valid` | PCPI port |
| `picorv32_axi_adapter` (2731-2808) | three acknowledge flags, `xfer_done` | read and write channel handshakes | memory interface, AXI4-lite slave |
| `picorv32_wb` (2814-3049) | three states, bus registers, `mem_ready` | one Wishbone cycle per transfer | memory interface, Wishbone slave |
| `fpu` | start flags, adder and multiplier pipelines | fadd.s, fsub.s, fmul.s | PCPI port |
| SRAM wrappers | `mem_ready` | delay `mem_valid` | memory interface, SRAM macro |
| `picosoc/picosoc.v` | `ram_ready` | decode addresses | memory interface, flash controller, UART |
| `picosoc/simpleuart.v` | divider, `send_pattern`, `send_bitcnt`, `send_divcnt`, `send_dummy`; `recv_state`, `recv_divcnt`, `recv_pattern`, receive buffer | send, receive, set the divider, make the CPU wait | the CPU, the serial line |
| `picosoc/spimemio.v` | `state`, `rd_addr`, `rd_valid`, `rd_wait`, `rd_inc`, configuration register | wake the chip, send command, address and mode byte, read a word, read on, jump, soft reset | the CPU, the flash chip |
| flash chip (`picosoc/spiflash.v`) | `powered_up`, mode, command, byte count, `xip_cmd` | take a byte, answer one, select, deselect | flash controller |
| `picosoc/firmware.c`, `start.s` | the configuration it has set, the command it runs | start-up, menu, modes, registers of the chip, benchmarks | flash controller, chip, UART |
| `firmware/` | loop counters, bitmap and hash of the sieve, operands | hello, sieve, multiplications and divisions, statistics | the core, the co-processors, a console |
| `dhrystone/` | globals of `dhry_1.c`, the heap, strings | the procedures of the benchmark; `strcpy`, `strcmp`, `printf`, `malloc` | the core, a console |

The hardware is clocked by one `clk`, so what is hard here is not threads but
several state machines that advance in the same edge and see each other's
values of the cycle before: a prefetch overlaps the instruction before it, a
branch or an interrupt makes it worthless, a load or store has to wait for it, a
half word is kept for later, and the memory, the interrupt lines, the
co-processor and reset choose their own moments. In PicoSoC the two ends of the serial line
have clocks of their own rate, and the program is read from the chip that it reconfigures.
`PROJECT.json` lists these
hazards with their lines and the properties aimed at them.

What makes each part correct:

- memory interface: one kind of request at a time, a transfer never changes
  while it waits, the look-ahead wires announce it, and every word handed to
  the decoder was read from the address the program counter has;
- decoder: both stages keep an instruction until it is finished;
- main state machine: instructions run in program order, each exactly once;
- interrupts: precise, not nested, no latched one lost, none without a cause,
  one instruction of the program after each return, served in the end;
- PCPI: an instruction nobody answers ends in an illegal instruction after the
  timeout, and a timeout never hits the next instruction;
- bridges and SRAM wrapper: every native transfer becomes exactly one access, its
  answer belongs to it, what was written last is read, and reset leaves nothing behind;
- co-processors: only the instruction that waits is answered, by the one it is for,
  with the right result, in the end, and nothing of it is left over after reset;
- UART: what the CPU reads is the last byte that was sent, whatever the rates were before, and nobody waits for ever;
- flash controller, chip and demo firmware: the program reads itself and nothing else while it changes how it is read;
- test programs: the text they print is right, they end, and they find no error.

## 2. Modules

| module | contents |
|---|---|
| `PicoRV32State` | parameters and their assumptions, registers and inputs, combinational wires (351-388, 1213, 1295-1301, 1400, 1495-1515) |
| `PicoRV32Mem` | the clocked memory interface (390-399, 431-641), one action per branch; `Requests` is the end of the main always block (1949-1961) |
| `PicoRV32` | decoder, PCPI timer, interrupt collection, and one action per branch of the main state machine; `Next == Clock /\ MainStep /\ Inputs` is a clock edge |
| `PicoRV32Props` | type invariant, safety, action and liveness properties, fairness |
| `PicoRV32ISA` | the abstract machine: what a program sees |
| `PicoRV32Refines` | the core implements the abstract machine (`ImplementsISA`) and the master of `NativeBus` (`MasterContract`) |
| `MCPicoRV32` | the sets that a `.cfg` cannot write down |
| `PicoRV32Inv` | the inductive invariants behind the theorems |
| `PicoRV32_proofs`, `PicoRV32Mem_proofs`, `PicoRV32Refines_proofs` | the proofs: requests, timeout, types and interrupts; memory interface and contract of the bus; where the fetched words come from, and the refinement `ImplementsISA` (section 4) |
| `NativeBus` | the contract of the native memory interface: what a core does (`MasterSpec`), and what a core with a memory does (`NativeSpec`) |
| `PicoAxi` | `picorv32_axi_adapter` (2731-2808) between such a core and an AXI4-lite slave |
| `PicoWb` | `picorv32_wb` (2814-3049) between such a core and a Wishbone slave |
| `PicoSram` | `picorv32_with_sram.v` between such a core and the synchronous SRAM macro |
| `PicoAxi_proofs`, `PicoWb_proofs`, `PicoSram_proofs` | the proofs of the bridges (section 4) |
| `PicoPcpi` | `picorv32_pcpi_mul`, `_fast_mul` and `_div` (2197-2510) on the internal port of the core |
| `PicoPcpi_proofs` | the proofs that they answer the instruction that waits, and that the answer is right (section 4) |
| `PrintNumbers` | the decimal and hexadecimal numbers of `firmware/print.c` and `stats.c` |
| `Firmware` | `firmware/`: `start.S`, hello, sieve, multest, stats, on `PicoPcpi` |
| `Dhrystone` | `dhrystone/dhry_1.c`, `dhry_2.c`, and `malloc` |
| `Stdlib` | `strcpy`, `strcmp` and `printf` of `dhrystone/stdlib.c` |
| `Programs`, `MCPrograms` | one of these programs is loaded; the checksum of the sieve |
| `SimpleUart` | two `picosoc/simpleuart.v` and the line between them, each with its program |
| `SimpleUart_proofs` | the proof that what is read is what was sent (section 4) |
| `SpiFlash` | the flash chip, `picosoc/spiflash.v` and what the firmware expects of the chips of the boards |
| `SpiMemIo` | the controller `picosoc/spimemio.v` with the chip |
| `Demo` | `picosoc/firmware.c` and `start.s`, running from that flash |

**How they are composed.** The bridges meet the core in `NativeBus` only. `MasterStep` says what a core
may do to `mem_valid` and to what it shows with it; `MemoryStep` says what a memory owes: one access for each
transfer, made before or in the cycle of `mem_ready`, and none for anything else. `PicoRV32Refines` shows that
the core of `PicoRV32` is such a master, and each bridge with its slave is shown to implement
`NativeSpec` (`ServesNative`) for every such master. A product of the whole core with a bridge
would check the same thing on far fewer instances.

`Firmware` EXTENDS `PicoPcpi`: multest (`multest.c`) is the master of the PCPI port, so that each of its
multiplications and divisions goes through the edges of a co-processor and is cut off by the resets that come. The same program runs on the
slow and on the fast multiplier. `Demo` EXTENDS `SpiMemIo`, which EXTENDS `SpiFlash`:
every step of the program needs a word that the controller has to read from the chip, in the mode that the program has set.

**How the Verilog is read.** One step is one rising edge. Unprimed variables are
the registers before the edge and the inputs it samples, primed ones the
registers after it and the inputs of the next cycle. A wire is an operator over
the unprimed variables. A nonblocking assignment is an equation for the primed
variable; where a block assigns the same register several times the last one
wins, which is why, for example, the requests of an edge are put together in
`Requests(pf, ri, set)` (assignments, then `mem_done`, then `set_mem_do_*`) and the
next state in `GoTo` (the misalignment trap comes last).

**Abstraction.** The control is complete; the data is reduced to what the
properties tell apart.

- A program counter counts halfwords modulo `PcN` (2^31 in the hardware). A
  memory word is identified with its address, an instruction with the pair of
  halfwords it was read from: a word taken from the wrong place or a wrong pair
  of halves is visible as wrong addresses. Of the contents of the program only
  the low two bits of each halfword exist (`prog`), which is what tells compressed from
  full-size instructions; the kind of instruction is chosen when it is decoded, so that every
  program is covered, also one that changes its instructions, as long as they keep their sizes.
- Register values are left out. Their influence on control is a choice: the
  outcome of a comparison, a jump target within `JumpOffsets`, a shift amount,
  alignment, the values written by `maskirq`, `timer` and `setq`. The choice is made once,
  where the operands are read, and kept (`alu_out_0`).
- q0 is kept because `retirq` jumps to it; q1 is kept as written by the
  interrupt entry. `setq` may write q0; writes of q1-q3 are among `"simple"`.
- `X` is any value that is not a program counter, an undefined one included. The half-word
  buffer after an instruction that came out of the buffer is such a value, with either
  value of its valid flag, since nothing drives `mem_rdata` then.
- Fixed parameters: `CATCH_ILLINSN = CATCH_MISALIGN = 1`, `LATCHED_MEM_RDATA = 0`,
  `BARREL_SHIFTER = 0`, `TWO_STAGE_SHIFT = 1`, `ENABLE_IRQ_QREGS = ENABLE_IRQ_TIMER = 1`,
  `STACKADDR` unset. Variable: `COMPRESSED_ISA`, `ENABLE_REGS_DUALPORT`,
  `TWO_CYCLE_COMPARE`, `TWO_CYCLE_ALU`, `WITH_PCPI`, `ENABLE_IRQ`, `MASKED_IRQ`, `LATCHED_IRQ`,
  `PROGADDR_*`.
- Not represented, since no control depends on them: register file, `mem_wdata`,
  `mem_rdata_word`, byte lanes, cycle and instruction counters, trace and RVFI. The decoder's
  reset values (1136-1166) only matter to instructions that are decoded anew before they are used.

**Abstraction of the other parts.**

- `PicoPcpi` computes: words have `W` bits (32 in the hardware) and the registers are scaled with them. `rd` and `rdx`
  are functions from the carry groups to what is in them. It takes
  every operand that the program gives it. `EXTRA_MUL_FFS`, `EXTRA_INSN_FFS` and `MUL_CLKGATE` are 0 and `CARRY_CHAIN` is not, as the core
  instantiates the multipliers; with `EXTRA_INSN_FFS = 1` the fast multiplier would start once more on the `pcpi_valid` of the cycle in
  which it answers (2379), but the core never sets it.
- In `Firmware` a step is an edge; while the program does something else than multiply, a step stands for the last of the edges
  that it takes. Texts are line numbers; ordinals and numbers are printed digit by digit. `Rounds` is the number of times multest
  goes round. The operands that multest draws from its random numbers are any operands.
- `Dhrystone` is deterministic; a procedure is an operator on the memory. The strings differ in one part, which
  is what is kept. The time and the instructions a run takes are constants.
- `Stdlib` has words of `BYTES` bytes of `BITS` bits; every pair of strings up to `Length`, at every alignment, with
  anything behind the 0; and every format up to `MaxFormat` characters, with anything up to `MaxBehind` characters and a 0 behind its own 0.
- `SimpleUart` counts the edges of both ends; a byte has `BITS` bits, which are a function from their numbers, and the frame is shortened with it. What each program writes, reads and sets,
  and when, is free. Writing a part of the divider is writing any value.
- In `SpiFlash` and `SpiMemIo` a step is a byte, or the three bytes of an address, or a word; in the hardware the CPU
  could also jump in the middle of one, which is then cut off. A word of the flash is its own number, so that a
  word read from the wrong place, half a word, or an answer to a command that was not understood is visible. The lanes
  that a byte comes on and the dummy cycles are kept: bytes on other lanes than the chip expects are garbage.
- In `Demo` the program is a list of things that it does to the controller and the chip, and before each it fetches a word, from anywhere.
  `flashio` runs from RAM and is a single step. The chip is any that a reset of the CPU alone may find.
  LEDs, texts and `cmd_memtest` are left out; the last overwrites the variables of the program (`firmware.c:691`) and what follows
  depends on where the compiler put them.

**Environment of the core.** `mem_ready` is only raised with `mem_valid` (the core does not look at
it otherwise) after any number of cycles, the first included. A co-processor answers and
waits whenever `pcpi_valid` is up, in any pattern. `irq` takes any value of `IrqInputs` in
every cycle. `resetn` falls and rises at any time where `ResetInputs` is `BOOLEAN`.

**Environment of the bridges.** The registers of a bridge hold anything at power-up, `resetn` falls and
rises at any time and resets the slave too. An AXI4-lite slave accepts the address and the data of a write
in either order, may have a channel ready before it is valid, and may answer in the cycle in
which it accepts. A Wishbone slave acknowledges in any cycle of the strobe, and its acknowledge may
still be up in the cycle after. The slaves are not part of `src/picorv32.v`; they are as
free as the testbenches and formal checks of the repository make them. The SRAM macro makes an access
at every edge, as its `cs` is tied active. Of each word `PicoSram` follows one byte: a write either changes that byte
or leaves it alone (`Other`). `mem_addr` is a byte address and the port `addr0` has 9 bits, so the word
a transfer meets is `mem_addr % 512`. The wrapper leaves `COMPRESSED_ISA` off.

**Operators called "wrong variant"** next to a definition are that definition with a plausible
mistake. They are used by nothing; `PROJECT.json` names, for every property, one that breaks it
when it takes the place of the right one.

## 3. Properties and runs

`PicoRV32Props` explains every property at its definition. The most important one is
`ImplementsISA`: under the mapping of `PicoRV32Refines` each clock edge is a step of the
machine of `PicoRV32ISA` (fetch, start, complete, interrupt, halt, reset) or none. That
machine runs the program in order, one instruction at a time, each read from where its pc
points; takes an interrupt only between two instructions, only outside the handler and not directly
after a return; saves the right address in q0; and never runs an instruction at a
misaligned address, except the one a handler returns to (see below).

| run | what it shows | properties |
|---|---|---|
| `compressed` | Fetching with COMPRESSED_ISA: every program of compressed and full-size instructions on six halfwords, with jumps, branches, loads and stores; the half-word buffer, the prefetch and the bus stay right and the core implements the instruction-set machine. | `RequestsExclusive`, `TransferMatchesRequest`, `DecoderKeepsInsn`, `BufferHoldsNextHalf`, `ImplementsISA`, `BusStable`, `TransferAnnounced`, `LookAheadReadAsserted` |
| `irq` | Interrupt entry, masking, waitirq and return while the half-word buffer is in use, with one external line and ecall: every latched interrupt reaches the handler and what is launched was read from where the pc points. | `IrqEntryHasCause`, `LaunchedFromPc`, `ImplementsISA`, `LatchedIrqKept`, `FaultBeforeNextInsn` |
| `slow_reset` | The slowest configuration (single-port registers, two-cycle ALU and compare, iterated shifts, a co-processor) without compressed instructions, with the timer interrupt, the ecall line masked and not latched, bus errors, setq, and resetn that may fall in any cycle and stay low for any number of them. | `TypeOK`, `PcpiTimeoutFresh`, `MasterContract` |
| `live` | With a memory that answers in the end the core never wedges, and pending interrupts are served, with straddling instructions, thrown-away prefetches, a co-processor and waitirq in the program. | `CoreProgresses`, `IrqServed` |
| `lookahead_waitirq` (violation) | The FORMAL assertion that mem_la_read is followed by mem_valid fails with COMPRESSED_ISA and ENABLE_IRQ after a waitirq. | `LookAheadReadAsserted` |
| `axi` | The AXI adapter with a slave that accepts the channels in any order and answers in the first possible cycle or any later one, from any power-up value of the flags and with reset at any time: each native transfer is one AXI transfer and is answered. | `OneInFlight`, `ChannelsHold`, `ServesNative`, `TransfersAnswered` |
| `wishbone` | The Wishbone bridge with a slave that acknowledges after any delay and may hold the acknowledge a cycle longer, from any power-up value of the registers and with reset at any time. | `WbCycleHeld`, `ServesNative`, `TransfersAnswered` |
| `sram` | The SRAM wrapper: mem_ready never answers a transfer the macro has not seen, and the writes the macro repeats never show. | `ReadsLastWrite`, `ServesNative` |
| `programs` | The programs of the repository on words of four bits, with every operand: the test firmware on both multipliers and the divider, with resets, where every answer is the result that C computes; Dhrystone with its 100 runs; and every call of strcpy, strcmp and printf up to a length. | `NoErrorReported`, `ConsoleRight`, `AnsweredOnce`, `ResultsRight`, `DhrystoneRight`, `StdlibRight`, `FirmwareEnds` |
| `uart` | Two simpleuarts whose programs send, read and change the rate at any clock edge, and are reset at any: what is read is what was sent, once the rates agree and a dummy frame has passed. | `ReadsWhatWasSent`, `EachFrameArrives`, `SendServed` |
| `soc` | The demo firmware running from the flash that it reconfigures, on both boards, with any keys, any jumps and any chip that a reset of the CPU may find: it never reads a wrong word of itself outside of the two settings that are no modes of the chip. | `FetchesRight`, `ReportsRight`, `AsksAgain` |
| `sram_aliasing` (violation) | Two words within the 2 kbytes of the macro, at bytes 0 and 512, are the same word. | `ReadsLastWrite` |

Bounds. Six halfwords are three words, so that with `COMPRESSED_ISA` an instruction can straddle the
first and second or second and third word, or wrap, and a jump by 3 or 4 can go to
either half of another word; four halfwords (two words) suffice where no instruction
straddles, and in the interrupt runs, where the handler is the second word
(`PROGADDR_IRQ` 1 or 2: the former starts with a high half). `compressed` tries every assignment
of compressed and full-size to halfwords (`AnyProgram`), `irq` those in which the
first instruction is compressed, the last one wraps and the others are free (`WrappingProgram`), and `live`, where the search for fair cycles
is expensive, one that has both sizes and straddles (`MixedProgram`); `slow_reset` runs without
compressed instructions (`WideProgram`), and there the refinement is left to its proof (section 4). The three interrupt
lines are the internal ones; line 0 doubles as an external line through `IrqInputs`. `MaxTimer` 3 lets the timer
run out within the entry, within an instruction, or be written again before. `PcpiTimeoutMax` 1 or 2 instead of
15 lets the counter run out and be reloaded within few states. `MaxShift` 5 uses both step sizes of the
shifter. One data word is enough since only one access is under way at a time.
The bridges see one transfer at a time, so two addresses tell a transfer from the one before it
and one datum tells a write from a read; `PicoSram` has two data, so that a read can return an
old one, and two addresses that are rows of their own (`sram`) or share one (`sram_aliasing`).

In `programs` words of four bits give the multiplier groups of carries (`CARRY_CHAIN` 4 in a product of 8) and the divider the
quotient that overflows, with every pair of operands; `ResetRounds` says in which round a reset may come, since the rounds differ in the operands
only, which are free. `Rounds` is 5 of the program's 15: three whose operands are fixed and two with any. The sieve is the original one, with its
checksum; Dhrystone makes 100 runs as in `dhry.h`. `CycleCounts` and `InstrCounts` include a number that wraps (`CounterBits` 16)
and one that needs padding. Strings of up to three characters at each of two alignments make loops that go through bytes only, words
only, and both; formats of up to four characters have two conversions, or one with two characters to skip, and two characters behind are enough for a conversion that is
not of the format. Bytes of three bits contain a byte with the top bit set and its neighbours. In `uart` bytes of two bits and dividers of 1 and 2 make one end sample
the other's frame at a wrong rate, in every position: within a dummy frame, before it and across it. In `soc` three words of flash tell the word after, the same word and
a jump apart; `LATENCY` 8 is the real one. `programs` and `soc` may stop (`CHECK_DEADLOCK FALSE`): a program that has ended, and a CPU that
executes what is not the program (`lost`).
No state constraint and no symmetry is used; each run visits every reachable state of its
instance. Elsewhere deadlock is checked: a clock edge is always possible.

Fairness of the core (`FairSpec`, run `live`): the clock never stops, whether interrupts
come or not (weak fairness of `Next` with `irq` unchanged, so that no interrupt is ever required),
every transfer is answered in the end (`README.md` 391-393 of the repository), and a
co-processor that asserts `pcpi_wait` again and again answers in the end (473-477).
Fairness of the bridges: the clock runs, whether reset comes or not (weak fairness of `Next` with
`resetn` high, so that no reset is ever required to get out of a stall), and a slave accepts and answers in the end.
Nothing is assumed about the core or the bridges themselves. `IrqServed` assumes `[]<>~irq_delay`: a program
that executes nothing but `waitirq` after a return would put interrupts off for ever, since
only the launch of another instruction clears `irq_delay` (1553, 1559).
Fairness of the programs: the clock runs, with or without a reset, and a program goes on; `FirmwareEnds` says so only for programs that are not reset for ever
(`<>[]resetn`). Of the UARTs: the clock runs (weak fairness of `Next`); neither program has to do anything. Of the
demo: the controller with its chip, and the CPU, go on (`WF(Transfer \/ Fetched)`, `WF(Fetch \/ Execute)`); nobody has to press a key.

Two things that the models show about the documentation are runs of their own (`PROJECT.json`, findings).
`LookAheadReadAsserted` holds without interrupts and fails after `waitirq` with
`COMPRESSED_ISA`. The SRAM wrapper connects a byte address to a port that counts words, so that bytes 0 and 512 are one word of a 2 kbyte
macro (`ReadsLastWrite` holds for programs that stay within 512 bytes).

Also worth knowing, and part of the models:

- The timer interrupt may be raised by the count that a `timer` instruction replaces in the same edge (1917), also where the new value is
  the zero that disables the timer (`README.md` 601-602).
- A `pcpi_wait` or `pcpi_ready` that first comes when the counter has run out is too late by the lag of `pcpi_timeout`, which `README.md` 471-477 leaves open.
- With `COMPRESSED_ISA` off, a handler that
  returns to a misaligned address gets one instruction executed from the wrong address before
  the bus error is seen. If moreover line 2 is not in `LATCHED_IRQ`, a load or store before a misaligned instruction makes the core forget
  the bus error, and the instruction is executed (section 4). A misaligned store is on the bus before the core traps, and finishes there (`BusStable`).
- Interrupts that are not in `LATCHED_IRQ` can be raised and lost within the entry
  sequence, which is why `LatchedIrqKept` and `IrqEntryHasCause` speak of latched ones.
- A reset of the co-processors that lasts a single edge can leave a multiplication behind that nobody asked for: the decoded instruction and its
  `pcpi_wait` have no reset (2236), and start it in the first cycle after. Two edges are enough (`ResetAssumption`), and the testbenches hold reset
  for a hundred.
- With divider 0 the receiver of `simpleuart` samples every bit when it is over, and garbles every byte; with the two largest, `2*recv_divcnt`
  (`simpleuart.v:84`) wraps around before it exceeds the divider, and no byte ever arrives (`UartAssumption`). A divider that is written in the edge in which a dummy frame begins gets no dummy frame of its own
  (`simpleuart.v` 110-128): `unsettled` in `SimpleUart` takes this into account.
- The key 7 of the demo switches to continuous reading in any mode (`firmware.c:746`), also with one lane, in which
  the chip does not know it: the controller then leaves out the command of the next jump and the CPU executes what is not the program. With two lanes
  the mode can only be left if the chip takes eight cycles of ones for a mode byte, which `spiflash.v` does not; the benchmark of the HX8K uses
  it, the one of the ICEBREAKER leaves it out (`firmware.c` 628-631). `FetchesRight` excepts these two cases (`exposed`).
- A register read in continuous reading (`flashio`, `firmware.c:55`) prints whatever the chip takes the command for; `ReportsRight` excepts it.
- `print_dec` of `firmware.c` leaves out a middle digit of 0: 105 is printed as `15`. Nothing the program prints has one.
- A size of 512 bytes (`MEM_TOTAL`, whose comment says 2 KB) is printed as 0 KiB.
- The comment at `dhry_1.c:359` says that Int_1_Loc becomes 4; it becomes 5, which is what the benchmark checks at its end.
- After a `%`, `printf` (`stdlib.c` 87-104) skips up to the next conversion that it knows. If there is none before the 0 that ends the format, the inner loop
  stops at that 0 and the outer one steps past it: `printf` goes on with what lies behind the format. `PrintFormat` does so, and `PrintfRight` (a part of `StdlibRight`) is
  about formats in which a conversion follows every `%`. All formats of the benchmark are such, except the `%6.1f` of `dhry_1.c:312` and 314, in code that is not built.
- A statistic of 0 makes `stats.c:39` look at the byte before its buffer.

## 4. Proofs

The theorems about the core hold for every value of the constants that satisfies the four assumptions of
`PicoRV32State`: `ParamAssumption` (switches are Booleans; instructions of the interrupt extension
only with `ENABLE_IRQ`), `IrqAssumption` (sets of line numbers), `AddressAssumption` (an even number of
halfwords; data lies outside the program) and `BoundAssumption` (bounds are numbers). So they cover the full
address space, any number of interrupt lines and the real counters, where a run covers one small instance. The
theorems about the bridges assume only that `None` (no write) is not a datum, and for `PicoSram` that addresses
are numbers; they hold for all sets of addresses and data and any slave. The theorems about the co-processors
assume `WidthAssumption` (widths are positive, carry chains fill a product), `ResetAssumption` (a reset lasts two edges or more, section 3) and
`NoneAssumption`, and hold for words of any width, carry chains of any length that divides a product, and any number of multiplier bits
per cycle that `StepsAssumption` allows: `mul_counter` is one bit wider than it takes to count the bits of a product, so that fewer than `3 * W` steps at once
still leave its top bit set when it has passed 0. The theorems about the serial line
assume `UartAssumption` (dividers are neither 0 nor one of the two largest that the counters cannot pass, section 3) and that `None` is not a byte;
they hold for bytes of any width and for all rates.

| theorem (module) | property | inductive invariant |
|---|---|---|
| `RequestsAlwaysExclusive` (`PicoRV32_proofs`) | `RequestsExclusive` | `RequestInv` |
| `TimeoutAlwaysFresh` (`PicoRV32_proofs`) | `PcpiTimeoutFresh` | `RequestInv /\ TimerInv` |
| `TypeCorrect` (`PicoRV32_proofs`) | `TypeOK` | `TypeOK /\ LatchInv` |
| `IrqEntryAlwaysHasCause` (`PicoRV32_proofs`) | `IrqEntryHasCause` | `TypeOK /\ LatchInv /\ IrqInv` |
| `LatchedIrqsKept` (`PicoRV32_proofs`) | `LatchedIrqKept` | the same |
| `FaultsTakenAtOnce` (`PicoRV32_proofs`) | `FaultBeforeNextInsn` | the same |
| `TransferAlwaysMatches` (`PicoRV32Mem_proofs`) | `TransferMatchesRequest` | `CoreInv`: the above without `IrqInv`, with `RequestInv` and `FetchInv` |
| `BusAlwaysStable` (`PicoRV32Mem_proofs`) | `BusStable` | the same |
| `TransfersAlwaysAnnounced` (`PicoRV32Mem_proofs`) | `TransferAnnounced` | the same |
| `CoreKeepsContract` (`PicoRV32Mem_proofs`) | `MasterContract` | the same |
| `BufferAlwaysNextHalf` (`PicoRV32Refines_proofs`) | `BufferHoldsNextHalf` | `CoreInv /\ SourceInv` |
| `AlwaysLaunchedFromPc` (`PicoRV32Refines_proofs`) | `LaunchedFromPc` | the same |
| `DecoderAlwaysKeepsInsn` (`PicoRV32Refines_proofs`) | `DecoderKeepsInsn` | the same |
| `CoreImplementsISA` (`PicoRV32Refines_proofs`, assuming `BusErrorLatched`) | `ImplementsISA` | `CoreInv /\ SourceInv /\ IrqInv /\ OrderInv` |
| `OneTransferInFlight`, `OffersHold`, `AdapterServesNative` (`PicoAxi_proofs`) | `OneInFlight`, `ChannelsHold`, `ServesNative` | `AxiInv` |
| `CyclesHeld`, `BridgeServesNative` (`PicoWb_proofs`) | `WbCycleHeld`, `ServesNative` | `WbInv` |
| `ReadsReturnLastWrite` (`PicoSram_proofs`, assuming `RowsApart`) | `ReadsLastWrite` | `SramInv` |
| `WrapperServesNative` (`PicoSram_proofs`) | `ServesNative` | `SeenInv` |
| `AnswersOnce` (`PicoPcpi_proofs`) | `AnsweredOnce` | `PcpiInv` |
| `ResultsAlwaysRight` (`PicoPcpi_proofs`) | `ResultsRight` | `RightInv` |
| `ReadsAreRight`, `FramesArrive` (`SimpleUart_proofs`) | `ReadsWhatWasSent`, `EachFrameArrives` | `UartInv` |

Why the properties alone are not inductive, and what `PicoRV32Inv` adds:

- `RequestInv` says which requests each state of the main state machine may have open. `RequestsExclusive`
  is kept only because `stmem` and `ldmem` wait for the prefetch that `ld_rs1` left them, and because an
  instruction is not handed over while its own fetch is still asked for.
- `TimerInv`: the timeout is a cycle behind its counter, so it is still up in the first cycle after the instruction it ended. The
  counter is full again by the time the next instruction is handed over, and the timeout gone an edge later.
- `LatchInv` says in which states `latched_store` and `latched_branch` may be left behind and what `reg_out` and `alu_out_q`
  hold then. Without it `current_pc` could take the undefined result of an instruction that is no jump.
- `IrqInv` ties the three cycles of the entry together: the cause seen in the first is still pending in
  the last, and `latched_rd` selects q0 and then q1. And it says that the delay after a return ends at the next launch.
- `FetchInv` has three parts. `StepInv`: what each state of the main state machine knows of the
  memory interface (idle when an instruction is handed over, prefetching while an operand is read).
  `TransferInv`: what each state of the memory interface knows of the requests, including where the
  two halves of a straddling instruction are. `BufferInv`: the buffer is full whenever the next instruction begins
  in the middle of a word that has been read.
- `SourceInv` follows a word from the bus to the main state machine: which address a fetch on the bus reads (`AddressInv`),
  what the buffer holds before a fetch (`UseInv`), next to a prefetched word (`WordInv`) and once the instruction is there (`NextHalfInv`),
  and which address the instruction in each stage of the decoder came from, before and while it is executed
  (`HandedInv`, `ExecutedInv`). The three properties look at one cycle each; what makes them true was decided several fetches earlier.
- `OrderInv` is what the refinement needs besides. `InsnInv` and `StageInv`: which kinds of instruction each state may work on, and that a
  compressed one is never of a kind that has no compressed form. `FollowingInv`: until an instruction ends, `reg_next_pc` is the address after it.
  `DelayInv`: the delay after a return has been used up where an instruction is executed. `MisfetchInv`: an instruction at a
  misaligned address is only handed over with its bus error pending. This one is subtle because the core checks the address of the
  last instruction while it fetches the next (`reg_pc`, `picorv32.v:1938`): a jump to a misaligned address is found out a cycle late, and one from there
  to another is checked against the wrong one of the two, with the same result.

`CoreImplementsISA` takes one clock edge at a time, under the mapping of `PicoRV32Refines` (section 3). The steps of `cpu_state_fetch`: `EnterIrq` is
`Interrupt` in its first cycle and nothing in the other two, whose effects on q0 and `irq_active` the mapping anticipates; `Launch` is `Start`,
`LaunchJal` and `WaitIrqDone` are `Complete`, `AwaitInsn` is `Fetch` when the instruction arrives (`FetchStepsIsa`). While an instruction is executed nothing
happens (`WorkStutters`) until it goes back to `cpu_state_fetch`, which is `Complete` (`Completes`); the next one may have been read by then. `Halt` is what
is left (`WorkHalts`, `FetchHalts`). The theorem assumes `BusErrorLatched`: without `COMPRESSED_ISA`, and with interrupts, line 2 is one of
`LATCHED_IRQ`, as it is by default (`picorv32.v:85`). Otherwise the property is false: TLC finds a store, between the fetch of a misaligned instruction and its
launch, that lets the bus error of the fetch be forgotten, so that the instruction is executed like any other.

`FetchInv` is proved by rely and guarantee, since the two state machines advance in the same edge. The
first part of `PicoRV32Mem_proofs` shows what the memory interface does with the requests it sees (`DoneEnds`:
a transfer that is done leaves it idle; `PrefetchHeld`: a prefetch nobody waits for ends in the prefetched
state at most; `FetchGoesOn`). The second shows what the main state machine leaves alone until the transfer is over
(`MainHolds`: the requests stay, and the program counter stays unless a branch drops a prefetch that is on
the bus). `TransferKept`, `BufferInvKept` and `StepKept` follow from both, and `FetchInvNext` adds reset and trap. Every step
of `Next` is one case of each proof.

`CoreKeepsContract` and the `ServesNative` theorems fit together: each bridge assumes of the core no more than
`MasterStep`, which the core is proved to do, and guarantees `MemoryStep`, which is what a memory owes it. The
invariants of the bridges say what a bridge knows of the transfer on each of its sides:

- `AxiInv`: the acknowledge flags are the lengths of the slave's queues while a transfer is open. The
  exception is `Clearing`, the cycle after the first half of a straddling instruction, in which the flags of
  that half keep the channels of the second silent.
- `WbInv`: each state of the bridge determines the strobe and what has been done for the transfer; in `IDLE`, `mem_ready`
  may be up only without a transfer.
- `SramInv`: what the macro holds is what the program wrote, or is being written; what it writes again
  while there is no transfer is there already.

`AnsweredOnce` says that a co-processor answers only while an instruction waits for it, and that no two answer at once. It is not
inductive, since what answers depends on what was started several edges before. `PcpiInv` says which
registers of each co-processor may be set in which cycle of an instruction (`FastInv`, `MulInv`, `DivInv`), that
nothing of one is left when the next may begin, and how far a reset has come (`ResetInv`): after its first edge the decoded instruction
and the wait that it raises may still be on their way, after the second they are not.

`ResultsRight` says that the answer is right, and nothing of the cycles in which it is computed. `RightInv` adds to `PcpiInv` that the operands are words and
how far the computation of each co-processor has come:

- `DivRight`: the magnitudes that the instruction was given are `quotient * divisor + dividend`, where the divisor is the one it was given; what the
  divider holds of it is shifted to the place of `quotient_msk`, whose bits below are still missing from the quotient, and the dividend is less than twice what it holds
  (`Divides`). With a zero divisor every step subtracts, which gives the quotient of ones and leaves the dividend. `DivisionResult` then gives the result its
  signs, and takes the overflowing quotient and the zero divisor as they come.
- `MulRight`: `rd + rdx + rs1 * rs2` is the product modulo `2^(2*W)`, and after `n` steps the low `n` bits of `rs2` and the carries into the groups that begin there are
  clear (`Accumulates`), while `mul_counter` is the number of bits that the answer needs less the steps done and those of the next edge (`Iterates`). So when its top bit
  ends the loop, the half of the product that is asked for is in `rd` alone. One step of the accumulator (`StepAccumulates`) is a sum over the groups (`JoinedAdds`,
  `StepAdds`), in which the carry that leaves a group weighs as much as it does where `rdx` puts it.
- `FastRight`: the product that is on its way is that of the operands that the instruction still has.

What is computed in a loop is a recursive function here (`Pow2`, `Joined`, `CarrySave`), and proofs about it need induction over a number, for which the provers have no rule
with a predicate. `Induction` is stated for sets instead: a set of numbers that contains 0 and the successor of each of its elements contains all; it follows from the
well-foundedness of `<` (a smallest number outside it would have a predecessor inside). `RecursionExists` shows in the same way that the function
a recursion defines exists, so that it can be unfolded. On them rest the lemmas on powers of two and on division
(`DivMod`, `DivUnique`, `ModAdd`, `ModProduct` and others), which the provers do not have for divisors that are not literals.

`UartInv` is what makes the two ends of the serial line agree without a common signal. Neither property says anything of the frames under
way, of which they are the outcome. Once the ends have the same rate and a dummy frame has passed,

- `PhaseInv` gives the place of the receiver in the frame: it samples each bit `SampledAt` edges after the bit begins, which is half a bit and two
  edges, so that `recv_state` is one or two more than the number of bits shifted out, and the two counters differ by a constant. Since
  `SampledAt` is at most the length of a bit, the sample never falls into the next one; with divider 1 it is the last edge of the bit.
- `BitsInv` says that what the receiver has and what the sender has left make up the byte.
- `SettlingInv` is about the frame before. The receiver may be anywhere in a frame that never was, at a rate it no longer has; but
  while the line is high each bit of the dummy frame takes it at least one state further, and the dummy frame (15 bits) is longer than what it may have to
  go through (10). So it waits for a start bit when the rates settle (`Settles`).

Left to TLC: liveness under fairness, which is out of the prover's reach together with `ENABLED`; the strings and texts (`StdlibRight`, `ConsoleRight`), the sieve with its
checksum (`NoErrorReported`) and Dhrystone, which are single programs with fixed data that TLC runs from beginning to end; and the flash controller, whose demo program
is a list of steps for a single chip that TLC goes through completely.

## 5. Plan

Done, in this order: the core; the contract of its bus and the AXI, Wishbone and SRAM sides of it, with their proofs; the invariants of the core
that the contract rests on, and the proof that it implements the instruction set machine; the co-processors with the test firmware over them, and the proofs of their handshake and of what they compute; the benchmark and its library; the serial
line with both ends, and the proof that it garbles nothing; the flash controller with its chip and the program that runs from it.

What a continuation would add, most valuable first:

1. The expansion of compressed instructions (`picorv32.v` 891-1034) as an operator on fields.
2. The floating-point unit on narrow exponents and fractions against exact arithmetic.

## 6. Not modelled

- `trace` and RVFI: they only observe. `picorv32_axi`, `picorv32_with_fpu.v`, the board tops and the address decoding of `picosoc.v` are
  wiring, with one equation per peripheral.
- Bit patterns of instructions and the expansion of compressed ones, register values, byte lanes. The parameters that are fixed are listed in section 2.
- `fpu/`: what there is to get right is arithmetic at widths out of TLC's reach; its handshake is that of any co-processor, and the PCPI port of the
  core is checked against all of them. The unused variants in `fpu/` are instantiated nowhere.
- The bits of a byte on the lanes of the flash (`spimemio_xfer`), and with them jumps in the middle of a byte.
- `firmware/irq.c` and the interrupt wrapper of `start.S`, the tests of single instructions in `tests/`, `memcpy`: they are about
  register values and instructions. `cmd_memtest`: see section 2. `dhry_1_orig.c`: the same program with another clock.
- Testbenches, synthesis scripts, build reports, the SRAM layout and the Python helpers are not part of the machine. The memories and slaves of the
  testbenches are cases of those in the models; the assertions of `scripts/smtbmc/axicheck.v` are among the properties of `PicoAxi`.

`PROJECT.json` gives the reason for every component.
