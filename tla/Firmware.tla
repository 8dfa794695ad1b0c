------------------------------- MODULE Firmware -------------------------------
(***************************************************************************)
(* The test program of firmware/ in the order of start.S: hello.c, sieve.c,*)
(* multest.c and stats.c, with the co-processors of PicoPcpi under the     *)
(* multiplications and divisions of multest.  A step is a clock edge; a    *)
(* step of the program stands for the last of the edges it takes.          *)
(*                                                                         *)
(* The instruction tests of start.S (tests/) are left out.                 *)
(***************************************************************************)
EXTENDS PicoPcpi, PrintNumbers, Bitwise

CONSTANTS
  BITMAP_SIZE, Checksum,   \* of sieve.c; the checksum as <<high, low>> half
  Rounds,                  \* of multest
  CycleCounts, InstrCounts, CounterBits,  \* what stats may read, and its width
  ResetRounds              \* rounds of multest that a reset may cut off

VARIABLES
  stage,            \* what start.S has called, "done", or "ebreak"
  console,          \* the lines stage has printed
  i,                \* the loop counter of sieve or multest
  idx, bitmap, hash,  \* sieve
  a, b, called, hard,  \* multest: operands, operations begun, answers
  num_cycles, num_instr  \* stats

program == <<stage, console, i, idx, hash, a, b, called, hard, num_cycles, num_instr>>
firmwareVars == <<portVars, program, bitmap>>

OpsInOrder == <<"mul", "mulh", "mulhsu", "mulhu", "div", "divu", "rem", "remu">>
NoAnswers == [op \in {} |-> 0]

Call(function) == stage' = function /\ console' = <<>> /\ i' = 0

------------------------------------------------------------------------------
(* hello.c and sieve.c.                                                    *)

Hello ==
  /\ stage = "hello"
  /\ Call("sieve") /\ idx' = 1 /\ hash' = <<0, 5381>>
  /\ UNCHANGED <<bitmap, a, b, called, hard, num_cycles, num_instr>>

\* ((a << 5) + a) ^ b on 32 bits, for a b of at most 16.
mkhash(h, x) ==
  LET low  == h[2] * 33
      high == h[1] * 33 + low \div 2^16
  IN  <<high % 2^16, (low % 2^16) ^^ x>>

\* Wrong variant: forget that 11, 12 and 13 are irregular.
OrdinalRegular(n) ==
  CASE n % 10 = 1 -> "st" [] n % 10 = 2 -> "nd" [] n % 10 = 3 -> "rd" [] OTHER -> "th"
Ordinal(n) ==
  CASE n \div 10 = 1 -> "th"
    [] n \div 10 # 1 /\ n % 10 = 1 -> "st"
    [] n \div 10 # 1 /\ n % 10 = 2 -> "nd"
    [] n \div 10 # 1 /\ n % 10 = 3 -> "rd"
    [] OTHER -> "th"

PrimeLine(n, val) == [index |-> Dec(n), ordinal |-> Ordinal(n), prime |-> Dec(val)]

print_prime(n, val) ==
  /\ console' = Append(console, PrimeLine(n, val))
  /\ hash' = mkhash(mkhash(hash, n), val)
  /\ idx' = n + 1

\* Bit k stands for 3 + 2 * k; even multiples have no bit.
OddMultiples(p) == {((m * p) - 3) \div 2 : m \in {n \in 2 .. BITMAP_SIZE : n % 2 = 1}}

sieve ==
  /\ stage = "sieve"
  /\ UNCHANGED <<a, b, called, hard, num_cycles, num_instr>>
  /\ \/ /\ console = <<>>
        /\ print_prime(idx, 2)
        /\ UNCHANGED <<stage, i, bitmap>>
     \/ /\ console # <<>> /\ i < BITMAP_SIZE /\ i \in bitmap
        /\ i' = i + 1
        /\ UNCHANGED <<stage, console, idx, hash, bitmap>>
     \/ /\ console # <<>> /\ i < BITMAP_SIZE /\ i \notin bitmap
        /\ print_prime(idx, 3 + 2 * i)
        /\ bitmap' = bitmap \cup {k \in OddMultiples(3 + 2 * i) : k < BITMAP_SIZE}
        /\ i' = i + 1 /\ UNCHANGED stage
     \/ /\ i = BITMAP_SIZE
        /\ IF hash = Checksum THEN Call("multest") /\ called' = 0
                              ELSE stage' = "ebreak" /\ UNCHANGED <<console, i>>
        /\ UNCHANGED <<idx, hash, bitmap>>

------------------------------------------------------------------------------
(* multest.c.                                                              *)

\* xorshift32 may return any word.
Operands(round) ==
  CASE round = 0 -> {<<Pow2[W - 1], Pow2[W] - 1>>}
    [] round = 1 -> {<<0, 0>>}
    [] round = 2 -> {<<x, 0>> : x \in {y \in Word : Negative(y)}}
    [] round = 3 -> {<<x, 0>> : x \in {y \in Word : ~Negative(y)}}
    [] OTHER     -> Word \X Word

Round ==
  /\ stage = "multest" /\ called = 0 /\ i < Rounds /\ Elsewhere
  /\ \E operands \in Operands(i) : a' = operands[1] /\ b' = operands[2]
  /\ called' = 1 /\ hard' = NoAnswers
  /\ UNCHANGED <<stage, console, i, idx, bitmap, hash, num_cycles, num_instr>>

Begin ==
  /\ stage = "multest" /\ called > 0
  /\ Start(OpsInOrder[called])
  /\ UNCHANGED <<program, bitmap>>

Wait == stage = "multest" /\ Offer(a, b) /\ UNCHANGED <<program, bitmap>>

\* The answers are compared after every fourth.
Answer ==
  LET op      == OpsInOrder[called]
      answers == [o \in DOMAIN hard \cup {op} |-> IF o = op THEN pcpi_int_rd ELSE hard[o]]
      error   == called % 4 = 0 /\ \E o \in DOMAIN answers : answers[o] # Soft(o, a, b)
      last    == called = 8 /\ ~error
  IN  /\ stage = "multest" /\ Take
      /\ stage' = IF error THEN "ebreak" ELSE stage
      /\ called' = IF last THEN 0 ELSE called + 1
      /\ i' = IF last THEN i + 1 ELSE i
      /\ hard' = IF last THEN NoAnswers ELSE answers
      /\ UNCHANGED <<console, idx, bitmap, hash, a, b, num_cycles, num_instr>>

MultestReturns ==
  /\ stage = "multest" /\ called = 0 /\ i = Rounds
  /\ Call("stats")
  /\ UNCHANGED <<idx, bitmap, hash, a, b, called, hard, num_cycles, num_instr>>

------------------------------------------------------------------------------
(* stats.c.                                                                *)

Hundredths == (((100 * num_cycles) % 2^CounterBits) \div num_instr) % 100

ReadCounters ==
  /\ stage = "stats" /\ num_instr = 0
  /\ num_cycles' \in CycleCounts /\ num_instr' \in InstrCounts
  /\ UNCHANGED <<stage, console, i, idx, bitmap, hash, a, b, called, hard>>

\* A fetch and an execution make two cycles at least.
stats ==
  /\ stage = "stats" /\ num_instr > 0
  /\ \E cycles \in StatsDec(num_cycles, 8, FALSE), instrs \in StatsDec(num_instr, 8, FALSE),
        cpi \in StatsDec(num_cycles \div num_instr, 0, FALSE), rest \in StatsDec(Hundredths, 2, TRUE) :
       console' = <<cycles, instrs, cpi, rest>>
  /\ stage' = "done"
  /\ UNCHANGED <<i, idx, bitmap, hash, a, b, called, hard, num_cycles, num_instr>>

------------------------------------------------------------------------------
ResetAllowed == stage \in {"hello", "sieve"} \/ (stage = "multest" /\ i \in ResetRounds)

\* Memory keeps its contents, so that sieve may find its bitmap marked.
FirmwareReset ==
  /\ InReset
  /\ stage' = "hello" /\ console' = <<>> /\ i' = 0 /\ idx' = 0 /\ hash' = <<0, 0>>
  /\ a' = 0 /\ b' = 0 /\ called' = 0 /\ hard' = NoAnswers
  /\ num_cycles' = 0 /\ num_instr' = 0
  /\ UNCHANGED bitmap

FirmwareInit ==
  /\ PortInit
  /\ stage = "hello" /\ console = <<>> /\ i = 0 /\ idx = 0 /\ hash = <<0, 0>> /\ bitmap = {}
  /\ a = 0 /\ b = 0 /\ called = 0 /\ hard = NoAnswers /\ num_cycles = 0 /\ num_instr = 0

\* The program outside multest uses no co-processor here.
ProgramStep ==
  \/ Elsewhere /\ (Hello \/ sieve \/ MultestReturns \/ ReadCounters \/ stats)
  \/ Round \/ Begin \/ Wait \/ Answer

Edge ==
  /\ UNCHANGED fast /\ Coprocessors
  /\ ResetInput(IF ResetAllowed' THEN BOOLEAN ELSE {TRUE})

\* multest prints, for any number of cycles.
Printing == stage = "multest" /\ Elsewhere /\ UNCHANGED <<program, bitmap>>

FirmwareNext == (ProgramStep \/ Printing \/ FirmwareReset) /\ Edge

------------------------------------------------------------------------------
(* Properties.                                                             *)

\* The checksum of the sieve is right, also when a reset had left its bitmap
\* half marked, and the co-processors compute what C computes, for any
\* operands, overflow and division by zero included, whatever was cut off.
NoErrorReported == stage # "ebreak"

Prime(n) == n > 1 /\ \A d \in 2 .. n - 1 : n % d # 0
PrimesUpTo(n) == {p \in 2 .. n : Prime(p)}
EnglishOrdinal(n) ==
  IF n % 100 \in 11 .. 13 THEN "th"
  ELSE CASE n % 10 = 1 -> "st" [] n % 10 = 2 -> "nd" [] n % 10 = 3 -> "rd" [] OTHER -> "th"

\* The n-th line of the sieve names the n-th prime, as one says it.
PrimesPrinted ==
  \A n \in DOMAIN console :
    LET line == console[n] IN
      /\ Value(line.index) = n /\ line.ordinal = EnglishOrdinal(n)
      /\ Prime(Value(line.prime)) /\ Cardinality(PrimesUpTo(Value(line.prime))) = n

\* stats prints the counters, unless they are 0, and the cycles per instruction
\* cut off after two decimals, unless 100 times the cycles overflow.
StatsPrinted ==
  /\ \A n \in 1 .. 2 : Value(console[n]) = IF n = 1 THEN num_cycles ELSE num_instr
  /\ 100 * num_cycles < 2^CounterBits =>
       Value(console[3] \o console[4]) = (100 * num_cycles) \div num_instr

ConsoleRight ==
  /\ stage = "sieve" => PrimesPrinted
  /\ stage = "done" => StatsPrinted
==============================================================================
