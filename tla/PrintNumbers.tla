---------------------------- MODULE PrintNumbers ----------------------------
(***************************************************************************)
(* How the test programs print numbers: print.c and stats.c of firmware/.  *)
(* A byte that is no digit is a negative number.                           *)
(***************************************************************************)
EXTENDS Integers, SequencesExt

Space == -1
Dot == -2
Minus == -3

\* Digits of val, least significant first, as many as it takes and at least
\* least of them (one in print_dec, which prints the digit of 0 too).
Reversed(val, least) ==
  LET used == CHOOSE n \in 0 .. 10 :
                /\ n >= least
                /\ \A m \in 0 .. 9 : m < n <=> m < least \/ val \div 10^m > 0
  IN  [n \in 1 .. used |-> (val \div 10^(n - 1)) % 10]

Dec(val) == Reverse(Reversed(val, 1))

Hex(val, digits) == [n \in 1 .. digits |-> (val \div 16^(digits - n)) % 16]

Repeat(c, n) == [k \in 1 .. n |-> c]

\* stats_print_dec: zeros, or dots and a space, up to a width of digits.  The
\* byte before the buffer decides about a space that no digit precedes, which
\* is what 0 leaves there: one byte, or the other.
StatsDec(val, digits, zero_pad) ==
  LET number == Reverse(Reversed(val, 0))
      fill   == digits - Len(number)
      before == IF number = <<>> THEN {Space, Dot} ELSE {Space}
  IN  CASE fill <= 0            -> {number}
        [] fill > 0 /\ zero_pad -> {Repeat(0, fill) \o number}
        [] OTHER                -> {Repeat(Dot, fill - 1) \o <<c>> \o number : c \in before}

\* The number a reader sees.
Value(chars) ==
  LET digits == SelectSeq(chars, LAMBDA c : c >= 0)
  IN  FoldLeft(LAMBDA value, d : 10 * value + d, 0, digits)
==============================================================================
