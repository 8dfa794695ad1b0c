-------------------------------- MODULE Stdlib --------------------------------
(***************************************************************************)
(* strcpy, strcmp and printf of dhrystone/stdlib.c, called with any        *)
(* arguments.  The string functions go byte by byte until both pointers    *)
(* are aligned, then word by word; a step is a byte or a word.             *)
(***************************************************************************)
EXTENDS PrintNumbers, Bitwise

CONSTANTS
  BYTES, BITS,   \* of a word, of a byte (the program: 4, 8)
  Chars, Garbage,  \* bytes of strings, not 0, and what may follow a string
  Length, MaxFormat, MaxBehind  \* bounds: of strings, of formats, of what follows a format

ASSUME StdlibAssumption == Chars \cup Garbage \subseteq 1 .. 2^BITS - 1

VARIABLES
  function,    \* "strcpy", "strcmp" or "printf"
  ram,         \* what the two arguments point into, a function on addresses
  s1, s2,      \* the pointers: dest and src of strcpy
  arguments,   \* the pointers of the call, or the format of printf, what lies
               \* behind its 0, and the values
  result       \* <<>> until the function returns, then what it returns or prints

stdlibVars == <<function, ram, s1, s2, arguments, result>>

NotYet == <<>>

\* The characters of a format.
Percent == -4
Char == -5
String == -6
Decimal == -7
Text == -8  \* any other, not 0
Conversions == {Char, String, Decimal}

\* The two regions begin at 0 and at Second, with room for an unaligned string.
Region == BYTES * ((Length + 1) \div BYTES + 2)
Second == Region
Addresses == 0 .. 2 * Region - 1

Aligned == s1 % BYTES = 0 /\ s2 % BYTES = 0

\* A word in memory order: the first byte is the low one.
Load(p) == [k \in 0 .. BYTES - 1 |-> ram[p + k]]
Number(v) == FoldLeft(LAMBDA n, k : n + v[k - 1] * 2^(BITS * (k - 1)), 0, [k \in 1 .. BYTES |-> k])
All(byte) == Number([k \in 0 .. BYTES - 1 |-> byte])

\* (v - 0x01010101) & ~v & 0x80808080.  Wrong variant: without ~v.
HasZero_high(v) ==
  (((Number(v) - All(1)) % 2^(BITS * BYTES)) & All(2^(BITS - 1))) # 0
HasZero(v) ==
  LET low == (Number(v) - All(1)) % 2^(BITS * BYTES)
      not == 2^(BITS * BYTES) - 1 - Number(v)
  IN  ((low & not) & All(2^(BITS - 1))) # 0

Advance(n) == s1' = s1 + n /\ s2' = s2 + n

\* The sign is all that callers use; char is unsigned.
Sign(c1, c2) == IF c1 < c2 THEN -1 ELSE 1

------------------------------------------------------------------------------
Running(name) == function = name /\ result = NotYet /\ UNCHANGED <<function, arguments>>

CopyByte ==
  /\ Running("strcpy") /\ ~Aligned
  /\ ram' = [ram EXCEPT ![s1] = ram[s2]]
  /\ Advance(1)
  /\ result' = IF ram[s2] = 0 THEN <<0>> ELSE NotYet

\* The word with the end of the string is written byte by byte: three bytes
\* are looked at, the fourth must be the 0.
CopyWord ==
  LET v == Load(s2)
      last == CHOOSE k \in 0 .. BYTES - 1 : (v[k] = 0 \/ k = BYTES - 1) /\ \A l \in 0 .. k - 1 : v[l] # 0
      copied == IF HasZero(v) THEN last ELSE BYTES - 1
  IN  /\ Running("strcpy") /\ Aligned
      /\ ram' = [p \in Addresses |-> IF p - s1 \in 0 .. copied THEN v[p - s1] ELSE ram[p]]
      /\ IF HasZero(v) THEN result' = <<0>> /\ UNCHANGED <<s1, s2>>
                       ELSE Advance(BYTES) /\ UNCHANGED result

CompareByte ==
  /\ Running("strcmp") /\ ~Aligned
  /\ Advance(1) /\ UNCHANGED ram
  /\ result' = CASE ram[s1] # ram[s2]                   -> <<Sign(ram[s1], ram[s2])>>
                 [] ram[s1] = ram[s2] /\ ram[s1] = 0   -> <<0>>
                 [] OTHER                               -> NotYet

\* The bytes of two words that differ, from the first on.
FirstDifference(v1, v2) ==
  LET decisive == CHOOSE k \in 0 .. BYTES - 1 :
                    /\ v1[k] # v2[k] \/ v1[k] = 0
                    /\ \A l \in 0 .. k - 1 : v1[l] = v2[l] /\ v1[l] # 0
  IN  IF v1[decisive] # v2[decisive] THEN Sign(v1[decisive], v2[decisive]) ELSE 0

CompareWord ==
  LET v1 == Load(s1)
      v2 == Load(s2)
  IN  /\ Running("strcmp") /\ Aligned
      /\ UNCHANGED ram
      /\ \/ v1 # v2 /\ result' = <<FirstDifference(v1, v2)>> /\ UNCHANGED <<s1, s2>>
         \/ v1 = v2 /\ HasZero(v1) /\ result' = <<0>> /\ UNCHANGED <<s1, s2>>
         \/ v1 = v2 /\ ~HasZero(v1) /\ Advance(BYTES) /\ UNCHANGED result

printf_d(val) == IF val < 0 THEN <<Minus>> \o Dec(-val) ELSE Dec(val)

Printed(conversion, val) == IF conversion = Decimal THEN printf_d(val) ELSE <<val>>

\* The characters at format one by one.  After a "%" everything up to a
\* conversion is skipped; a 0 ends the search for one, but then the for loop
\* steps past that 0 and reads on behind the format.
PrintFormat(memory, values) ==
  LET Step(state, c) ==
        CASE state.doing = "returning" -> state
          [] state.doing = "text" /\ c = 0 -> [state EXCEPT !.doing = "returning"]
          [] state.doing = "text" /\ c = Percent -> [state EXCEPT !.doing = "converting"]
          [] state.doing = "text" /\ c \notin {0, Percent} -> [state EXCEPT !.out = Append(@, c)]
          [] state.doing = "converting" /\ c = 0 -> [state EXCEPT !.doing = "text"]
          [] state.doing = "converting" /\ c \in {Percent, Text} -> state
          [] state.doing = "converting" /\ c \in Conversions ->
               [doing |-> "text", values |-> Tail(state.values),
                out |-> state.out \o Printed(c, Head(state.values))]
  IN  FoldLeft(Step, [doing |-> "text", values |-> values, out |-> <<>>], memory).out

\* Two zeros end the memory that is modelled, since the first may be stepped past.
printf ==
  /\ Running("printf")
  /\ result' = <<PrintFormat(arguments.format \o <<0>> \o arguments.behind \o <<0, 0>>, arguments.values)>>
  /\ UNCHANGED <<ram, s1, s2>>

------------------------------------------------------------------------------
(* The calls.                                                              *)

\* A string of Length bytes or fewer, its 0, and what happens to lie behind.
Contents == {str \o <<0>> \o <<g>> : str \in BoundedSeq(Chars, Length), g \in Garbage}

Place(base, offset, content) ==
  [p \in base .. base + Region - 1 |->
     IF p - base - offset \in 0 .. Len(content) - 1 THEN content[p - base - offset + 1]
                                                    ELSE CHOOSE g \in Garbage : TRUE]

StringCall ==
  /\ function \in {"strcpy", "strcmp"}
  /\ s1 \in 0 .. BYTES - 1 /\ s2 \in Second .. Second + BYTES - 1
  /\ \E c1 \in IF function = "strcpy" THEN {<<>>} ELSE Contents, c2 \in Contents :
       ram = Place(0, s1, c1) @@ Place(Second, s2 - Second, c2)
  /\ arguments = [s1 |-> s1, s2 |-> s2, ram |-> ram]

\* Values are told apart by their number; every conversion has one, those behind
\* the format what happens to be where the next argument would be.
FormatCall ==
  /\ function = "printf"
  /\ s1 = 0 /\ s2 = Second /\ ram = <<>>
  /\ \E format \in BoundedSeq(Conversions \cup {Percent, Text}, MaxFormat),
        behind \in BoundedSeq(Conversions \cup {Percent, Text}, MaxBehind) :
       arguments = [format |-> format, behind |-> behind,
                    values |-> [n \in 1 .. MaxFormat + MaxBehind |-> IF n = 1 THEN -10 ELSE n]]

StdlibInit == result = NotYet /\ (StringCall \/ FormatCall)

StdlibNext == CopyByte \/ CopyWord \/ CompareByte \/ CompareWord \/ printf

------------------------------------------------------------------------------
(* Properties.                                                             *)

\* The string at p of the memory m, with its 0.
StringAt(m, p) ==
  LET end == CHOOSE e \in 0 .. Length : m[p + e] = 0 /\ \A l \in 0 .. e - 1 : m[p + l] # 0
  IN  [k \in 1 .. end + 1 |-> m[p + k - 1]]

\* strcpy leaves the string at its destination, 0 included, and no other byte
\* of memory changed, although it reads and writes words.
StrcpyRight ==
  LET src == StringAt(arguments.ram, arguments.s2) IN
    \A p \in Addresses :
      ram[p] = IF p - arguments.s1 \in 0 .. Len(src) - 1 THEN src[p - arguments.s1 + 1]
                                                         ELSE arguments.ram[p]

\* strcmp is lexicographic order, whatever lies behind the strings.
StrcmpRight ==
  LET c1 == StringAt(ram, arguments.s1)
      c2 == StringAt(ram, arguments.s2)
      first == CHOOSE k \in DOMAIN c1 : c1[k] # c2[k] /\ \A l \in 1 .. k - 1 : c1[l] = c2[l]
  IN  result = IF c1 = c2 THEN <<0>> ELSE IF c1[first] < c2[first] THEN <<-1>> ELSE <<1>>

\* Where a conversion follows every "%", next to it or not, printf prints the
\* text and the values in order, and nothing of what lies behind the format.
\* Without a conversion it runs past the end of the format (stdlib.c:87-104).
PrintfRight ==
  LET f == arguments.format
      complete == \A n \in DOMAIN f : f[n] = Percent => \E m \in n + 1 .. Len(f) : f[m] \in Conversions
      inside(n) == \E k \in 1 .. n - 1 : f[k] = Percent /\ \A l \in k + 1 .. n - 1 : f[l] \notin Conversions
      conversions == {n \in DOMAIN f : inside(n) /\ f[n] \in Conversions}
      value(n) == arguments.values[Cardinality({m \in conversions : m <= n})]
      printed(n) ==
        CASE n \in conversions /\ f[n] # Decimal -> <<value(n)>>
          [] n \in conversions /\ f[n] = Decimal /\ value(n) >= 0 -> Dec(value(n))
          [] n \in conversions /\ f[n] = Decimal /\ value(n) < 0 -> <<Minus>> \o Dec(-value(n))
          [] n \notin conversions /\ (inside(n) \/ f[n] = Percent) -> <<>>
          [] OTHER -> <<f[n]>>
  IN  complete => result = <<FlattenSeq([n \in DOMAIN f |-> printed(n)])>>

StdlibRight ==
  result # NotYet => CASE function = "strcpy" -> StrcpyRight
                       [] function = "strcmp" -> StrcmpRight
                       [] function = "printf" -> PrintfRight
==============================================================================
