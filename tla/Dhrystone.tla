------------------------------ MODULE Dhrystone ------------------------------
(***************************************************************************)
(* The Dhrystone benchmark of dhrystone/ (dhry_1.c, dhry_2.c), with malloc *)
(* of its stdlib.c.  A procedure is an operator from the memory before it, *)
(* and its arguments, to the memory after it, a function returns a pair.   *)
(*                                                                         *)
(* A string is the part in which "DHRYSTONE PROGRAM, ..." differ; an array *)
(* is a function on the elements that were written, and 0 elsewhere.       *)
(***************************************************************************)
EXTENDS Integers, TLC

CONSTANTS
  Number_Of_Runs,
  HeapSize, RecSize,  \* bytes of the heap, and of a Rec_Type
  Times, Insns        \* what the two counters may have advanced by

VARIABLES
  at,         \* where main is
  Run_Index,
  memory,
  report      \* what main prints of the measurement

dhrystoneVars == <<at, Run_Index, memory, report>>

Letter(c) == CASE c = "A" -> 65 [] c = "B" -> 66 [] c = "C" -> 67 [] c = "R" -> 82
             [] c = "W" -> 87 [] c = "Y" -> 89 [] c = "Z" -> 90

\* All strings begin with DHRY, and their parts differ at the first character.
CharAt(str, n) == CASE n = 2 -> Letter("R") [] n = 3 -> Letter("Y")
Order(str) == CASE str = "1'ST" -> 1 [] str = "2'ND" -> 2 [] str = "3'RD" -> 3 [] str = "SOME" -> 4
strcmp(s1, s2) == Order(s1) - Order(s2)

Read(array, n) == IF n \in DOMAIN array THEN array[n] ELSE 0
Write(array, n, x) == (n :> x) @@ array

\* Enumeration.
Ident_1 == 0
Ident_2 == 1
Ident_3 == 2
Ident_4 == 3
Ident_5 == 4

Null == "Null"
Zeroed == [Ptr_Comp |-> Null, Discr |-> Ident_1, Enum_Comp |-> Ident_1, Int_Comp |-> 0, Str_Comp |-> ""]

------------------------------------------------------------------------------
(* dhry_2.c.                                                               *)

\* Both functions return <<memory, value>>.
Func_1(m, Ch_1_Par_Val, Ch_2_Par_Val) ==
  IF Ch_1_Par_Val # Ch_2_Par_Val THEN <<m, Ident_1>>
                                 ELSE <<[m EXCEPT !.Ch_1_Glob = Ch_1_Par_Val], Ident_2>>

\* Its loop ends when the two characters differ; Ch_Loc is then 'A'.
Func_2(m, Str_1_Par_Ref, Str_2_Par_Ref) ==
  LET called == Func_1(m, CharAt(Str_1_Par_Ref, 2), CharAt(Str_2_Par_Ref, 3))
      Int_Loc == 3
  IN  CASE called[2] # Ident_1 -> <<[called[1] EXCEPT !.hangs = TRUE], FALSE>>
        [] called[2] = Ident_1 /\ strcmp(Str_1_Par_Ref, Str_2_Par_Ref) > 0 ->
             <<[called[1] EXCEPT !.Int_Glob = Int_Loc + 7], TRUE>>
        [] OTHER -> <<called[1], FALSE>>

Func_3(Enum_Par_Val) == Enum_Par_Val = Ident_3

\* What Proc_6 leaves in *Enum_Ref_Par.  Wrong variant: no break after Ident_3.
Proc_6_falls_through(m, Enum_Val_Par) == IF Enum_Val_Par = Ident_5 THEN Ident_3 ELSE Enum_Val_Par
Proc_6(m, Enum_Val_Par) ==
  CASE Enum_Val_Par = Ident_1 -> Ident_1
    [] Enum_Val_Par = Ident_2 -> IF m.Int_Glob > 100 THEN Ident_1 ELSE Ident_4
    [] Enum_Val_Par = Ident_3 -> Ident_2
    [] Enum_Val_Par = Ident_4 -> IF Func_3(Enum_Val_Par) THEN Enum_Val_Par ELSE Ident_4
    [] Enum_Val_Par = Ident_5 -> Ident_3

\* What Proc_7 leaves in *Int_Par_Ref.
Proc_7(Int_1_Par_Val, Int_2_Par_Val) == Int_2_Par_Val + (Int_1_Par_Val + 2)

Proc_8(m, Int_1_Par_Val, Int_2_Par_Val) ==
  LET Int_Loc == Int_1_Par_Val + 5
      arr_1 == Write(Write(Write(m.Arr_1_Glob, Int_Loc, Int_2_Par_Val),
                           Int_Loc + 1, Int_2_Par_Val), Int_Loc + 30, Int_Loc)
      rows  == Write(Write(m.Arr_2_Glob, <<Int_Loc, Int_Loc>>, Int_Loc),
                     <<Int_Loc, Int_Loc + 1>>, Int_Loc)
      incremented == Write(rows, <<Int_Loc, Int_Loc - 1>>, Read(rows, <<Int_Loc, Int_Loc - 1>>) + 1)
  IN  [m EXCEPT !.Int_Glob = 5, !.Arr_1_Glob = arr_1,
                !.Arr_2_Glob = Write(incremented, <<Int_Loc + 20, Int_Loc>>, arr_1[Int_Loc])]

------------------------------------------------------------------------------
(* dhry_1.c.  heap holds the records that malloc returned.                 *)

\* *Ptr_Ref_Par is the Ptr_Comp of the record p.
Proc_3(m, p) ==
  LET glob == m.heap[m.Ptr_Glob]
      linked == IF m.Ptr_Glob # Null THEN [m.heap EXCEPT ![p].Ptr_Comp = glob.Ptr_Comp] ELSE m.heap
  IN  [m EXCEPT !.heap = [linked EXCEPT ![m.Ptr_Glob].Int_Comp = Proc_7(10, m.Int_Glob)]]

Proc_1(m, Ptr_Val_Par) ==
  LET Next_Record == m.heap[Ptr_Val_Par].Ptr_Comp
      copied == [m.heap EXCEPT ![Next_Record] = m.heap[m.Ptr_Glob]]
      fives  == [copied EXCEPT ![Ptr_Val_Par].Int_Comp = 5]
      linked == [fives EXCEPT ![Next_Record].Int_Comp = 5,
                              ![Next_Record].Ptr_Comp = fives[Ptr_Val_Par].Ptr_Comp]
      called == Proc_3([m EXCEPT !.heap = linked], Next_Record)
      h      == called.heap
  IN  IF h[Next_Record].Discr = Ident_1
        THEN [called EXCEPT !.heap =
               [h EXCEPT ![Next_Record].Enum_Comp = Proc_6(called, h[Ptr_Val_Par].Enum_Comp),
                         ![Next_Record].Ptr_Comp = h[m.Ptr_Glob].Ptr_Comp,
                         ![Next_Record].Int_Comp = Proc_7(6, 10)]]
        ELSE [called EXCEPT !.heap = [h EXCEPT ![Ptr_Val_Par] = h[h[Ptr_Val_Par].Ptr_Comp]]]

\* Enum_Loc is not initialised where Ch_1_Glob is not 'A': the loop may not end.
Proc_2(m) ==
  IF m.Ch_1_Glob = Letter("A") THEN [m EXCEPT !.Int_1_Loc = (@ + 10) - 1 - m.Int_Glob]
                             ELSE [m EXCEPT !.hangs = TRUE]

Proc_4(m) ==
  [m EXCEPT !.Bool_Glob = m.Ch_1_Glob = Letter("A") \/ @, !.Ch_2_Glob = Letter("B")]

Proc_5(m) == [m EXCEPT !.Ch_1_Glob = Letter("A"), !.Bool_Glob = FALSE]

\* Goes to ebreak when the heap is used up.
malloc(used) == used + RecSize

\* The two records, and what the loader left in the other variables.
Main ==
  /\ at = "main"
  /\ IF malloc(malloc(0)) > HeapSize
       THEN at' = "ebreak" /\ UNCHANGED memory
       ELSE /\ at' = "run"
            /\ memory' = [memory EXCEPT
                 !.Ptr_Glob = "Glob",
                 !.heap = [p \in {"Glob", "Next"} |->
                             IF p = "Next" THEN Zeroed
                             ELSE [Ptr_Comp |-> "Next", Discr |-> Ident_1, Enum_Comp |-> Ident_3,
                                   Int_Comp |-> 40, Str_Comp |-> "SOME"]],
                 !.Str_1_Loc = "1'ST",
                 !.Arr_2_Glob = Write(@, <<8, 7>>, 10)]
  /\ UNCHANGED <<Run_Index, report>>

Step(from, to, m) ==
  /\ at = from /\ Run_Index <= Number_Of_Runs
  /\ memory' = m /\ at' = to
  /\ UNCHANGED <<Run_Index, report>>

Compare ==
  LET begun == [Proc_4(Proc_5(memory)) EXCEPT !.Int_1_Loc = 2, !.Int_2_Loc = 3,
                  !.Str_2_Loc = "2'ND", !.Enum_Loc = Ident_2]
      called == Func_2(begun, begun.Str_1_Loc, begun.Str_2_Loc)
  IN  Step("run", "compute", [called[1] EXCEPT !.Bool_Glob = ~called[2]])

\* The body of the loop is executed once: Int_1_Loc meets Int_2_Loc.
Compute ==
  LET m == [memory EXCEPT !.Int_3_Loc = Proc_7(memory.Int_1_Loc, memory.Int_2_Loc), !.Int_1_Loc = @ + 1]
  IN  /\ memory.Int_1_Loc + 1 = memory.Int_2_Loc
      /\ Step("compute", "records", Proc_1(Proc_8(m, m.Int_1_Loc, m.Int_3_Loc), m.Ptr_Glob))

Visit(m, Ch_Index) ==
  LET called == Func_1(m, Ch_Index, Letter("C"))
  IN  IF m.Enum_Loc # called[2] THEN called[1]
      ELSE [called[1] EXCEPT !.Enum_Loc = Proc_6(called[1], Ident_1), !.Str_2_Loc = "3'RD",
                             !.Int_2_Loc = Run_Index, !.Int_Glob = Run_Index]

Visits ==
  /\ memory.Ch_2_Glob = Letter("B")
  /\ Step("records", "divide", Visit(Visit(memory, Letter("A")), Letter("B")))

Divided(m) ==
  LET product == m.Int_2_Loc * m.Int_1_Loc
      quotient == product \div m.Int_3_Loc
  IN  [m EXCEPT !.Int_1_Loc = quotient, !.Int_2_Loc = 7 * (product - m.Int_3_Loc) - quotient]

Divide ==
  /\ at = "divide"
  /\ memory' = Proc_2(Divided(memory))
  /\ Run_Index' = Run_Index + 1
  /\ at' = IF Run_Index' <= Number_Of_Runs THEN "run" ELSE "report"
  /\ UNCHANGED report

\* The quotients are printed with three digits after the point.
Report ==
  /\ at = "report"
  /\ \E User_Time \in Times, User_Insn \in Insns :
       LET PerMHz == (Number_Of_Runs * 1000000) \div User_Time
       IN  report' = [Cycles_Per_Instruction_x1000 |-> (1000 * User_Time) \div User_Insn,
                      Dhrystones_Per_Second_Per_MHz |-> PerMHz,
                      DMIPS_Per_MHz_x1000 |-> (1000 * PerMHz) \div 1757]
  /\ at' = "return"
  /\ UNCHANGED <<Run_Index, memory>>

DhrystoneInit ==
  /\ at = "main" /\ Run_Index = 1 /\ report = <<>>
  /\ memory = [hangs |-> FALSE, Int_Glob |-> 0, Bool_Glob |-> FALSE, Ch_1_Glob |-> 0, Ch_2_Glob |-> 0,
               Arr_1_Glob |-> <<>>, Arr_2_Glob |-> <<>>, Ptr_Glob |-> Null, heap |-> <<>>,
               Int_1_Loc |-> 0, Int_2_Loc |-> 0, Int_3_Loc |-> 0, Enum_Loc |-> Ident_1,
               Str_1_Loc |-> "", Str_2_Loc |-> ""]

DhrystoneNext == Main \/ Compare \/ Compute \/ Visits \/ Divide \/ Report

------------------------------------------------------------------------------
(* Properties.                                                             *)

\* After the loop main prints each variable and what it "should be"; the one
\* pointer and the two records it leads to included.
FinalValues ==
  at \in {"report", "return"} =>
    /\ memory.Int_Glob = 5 /\ memory.Bool_Glob
    /\ memory.Ch_1_Glob = Letter("A") /\ memory.Ch_2_Glob = Letter("B")
    /\ Read(memory.Arr_1_Glob, 8) = 7 /\ Read(memory.Arr_2_Glob, <<8, 7>>) = Number_Of_Runs + 10
    /\ memory.heap["Glob"] = [Ptr_Comp |-> memory.heap["Next"].Ptr_Comp, Discr |-> 0, Enum_Comp |-> 2,
                              Int_Comp |-> 17, Str_Comp |-> "SOME"]
    /\ memory.heap["Next"] = [Ptr_Comp |-> memory.heap["Glob"].Ptr_Comp, Discr |-> 0, Enum_Comp |-> 1,
                              Int_Comp |-> 18, Str_Comp |-> "SOME"]
    /\ memory.Int_1_Loc = 5 /\ memory.Int_2_Loc = 13 /\ memory.Int_3_Loc = 7 /\ memory.Enum_Loc = 1
    /\ memory.Str_1_Loc = "1'ST" /\ memory.Str_2_Loc = "2'ND"

\* The comments in main say what the variables hold on the way.
CommentsHold ==
  /\ at = "compute" => memory.Bool_Glob
  /\ at = "records" => memory.Int_1_Loc = 3 /\ memory.Int_2_Loc = 3 /\ memory.Int_3_Loc = 7
                       /\ memory.Int_Glob = 5
  /\ at \in {"compute", "records", "divide"} => memory.Ch_1_Glob = Letter("A") /\ memory.Ch_2_Glob = Letter("B")

DhrystoneRight == ~memory.hangs /\ at # "ebreak" /\ CommentsHold /\ FinalValues
==============================================================================
