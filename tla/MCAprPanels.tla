---------------------------- MODULE MCAprPanels ----------------------------
(***************************************************************************)
(* Both panels with the fewest rows initDimensions gives them, over a      *)
(* memory and a stack that are a few lines longer.  A character stands for *)
(* eight: lines of 4, or 7 with the disassembly, one more where there is a *)
(* symbol, in panels wide enough for them.                                 *)
(***************************************************************************)
EXTENDS AprPanels

Formats ==
  [d \in BOOLEAN |->
     [a \in 0 .. Size - 1 |-> (IF d THEN 7 ELSE 4) + (IF a % 5 = 3 THEN 1 ELSE 0)]]

\* The formats of printMemory, in characters: 31, or 50 with the disassembly, and
\* two more and the name of the symbol
FormatsInFull ==
  [d \in BOOLEAN |->
     [a \in 0 .. Size - 1 |-> (IF d THEN 50 ELSE 31) + (IF a % 5 = 3 THEN 2 + 4 ELSE 0)]]

StackFormats == [d \in BOOLEAN |-> [a \in 0 .. StackSize - 1 |-> 4]]
StackFormatsInFull == [d \in BOOLEAN |-> [a \in 0 .. StackSize - 1 |-> 29]]
=============================================================================
