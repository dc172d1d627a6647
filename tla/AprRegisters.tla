---------------------------- MODULE AprRegisters ----------------------------
(***************************************************************************)
(* What the register panel shows on each of its pages (gui.c): a sequence  *)
(* of rows, each a sequence of registers.  The values are left out; a      *)
(* register takes the number of columns its format has.                    *)
(***************************************************************************)
EXTENDS AprLayout, Sequences, Functions

A(k) == <<"A", k>>
Pc == <<"Program Counter">>
Upper == << <<"CPU Flags">>, <<"MDR">>, <<"IA">> >>
Lower == << <<"Stack Pointer">>, <<"IR">>, <<"MAR">> >>
Special == Range(Upper) \cup Range(Lower)

\* printRegister: "[%-4s: %-3d :: 0x%-2s :: %8sb %c]", or with a name of 16
\* characters "[%-4s: %-5d :: 0x%-4s :: %16sb %c]"
RegisterWidth(register) == IF register \in Special \cup {Pc} THEN 58 ELSE 34

\* Accumulators first .. first + 2 * half - 1 in two columns
TwoColumns(first, half) == [k \in 1 .. half |-> <<A(first + k - 1), A(first + half + k - 1)>>]
OneColumn(registers) == [k \in 1 .. Len(registers) |-> <<registers[k]>>]
Gap(rows) == [k \in 1 .. rows |-> <<>>]

refreshRegisterDisplay(layout, page) ==
  (CASE layout = 0 /\ page = 1 -> OneColumn(Upper \o Lower) \o Gap(3)
     [] layout = 0 /\ page # 1 -> TwoColumns(0, 8) \o Gap(1)
     [] layout = 1 /\ page = 1 -> TwoColumns(8, 4) \o Gap(1)
     [] layout = 1 /\ page = 2 -> OneColumn(Upper) \o Gap(2)
     [] layout = 1 /\ page = 3 -> OneColumn(Lower) \o Gap(2)
     [] layout = 1 /\ page \notin 1 .. 3 -> TwoColumns(0, 4) \o Gap(1))
  \o << <<Pc>> >>

-----------------------------------------------------------------------------
On(rows) == UNION {{rows[y][k] : k \in DOMAIN rows[y]} : y \in DOMAIN rows}

RowWidth(row) == IF Len(row) = 0 THEN 0 ELSE Len(row) * RegisterWidth(row[1])

\* A page fits into a window inside its border.
FitsIn(win, rows) ==
  Len(rows) <= win.h - 2 /\ \A y \in DOMAIN rows : RowWidth(rows[y]) <= win.w - 2
=============================================================================
