------------------------------- MODULE AprISA -------------------------------
(***************************************************************************)
(* What the instruction set promises to a program: each instruction is one *)
(* step on the registers a program can see and on memory.  Nothing of the  *)
(* microprogram (mdr, ir, ia, the states) appears here.  One action per    *)
(* operation of the ISA, in the terms of apricos.txt:                      *)
(*   ip, mr, sp, fr, a and ar are the $ip, $mr, $sp, $fr, $a0-15 registers *)
(*   and the number of the selected accumulator $ar.                       *)
(* Where apricos.txt and the program differ (SHF left and the O flag) this *)
(* module says what the program does.                                      *)
(***************************************************************************)
EXTENDS Words

CONSTANTS KeyReplies, DiskStatuses, SectorImages

VARIABLES
  reg,    \* [ip, mr, sp, fr, ar, a]
  mem     \* sparse: cells outside the domain hold 0

ISAvars == <<reg, mem>>

Cell(address) == IF address \in DOMAIN mem THEN mem[address] ELSE 0
Put(f) == [x \in DOMAIN f \cup DOMAIN mem |-> IF x \in DOMAIN f THEN f[x] ELSE mem[x]]

\* The instruction at $ip
Code == Cell(reg.ip)
Operand == Cell((reg.ip + 1) % 65536)
Op == Code \div 16
Imm == Code % 16
Has(weight) == weight \in Bits(Code)
ar == reg.a[reg.ar]

\* The address LDI and STI work on: an unsigned offset from the next instruction
OffsetAddress == (reg.ip + 2 + Operand) % 65536

\* $fr for a result v: exactly one of N, Z, P, and O when there was a carry
Flag(v, o) == (IF v >= 128 THEN 4 ELSE IF v = 0 THEN 2 ELSE 1) + (IF o THEN 8 ELSE 0)

\* The registers after an instruction of the given length, before its effect
After(length) == [reg EXCEPT !.ip = (@ + length) % 65536]

\* The selected accumulator becomes v and the flags tell about it
Result(length, v, o) ==
  /\ reg' = [After(length) EXCEPT !.a[reg.ar] = v, !.fr = Flag(v, o)]
  /\ UNCHANGED mem

Combine(op, x) ==
  CASE op = 0 -> (ar + x) % 256
    [] op = 1 -> BitAnd(ar, x)
    [] op = 2 -> BitOr(ar, x)
    [] op = 3 -> BitXor(ar, x)

\* ADD, AND, OR, XOR
Arithmetic ==
  /\ Op \in 0 .. 3
  /\ Result(1, Combine(Op, Imm), Op = 0 /\ ar + Imm > 255)

Not == Op = 4 /\ Result(1, 255 - ar, FALSE)

\* All the places at once.  To the left, O is the last bit shifted out.
Shift ==
  LET n == (Code % 8) + 1
  IN  /\ Op = 5
      /\ \/ Has(8) /\ Result(1, ar \div 2^n, FALSE)
         \/ ~Has(8) /\ Result(1, (ar * 2^n) % 256, (ar \div 2^(8 - n)) % 2 = 1)

LoadAcc ==
  /\ Op = 6
  /\ \/ ~Has(8) /\ Result(1, Cell(reg.mr), FALSE)
     \/ /\ Has(8)
        /\ reg' = [After(1) EXCEPT !.a[reg.ar] = IF Has(4) THEN High(reg.mr) ELSE Low(reg.mr)]
        /\ UNCHANGED mem

LoadOffset ==
  LET v == Cell(OffsetAddress)
  IN  /\ Op = 7
      /\ reg' = [After(2) EXCEPT !.mr = OffsetAddress, !.a[reg.ar] = v, !.fr = Flag(v, FALSE)]
      /\ UNCHANGED mem

Half(high, v) == IF high THEN MkWord(v, Low(reg.mr)) ELSE MkWord(High(reg.mr), v)

StoreAcc ==
  /\ Op = 8
  /\ \/ Has(8) /\ reg' = [After(1) EXCEPT !.mr = Half(Has(4), ar)] /\ UNCHANGED mem
     \/ ~Has(8) /\ reg' = After(1) /\ mem' = Put([x \in {reg.mr} |-> ar])

StoreOffset ==
  /\ Op = 9
  /\ reg' = [After(2) EXCEPT !.mr = OffsetAddress]
  /\ mem' = Put([x \in {OffsetAddress} |-> ar])

\* The stack is the top page; $sp points at the last byte pushed.
Push ==
  /\ Op = 10 /\ ~Has(8)
  /\ LET sp == (reg.sp + 1) % 256
     IN  /\ reg' = [After(1) EXCEPT !.sp = sp]
         /\ mem' = Put([x \in {MkWord(255, sp)} |-> ar])

Pop ==
  LET top == Cell(MkWord(255, reg.sp))
      v == IF Has(4) THEN Combine(Code % 4, top) ELSE top
  IN  /\ Op = 10 /\ Has(8)
      /\ reg' = [After(1) EXCEPT !.sp = (@ + 255) % 256,
                                 !.a[reg.ar] = v,
                                 !.fr = Flag(v, Has(4) /\ Code % 4 = 0 /\ ar + top > 255)]
      /\ UNCHANGED mem

LoadAddress ==
  /\ Op = 11
  /\ \/ Has(4) /\ reg' = [After(2) EXCEPT !.a[reg.ar] = Operand]
     \/ ~Has(4) /\ reg' = [After(2) EXCEPT !.mr = Half(Has(8), Operand)]
  /\ UNCHANGED mem

\* An immediate target lies in the page of the instruction that follows.
Branch ==
  LET next == (reg.ip + 2) % 65536
      \* the n, z and p bits of the instruction, as the flags they test
      tested == {f \in {1, 2, 4} : Has(2 * f)}
      condition == tested \cap Bits(reg.fr) # {}
  IN  /\ Op = 12
      /\ reg' = [reg EXCEPT !.ip = CASE ~condition -> next
                                     [] condition /\ Has(1) -> MkWord(High(next), Operand)
                                     [] condition /\ ~Has(1) -> reg.mr]
      /\ UNCHANGED mem

PortIn ==
  /\ Op = 13 /\ ~Has(8)
  /\ \E v \in CASE Code % 8 = 1 -> {0, 1}
                [] Code % 8 = 2 -> KeyReplies \cup {IF ar = 13 THEN 10 ELSE ar}
                [] Code % 8 = 3 -> DiskStatuses
                [] Code % 8 = 4 -> {reg.fr}
                [] Code % 8 = 5 -> {reg.sp}
                [] OTHER -> {ar} :
       Result(1, v, FALSE)

\* Only a disk sector read (port 5) can change memory, and only the disk page.
PortOut ==
  /\ Op = 13 /\ Has(8)
  /\ reg' = After(1)
  /\ \/ Code % 8 = 5 /\ \E s \in SectorImages : mem' = Put(s)
     \/ Code % 8 # 5 /\ UNCHANGED mem

Select ==
  /\ Op = 14
  /\ reg' = [After(1) EXCEPT !.ar = Imm, !.fr = Flag(reg.a[Imm], FALSE)]
  /\ UNCHANGED mem

Reserved == Op = 15 /\ reg' = After(1) /\ UNCHANGED mem

\* The registers at reset; memory holds any program.
ISAInit ==
  reg = [ip |-> 0, mr |-> 0, sp |-> 255, fr |-> 0, ar |-> 0, a |-> [i \in 0 .. 15 |-> 0]]

ISANext ==
  \/ Arithmetic \/ Not \/ Shift \/ LoadAcc \/ LoadOffset \/ StoreAcc \/ StoreOffset
  \/ Push \/ Pop \/ LoadAddress \/ Branch \/ PortIn \/ PortOut \/ Select \/ Reserved

ISASpec == ISAInit /\ [][ISANext]_ISAvars
=============================================================================
