---------------------------- MODULE AprISAProofs ----------------------------
(***************************************************************************)
(* The microprogram of cpu.c carries out the instruction set of AprISA,    *)
(* for every program and every reply of the ports.                         *)
(*                                                                         *)
(* The invariant of the proof, Midway, says for each function of the       *)
(* microprogram which registers still are what the program saw before the  *)
(* instruction (`before') and what the others have become.                 *)
(***************************************************************************)
EXTENDS AprCPURefinement, AprCPUProofs

-----------------------------------------------------------------------------
(* The registers in the middle of an instruction: what the functions that  *)
(* have run have made of those the program saw before it.                  *)

before == committed.reg

View == [ip : Word, mr : Word, sp : Byte, fr : 0 .. 15, ar : 0 .. 15,
         a : [0 .. ACCUMULATOR_COUNT - 1 -> Byte]]

\* pc has gone past n bytes of the instruction.
Passed(n) == cpu.pc = (before.ip + n) % 65536

MarKept == cpu.mar = before.mr
SpKept == cpu.stackpt = before.sp
AccKept == cpu.accumulator = before.a /\ cpu.flags = before.fr
Kept == MarKept /\ SpKept /\ AccKept

\* The instruction has been read, and has been told for one of ops.
Decoded ==
  /\ Low(cpu.ir) = ISA!Code
  /\ Opcode(cpu.ir) \notin HasOperand => Passed(1)
  /\ Opcode(cpu.ir) \in HasOperand => Passed(2) /\ High(cpu.ir) = ISA!Operand
Executes(ops) == Decoded /\ cpu.ia = High(cpu.ir) /\ Opcode(cpu.ir) \in ops

FetchInv ==
  /\ cpu.nextState = "x00" => Passed(0) /\ Kept
  /\ cpu.nextState = "x01" => Passed(0) /\ Kept /\ cpu.mdr = ISA!Code
  /\ cpu.nextState = "x23" => Passed(1) /\ Kept /\ Low(cpu.ir) = ISA!Code
  /\ cpu.nextState = "x24" =>
       Passed(1) /\ Kept /\ Low(cpu.ir) = ISA!Code /\ cpu.mdr = ISA!Operand
  /\ cpu.nextState = "x03" => Decoded /\ Kept

\* Operations of one function
SingleInv ==
  /\ cpu.nextState = "x04" => Executes({ADD}) /\ Kept
  /\ cpu.nextState = "x05" => Executes({NOT}) /\ Kept
  /\ cpu.nextState = "x06" => Executes({AND}) /\ Kept
  /\ cpu.nextState = "x07" => Executes({OR}) /\ Kept
  /\ cpu.nextState = "x08" => Executes({XOR}) /\ Kept
  /\ cpu.nextState = "x1F" => Executes({BR}) /\ Kept
  /\ cpu.nextState = "x20" => Executes({PRT}) /\ Kept /\ cpu.imm3 = cpu.ir % 8
  /\ cpu.nextState = "x22" => Executes({ASET}) /\ Kept
  /\ cpu.nextState = "x26" => Executes({LA}) /\ Kept
  /\ cpu.nextState = "exception" => Executes({15}) /\ Kept

\* v shifted by n places
ShiftedBy(v, n, right) == IF right THEN v \div 2^n ELSE (v * 2^n) % 256

\* The places left to go are imm3 and one more.
ShiftInv ==
  cpu.nextState = "x09" =>
    /\ Executes({SHF}) /\ MarKept /\ SpKept
    /\ cpu.imm3 \in 0 .. cpu.ir % 8
    /\ \A i \in 0 .. ACCUMULATOR_COUNT - 1 : i # before.ar => cpu.accumulator[i] = before.a[i]
    /\ Acc = ShiftedBy(before.a[before.ar], (cpu.ir % 8) - cpu.imm3, f1)

LoadInv ==
  /\ cpu.nextState = "x0A" => Executes({LD}) /\ Kept
  /\ cpu.nextState = "x25" => Executes({LD}) /\ f1 /\ Kept
  /\ cpu.nextState = "x0D" => Executes({LDI}) /\ Kept
  /\ cpu.nextState = "x0E" => Executes({LDI}) /\ SpKept /\ AccKept /\ cpu.mar = cpu.pc
  /\ cpu.nextState = "x0F" =>
       Executes({LDI}) /\ SpKept /\ AccKept /\ cpu.mar = ISA!OffsetAddress
  /\ cpu.nextState = "x0B" =>
       /\ Executes({LD, LDI}) /\ SpKept /\ AccKept /\ cpu.mdr = Load(cpu.mar)
       /\ Opcode(cpu.ir) = LD => ~f1 /\ MarKept
       /\ Opcode(cpu.ir) = LDI => cpu.mar = ISA!OffsetAddress

StoreInv ==
  /\ cpu.nextState = "x10" => Executes({ST}) /\ Kept
  /\ cpu.nextState = "x0C" => Executes({ST}) /\ f1 /\ Kept
  /\ cpu.nextState = "x12" => Executes({STI}) /\ Kept
  /\ cpu.nextState = "x13" => Executes({STI}) /\ SpKept /\ AccKept /\ cpu.mar = cpu.pc
  /\ cpu.nextState = "x14" =>
       Executes({STI}) /\ SpKept /\ AccKept /\ cpu.mar = ISA!OffsetAddress
  /\ cpu.nextState = "x11" =>
       /\ Executes({ST, STI}) /\ SpKept /\ AccKept /\ cpu.mdr = Acc
       /\ Opcode(cpu.ir) = ST => ~f1 /\ MarKept
       /\ Opcode(cpu.ir) = STI => cpu.mar = ISA!OffsetAddress

StackInv ==
  /\ cpu.nextState = "x15" => Executes({STK}) /\ Kept
  /\ cpu.nextState = "x17" => Executes({STK}) /\ ~f1 /\ Kept
  /\ cpu.nextState = "x18" =>
       Executes({STK}) /\ ~f1 /\ MarKept /\ AccKept /\ cpu.stackpt = (before.sp + 1) % 256
  /\ cpu.nextState = "x16" =>
       /\ Executes({STK}) /\ ~f1 /\ MarKept /\ AccKept /\ cpu.stackpt = (before.sp + 1) % 256
       /\ cpu.mdr = Acc
  /\ cpu.nextState = "x19" => Executes({STK}) /\ f1 /\ Kept
  /\ cpu.nextState = "x1A" =>
       Executes({STK}) /\ f1 /\ Kept /\ cpu.mdr = Load(stackmem + before.sp)
  /\ cpu.nextState = "x1B" =>
       /\ Executes({STK}) /\ f1 /\ MarKept /\ AccKept /\ cpu.stackpt = (before.sp + 255) % 256
       /\ cpu.mdr = Load(stackmem + before.sp)

\* What no function but the last of an instruction changes
Frame ==
  /\ before \in View
  /\ committed = [reg |-> before, mem |-> memory]
  /\ cpu.amux = before.ar /\ cpu.flags \in 0 .. 15

Midway == Frame /\ FetchInv /\ SingleInv /\ ShiftInv /\ LoadInv /\ StoreInv /\ StackInv

LEMMA ViewTypes ==
  ASSUME Frame
  PROVE  /\ before.ip \in Word /\ before.mr \in Word /\ before.sp \in Byte
         /\ before.fr \in 0 .. 15 /\ before.ar \in 0 .. ACCUMULATOR_COUNT - 1
         /\ before.a \in [0 .. ACCUMULATOR_COUNT - 1 -> Byte]
<1>1. before \in View
  BY DEF Frame
<1> HIDE DEF before
<1> QED
  BY <1>1 DEF View, ACCUMULATOR_COUNT

LEMMA NothingPassed == ASSUME NEW w \in Word PROVE (w + 0) % 65536 = w
<1>1. w \in Int /\ 0 <= w /\ w < 65536 /\ w + 0 = w
  BY DEF Word
<1>2. w % 65536 = w
  BY <1>1
<1> QED
  BY <1>1, <1>2

\* The groups speak of different functions.
LEMMA Elsewhere ==
  /\ cpu'.nextState \notin {"x00", "x01", "x23", "x24", "x03"} => FetchInv'
  /\ cpu'.nextState \notin {"x04", "x05", "x06", "x07", "x08", "x1F", "x20", "x22", "x26", "exception"}
       => SingleInv'
  /\ cpu'.nextState # "x09" => ShiftInv'
  /\ cpu'.nextState \notin {"x0A", "x25", "x0D", "x0E", "x0F", "x0B"} => LoadInv'
  /\ cpu'.nextState \notin {"x10", "x0C", "x12", "x13", "x14", "x11"} => StoreInv'
  /\ cpu'.nextState \notin {"x15", "x17", "x18", "x16", "x19", "x1A", "x1B"} => StackInv'
<1>1. cpu'.nextState \notin {"x00", "x01", "x23", "x24", "x03"} => FetchInv'
  BY DEF FetchInv
<1>2. cpu'.nextState \notin {"x04", "x05", "x06", "x07", "x08", "x1F", "x20", "x22", "x26", "exception"}
        => SingleInv'
  BY DEF SingleInv
<1>3. cpu'.nextState # "x09" => ShiftInv'
  BY DEF ShiftInv
<1>4. cpu'.nextState \notin {"x0A", "x25", "x0D", "x0E", "x0F", "x0B"} => LoadInv'
  BY DEF LoadInv
<1>5. cpu'.nextState \notin {"x10", "x0C", "x12", "x13", "x14", "x11"} => StoreInv'
  BY DEF StoreInv
<1>6. cpu'.nextState \notin {"x15", "x17", "x18", "x16", "x19", "x1A", "x1B"} => StackInv'
  BY DEF StackInv
<1> QED
  BY <1>1, <1>2, <1>3, <1>4, <1>5, <1>6

\* The registers that a function leaves
LEMMA MicroFields ==
  ASSUME cpu' \in Registers, NEW s, NEW r, NEW t, Micro(s, r, t)
  PROVE  /\ cpu.nextState = s /\ cpu'.nextState = t /\ memory' = memory
         /\ cpu'.pc = r.pc /\ cpu'.mar = r.mar /\ cpu'.mdr = r.mdr /\ cpu'.ir = r.ir
         /\ cpu'.ia = r.ia /\ cpu'.amux = r.amux /\ cpu'.stackpt = r.stackpt
         /\ cpu'.flags = r.flags /\ cpu'.imm3 = r.imm3 /\ cpu'.accumulator = r.accumulator
<1>1. cpu.nextState = s /\ cpu' = [r EXCEPT !.nextState = t] /\ memory' = memory
  BY DEF Micro
<1>2. {"pc", "mar", "mdr", "ir", "ia", "amux", "stackpt", "flags", "imm3", "accumulator",
       "nextState"} \subseteq DOMAIN cpu'
  BY DEF Registers
<1>3. DOMAIN cpu' = DOMAIN r
  BY <1>1
<1> QED
  BY <1>1, <1>2, <1>3

\* As long as an instruction is not over, what the program saw before it is held.
LEMMA Held ==
  ASSUME Commit, cpu'.nextState # "x00"
  PROVE  /\ committed' = committed /\ before' = before
         /\ ISA!Code' = ISA!Code /\ ISA!Operand' = ISA!Operand
         /\ ISA!OffsetAddress' = ISA!OffsetAddress
  BY DEF Commit, before, ISA!Code, ISA!Operand, ISA!OffsetAddress, ISA!Cell

\* A function that leaves the accumulators and the flags alone
LEMMA Inside ==
  ASSUME cpu' \in Registers, Frame, Commit, NEW s, NEW r, NEW t, Micro(s, r, t), t # "x00",
         r.amux = cpu.amux, r.accumulator = cpu.accumulator, r.flags = cpu.flags
  PROVE  /\ cpu.nextState = s /\ cpu'.nextState = t
         /\ Frame'
         /\ AccKept => AccKept'
         /\ r.mar = cpu.mar /\ MarKept => MarKept'
         /\ r.stackpt = cpu.stackpt /\ SpKept => SpKept'
         /\ cpu'.mar = r.mar /\ cpu'.mdr = r.mdr /\ cpu'.stackpt = r.stackpt /\ cpu'.imm3 = r.imm3
         /\ cpu'.ir = r.ir /\ cpu'.ia = r.ia /\ cpu'.pc = r.pc /\ Acc' = Acc /\ before' = before
         /\ ISA!Code' = ISA!Code /\ ISA!Operand' = ISA!Operand
         /\ ISA!OffsetAddress' = ISA!OffsetAddress /\ memory' = memory
<1>1. /\ cpu.nextState = s /\ cpu'.nextState = t /\ memory' = memory
      /\ cpu'.pc = r.pc /\ cpu'.mar = r.mar /\ cpu'.mdr = r.mdr /\ cpu'.ir = r.ir
      /\ cpu'.ia = r.ia /\ cpu'.amux = cpu.amux /\ cpu'.stackpt = r.stackpt
      /\ cpu'.flags = cpu.flags /\ cpu'.imm3 = r.imm3 /\ cpu'.accumulator = cpu.accumulator
  BY MicroFields
<1>2. /\ committed' = committed /\ before' = before
      /\ ISA!Code' = ISA!Code /\ ISA!Operand' = ISA!Operand
      /\ ISA!OffsetAddress' = ISA!OffsetAddress
  BY <1>1, Held
<1>3. Frame'
  BY <1>1, <1>2 DEF Frame
<1>4. AccKept => AccKept'
  BY <1>1, <1>2 DEF AccKept
<1>5. /\ r.mar = cpu.mar /\ MarKept => MarKept'
      /\ r.stackpt = cpu.stackpt /\ SpKept => SpKept'
  BY <1>1, <1>2 DEF MarKept, SpKept
<1>6. Acc' = Acc
  BY <1>1 DEF Acc
<1> QED
  BY <1>1, <1>2, <1>3, <1>4, <1>5, <1>6

\* A function that leaves the instruction and pc alone too
LEMMA Continues ==
  ASSUME cpu' \in Registers, Frame, Commit, NEW s, NEW r, NEW t, Micro(s, r, t), t # "x00",
         r.pc = cpu.pc, r.ir = cpu.ir, r.ia = cpu.ia, r.amux = cpu.amux,
         r.accumulator = cpu.accumulator, r.flags = cpu.flags
  PROVE  /\ cpu.nextState = s /\ cpu'.nextState = t
         /\ Frame'
         /\ \A ops : Executes(ops) => Executes(ops)'
         /\ AccKept => AccKept'
         /\ r.mar = cpu.mar /\ MarKept => MarKept'
         /\ r.stackpt = cpu.stackpt /\ SpKept => SpKept'
         /\ cpu'.mar = r.mar /\ cpu'.mdr = r.mdr /\ cpu'.stackpt = r.stackpt /\ cpu'.imm3 = r.imm3
         /\ cpu'.ir = cpu.ir /\ cpu'.pc = cpu.pc /\ Acc' = Acc /\ before' = before
         /\ ISA!OffsetAddress' = ISA!OffsetAddress /\ memory' = memory
<1>1. /\ cpu.nextState = s /\ cpu'.nextState = t
      /\ Frame'
      /\ AccKept => AccKept'
      /\ r.mar = cpu.mar /\ MarKept => MarKept'
      /\ r.stackpt = cpu.stackpt /\ SpKept => SpKept'
      /\ cpu'.mar = r.mar /\ cpu'.mdr = r.mdr /\ cpu'.stackpt = r.stackpt /\ cpu'.imm3 = r.imm3
      /\ cpu'.ir = cpu.ir /\ cpu'.ia = cpu.ia /\ cpu'.pc = cpu.pc /\ Acc' = Acc /\ before' = before
      /\ ISA!Code' = ISA!Code /\ ISA!Operand' = ISA!Operand
      /\ ISA!OffsetAddress' = ISA!OffsetAddress /\ memory' = memory
  BY Inside
<1>2. Decoded => Decoded'
  BY <1>1 DEF Decoded, Passed
<1>3. \A ops : Executes(ops) => Executes(ops)'
  BY <1>1, <1>2 DEF Executes
<1> QED
  BY <1>1, <1>3

-----------------------------------------------------------------------------
(* The functions inside an instruction *)

LEMMA FetchStart ==
  ASSUME cpu \in Registers, cpu' \in Registers, Midway, Commit, x00
  PROVE  Midway'
<1> DEFINE r == [cpu EXCEPT !.mdr = Load(cpu.pc)]
<1>1. Micro("x00", r, "x01")
  BY DEF x00
<1>2. /\ r.pc = cpu.pc /\ r.ir = cpu.ir /\ r.ia = cpu.ia /\ r.amux = cpu.amux
      /\ r.accumulator = cpu.accumulator /\ r.flags = cpu.flags
      /\ r.mar = cpu.mar /\ r.stackpt = cpu.stackpt /\ r.mdr = Load(cpu.pc)
  BY DEF Registers
<1> HIDE DEF r
<1>3. /\ cpu.nextState = "x00" /\ cpu'.nextState = "x01" /\ Frame'
      /\ AccKept => AccKept'
      /\ MarKept => MarKept'
      /\ SpKept => SpKept'
      /\ cpu'.mdr = Load(cpu.pc) /\ cpu'.pc = cpu.pc /\ before' = before
  BY <1>1, <1>2, Continues DEF Midway
<1>4. Passed(0) /\ MarKept /\ SpKept /\ AccKept
  BY <1>3 DEF Midway, FetchInv, Kept
<1>5. Passed(0)' /\ Kept'
  BY <1>3, <1>4 DEF Passed, Kept
<1>6. cpu'.mdr = ISA!Code'
  <2>1. cpu.pc = before.ip
    <3>1. before.ip \in Word /\ cpu.pc = (before.ip + 0) % 65536
      BY <1>4, ViewTypes DEF Midway, Passed
    <3> QED
      BY <3>1, NothingPassed
  <2>2. ISA!Code' = ISA!Code
    BY <1>3, Held
  <2> QED
    BY <1>3, <2>1, <2>2 DEF Midway, Frame, ISA!Code, ISA!Cell, Load
<1>7. FetchInv'
  BY <1>3, <1>5, <1>6 DEF FetchInv
<1> QED
  BY <1>3, <1>7, Elsewhere DEF Midway

LEMMA Pieces ==
  ASSUME NEW h \in Byte, NEW l \in Byte
  PROVE  Low(MkWord(h, l)) = l /\ High(MkWord(h, l)) = h /\ Low(l) = l
<1>1. /\ h \in Int /\ 0 <= h /\ h <= 255
      /\ l \in Int /\ 0 <= l /\ l <= 255
  BY DEF Byte
<1>2. (256 * h + l) % 256 = l
  BY <1>1
<1>3. (256 * h + l) \div 256 = h
  BY <1>1
<1>4. l % 256 = l
  BY <1>1
<1> QED
  BY <1>2, <1>3, <1>4 DEF Low, High, MkWord

LEMMA Passing ==
  ASSUME NEW w \in Word
  PROVE  /\ Next16((w + 0) % 65536) = (w + 1) % 65536
         /\ Next16((w + 1) % 65536) = (w + 2) % 65536
<1>1. w \in Int
  BY DEF Word
<1>2. (((w + 0) % 65536) + 1) % 65536 = (w + 1) % 65536
  BY <1>1
<1>3. (((w + 1) % 65536) + 1) % 65536 = (w + 2) % 65536
  BY <1>1
<1> QED
  BY <1>2, <1>3 DEF Next16

LEMMA CellIsLoad == ASSUME Frame PROVE \A a : ISA!Cell(a) = Load(a)
  BY DEF Frame, ISA!Cell, Load

LEMMA FetchRead ==
  ASSUME cpu \in Registers, cpu' \in Registers, Midway, Commit, x01
  PROVE  Midway'
<1> DEFINE r == [cpu EXCEPT !.pc = Next16(@), !.ir = cpu.mdr]
           t == IF Opcode(cpu.mdr) \in HasOperand THEN "x23" ELSE "x03"
<1>1. Micro("x01", r, t) /\ t # "x00"
  BY DEF x01
<1>2. /\ r.pc = Next16(cpu.pc) /\ r.ir = cpu.mdr /\ r.ia = cpu.ia /\ r.amux = cpu.amux
      /\ r.accumulator = cpu.accumulator /\ r.flags = cpu.flags
      /\ r.mar = cpu.mar /\ r.stackpt = cpu.stackpt /\ cpu.mdr \in Byte
  BY DEF Registers
<1> HIDE DEF r, t
<1>3. /\ cpu.nextState = "x01" /\ cpu'.nextState = t /\ Frame'
      /\ AccKept => AccKept'
      /\ MarKept => MarKept'
      /\ SpKept => SpKept'
      /\ cpu'.ir = cpu.mdr /\ cpu'.pc = Next16(cpu.pc) /\ before' = before
      /\ ISA!Code' = ISA!Code
  BY <1>1, <1>2, Inside DEF Midway
<1>4. Passed(0) /\ MarKept /\ SpKept /\ AccKept /\ cpu.mdr = ISA!Code
  BY <1>3 DEF Midway, FetchInv, Kept
<1>5. Kept'
  BY <1>3, <1>4 DEF Kept
<1>6. Passed(1)'
  <2>1. before.ip \in Word
    BY ViewTypes DEF Midway
  <2> QED
    BY <1>3, <1>4, <2>1, Passing DEF Passed
<1>7. Low(cpu'.ir) = ISA!Code'
  BY <1>2, <1>3, <1>4, Pieces
<1>8. CASE Opcode(cpu.mdr) \in HasOperand
  <2>1. cpu'.nextState = "x23"
    BY <1>3, <1>8 DEF t
  <2>2. FetchInv'
    BY <1>5, <1>6, <1>7, <2>1 DEF FetchInv
  <2> QED
    BY <1>3, <2>1, <2>2, Elsewhere DEF Midway
<1>9. CASE Opcode(cpu.mdr) \notin HasOperand
  <2>1. cpu'.nextState = "x03"
    BY <1>3, <1>9 DEF t
  <2>2. Decoded'
    BY <1>3, <1>6, <1>7, <1>9 DEF Decoded
  <2>3. FetchInv'
    BY <1>5, <2>1, <2>2 DEF FetchInv
  <2> QED
    BY <1>3, <2>1, <2>3, Elsewhere DEF Midway
<1> QED
  BY <1>8, <1>9

LEMMA OperandRead ==
  ASSUME cpu \in Registers, cpu' \in Registers, Midway, Commit, x23
  PROVE  Midway'
<1> DEFINE r == [cpu EXCEPT !.mdr = Load(cpu.pc)]
<1>1. Micro("x23", r, "x24")
  BY DEF x23
<1>2. /\ r.pc = cpu.pc /\ r.ir = cpu.ir /\ r.ia = cpu.ia /\ r.amux = cpu.amux
      /\ r.accumulator = cpu.accumulator /\ r.flags = cpu.flags
      /\ r.mar = cpu.mar /\ r.stackpt = cpu.stackpt /\ r.mdr = Load(cpu.pc)
  BY DEF Registers
<1> HIDE DEF r
<1>3. /\ cpu.nextState = "x23" /\ cpu'.nextState = "x24" /\ Frame'
      /\ AccKept => AccKept'
      /\ MarKept => MarKept'
      /\ SpKept => SpKept'
      /\ cpu'.mdr = Load(cpu.pc) /\ cpu'.pc = cpu.pc /\ cpu'.ir = cpu.ir /\ before' = before
      /\ ISA!Code' = ISA!Code /\ ISA!Operand' = ISA!Operand
  BY <1>1, <1>2, Inside DEF Midway
<1>4. Passed(1) /\ MarKept /\ SpKept /\ AccKept /\ Low(cpu.ir) = ISA!Code
  BY <1>3 DEF Midway, FetchInv, Kept
<1>5. Passed(1)' /\ Kept' /\ Low(cpu'.ir) = ISA!Code'
  BY <1>3, <1>4 DEF Passed, Kept
<1>6. cpu'.mdr = ISA!Operand'
  BY <1>3, <1>4, CellIsLoad DEF Midway, Passed, ISA!Operand, before
<1>7. FetchInv'
  BY <1>3, <1>5, <1>6 DEF FetchInv
<1> QED
  BY <1>3, <1>7, Elsewhere DEF Midway

LEMMA OperandTaken ==
  ASSUME cpu \in Registers, cpu' \in Registers, OperandFetch, Midway, Commit, x24
  PROVE  Midway'
<1> DEFINE r == [cpu EXCEPT !.ir = MkWord(cpu.mdr, Low(@)), !.pc = Next16(@)]
<1>1. Micro("x24", r, "x03")
  BY DEF x24
<1>2. /\ r.pc = Next16(cpu.pc) /\ r.ir = MkWord(cpu.mdr, Low(cpu.ir)) /\ r.ia = cpu.ia
      /\ r.amux = cpu.amux /\ r.accumulator = cpu.accumulator /\ r.flags = cpu.flags
      /\ r.mar = cpu.mar /\ r.stackpt = cpu.stackpt /\ cpu.mdr \in Byte /\ cpu.ir \in Word
  BY DEF Registers
<1> HIDE DEF r
<1>3. /\ cpu.nextState = "x24" /\ cpu'.nextState = "x03" /\ Frame'
      /\ AccKept => AccKept'
      /\ MarKept => MarKept'
      /\ SpKept => SpKept'
      /\ cpu'.ir = MkWord(cpu.mdr, Low(cpu.ir)) /\ cpu'.pc = Next16(cpu.pc) /\ before' = before
      /\ ISA!Code' = ISA!Code /\ ISA!Operand' = ISA!Operand
  BY <1>1, <1>2, Inside DEF Midway
<1>4. /\ Passed(1) /\ MarKept /\ SpKept /\ AccKept
      /\ Low(cpu.ir) = ISA!Code /\ cpu.mdr = ISA!Operand
  BY <1>3 DEF Midway, FetchInv, Kept
<1>5. Kept'
  BY <1>3, <1>4 DEF Kept
<1>6. Passed(2)'
  <2>1. before.ip \in Word
    BY ViewTypes DEF Midway
  <2> QED
    BY <1>3, <1>4, <2>1, Passing DEF Passed
<1>7. Low(cpu'.ir) = Low(cpu.ir) /\ High(cpu'.ir) = cpu.mdr
  <2>1. Low(cpu.ir) \in Byte
    BY <1>2, WordBytes
  <2> QED
    BY <1>2, <1>3, <2>1, Pieces
<1>8. Opcode(cpu'.ir) \in HasOperand
  BY <1>3, <1>7 DEF OperandFetch, Opcode
<1>9. Decoded'
  BY <1>3, <1>4, <1>6, <1>7, <1>8 DEF Decoded
<1>10. FetchInv'
  BY <1>3, <1>5, <1>9 DEF FetchInv
<1> QED
  BY <1>3, <1>10, Elsewhere DEF Midway

LEMMA DispatchTable ==
  /\ Dispatch(ADD) = "x04" /\ Dispatch(AND) = "x06" /\ Dispatch(OR) = "x07"
  /\ Dispatch(XOR) = "x08" /\ Dispatch(NOT) = "x05" /\ Dispatch(SHF) = "x09"
  /\ Dispatch(LD) = "x0A" /\ Dispatch(LDI) = "x0D" /\ Dispatch(ST) = "x10"
  /\ Dispatch(STI) = "x12" /\ Dispatch(STK) = "x15" /\ Dispatch(LA) = "x26"
  /\ Dispatch(BR) = "x1F" /\ Dispatch(PRT) = "x20" /\ Dispatch(ASET) = "x22"
  /\ Dispatch(15) = "exception"
<1> USE DEF ADD, AND, OR, XOR, NOT, SHF, LD, LDI, ST, STI, STK, LA, BR, PRT, ASET
<1>1. /\ Dispatch(ADD) = "x04" /\ Dispatch(AND) = "x06" /\ Dispatch(OR) = "x07"
      /\ Dispatch(XOR) = "x08" /\ Dispatch(NOT) = "x05" /\ Dispatch(SHF) = "x09"
  BY DEF Dispatch
<1>2. /\ Dispatch(LD) = "x0A" /\ Dispatch(LDI) = "x0D" /\ Dispatch(ST) = "x10"
      /\ Dispatch(STI) = "x12" /\ Dispatch(STK) = "x15" /\ Dispatch(LA) = "x26"
  BY DEF Dispatch
<1>3. /\ Dispatch(BR) = "x1F" /\ Dispatch(PRT) = "x20" /\ Dispatch(ASET) = "x22"
      /\ Dispatch(15) = "exception"
  BY DEF Dispatch
<1> QED
  BY <1>1, <1>2, <1>3

LEMMA OpcodeRange ==
  ASSUME cpu \in Registers
  PROVE  Opcode(cpu.ir) \in {ADD, AND, OR, XOR, NOT, SHF, LD, LDI, ST, STI, STK, LA, BR, PRT,
                             ASET, 15}
<1>1. Low(cpu.ir) \in Byte
  BY OperandTypes, WordBytes
<1>2. \A b \in Byte : b \div 16 \in 0 .. 15
  BY DEF Byte
<1>3. Opcode(cpu.ir) \in 0 .. 15
  BY <1>1, <1>2 DEF Opcode
<1> QED
  BY <1>3 DEF ADD, AND, OR, XOR, NOT, SHF, LD, LDI, ST, STI, STK, LA, BR, PRT, ASET

LEMMA NotShifted == ASSUME NEW v \in Byte, NEW right PROVE ShiftedBy(v, 0, right) = v
<1>1. v \in Int /\ 0 <= v /\ v < 256 /\ 2^0 = 1
  BY DEF Byte
<1>2. v \div 1 = v /\ (v * 1) % 256 = v
  BY <1>1
<1> QED
  BY <1>1, <1>2 DEF ShiftedBy

LEMMA Dispatched ==
  ASSUME cpu \in Registers, cpu' \in Registers, Midway, Commit, x03
  PROVE  Midway'
<1> DEFINE r == [cpu EXCEPT !.ia = High(cpu.ir), !.imm3 = cpu.ir % 8]
           op == Opcode(cpu.ir)
           t == Dispatch(op)
<1>1. Micro("x03", r, t)
  BY DEF x03
<1>2. /\ r.pc = cpu.pc /\ r.ir = cpu.ir /\ r.ia = High(cpu.ir) /\ r.amux = cpu.amux
      /\ r.accumulator = cpu.accumulator /\ r.flags = cpu.flags /\ r.imm3 = cpu.ir % 8
      /\ r.mar = cpu.mar /\ r.stackpt = cpu.stackpt /\ cpu.ir \in Word
  BY DEF Registers
<1> HIDE DEF r
<1>3. op \in {ADD, AND, OR, XOR, NOT, SHF, LD, LDI, ST, STI, STK, LA, BR, PRT, ASET, 15}
  BY OpcodeRange
<1>4. t \in {"x04", "x05", "x06", "x07", "x08", "x09", "x0A", "x0D", "x10", "x12", "x15",
             "x26", "x1F", "x20", "x22", "exception"}
  BY <1>3, DispatchTable
<1> HIDE DEF op, t
<1>5. t # "x00"
  BY <1>4
<1>6. /\ cpu.nextState = "x03" /\ cpu'.nextState = t /\ Frame'
      /\ AccKept => AccKept'
      /\ MarKept => MarKept'
      /\ SpKept => SpKept'
      /\ cpu'.ir = cpu.ir /\ cpu'.pc = cpu.pc /\ before' = before
      /\ cpu'.ia = High(cpu.ir) /\ cpu'.imm3 = cpu.ir % 8
      /\ ISA!Code' = ISA!Code /\ ISA!Operand' = ISA!Operand
  BY <1>1, <1>2, <1>5, Inside DEF Midway
<1>7. Decoded /\ MarKept /\ SpKept /\ AccKept
  BY <1>6 DEF Midway, FetchInv, Kept
<1>8. MarKept' /\ SpKept' /\ AccKept' /\ Kept'
  BY <1>6, <1>7 DEF Kept
<1>9. Decoded'
  BY <1>6, <1>7 DEF Decoded, Passed
<1>11. \A o : op = o => cpu'.nextState = Dispatch(o) /\ Executes({o})'
  <2> SUFFICES ASSUME NEW o, op = o PROVE cpu'.nextState = Dispatch(o) /\ Executes({o})'
    OBVIOUS
  <2>1. cpu'.nextState = Dispatch(o)
    BY <1>6 DEF t
  <2>2. Executes({o})'
    BY <1>6, <1>9 DEF Executes, op
  <2> QED
    BY <2>1, <2>2
<1>12. CASE op = SHF
  <2>1. cpu'.nextState = "x09" /\ Executes({SHF})'
    BY <1>11, <1>12, DispatchTable
  <2>2. cpu'.ir % 8 \in Nat /\ cpu'.imm3 \in 0 .. cpu'.ir % 8 /\ (cpu'.ir % 8) - cpu'.imm3 = 0
    <3>1. \A w \in Word : w % 8 \in Nat
      BY DEF Word
    <3>2. cpu.ir % 8 \in Nat
      BY <1>2, <3>1
    <3> QED
      BY <1>6, <3>2
  <2>3. cpu'.accumulator = before.a /\ before' = before /\ cpu'.amux = before.ar
    BY <1>6, <1>8 DEF AccKept, Frame
  <2>4. before.a[before.ar] \in Byte
    BY ViewTypes DEF Midway
  <2>5. Acc' = ShiftedBy(before'.a[before'.ar], (cpu'.ir % 8) - cpu'.imm3, f1')
    BY <2>2, <2>3, <2>4, NotShifted DEF Acc
  <2>6. ShiftInv'
    BY <1>8, <2>1, <2>2, <2>3, <2>5 DEF ShiftInv
  <2> QED
    BY <1>6, <2>1, <2>6, Elsewhere DEF Midway
<1>13. CASE op \in {ADD, AND, OR, XOR, NOT}
  <2>1. \/ cpu'.nextState = "x04" /\ Executes({ADD})'
        \/ cpu'.nextState = "x06" /\ Executes({AND})'
        \/ cpu'.nextState = "x07" /\ Executes({OR})'
        \/ cpu'.nextState = "x08" /\ Executes({XOR})'
        \/ cpu'.nextState = "x05" /\ Executes({NOT})'
    BY <1>11, <1>13, DispatchTable
  <2>2. SingleInv'
    BY <1>8, <2>1 DEF SingleInv
  <2> QED
    BY <1>6, <2>1, <2>2, Elsewhere DEF Midway
<1>14. CASE op \in {LA, BR, PRT, ASET, 15}
  <2>1. \/ cpu'.nextState = "x26" /\ Executes({LA})'
        \/ cpu'.nextState = "x1F" /\ Executes({BR})'
        \/ cpu'.nextState = "x20" /\ Executes({PRT})'
        \/ cpu'.nextState = "x22" /\ Executes({ASET})'
        \/ cpu'.nextState = "exception" /\ Executes({15})'
    BY <1>11, <1>14, DispatchTable
  <2>2. SingleInv'
    BY <1>6, <1>8, <2>1 DEF SingleInv
  <2> QED
    BY <1>6, <2>1, <2>2, Elsewhere DEF Midway
<1>15. CASE op \in {LD, LDI}
  <2>1. \/ cpu'.nextState = "x0A" /\ Executes({LD})'
        \/ cpu'.nextState = "x0D" /\ Executes({LDI})'
    BY <1>11, <1>15, DispatchTable
  <2>2. LoadInv'
    BY <1>8, <2>1 DEF LoadInv
  <2> QED
    BY <1>6, <2>1, <2>2, Elsewhere DEF Midway
<1>16. CASE op \in {ST, STI}
  <2>1. \/ cpu'.nextState = "x10" /\ Executes({ST})'
        \/ cpu'.nextState = "x12" /\ Executes({STI})'
    BY <1>11, <1>16, DispatchTable
  <2>2. StoreInv'
    BY <1>8, <2>1 DEF StoreInv
  <2> QED
    BY <1>6, <2>1, <2>2, Elsewhere DEF Midway
<1>17. CASE op = STK
  <2>1. cpu'.nextState = "x15" /\ Executes({STK})'
    BY <1>11, <1>17, DispatchTable
  <2>2. StackInv'
    BY <1>8, <2>1 DEF StackInv
  <2> QED
    BY <1>6, <2>1, <2>2, Elsewhere DEF Midway
<1> QED
  BY <1>3, <1>12, <1>13, <1>14, <1>15, <1>16, <1>17

\* LDI and STI put the address of the next instruction, and then the offset, into mar.
LEMMA LoadToPc ==
  ASSUME cpu \in Registers, cpu' \in Registers, Midway, Commit, x0D
  PROVE  Midway'
<1> DEFINE r == [cpu EXCEPT !.mar = cpu.pc]
<1>1. Micro("x0D", r, "x0E")
  BY DEF x0D
<1>2. /\ r.pc = cpu.pc /\ r.ir = cpu.ir /\ r.ia = cpu.ia /\ r.amux = cpu.amux
      /\ r.accumulator = cpu.accumulator /\ r.flags = cpu.flags
      /\ r.mar = cpu.pc /\ r.stackpt = cpu.stackpt
  BY DEF Registers
<1> HIDE DEF r
<1>3. /\ cpu.nextState = "x0D" /\ cpu'.nextState = "x0E" /\ Frame'
      /\ \A ops : Executes(ops) => Executes(ops)'
      /\ AccKept => AccKept'
      /\ r.mar = cpu.mar /\ MarKept => MarKept'
      /\ r.stackpt = cpu.stackpt /\ SpKept => SpKept'
      /\ cpu'.mar = r.mar /\ cpu'.mdr = r.mdr /\ cpu'.stackpt = r.stackpt
      /\ cpu'.ir = cpu.ir /\ cpu'.pc = cpu.pc /\ Acc' = Acc /\ before' = before
      /\ ISA!OffsetAddress' = ISA!OffsetAddress /\ memory' = memory
  BY <1>1, <1>2, Continues DEF Midway
<1>4. Executes({LDI}) /\ SpKept /\ AccKept
  BY <1>3 DEF Midway, LoadInv, Kept
<1>8. LoadInv'
  BY <1>2, <1>3, <1>4 DEF LoadInv, Kept
<1> QED
  BY <1>3, <1>8, Elsewhere DEF Midway

LEMMA OffsetReached ==
  ASSUME cpu \in Registers, Frame, NEW ops, ops \subseteq HasOperand, Executes(ops)
  PROVE  (cpu.pc + cpu.ia) % 65536 = ISA!OffsetAddress
<1>1. cpu.pc = (before.ip + 2) % 65536 /\ cpu.ia = ISA!Operand
  BY DEF Executes, Decoded, Passed
<1>2. cpu.ia \in Byte /\ before.ip \in Word
  BY ViewTypes, OperandTypes
<1>3. ISA!OffsetAddress = (before.ip + 2 + cpu.ia) % 65536
  BY <1>1 DEF ISA!OffsetAddress, before
<1>4. (((before.ip + 2) % 65536) + cpu.ia) % 65536 = (before.ip + 2 + cpu.ia) % 65536
  <2> DEFINE w == before.ip
             b == cpu.ia
  <2>0. w \in Word /\ b \in Byte
    BY <1>2
  <2> HIDE DEF w, b
  <2>1. w \in Int /\ b \in Int
    BY <2>0, WordsAreNumbers
  <2> HIDE DEF w, b
  <2>2. (((w + 2) % 65536) + b) % 65536 = (w + 2 + b) % 65536
    BY <2>1
  <2> QED
    BY <2>2 DEF w, b
<1> QED
  BY <1>1, <1>3, <1>4

LEMMA LoadToOffset ==
  ASSUME cpu \in Registers, cpu' \in Registers, Midway, Commit, x0E
  PROVE  Midway'
<1> DEFINE r == [cpu EXCEPT !.mar = (@ + cpu.ia) % 65536]
<1>1. Micro("x0E", r, "x0F")
  BY DEF x0E
<1>2. /\ r.pc = cpu.pc /\ r.ir = cpu.ir /\ r.ia = cpu.ia /\ r.amux = cpu.amux
      /\ r.accumulator = cpu.accumulator /\ r.flags = cpu.flags
      /\ r.mar = (cpu.mar + cpu.ia) % 65536 /\ r.stackpt = cpu.stackpt
  BY DEF Registers
<1> HIDE DEF r
<1>3. /\ cpu.nextState = "x0E" /\ cpu'.nextState = "x0F" /\ Frame'
      /\ \A ops : Executes(ops) => Executes(ops)'
      /\ AccKept => AccKept'
      /\ r.mar = cpu.mar /\ MarKept => MarKept'
      /\ r.stackpt = cpu.stackpt /\ SpKept => SpKept'
      /\ cpu'.mar = r.mar /\ cpu'.mdr = r.mdr /\ cpu'.stackpt = r.stackpt
      /\ cpu'.ir = cpu.ir /\ cpu'.pc = cpu.pc /\ Acc' = Acc /\ before' = before
      /\ ISA!OffsetAddress' = ISA!OffsetAddress /\ memory' = memory
  BY <1>1, <1>2, Continues DEF Midway
<1>4. Executes({LDI}) /\ SpKept /\ AccKept /\ cpu.mar = cpu.pc
  BY <1>3 DEF Midway, LoadInv, Kept
<1>5. cpu'.mar = ISA!OffsetAddress'
  <2>1. {LDI} \subseteq HasOperand
    BY DEF HasOperand
  <2>2. (cpu.pc + cpu.ia) % 65536 = ISA!OffsetAddress
    BY <1>4, <2>1, OffsetReached DEF Midway
  <2> QED
    BY <1>2, <1>3, <1>4, <2>2
<1>8. LoadInv'
  BY <1>2, <1>3, <1>4, <1>5 DEF LoadInv, Kept
<1> QED
  BY <1>3, <1>8, Elsewhere DEF Midway

LEMMA LoadFetches ==
  ASSUME cpu \in Registers, cpu' \in Registers, Midway, Commit, x0F
  PROVE  Midway'
<1> DEFINE r == [cpu EXCEPT !.mdr = Load(cpu.mar)]
<1>1. Micro("x0F", r, "x0B")
  BY DEF x0F
<1>2. /\ r.pc = cpu.pc /\ r.ir = cpu.ir /\ r.ia = cpu.ia /\ r.amux = cpu.amux
      /\ r.accumulator = cpu.accumulator /\ r.flags = cpu.flags
      /\ r.mar = cpu.mar /\ r.stackpt = cpu.stackpt /\ r.mdr = Load(cpu.mar)
  BY DEF Registers
<1> HIDE DEF r
<1>3. /\ cpu.nextState = "x0F" /\ cpu'.nextState = "x0B" /\ Frame'
      /\ \A ops : Executes(ops) => Executes(ops)'
      /\ AccKept => AccKept'
      /\ r.mar = cpu.mar /\ MarKept => MarKept'
      /\ r.stackpt = cpu.stackpt /\ SpKept => SpKept'
      /\ cpu'.mar = r.mar /\ cpu'.mdr = r.mdr /\ cpu'.stackpt = r.stackpt
      /\ cpu'.ir = cpu.ir /\ cpu'.pc = cpu.pc /\ Acc' = Acc /\ before' = before
      /\ ISA!OffsetAddress' = ISA!OffsetAddress /\ memory' = memory
  BY <1>1, <1>2, Continues DEF Midway
<1>4. Executes({LDI}) /\ SpKept /\ AccKept /\ cpu.mar = ISA!OffsetAddress
  BY <1>3 DEF Midway, LoadInv, Kept
<1>5. Opcode(cpu'.ir) = LDI /\ LDI # LD
  BY <1>3, <1>4 DEF Executes, LD, LDI
<1>6. Executes({LD, LDI})'
  BY <1>3, <1>4 DEF Executes
<1>7. cpu'.mdr = Load(cpu.mar)'
  BY <1>2, <1>3 DEF Load
<1>8. LoadInv'
  BY <1>2, <1>3, <1>4, <1>5, <1>6, <1>7 DEF LoadInv, Kept
<1> QED
  BY <1>3, <1>8, Elsewhere DEF Midway

LEMMA StoreToPc ==
  ASSUME cpu \in Registers, cpu' \in Registers, Midway, Commit, x12
  PROVE  Midway'
<1> DEFINE r == [cpu EXCEPT !.mar = cpu.pc]
<1>1. Micro("x12", r, "x13")
  BY DEF x12
<1>2. /\ r.pc = cpu.pc /\ r.ir = cpu.ir /\ r.ia = cpu.ia /\ r.amux = cpu.amux
      /\ r.accumulator = cpu.accumulator /\ r.flags = cpu.flags
      /\ r.mar = cpu.pc /\ r.stackpt = cpu.stackpt
  BY DEF Registers
<1> HIDE DEF r
<1>3. /\ cpu.nextState = "x12" /\ cpu'.nextState = "x13" /\ Frame'
      /\ \A ops : Executes(ops) => Executes(ops)'
      /\ AccKept => AccKept'
      /\ r.mar = cpu.mar /\ MarKept => MarKept'
      /\ r.stackpt = cpu.stackpt /\ SpKept => SpKept'
      /\ cpu'.mar = r.mar /\ cpu'.mdr = r.mdr /\ cpu'.stackpt = r.stackpt
      /\ cpu'.ir = cpu.ir /\ cpu'.pc = cpu.pc /\ Acc' = Acc /\ before' = before
      /\ ISA!OffsetAddress' = ISA!OffsetAddress /\ memory' = memory
  BY <1>1, <1>2, Continues DEF Midway
<1>4. Executes({STI}) /\ SpKept /\ AccKept
  BY <1>3 DEF Midway, StoreInv, Kept
<1>8. StoreInv'
  BY <1>2, <1>3, <1>4 DEF StoreInv, Kept
<1> QED
  BY <1>3, <1>8, Elsewhere DEF Midway

LEMMA StoreToOffset ==
  ASSUME cpu \in Registers, cpu' \in Registers, Midway, Commit, x13
  PROVE  Midway'
<1> DEFINE r == [cpu EXCEPT !.mar = (@ + cpu.ia) % 65536]
<1>1. Micro("x13", r, "x14")
  BY DEF x13
<1>2. /\ r.pc = cpu.pc /\ r.ir = cpu.ir /\ r.ia = cpu.ia /\ r.amux = cpu.amux
      /\ r.accumulator = cpu.accumulator /\ r.flags = cpu.flags
      /\ r.mar = (cpu.mar + cpu.ia) % 65536 /\ r.stackpt = cpu.stackpt
  BY DEF Registers
<1> HIDE DEF r
<1>3. /\ cpu.nextState = "x13" /\ cpu'.nextState = "x14" /\ Frame'
      /\ \A ops : Executes(ops) => Executes(ops)'
      /\ AccKept => AccKept'
      /\ r.mar = cpu.mar /\ MarKept => MarKept'
      /\ r.stackpt = cpu.stackpt /\ SpKept => SpKept'
      /\ cpu'.mar = r.mar /\ cpu'.mdr = r.mdr /\ cpu'.stackpt = r.stackpt
      /\ cpu'.ir = cpu.ir /\ cpu'.pc = cpu.pc /\ Acc' = Acc /\ before' = before
      /\ ISA!OffsetAddress' = ISA!OffsetAddress /\ memory' = memory
  BY <1>1, <1>2, Continues DEF Midway
<1>4. Executes({STI}) /\ SpKept /\ AccKept /\ cpu.mar = cpu.pc
  BY <1>3 DEF Midway, StoreInv, Kept
<1>5. cpu'.mar = ISA!OffsetAddress'
  <2>1. {STI} \subseteq HasOperand
    BY DEF HasOperand
  <2>2. (cpu.pc + cpu.ia) % 65536 = ISA!OffsetAddress
    BY <1>4, <2>1, OffsetReached DEF Midway
  <2> QED
    BY <1>2, <1>3, <1>4, <2>2
<1>8. StoreInv'
  BY <1>2, <1>3, <1>4, <1>5 DEF StoreInv, Kept
<1> QED
  BY <1>3, <1>8, Elsewhere DEF Midway

LEMMA StoreLatches ==
  ASSUME cpu \in Registers, cpu' \in Registers, Midway, Commit, x14
  PROVE  Midway'
<1> DEFINE r == [cpu EXCEPT !.mdr = Acc]
<1>1. Micro("x14", r, "x11")
  BY DEF x14
<1>2. /\ r.pc = cpu.pc /\ r.ir = cpu.ir /\ r.ia = cpu.ia /\ r.amux = cpu.amux
      /\ r.accumulator = cpu.accumulator /\ r.flags = cpu.flags
      /\ r.mar = cpu.mar /\ r.stackpt = cpu.stackpt /\ r.mdr = Acc
  BY DEF Registers
<1> HIDE DEF r
<1>3. /\ cpu.nextState = "x14" /\ cpu'.nextState = "x11" /\ Frame'
      /\ \A ops : Executes(ops) => Executes(ops)'
      /\ AccKept => AccKept'
      /\ r.mar = cpu.mar /\ MarKept => MarKept'
      /\ r.stackpt = cpu.stackpt /\ SpKept => SpKept'
      /\ cpu'.mar = r.mar /\ cpu'.mdr = r.mdr /\ cpu'.stackpt = r.stackpt
      /\ cpu'.ir = cpu.ir /\ cpu'.pc = cpu.pc /\ Acc' = Acc /\ before' = before
      /\ ISA!OffsetAddress' = ISA!OffsetAddress /\ memory' = memory
  BY <1>1, <1>2, Continues DEF Midway
<1>4. Executes({STI}) /\ SpKept /\ AccKept /\ cpu.mar = ISA!OffsetAddress
  BY <1>3 DEF Midway, StoreInv, Kept
<1>5. Opcode(cpu'.ir) = STI /\ ST # STI
  BY <1>3, <1>4 DEF Executes, ST, STI
<1>6. Executes({ST, STI})'
  BY <1>3, <1>4 DEF Executes
<1>7. cpu'.mdr = Acc'
  BY <1>2, <1>3
<1>8. StoreInv'
  BY <1>2, <1>3, <1>4, <1>5, <1>6, <1>7 DEF StoreInv, Kept
<1> QED
  BY <1>3, <1>8, Elsewhere DEF Midway

LEMMA PushAdvances ==
  ASSUME cpu \in Registers, cpu' \in Registers, Midway, Commit, x17
  PROVE  Midway'
<1> DEFINE r == [cpu EXCEPT !.stackpt = (@ + 1) % 256]
<1>1. Micro("x17", r, "x18")
  BY DEF x17
<1>2. /\ r.pc = cpu.pc /\ r.ir = cpu.ir /\ r.ia = cpu.ia /\ r.amux = cpu.amux
      /\ r.accumulator = cpu.accumulator /\ r.flags = cpu.flags
      /\ r.mar = cpu.mar /\ r.stackpt = (cpu.stackpt + 1) % 256
  BY DEF Registers
<1> HIDE DEF r
<1>3. /\ cpu.nextState = "x17" /\ cpu'.nextState = "x18" /\ Frame'
      /\ \A ops : Executes(ops) => Executes(ops)'
      /\ AccKept => AccKept'
      /\ r.mar = cpu.mar /\ MarKept => MarKept'
      /\ r.stackpt = cpu.stackpt /\ SpKept => SpKept'
      /\ cpu'.mar = r.mar /\ cpu'.mdr = r.mdr /\ cpu'.stackpt = r.stackpt
      /\ cpu'.ir = cpu.ir /\ cpu'.pc = cpu.pc /\ Acc' = Acc /\ before' = before
      /\ ISA!OffsetAddress' = ISA!OffsetAddress /\ memory' = memory
  BY <1>1, <1>2, Continues DEF Midway
<1>4. Executes({STK}) /\ ~f1 /\ MarKept /\ SpKept /\ AccKept
  BY <1>3 DEF Midway, StackInv, Kept
<1>5. cpu'.stackpt = (before'.sp + 1) % 256 /\ ~f1'
  BY <1>2, <1>3, <1>4 DEF SpKept, f1
<1>8. StackInv'
  BY <1>2, <1>3, <1>4, <1>5 DEF StackInv, Kept
<1> QED
  BY <1>3, <1>8, Elsewhere DEF Midway

LEMMA PushLatches ==
  ASSUME cpu \in Registers, cpu' \in Registers, Midway, Commit, x18
  PROVE  Midway'
<1> DEFINE r == [cpu EXCEPT !.mdr = Acc]
<1>1. Micro("x18", r, "x16")
  BY DEF x18
<1>2. /\ r.pc = cpu.pc /\ r.ir = cpu.ir /\ r.ia = cpu.ia /\ r.amux = cpu.amux
      /\ r.accumulator = cpu.accumulator /\ r.flags = cpu.flags
      /\ r.mar = cpu.mar /\ r.stackpt = cpu.stackpt /\ r.mdr = Acc
  BY DEF Registers
<1> HIDE DEF r
<1>3. /\ cpu.nextState = "x18" /\ cpu'.nextState = "x16" /\ Frame'
      /\ \A ops : Executes(ops) => Executes(ops)'
      /\ AccKept => AccKept'
      /\ r.mar = cpu.mar /\ MarKept => MarKept'
      /\ r.stackpt = cpu.stackpt /\ SpKept => SpKept'
      /\ cpu'.mar = r.mar /\ cpu'.mdr = r.mdr /\ cpu'.stackpt = r.stackpt
      /\ cpu'.ir = cpu.ir /\ cpu'.pc = cpu.pc /\ Acc' = Acc /\ before' = before
      /\ ISA!OffsetAddress' = ISA!OffsetAddress /\ memory' = memory
  BY <1>1, <1>2, Continues DEF Midway
<1>4. Executes({STK}) /\ ~f1 /\ MarKept /\ AccKept /\ cpu.stackpt = (before.sp + 1) % 256
  BY <1>3 DEF Midway, StackInv, Kept
<1>5. cpu'.stackpt = (before'.sp + 1) % 256 /\ ~f1' /\ cpu'.mdr = Acc'
  BY <1>2, <1>3, <1>4 DEF f1
<1>8. StackInv'
  BY <1>2, <1>3, <1>4, <1>5 DEF StackInv, Kept
<1> QED
  BY <1>3, <1>8, Elsewhere DEF Midway

LEMMA PopFetches ==
  ASSUME cpu \in Registers, cpu' \in Registers, Midway, Commit, x19
  PROVE  Midway'
<1> DEFINE r == [cpu EXCEPT !.mdr = Load(stackmem + cpu.stackpt)]
<1>1. Micro("x19", r, "x1A")
  BY DEF x19
<1>2. /\ r.pc = cpu.pc /\ r.ir = cpu.ir /\ r.ia = cpu.ia /\ r.amux = cpu.amux
      /\ r.accumulator = cpu.accumulator /\ r.flags = cpu.flags
      /\ r.mar = cpu.mar /\ r.stackpt = cpu.stackpt /\ r.mdr = Load(stackmem + cpu.stackpt)
  BY DEF Registers
<1> HIDE DEF r
<1>3. /\ cpu.nextState = "x19" /\ cpu'.nextState = "x1A" /\ Frame'
      /\ \A ops : Executes(ops) => Executes(ops)'
      /\ AccKept => AccKept'
      /\ r.mar = cpu.mar /\ MarKept => MarKept'
      /\ r.stackpt = cpu.stackpt /\ SpKept => SpKept'
      /\ cpu'.mar = r.mar /\ cpu'.mdr = r.mdr /\ cpu'.stackpt = r.stackpt
      /\ cpu'.ir = cpu.ir /\ cpu'.pc = cpu.pc /\ Acc' = Acc /\ before' = before
      /\ ISA!OffsetAddress' = ISA!OffsetAddress /\ memory' = memory
  BY <1>1, <1>2, Continues DEF Midway
<1>4. Executes({STK}) /\ f1 /\ MarKept /\ SpKept /\ AccKept
  BY <1>3 DEF Midway, StackInv, Kept
<1>5. cpu'.mdr = Load(stackmem + before.sp)' /\ f1'
  BY <1>2, <1>3, <1>4 DEF SpKept, Load, f1
<1>8. StackInv'
  BY <1>2, <1>3, <1>4, <1>5 DEF StackInv, Kept
<1> QED
  BY <1>3, <1>8, Elsewhere DEF Midway

LEMMA PopGoesBack ==
  ASSUME cpu \in Registers, cpu' \in Registers, Midway, Commit, x1A
  PROVE  Midway'
<1> DEFINE r == [cpu EXCEPT !.stackpt = (@ + 255) % 256]
<1>1. Micro("x1A", r, "x1B")
  BY DEF x1A
<1>2. /\ r.pc = cpu.pc /\ r.ir = cpu.ir /\ r.ia = cpu.ia /\ r.amux = cpu.amux
      /\ r.accumulator = cpu.accumulator /\ r.flags = cpu.flags
      /\ r.mar = cpu.mar /\ r.stackpt = (cpu.stackpt + 255) % 256 /\ r.mdr = cpu.mdr
  BY DEF Registers
<1> HIDE DEF r
<1>3. /\ cpu.nextState = "x1A" /\ cpu'.nextState = "x1B" /\ Frame'
      /\ \A ops : Executes(ops) => Executes(ops)'
      /\ AccKept => AccKept'
      /\ r.mar = cpu.mar /\ MarKept => MarKept'
      /\ r.stackpt = cpu.stackpt /\ SpKept => SpKept'
      /\ cpu'.mar = r.mar /\ cpu'.mdr = r.mdr /\ cpu'.stackpt = r.stackpt
      /\ cpu'.ir = cpu.ir /\ cpu'.pc = cpu.pc /\ Acc' = Acc /\ before' = before
      /\ ISA!OffsetAddress' = ISA!OffsetAddress /\ memory' = memory
  BY <1>1, <1>2, Continues DEF Midway
<1>4. Executes({STK}) /\ f1 /\ MarKept /\ SpKept /\ AccKept /\ cpu.mdr = Load(stackmem + before.sp)
  BY <1>3 DEF Midway, StackInv, Kept
<1>5. cpu'.mdr = Load(stackmem + before.sp)' /\ f1' /\ cpu'.stackpt = (before'.sp + 255) % 256
  BY <1>2, <1>3, <1>4 DEF SpKept, Load, f1
<1>8. StackInv'
  BY <1>2, <1>3, <1>4, <1>5 DEF StackInv, Kept
<1> QED
  BY <1>3, <1>8, Elsewhere DEF Midway

LEMMA LoadBegins ==
  ASSUME cpu \in Registers, cpu' \in Registers, Midway, Commit, x0A
  PROVE  Midway'
<1>1. ASSUME f1, Micro("x0A", cpu, "x25")
      PROVE  Midway'
  <2> DEFINE r == cpu
  <2>1. /\ r.pc = cpu.pc /\ r.ir = cpu.ir /\ r.ia = cpu.ia /\ r.amux = cpu.amux
        /\ r.accumulator = cpu.accumulator /\ r.flags = cpu.flags
        /\ r.mar = cpu.mar /\ r.stackpt = cpu.stackpt
    BY DEF Registers
  <2>2. Micro("x0A", r, "x25")
    BY <1>1
  <2> HIDE DEF r
  <2>3. /\ cpu.nextState = "x0A" /\ cpu'.nextState = "x25" /\ Frame'
        /\ \A ops : Executes(ops) => Executes(ops)'
        /\ AccKept => AccKept'
        /\ r.mar = cpu.mar /\ MarKept => MarKept'
        /\ r.stackpt = cpu.stackpt /\ SpKept => SpKept'
        /\ cpu'.mar = r.mar /\ cpu'.mdr = r.mdr
        /\ cpu'.ir = cpu.ir /\ Acc' = Acc /\ memory' = memory
    BY <2>1, <2>2, Continues DEF Midway
  <2>4. Executes({LD}) /\ MarKept /\ SpKept /\ AccKept
    BY <2>3 DEF Midway, LoadInv, Kept
  <2>5. f1'
    BY <1>1, <2>3 DEF f1
  <2>7. LoadInv'
    BY <2>1, <2>3, <2>4, <2>5 DEF LoadInv, Kept
  <2> QED
    BY <2>3, <2>7, Elsewhere DEF Midway
<1>2. ASSUME ~f1, Micro("x0A", [cpu EXCEPT !.mdr = Load(cpu.mar)], "x0B")
      PROVE  Midway'
  <2> DEFINE r == [cpu EXCEPT !.mdr = Load(cpu.mar)]
  <2>1. /\ r.pc = cpu.pc /\ r.ir = cpu.ir /\ r.ia = cpu.ia /\ r.amux = cpu.amux
        /\ r.accumulator = cpu.accumulator /\ r.flags = cpu.flags
        /\ r.mar = cpu.mar /\ r.stackpt = cpu.stackpt /\ r.mdr = Load(cpu.mar)
    BY DEF Registers
  <2>2. Micro("x0A", r, "x0B")
    BY <1>2
  <2> HIDE DEF r
  <2>3. /\ cpu.nextState = "x0A" /\ cpu'.nextState = "x0B" /\ Frame'
        /\ \A ops : Executes(ops) => Executes(ops)'
        /\ AccKept => AccKept'
        /\ r.mar = cpu.mar /\ MarKept => MarKept'
        /\ r.stackpt = cpu.stackpt /\ SpKept => SpKept'
        /\ cpu'.mar = r.mar /\ cpu'.mdr = r.mdr
        /\ cpu'.ir = cpu.ir /\ Acc' = Acc /\ memory' = memory
    BY <2>1, <2>2, Continues DEF Midway
  <2>4. Executes({LD}) /\ MarKept /\ SpKept /\ AccKept
    BY <2>3 DEF Midway, LoadInv, Kept
  <2>5. ~f1' /\ Opcode(cpu'.ir) = LD /\ LD # LDI /\ cpu'.mdr = Load(cpu.mar)'
    BY <1>2, <2>1, <2>3, <2>4 DEF f1, Executes, LD, LDI, Load
  <2>6. Executes({LD, LDI})'
    BY <2>3, <2>4 DEF Executes
  <2>7. LoadInv'
    BY <2>1, <2>3, <2>4, <2>5, <2>6 DEF LoadInv, Kept
  <2> QED
    BY <2>3, <2>7, Elsewhere DEF Midway
<1> QED
  BY <1>1, <1>2 DEF x0A

LEMMA StoreBegins ==
  ASSUME cpu \in Registers, cpu' \in Registers, Midway, Commit, x10
  PROVE  Midway'
<1>1. ASSUME f1, Micro("x10", cpu, "x0C")
      PROVE  Midway'
  <2> DEFINE r == cpu
  <2>1. /\ r.pc = cpu.pc /\ r.ir = cpu.ir /\ r.ia = cpu.ia /\ r.amux = cpu.amux
        /\ r.accumulator = cpu.accumulator /\ r.flags = cpu.flags
        /\ r.mar = cpu.mar /\ r.stackpt = cpu.stackpt
    BY DEF Registers
  <2>2. Micro("x10", r, "x0C")
    BY <1>1
  <2> HIDE DEF r
  <2>3. /\ cpu.nextState = "x10" /\ cpu'.nextState = "x0C" /\ Frame'
        /\ \A ops : Executes(ops) => Executes(ops)'
        /\ AccKept => AccKept'
        /\ r.mar = cpu.mar /\ MarKept => MarKept'
        /\ r.stackpt = cpu.stackpt /\ SpKept => SpKept'
        /\ cpu'.mar = r.mar /\ cpu'.mdr = r.mdr
        /\ cpu'.ir = cpu.ir /\ Acc' = Acc /\ memory' = memory
    BY <2>1, <2>2, Continues DEF Midway
  <2>4. Executes({ST}) /\ MarKept /\ SpKept /\ AccKept
    BY <2>3 DEF Midway, StoreInv, Kept
  <2>5. f1'
    BY <1>1, <2>3 DEF f1
  <2>7. StoreInv'
    BY <2>1, <2>3, <2>4, <2>5 DEF StoreInv, Kept
  <2> QED
    BY <2>3, <2>7, Elsewhere DEF Midway
<1>2. ASSUME ~f1, Micro("x10", [cpu EXCEPT !.mdr = Acc], "x11")
      PROVE  Midway'
  <2> DEFINE r == [cpu EXCEPT !.mdr = Acc]
  <2>1. /\ r.pc = cpu.pc /\ r.ir = cpu.ir /\ r.ia = cpu.ia /\ r.amux = cpu.amux
        /\ r.accumulator = cpu.accumulator /\ r.flags = cpu.flags
        /\ r.mar = cpu.mar /\ r.stackpt = cpu.stackpt /\ r.mdr = Acc
    BY DEF Registers
  <2>2. Micro("x10", r, "x11")
    BY <1>2
  <2> HIDE DEF r
  <2>3. /\ cpu.nextState = "x10" /\ cpu'.nextState = "x11" /\ Frame'
        /\ \A ops : Executes(ops) => Executes(ops)'
        /\ AccKept => AccKept'
        /\ r.mar = cpu.mar /\ MarKept => MarKept'
        /\ r.stackpt = cpu.stackpt /\ SpKept => SpKept'
        /\ cpu'.mar = r.mar /\ cpu'.mdr = r.mdr
        /\ cpu'.ir = cpu.ir /\ Acc' = Acc /\ memory' = memory
    BY <2>1, <2>2, Continues DEF Midway
  <2>4. Executes({ST}) /\ MarKept /\ SpKept /\ AccKept
    BY <2>3 DEF Midway, StoreInv, Kept
  <2>5. ~f1' /\ Opcode(cpu'.ir) = ST /\ ST # STI /\ cpu'.mdr = Acc'
    BY <1>2, <2>1, <2>3, <2>4 DEF f1, Executes, ST, STI
  <2>6. Executes({ST, STI})'
    BY <2>3, <2>4 DEF Executes
  <2>7. StoreInv'
    BY <2>1, <2>3, <2>4, <2>5, <2>6 DEF StoreInv, Kept
  <2> QED
    BY <2>3, <2>7, Elsewhere DEF Midway
<1> QED
  BY <1>1, <1>2 DEF x10

LEMMA StackBegins ==
  ASSUME cpu \in Registers, cpu' \in Registers, Midway, Commit, x15
  PROVE  Midway'
<1>1. ASSUME f1, Micro("x15", cpu, "x19")
      PROVE  Midway'
  <2> DEFINE r == cpu
  <2>1. /\ r.pc = cpu.pc /\ r.ir = cpu.ir /\ r.ia = cpu.ia /\ r.amux = cpu.amux
        /\ r.accumulator = cpu.accumulator /\ r.flags = cpu.flags
        /\ r.mar = cpu.mar /\ r.stackpt = cpu.stackpt
    BY DEF Registers
  <2>2. Micro("x15", r, "x19")
    BY <1>1
  <2> HIDE DEF r
  <2>3. /\ cpu.nextState = "x15" /\ cpu'.nextState = "x19" /\ Frame'
        /\ \A ops : Executes(ops) => Executes(ops)'
        /\ AccKept => AccKept'
        /\ r.mar = cpu.mar /\ MarKept => MarKept'
        /\ r.stackpt = cpu.stackpt /\ SpKept => SpKept'
        /\ cpu'.mar = r.mar /\ cpu'.mdr = r.mdr
        /\ cpu'.ir = cpu.ir /\ Acc' = Acc /\ memory' = memory
    BY <2>1, <2>2, Continues DEF Midway
  <2>4. Executes({STK}) /\ MarKept /\ SpKept /\ AccKept
    BY <2>3 DEF Midway, StackInv, Kept
  <2>5. f1'
    BY <1>1, <2>3 DEF f1
  <2>7. StackInv'
    BY <2>1, <2>3, <2>4, <2>5 DEF StackInv, Kept
  <2> QED
    BY <2>3, <2>7, Elsewhere DEF Midway
<1>2. ASSUME ~f1, Micro("x15", cpu, "x17")
      PROVE  Midway'
  <2> DEFINE r == cpu
  <2>1. /\ r.pc = cpu.pc /\ r.ir = cpu.ir /\ r.ia = cpu.ia /\ r.amux = cpu.amux
        /\ r.accumulator = cpu.accumulator /\ r.flags = cpu.flags
        /\ r.mar = cpu.mar /\ r.stackpt = cpu.stackpt
    BY DEF Registers
  <2>2. Micro("x15", r, "x17")
    BY <1>2
  <2> HIDE DEF r
  <2>3. /\ cpu.nextState = "x15" /\ cpu'.nextState = "x17" /\ Frame'
        /\ \A ops : Executes(ops) => Executes(ops)'
        /\ AccKept => AccKept'
        /\ r.mar = cpu.mar /\ MarKept => MarKept'
        /\ r.stackpt = cpu.stackpt /\ SpKept => SpKept'
        /\ cpu'.mar = r.mar /\ cpu'.mdr = r.mdr
        /\ cpu'.ir = cpu.ir /\ Acc' = Acc /\ memory' = memory
    BY <2>1, <2>2, Continues DEF Midway
  <2>4. Executes({STK}) /\ MarKept /\ SpKept /\ AccKept
    BY <2>3 DEF Midway, StackInv, Kept
  <2>5. ~f1'
    BY <1>2, <2>3 DEF f1
  <2>7. StackInv'
    BY <2>1, <2>3, <2>4, <2>5 DEF StackInv, Kept
  <2> QED
    BY <2>3, <2>7, Elsewhere DEF Midway
<1> QED
  BY <1>1, <1>2 DEF x15

-----------------------------------------------------------------------------
(* A shift by one place after another *)

\* The flags are those of the instruction set, nothing else being kept in $fr.
LEMMA FlagsAre ==
  ASSUME Frame, NEW v \in Byte, NEW overflow
  PROVE  /\ setflags(v, overflow) = ISA!Flag(v, overflow # 0)
         /\ setflags(v, overflow) \in 0 .. 15
<1> DEFINE fl == cpu.flags
<1>1. fl \in 0 .. 15
  BY DEF Frame
<1> HIDE DEF fl
<1>2. fl \div 16 = 0
  BY <1>1
<1>3. 16 * (fl \div 16) = 0
  BY <1>2
<1>4. cpu.flags \div 16 = fl \div 16
  BY DEF fl
<1> DEFINE kind == CASE v >= 128 -> NEG_FLAG [] v \in 1 .. 127 -> POS_FLAG [] OTHER -> ZER_FLAG
           o == IF overflow # 0 THEN OVF_FLAG ELSE 0
<1>5. setflags(v, overflow) = 16 * (fl \div 16) + kind + o
  BY <1>4 DEF setflags
<1>6. kind = IF v >= 128 THEN 4 ELSE IF v = 0 THEN 2 ELSE 1
  BY DEF Byte, NEG_FLAG, POS_FLAG, ZER_FLAG
<1>7. o = IF overflow # 0 THEN 8 ELSE 0
  BY DEF OVF_FLAG
<1>8. ISA!Flag(v, overflow # 0) = kind + o
  BY <1>6, <1>7 DEF ISA!Flag
<1>9. kind \in {1, 2, 4} /\ o \in {0, 8}
  BY <1>6, <1>7
<1> HIDE DEF kind, o
<1>10. 0 + kind + o = kind + o /\ kind + o \in 0 .. 15
  BY <1>9
<1> QED
  BY <1>3, <1>5, <1>8, <1>10

LEMMA Powers ==
  /\ 2^0 = 1 /\ 2^1 = 2 /\ 2^2 = 4 /\ 2^3 = 8 /\ 2^4 = 16
  /\ 2^5 = 32 /\ 2^6 = 64 /\ 2^7 = 128 /\ 2^8 = 256
  OBVIOUS

LEMMA OncesRight ==
  ASSUME NEW v \in 0 .. 255
  PROVE  /\ (v \div 1) \div 2 = v \div 2 /\ (v \div 2) \div 2 = v \div 4
         /\ (v \div 4) \div 2 = v \div 8 /\ (v \div 8) \div 2 = v \div 16
         /\ (v \div 16) \div 2 = v \div 32 /\ (v \div 32) \div 2 = v \div 64
         /\ (v \div 64) \div 2 = v \div 128 /\ (v \div 128) \div 2 = v \div 256
  OBVIOUS

\* One more place
LEMMA OneMore ==
  ASSUME NEW v \in Byte, NEW n \in 0 .. 7
  PROVE  /\ ShiftedBy(v, n, TRUE) \div 2 = ShiftedBy(v, n + 1, TRUE)
         /\ (2 * ShiftedBy(v, n, FALSE)) % 256 = ShiftedBy(v, n + 1, FALSE)
         /\ ((2 * ShiftedBy(v, n, FALSE)) \div 256) % 2 = (v \div 2^(7 - n)) % 2
<1>1. v \in 0 .. 255
  BY DEF Byte
<1>2. ShiftedBy(v, n, TRUE) = v \div 2^n /\ ShiftedBy(v, n + 1, TRUE) = v \div 2^(n + 1)
  BY DEF ShiftedBy
<1>3. ShiftedBy(v, n, FALSE) = (v * 2^n) % 256 /\ ShiftedBy(v, n + 1, FALSE) = (v * 2^(n + 1)) % 256
  BY DEF ShiftedBy
<1> DEFINE p == 2^n
           q == 2^(n + 1)
           z == 2^(7 - n)
<1>4. \/ p = 1 /\ q = 2 /\ z = 128
      \/ p = 2 /\ q = 4 /\ z = 64
      \/ p = 4 /\ q = 8 /\ z = 32
      \/ p = 8 /\ q = 16 /\ z = 16
      \/ p = 16 /\ q = 32 /\ z = 8
      \/ p = 32 /\ q = 64 /\ z = 4
      \/ p = 64 /\ q = 128 /\ z = 2
      \/ p = 128 /\ q = 256 /\ z = 1
  <2>0. ASSUME n = 0 PROVE p = 1 /\ q = 2 /\ z = 128
    BY <2>0, Powers
  <2>1. ASSUME n = 1 PROVE p = 2 /\ q = 4 /\ z = 64
    BY <2>1, Powers
  <2>2. ASSUME n = 2 PROVE p = 4 /\ q = 8 /\ z = 32
    BY <2>2, Powers
  <2>3. ASSUME n = 3 PROVE p = 8 /\ q = 16 /\ z = 16
    BY <2>3, Powers
  <2>4. ASSUME n = 4 PROVE p = 16 /\ q = 32 /\ z = 8
    BY <2>4, Powers
  <2>5. ASSUME n = 5 PROVE p = 32 /\ q = 64 /\ z = 4
    BY <2>5, Powers
  <2>6. ASSUME n = 6 PROVE p = 64 /\ q = 128 /\ z = 2
    BY <2>6, Powers
  <2>7. ASSUME n = 7 PROVE p = 128 /\ q = 256 /\ z = 1
    BY <2>7, Powers
  <2> HIDE DEF p, q, z
  <2> QED
    BY <2>0, <2>1, <2>2, <2>3, <2>4, <2>5, <2>6, <2>7
<1> HIDE DEF p, q, z
<1>5. (v \div p) \div 2 = v \div q
  BY <1>1, <1>4, OncesRight
<1>6. /\ (2 * ((v * p) % 256)) % 256 = (v * q) % 256
      /\ ((2 * ((v * p) % 256)) \div 256) % 2 = (v \div z) % 2
  <2>0. CASE p = 1 /\ q = 2 /\ z = 128
    <3>1. /\ (2 * ((v * 1) % 256)) % 256 = (v * 2) % 256
          /\ ((2 * ((v * 1) % 256)) \div 256) % 2 = (v \div 128) % 2
      BY <1>1
    <3> QED
      BY <2>0, <3>1
  <2>1. CASE p = 2 /\ q = 4 /\ z = 64
    <3>1. /\ (2 * ((v * 2) % 256)) % 256 = (v * 4) % 256
          /\ ((2 * ((v * 2) % 256)) \div 256) % 2 = (v \div 64) % 2
      BY <1>1
    <3> QED
      BY <2>1, <3>1
  <2>2. CASE p = 4 /\ q = 8 /\ z = 32
    <3>1. /\ (2 * ((v * 4) % 256)) % 256 = (v * 8) % 256
          /\ ((2 * ((v * 4) % 256)) \div 256) % 2 = (v \div 32) % 2
      BY <1>1
    <3> QED
      BY <2>2, <3>1
  <2>3. CASE p = 8 /\ q = 16 /\ z = 16
    <3>1. /\ (2 * ((v * 8) % 256)) % 256 = (v * 16) % 256
          /\ ((2 * ((v * 8) % 256)) \div 256) % 2 = (v \div 16) % 2
      BY <1>1
    <3> QED
      BY <2>3, <3>1
  <2>4. CASE p = 16 /\ q = 32 /\ z = 8
    <3>1. /\ (2 * ((v * 16) % 256)) % 256 = (v * 32) % 256
          /\ ((2 * ((v * 16) % 256)) \div 256) % 2 = (v \div 8) % 2
      BY <1>1
    <3> QED
      BY <2>4, <3>1
  <2>5. CASE p = 32 /\ q = 64 /\ z = 4
    <3>1. /\ (2 * ((v * 32) % 256)) % 256 = (v * 64) % 256
          /\ ((2 * ((v * 32) % 256)) \div 256) % 2 = (v \div 4) % 2
      BY <1>1
    <3> QED
      BY <2>5, <3>1
  <2>6. CASE p = 64 /\ q = 128 /\ z = 2
    <3>1. /\ (2 * ((v * 64) % 256)) % 256 = (v * 128) % 256
          /\ ((2 * ((v * 64) % 256)) \div 256) % 2 = (v \div 2) % 2
      BY <1>1
    <3> QED
      BY <2>6, <3>1
  <2>7. CASE p = 128 /\ q = 256 /\ z = 1
    <3>1. /\ (2 * ((v * 128) % 256)) % 256 = (v * 256) % 256
          /\ ((2 * ((v * 128) % 256)) \div 256) % 2 = (v \div 1) % 2
      BY <1>1
    <3> QED
      BY <2>7, <3>1
  <2> QED
    BY <1>4, <2>0, <2>1, <2>2, <2>3, <2>4, <2>5, <2>6, <2>7
<1> QED
  BY <1>2, <1>3, <1>5, <1>6 DEF p, q, z

\* The registers after a result: the selected accumulator and the flags change.
LEMMA ResultFields ==
  ASSUME cpu \in Registers, NEW v \in Byte, NEW overflow
  PROVE  LET r == WithResult(v, overflow)
         IN  /\ r.pc = cpu.pc /\ r.ir = cpu.ir /\ r.ia = cpu.ia /\ r.amux = cpu.amux
             /\ r.mar = cpu.mar /\ r.mdr = cpu.mdr /\ r.stackpt = cpu.stackpt /\ r.imm3 = cpu.imm3
             /\ r.accumulator = [cpu.accumulator EXCEPT ![cpu.amux] = v]
             /\ r.flags = setflags(v, overflow)
             /\ "nextState" \in DOMAIN r /\ "imm3" \in DOMAIN r
  BY DEF WithResult, Registers

LEMMA ShiftGoesOn ==
  ASSUME cpu \in Registers, cpu' \in Registers, Midway, Commit, x09, cpu.imm3 # 0
  PROVE  Midway'
<1> DEFINE r == [ShiftedOnce EXCEPT !.imm3 = @ - 1]
           old == before.a[before.ar]
           n == (cpu.ir % 8) - cpu.imm3
<1>1. Micro("x09", r, "x09")
  BY DEF x09
<1>2. cpu.nextState = "x09"
  BY <1>1 DEF Micro
<1>3. /\ Executes({SHF}) /\ MarKept /\ SpKept /\ cpu.imm3 \in 0 .. cpu.ir % 8
      /\ \A i \in 0 .. ACCUMULATOR_COUNT - 1 : i # before.ar => cpu.accumulator[i] = before.a[i]
      /\ Acc = ShiftedBy(old, n, f1)
  BY <1>2 DEF Midway, ShiftInv
<1>4. /\ Acc \in Byte /\ old \in Byte /\ cpu.amux = before.ar
      /\ before.ar \in 0 .. ACCUMULATOR_COUNT - 1
      /\ cpu.accumulator \in [0 .. ACCUMULATOR_COUNT - 1 -> Byte]
  BY OperandTypes, ViewTypes DEF Midway, Frame, Registers
<1>5. n \in 0 .. 7 /\ n + 1 = (cpu.ir % 8) - (cpu.imm3 - 1) /\ cpu.imm3 - 1 \in 0 .. cpu.ir % 8
  <2>1. cpu.ir % 8 \in 0 .. 7
    <3>1. \A w \in Word : w % 8 \in 0 .. 7
      BY DEF Word
    <3> QED
      BY <3>1, OperandTypes
  <2> QED
    BY <1>3, <2>1
<1> HIDE DEF old, n
<1>6. PICK v, overflow :
        /\ v \in Byte
        /\ ShiftedOnce = WithResult(v, overflow)
        /\ v = ShiftedBy(old, n + 1, f1)
  <2>1. CASE f1
    <3>1. f1 = TRUE
      BY <2>1 DEF f1
    <3>2. ShiftedOnce = WithResult(Acc \div 2, 0)
      BY <2>1 DEF ShiftedOnce
    <3>3. Acc \div 2 = ShiftedBy(old, n + 1, f1)
      BY <1>3, <1>4, <1>5, <3>1, OneMore
    <3>4. Acc \div 2 \in Byte
      BY <1>4, Half
    <3> QED
      BY <3>2, <3>3, <3>4
  <2>2. CASE ~f1
    <3>1. f1 = FALSE
      BY <2>2 DEF f1
    <3>2. ShiftedOnce = WithResult((2 * Acc) % 256, Carry(2 * Acc))
      BY <2>2 DEF ShiftedOnce
    <3>3. (2 * Acc) % 256 = ShiftedBy(old, n + 1, f1)
      BY <1>3, <1>4, <1>5, <3>1, OneMore
    <3>4. (2 * Acc) % 256 \in Byte
      BY <1>4, ByteSteps
    <3> QED
      BY <3>2, <3>3, <3>4
  <2> QED
    BY <2>1, <2>2
<1>7. /\ r.pc = cpu.pc /\ r.ir = cpu.ir /\ r.ia = cpu.ia /\ r.amux = cpu.amux
      /\ r.mar = cpu.mar /\ r.stackpt = cpu.stackpt /\ r.imm3 = cpu.imm3 - 1
      /\ r.accumulator = [cpu.accumulator EXCEPT ![cpu.amux] = v]
      /\ r.flags = setflags(v, overflow)
  <2> DEFINE w == WithResult(v, overflow)
  <2>1. r = [w EXCEPT !.imm3 = @ - 1]
    BY <1>6
  <2>2. /\ w.pc = cpu.pc /\ w.ir = cpu.ir /\ w.ia = cpu.ia /\ w.amux = cpu.amux
        /\ w.mar = cpu.mar /\ w.mdr = cpu.mdr /\ w.stackpt = cpu.stackpt /\ w.imm3 = cpu.imm3
        /\ w.accumulator = [cpu.accumulator EXCEPT ![cpu.amux] = v]
        /\ w.flags = setflags(v, overflow)
        /\ "imm3" \in DOMAIN w
    BY <1>6, ResultFields
  <2> HIDE DEF w, r
  <2> QED
    BY <2>1, <2>2
<1> HIDE DEF r
<1>8. /\ cpu'.nextState = "x09" /\ memory' = memory
      /\ cpu'.pc = cpu.pc /\ cpu'.mar = cpu.mar /\ cpu'.ir = cpu.ir
      /\ cpu'.ia = cpu.ia /\ cpu'.amux = cpu.amux /\ cpu'.stackpt = cpu.stackpt
      /\ cpu'.flags = setflags(v, overflow) /\ cpu'.imm3 = cpu.imm3 - 1
      /\ cpu'.accumulator = [cpu.accumulator EXCEPT ![cpu.amux] = v]
  BY <1>1, <1>7, MicroFields
<1>9. /\ committed' = committed /\ before' = before
      /\ ISA!Code' = ISA!Code /\ ISA!Operand' = ISA!Operand
  BY <1>8, Held
<1>10. Frame'
  <2>1. cpu'.flags \in 0 .. 15
    <3>1. Frame
      BY DEF Midway
    <3>2. setflags(v, overflow) \in 0 .. 15
      BY <1>6, <3>1, FlagsAre
    <3> QED
      BY <1>8, <3>2
  <2> QED
    BY <1>8, <1>9, <2>1 DEF Midway, Frame
<1>11. Executes({SHF})'
  BY <1>3, <1>8, <1>9 DEF Executes, Decoded, Passed
<1>12. MarKept' /\ SpKept'
  BY <1>3, <1>8, <1>9 DEF MarKept, SpKept
<1>13. Acc' = v /\ \A i \in 0 .. ACCUMULATOR_COUNT - 1 :
                     i # before.ar => cpu'.accumulator[i] = before.a[i]
  BY <1>3, <1>4, <1>8 DEF Acc
<1>14. f1' = f1
  BY <1>8 DEF f1
<1>15. ShiftInv'
  <2>1. Acc' = ShiftedBy(before'.a[before'.ar], (cpu'.ir % 8) - cpu'.imm3, f1')
    BY <1>5, <1>6, <1>8, <1>9, <1>13, <1>14 DEF old
  <2>2. cpu'.imm3 \in 0 .. cpu'.ir % 8
    BY <1>5, <1>8
  <2> QED
    BY <1>9, <1>11, <1>12, <1>13, <2>1, <2>2 DEF ShiftInv
<1> QED
  BY <1>8, <1>10, <1>15, Elsewhere DEF Midway

-----------------------------------------------------------------------------
(* The end of an instruction *)

\* The registers that a program sees
Seen(ip, mr, sp, fr, ar, a) ==
  [ip |-> ip, mr |-> mr, sp |-> sp, fr |-> fr, ar |-> ar, a |-> a]

LEMMA SeenOnce ==
  ASSUME NEW ip, NEW mr, NEW sp, NEW fr, NEW ar, NEW a, NEW x
  PROVE  /\ [Seen(ip, mr, sp, fr, ar, a) EXCEPT !.ip = x] = Seen(x, mr, sp, fr, ar, a)
         /\ [Seen(ip, mr, sp, fr, ar, a) EXCEPT !.mr = x] = Seen(ip, x, sp, fr, ar, a)
         /\ [Seen(ip, mr, sp, fr, ar, a) EXCEPT !.sp = x] = Seen(ip, mr, x, fr, ar, a)
         /\ [Seen(ip, mr, sp, fr, ar, a) EXCEPT !.fr = x] = Seen(ip, mr, sp, x, ar, a)
         /\ [Seen(ip, mr, sp, fr, ar, a) EXCEPT !.ar = x] = Seen(ip, mr, sp, fr, x, a)
  BY DEF Seen

\* What the instructions do to them: another accumulator is selected (x), the one in
\* use takes a value (v), from memory or from the stack, and the flags become f.
Selecting(s, x, f) == [s EXCEPT !.ar = x, !.fr = f]
Resulting(s, v, f) == [s EXCEPT !.a[s.ar] = v, !.fr = f]
Loading(s, x, v, f) == [s EXCEPT !.mr = x, !.a[s.ar] = v, !.fr = f]
Popping(s, x, v, f) == [s EXCEPT !.sp = x, !.a[s.ar] = v, !.fr = f]

LEMMA SeenSelected ==
  ASSUME NEW ip, NEW mr, NEW sp, NEW fr, NEW ar, NEW a, NEW x, NEW f
  PROVE  Selecting(Seen(ip, mr, sp, fr, ar, a), x, f) =
           Seen(ip, mr, sp, f, x, a)
<1> DEFINE s == Seen(ip, mr, sp, fr, ar, a)
<1>1. [s EXCEPT !.ar = x] = Seen(ip, mr, sp, fr, x, a)
  BY DEF Seen
<1>2. s.ar = ar
  BY DEF Seen
<1> HIDE DEF s
<1>3. Selecting(s, x, f) = [[s EXCEPT !.ar = x] EXCEPT !.fr = f]
  BY <1>2 DEF Selecting
<1>4. [Seen(ip, mr, sp, fr, x, a) EXCEPT !.fr = f] = Seen(ip, mr, sp, f, x, a)
  BY DEF Seen
<1>5. Selecting(s, x, f) = Seen(ip, mr, sp, f, x, a)
  BY <1>1, <1>3, <1>4, Zenon
<1> QED
  BY <1>5 DEF s

LEMMA SeenResult ==
  ASSUME NEW ip, NEW mr, NEW sp, NEW fr, NEW ar, NEW a, NEW v, NEW f
  PROVE  Resulting(Seen(ip, mr, sp, fr, ar, a), v, f) =
           Seen(ip, mr, sp, f, ar, [a EXCEPT ![ar] = v])
<1> DEFINE s == Seen(ip, mr, sp, fr, ar, a)
           b == [a EXCEPT ![ar] = v]
<1>1. [s EXCEPT !.a[ar] = v] = Seen(ip, mr, sp, fr, ar, b)
  BY DEF Seen
<1>2. s.ar = ar
  BY DEF Seen
<1> HIDE DEF s, b
<1>3. Resulting(s, v, f) = [[s EXCEPT !.a[ar] = v] EXCEPT !.fr = f]
  BY <1>2 DEF Resulting
<1>4. [Seen(ip, mr, sp, fr, ar, b) EXCEPT !.fr = f] = Seen(ip, mr, sp, f, ar, b)
  BY DEF Seen
<1>5. Resulting(s, v, f) = Seen(ip, mr, sp, f, ar, b)
  BY <1>1, <1>3, <1>4, Zenon
<1> QED
  BY <1>5 DEF s, b

LEMMA SeenLoaded ==
  ASSUME NEW ip, NEW mr, NEW sp, NEW fr, NEW ar, NEW a, NEW x, NEW v, NEW f
  PROVE  Loading(Seen(ip, mr, sp, fr, ar, a), x, v, f) =
           Seen(ip, x, sp, f, ar, [a EXCEPT ![ar] = v])
<1> DEFINE s == Seen(ip, mr, sp, fr, ar, a)
           b == [a EXCEPT ![ar] = v]
<1>1. [s EXCEPT !.mr = x] = Seen(ip, x, sp, fr, ar, a)
  BY DEF Seen
<1>2. [Seen(ip, x, sp, fr, ar, a) EXCEPT !.a[ar] = v] = Seen(ip, x, sp, fr, ar, b)
  BY DEF Seen
<1>3. s.ar = ar
  BY DEF Seen
<1> HIDE DEF s, b
<1>4. Loading(s, x, v, f) = [[[s EXCEPT !.mr = x] EXCEPT !.a[ar] = v] EXCEPT !.fr = f]
  BY <1>3 DEF Loading
<1>5. [Seen(ip, x, sp, fr, ar, b) EXCEPT !.fr = f] = Seen(ip, x, sp, f, ar, b)
  BY DEF Seen
<1>6. Loading(s, x, v, f) = Seen(ip, x, sp, f, ar, b)
  BY <1>1, <1>2, <1>4, <1>5, Zenon
<1> QED
  BY <1>6 DEF s, b

LEMMA SeenPopped ==
  ASSUME NEW ip, NEW mr, NEW sp, NEW fr, NEW ar, NEW a, NEW x, NEW v, NEW f
  PROVE  Popping(Seen(ip, mr, sp, fr, ar, a), x, v, f) =
           Seen(ip, mr, x, f, ar, [a EXCEPT ![ar] = v])
<1> DEFINE s == Seen(ip, mr, sp, fr, ar, a)
           b == [a EXCEPT ![ar] = v]
<1>1. [s EXCEPT !.sp = x] = Seen(ip, mr, x, fr, ar, a)
  BY DEF Seen
<1>2. [Seen(ip, mr, x, fr, ar, a) EXCEPT !.a[ar] = v] = Seen(ip, mr, x, fr, ar, b)
  BY DEF Seen
<1>3. s.ar = ar
  BY DEF Seen
<1> HIDE DEF s, b
<1>4. Popping(s, x, v, f) = [[[s EXCEPT !.sp = x] EXCEPT !.a[ar] = v] EXCEPT !.fr = f]
  BY <1>3 DEF Popping
<1>5. [Seen(ip, mr, x, fr, ar, b) EXCEPT !.fr = f] = Seen(ip, mr, x, f, ar, b)
  BY DEF Seen
<1>6. Popping(s, x, v, f) = Seen(ip, mr, x, f, ar, b)
  BY <1>1, <1>2, <1>4, <1>5, Zenon
<1> QED
  BY <1>6 DEF s, b

\* What is seen before the instruction, and when its length has been added to $ip
LEMMA SeenBefore ==
  ASSUME Frame
  PROVE  /\ before = Seen(before.ip, before.mr, before.sp, before.fr, before.ar, before.a)
         /\ \A n : ISA!After(n) =
              Seen((before.ip + n) % 65536, before.mr, before.sp, before.fr, before.ar, before.a)
<1>1. before \in View
  BY DEF Frame
<1> DEFINE b == before
<1>2. b \in View
  BY <1>1
<1>3. \A n : ISA!After(n) = [b EXCEPT !.ip = (@ + n) % 65536]
  BY DEF ISA!After, before
<1> HIDE DEF b
<1>4. b = Seen(b.ip, b.mr, b.sp, b.fr, b.ar, b.a)
  BY <1>2 DEF View, Seen
<1>5. \A n : [b EXCEPT !.ip = (@ + n) % 65536] =
               Seen((b.ip + n) % 65536, b.mr, b.sp, b.fr, b.ar, b.a)
  <2> SUFFICES ASSUME NEW n
               PROVE  [b EXCEPT !.ip = (@ + n) % 65536] =
                        Seen((b.ip + n) % 65536, b.mr, b.sp, b.fr, b.ar, b.a)
    OBVIOUS
  <2> DEFINE x == (b.ip + n) % 65536
  <2>1. [b EXCEPT !.ip = (@ + n) % 65536] = [b EXCEPT !.ip = x]
    OBVIOUS
  <2> HIDE DEF x
  <2>2. [Seen(b.ip, b.mr, b.sp, b.fr, b.ar, b.a) EXCEPT !.ip = x] =
          Seen(x, b.mr, b.sp, b.fr, b.ar, b.a)
    BY SeenOnce
  <2> QED
    BY <1>4, <2>1, <2>2 DEF x
<1> QED
  BY <1>3, <1>4, <1>5 DEF b

\* When the instruction is over the program sees the registers, and the next begins.
LEMMA Ends ==
  ASSUME cpu' \in Registers, Commit, cpu'.nextState = "x00", cpu'.flags \in 0 .. 15
  PROVE  /\ committed'.reg = Seen(cpu'.pc, cpu'.mar, cpu'.stackpt, cpu'.flags, cpu'.amux,
                                  cpu'.accumulator)
         /\ committed'.mem = memory'
         /\ Midway'
<1>1. committed' = Visible'
  BY DEF Commit
<1>2. Visible' = [reg |-> Seen(cpu'.pc, cpu'.mar, cpu'.stackpt, cpu'.flags, cpu'.amux,
                               cpu'.accumulator), mem |-> memory']
  BY DEF Visible, Seen
<1> DEFINE reg == Seen(cpu'.pc, cpu'.mar, cpu'.stackpt, cpu'.flags, cpu'.amux, cpu'.accumulator)
<1>3. before' = reg
  BY <1>1, <1>2 DEF before
<1>4. /\ reg.ip = cpu'.pc /\ reg.mr = cpu'.mar /\ reg.sp = cpu'.stackpt /\ reg.fr = cpu'.flags
      /\ reg.ar = cpu'.amux /\ reg.a = cpu'.accumulator
  BY DEF Seen
<1>5. /\ cpu'.pc \in Word /\ cpu'.mar \in Word /\ cpu'.stackpt \in Byte /\ cpu'.amux \in 0 .. 15
      /\ cpu'.accumulator \in [0 .. ACCUMULATOR_COUNT - 1 -> Byte]
  BY DEF Registers
<1>6. reg \in View
  BY <1>5 DEF Seen, View
<1> HIDE DEF reg
<1>7. Frame'
  BY <1>1, <1>2, <1>3, <1>4, <1>6 DEF Frame, reg
<1>8. Passed(0)' /\ Kept'
  <2>1. cpu'.pc = (cpu'.pc + 0) % 65536
    BY <1>5, NothingPassed
  <2> QED
    BY <1>3, <1>4, <2>1 DEF Passed, Kept, MarKept, SpKept, AccKept
<1>9. FetchInv'
  BY <1>8 DEF FetchInv
<1>10. Midway'
  BY <1>7, <1>9, Elsewhere DEF Midway
<1> QED
  BY <1>1, <1>2, <1>10 DEF reg

\* AprISA has the words of its own instance of Words.
LEMMA SameWords ==
  /\ \A x : ISA!Bits(x) = Bits(x)
  /\ \A x, y : ISA!BitAnd(x, y) = BitAnd(x, y)
  /\ \A x, y : ISA!BitOr(x, y) = BitOr(x, y)
  /\ \A x, y : ISA!BitXor(x, y) = BitXor(x, y)
  /\ \A x, y : ISA!MkWord(x, y) = MkWord(x, y)
  /\ \A x : ISA!High(x) = High(x) /\ ISA!Low(x) = Low(x)
<1>1. \A x : ISA!Bits(x) = Bits(x)
  BY DEF ISA!Bits, ISA!Weights, Bits, Weights
<1>2. \A S : ISA!FromBits(S) = FromBits(S)
  BY DEF ISA!FromBits, FromBits
<1>3. \A x, y : ISA!BitAnd(x, y) = BitAnd(x, y)
  BY <1>1, <1>2 DEF ISA!BitAnd, BitAnd
<1>4. \A x, y : ISA!BitOr(x, y) = BitOr(x, y)
  BY <1>1, <1>2 DEF ISA!BitOr, BitOr
<1>5. \A x, y : ISA!BitXor(x, y) = BitXor(x, y)
  BY <1>1, <1>2 DEF ISA!BitXor, BitXor
<1>6. /\ \A x, y : ISA!MkWord(x, y) = MkWord(x, y)
      /\ \A x : ISA!High(x) = High(x) /\ ISA!Low(x) = Low(x)
  BY DEF ISA!MkWord, MkWord, ISA!High, High, ISA!Low, Low
<1> QED
  BY <1>1, <1>3, <1>4, <1>5, <1>6

\* The fields of the instruction register are those of the instruction.
LEMMA Reading ==
  ASSUME cpu \in Registers, Decoded
  PROVE  /\ ISA!Op = Opcode(cpu.ir) /\ ISA!Imm = Imm4
         /\ ISA!Code % 8 = cpu.ir % 8 /\ ISA!Code % 4 = Imm2
         /\ ISA!Has(8) <=> f1
         /\ ISA!Has(4) <=> f2
         /\ ISA!Has(2) <=> f3
         /\ ISA!Has(1) <=> f4
<1>1. ISA!Code = Low(cpu.ir)
  BY DEF Decoded
<1>2. /\ ISA!Has(8) <=> f1
      /\ ISA!Has(4) <=> f2
      /\ ISA!Has(2) <=> f3
      /\ ISA!Has(1) <=> f4
  BY <1>1, SameWords DEF ISA!Has, f1, f2, f3, f4
<1>3. ISA!Op = Opcode(cpu.ir)
  BY <1>1 DEF ISA!Op, Opcode
<1>4. ASSUME NEW w \in Word
      PROVE  (w % 256) % 16 = w % 16 /\ (w % 256) % 8 = w % 8 /\ (w % 256) % 4 = w % 4
  BY DEF Word
<1>5. cpu.ir \in Word
  BY OperandTypes
<1>6. ISA!Imm = Imm4 /\ ISA!Code % 8 = cpu.ir % 8 /\ ISA!Code % 4 = Imm2
  BY <1>1, <1>4, <1>5 DEF ISA!Imm, Imm4, Imm2, Low
<1> QED
  BY <1>2, <1>3, <1>6
\* A result in the selected accumulator ends an instruction.
LEMMA ResultEnds ==
  ASSUME cpu \in Registers, cpu' \in Registers, Frame, Commit, NEW s, NEW v \in Byte,
         NEW overflow, NEW o, overflow # 0 <=> o, Micro(s, WithResult(v, overflow), "x00")
  PROVE  /\ committed'.reg = Seen(cpu.pc, cpu.mar, cpu.stackpt, ISA!Flag(v, o), before.ar,
                                  [cpu.accumulator EXCEPT ![before.ar] = v])
         /\ committed'.mem = committed.mem
         /\ Midway'
<1> DEFINE r == WithResult(v, overflow)
<1>1. /\ r.pc = cpu.pc /\ r.mar = cpu.mar /\ r.stackpt = cpu.stackpt /\ r.amux = cpu.amux
      /\ r.accumulator = [cpu.accumulator EXCEPT ![cpu.amux] = v]
      /\ r.flags = setflags(v, overflow)
  BY ResultFields
<1> HIDE DEF r
<1>2. /\ cpu'.nextState = "x00" /\ memory' = memory
      /\ cpu'.pc = r.pc /\ cpu'.mar = r.mar /\ cpu'.amux = r.amux /\ cpu'.stackpt = r.stackpt
      /\ cpu'.flags = r.flags /\ cpu'.accumulator = r.accumulator
  BY MicroFields DEF r
<1>3. setflags(v, overflow) = ISA!Flag(v, overflow # 0) /\ setflags(v, overflow) \in 0 .. 15
  BY FlagsAre
<1>4. ISA!Flag(v, overflow # 0) = ISA!Flag(v, o)
  BY DEF ISA!Flag
<1>5. cpu.amux = before.ar /\ committed.mem = memory
  BY DEF Frame
<1>6. /\ committed'.reg = Seen(cpu'.pc, cpu'.mar, cpu'.stackpt, cpu'.flags, cpu'.amux,
                               cpu'.accumulator)
      /\ committed'.mem = memory'
      /\ Midway'
  BY <1>1, <1>2, <1>3, Ends
<1> QED
  BY <1>1, <1>2, <1>3, <1>4, <1>5, <1>6

\* ... and is the result of the instruction when nothing else has changed.
LEMMA ResultIs ==
  ASSUME cpu \in Registers, cpu' \in Registers, Frame, Commit, NEW s, NEW n, NEW v \in Byte,
         NEW overflow, NEW o, overflow # 0 <=> o, Micro(s, WithResult(v, overflow), "x00"),
         Passed(n), Kept
  PROVE  ISA!Result(n, v, o) /\ Midway'
<1> DEFINE x == (before.ip + n) % 65536
           f == ISA!Flag(v, o)
           t == ISA!After(n)
<1>1. /\ committed'.reg = Seen(cpu.pc, cpu.mar, cpu.stackpt, f, before.ar,
                               [cpu.accumulator EXCEPT ![before.ar] = v])
      /\ committed'.mem = committed.mem
      /\ Midway'
  BY ResultEnds
<1>2. /\ cpu.pc = x /\ cpu.mar = before.mr /\ cpu.stackpt = before.sp
      /\ cpu.accumulator = before.a
  BY DEF Passed, Kept, MarKept, SpKept, AccKept
<1>3. t = Seen(x, before.mr, before.sp, before.fr, before.ar, before.a)
  BY SeenBefore
<1>4. t.ar = before.ar
  BY <1>3 DEF Seen
<1> HIDE DEF x, f, t
<1>5. committed'.reg = Resulting(t, v, f)
  BY <1>1, <1>2, <1>3, SeenResult
<1>6. committed'.reg = [t EXCEPT !.a[before.ar] = v, !.fr = f]
  BY <1>4, <1>5 DEF Resulting
<1>7. ISA!Result(n, v, o)
  BY <1>1, <1>6, Zenon DEF ISA!Result, before, f, t
<1> QED
  BY <1>1, <1>7

\* What Combine does, with the operations of cpu.c.
LEMMA Combined ==
  ASSUME NEW x
  PROVE  /\ ISA!Combine(0, x) = (ISA!ar + x) % 256
         /\ ISA!Combine(1, x) = BitAnd(ISA!ar, x)
         /\ ISA!Combine(2, x) = BitOr(ISA!ar, x)
         /\ ISA!Combine(3, x) = BitXor(ISA!ar, x)
  BY SameWords DEF ISA!Combine

LEMMA AccIs == ASSUME Frame, AccKept PROVE Acc = ISA!ar
  BY DEF Frame, AccKept, Acc, ISA!ar, before

LEMMA Carried ==
  ASSUME NEW x \in Byte, NEW y \in Byte PROVE Carry(x + y) # 0 <=> x + y > 255
<1>1. x + y \in 0 .. 510
  BY DEF Byte
<1> DEFINE z == x + y
<1>2. z \in 0 .. 510
  BY <1>1
<1> HIDE DEF z
<1>3. Carry(z) # 0 <=> z > 255
  BY <1>2 DEF Carry
<1> QED
  BY <1>3 DEF z

\* Operations without a second byte, before their only or first function
LEMMA OneByte ==
  ASSUME cpu \in Registers, Frame, NEW op, op \notin HasOperand, Executes({op})
  PROVE  ISA!Op = op /\ ISA!Imm = Imm4 /\ Passed(1)
<1>1. Decoded /\ Opcode(cpu.ir) = op
  BY DEF Executes
<1> QED
  BY <1>1, Reading DEF Decoded

LEMMA AluEnds ==
  ASSUME cpu \in Registers, cpu' \in Registers, Midway, Commit, x04 \/ x05 \/ x06 \/ x07 \/ x08
  PROVE  (ISA!Arithmetic \/ ISA!Not) /\ Midway'
<1>1. Frame /\ Acc \in Byte /\ Imm4 \in Byte
  BY OperandTypes, NibbleByte DEF Midway
<1>2. {ADD, AND, OR, XOR, NOT} \cap HasOperand = {}
  BY DEF ADD, AND, OR, XOR, NOT, HasOperand, LDI, STI, LA, BR
<1>3. ASSUME NEW s, NEW op \in {AND, OR, XOR}, Executes({op}), Kept,
             NEW v \in Byte, Micro(s, WithResult(v, 0), "x00"), v = ISA!Combine(op, Imm4)
      PROVE  ISA!Arithmetic /\ Midway'
  <2>1. ISA!Op = op /\ ISA!Imm = Imm4 /\ Passed(1)
    BY <1>1, <1>2, <1>3, OneByte
  <2>2. op \in 0 .. 3 /\ op # 0
    BY DEF AND, OR, XOR
  <2>3. 0 # 0 <=> FALSE
    OBVIOUS
  <2>4. ISA!Result(1, v, FALSE) /\ Midway'
    BY <1>1, <1>3, <2>1, <2>3, ResultIs
  <2>5. (ISA!Op = 0 /\ ISA!ar + ISA!Imm > 255) = FALSE
    BY <2>1, <2>2
  <2> QED
    BY <1>3, <2>1, <2>2, <2>4, <2>5 DEF ISA!Arithmetic
<1>4. CASE x04
  <2>1. Micro("x04", WithResult((Acc + Imm4) % 256, Carry(Acc + Imm4)), "x00")
    BY <1>4 DEF x04
  <2>2. Executes({ADD}) /\ Kept /\ AccKept
    BY <2>1 DEF Micro, Midway, SingleInv, Kept
  <2>3. ISA!Op = 0 /\ ISA!Imm = Imm4 /\ Passed(1)
    BY <1>1, <1>2, <2>2, OneByte DEF ADD
  <2>4. Acc = ISA!ar
    BY <1>1, <2>2, AccIs
  <2>5. (Acc + Imm4) % 256 \in Byte /\ (Carry(Acc + Imm4) # 0 <=> Acc + Imm4 > 255)
    BY <1>1, ByteSum, Carried
  <2>6. ISA!Result(1, (Acc + Imm4) % 256, Acc + Imm4 > 255) /\ Midway'
    BY <1>1, <2>1, <2>2, <2>3, <2>5, ResultIs
  <2>7. (ISA!Op = 0 /\ ISA!ar + ISA!Imm > 255) = (Acc + Imm4 > 255)
    BY <2>3, <2>4
  <2>8. ISA!Combine(ISA!Op, ISA!Imm) = (Acc + Imm4) % 256
    BY <2>3, <2>4, Combined
  <2> QED
    BY <2>3, <2>6, <2>7, <2>8 DEF ISA!Arithmetic
<1>5. CASE x05
  <2>1. Micro("x05", WithResult(255 - Acc, 0), "x00") /\ 255 - Acc \in Byte
    BY <1>1, <1>5, ByteOffsets DEF x05, BitNot
  <2>2. Executes({NOT}) /\ Kept /\ AccKept
    BY <2>1 DEF Micro, Midway, SingleInv, Kept
  <2>3. ISA!Op = 4 /\ Passed(1)
    BY <1>1, <1>2, <2>2, OneByte DEF NOT
  <2>4. Acc = ISA!ar
    BY <1>1, <2>2, AccIs
  <2>5. 0 # 0 <=> FALSE
    OBVIOUS
  <2>6. ISA!Result(1, 255 - Acc, FALSE) /\ Midway'
    BY <1>1, <2>1, <2>2, <2>3, <2>5, ResultIs
  <2> QED
    BY <2>3, <2>4, <2>6 DEF ISA!Not
<1>6. CASE x06
  <2>1. Micro("x06", WithResult(BitAnd(Acc, Imm4), 0), "x00") /\ BitAnd(Acc, Imm4) \in Byte
    BY <1>6, BitOpsByte DEF x06
  <2>2. Executes({AND}) /\ Kept /\ AccKept
    BY <2>1 DEF Micro, Midway, SingleInv, Kept
  <2>3. BitAnd(Acc, Imm4) = ISA!Combine(AND, Imm4)
    BY <1>1, <2>2, AccIs, Combined DEF AND
  <2> QED
    BY <1>3, <2>1, <2>2, <2>3
<1>7. CASE x07
  <2>1. Micro("x07", WithResult(BitOr(Acc, Imm4), 0), "x00") /\ BitOr(Acc, Imm4) \in Byte
    BY <1>7, BitOpsByte DEF x07
  <2>2. Executes({OR}) /\ Kept /\ AccKept
    BY <2>1 DEF Micro, Midway, SingleInv, Kept
  <2>3. BitOr(Acc, Imm4) = ISA!Combine(OR, Imm4)
    BY <1>1, <2>2, AccIs, Combined DEF OR
  <2> QED
    BY <1>3, <2>1, <2>2, <2>3
<1>8. CASE x08
  <2>1. Micro("x08", WithResult(BitXor(Acc, Imm4), 0), "x00") /\ BitXor(Acc, Imm4) \in Byte
    BY <1>8, BitOpsByte DEF x08
  <2>2. Executes({XOR}) /\ Kept /\ AccKept
    BY <2>1 DEF Micro, Midway, SingleInv, Kept
  <2>3. BitXor(Acc, Imm4) = ISA!Combine(XOR, Imm4)
    BY <1>1, <2>2, AccIs, Combined DEF XOR
  <2> QED
    BY <1>3, <2>1, <2>2, <2>3
<1> QED
  BY <1>4, <1>5, <1>6, <1>7, <1>8

LEMMA MicroEnds ==
  ASSUME cpu' \in Registers, Frame, Commit, NEW s, NEW r, Micro(s, r, "x00"), r.flags \in 0 .. 15
  PROVE  /\ committed'.reg = Seen(r.pc, r.mar, r.stackpt, r.flags, r.amux, r.accumulator)
         /\ committed'.mem = committed.mem
         /\ Midway'
<1>1. /\ cpu'.nextState = "x00" /\ memory' = memory
      /\ cpu'.pc = r.pc /\ cpu'.mar = r.mar /\ cpu'.amux = r.amux /\ cpu'.stackpt = r.stackpt
      /\ cpu'.flags = r.flags /\ cpu'.accumulator = r.accumulator
  BY MicroFields
<1>2. committed.mem = memory
  BY DEF Frame
<1>3. /\ committed'.reg = Seen(cpu'.pc, cpu'.mar, cpu'.stackpt, cpu'.flags, cpu'.amux,
                               cpu'.accumulator)
      /\ committed'.mem = memory'
      /\ Midway'
  BY <1>1, Ends
<1> QED
  BY <1>1, <1>2, <1>3

\* A value put in the accumulator in use, with the flags left as they are
Holding(s, v) == [s EXCEPT !.a[s.ar] = v]

LEMMA SeenHolding ==
  ASSUME NEW ip, NEW mr, NEW sp, NEW fr, NEW ar, NEW a, NEW v
  PROVE  Holding(Seen(ip, mr, sp, fr, ar, a), v) = Seen(ip, mr, sp, fr, ar, [a EXCEPT ![ar] = v])
<1> DEFINE s == Seen(ip, mr, sp, fr, ar, a)
<1>1. [s EXCEPT !.a[ar] = v] = Seen(ip, mr, sp, fr, ar, [a EXCEPT ![ar] = v])
  BY DEF Seen
<1>2. s.ar = ar
  BY DEF Seen
<1> HIDE DEF s
<1>3. Holding(s, v) = [s EXCEPT !.a[ar] = v]
  BY <1>2 DEF Holding
<1> QED
  BY <1>1, <1>3, Zenon DEF s

\* A byte in the selected accumulator and no more, and its length in $ip
LEMMA AccEnds ==
  ASSUME cpu \in Registers, cpu' \in Registers, Frame, Commit, NEW s, NEW n, NEW v \in Byte,
         Micro(s, WithAcc(v), "x00"), Passed(n), Kept
  PROVE  /\ committed'.reg = [ISA!After(n) EXCEPT !.a[before.ar] = v]
         /\ committed'.mem = committed.mem
         /\ Midway'
<1> DEFINE r == WithAcc(v)
           t == ISA!After(n)
           x == (before.ip + n) % 65536
<1>1. /\ r.pc = cpu.pc /\ r.mar = cpu.mar /\ r.stackpt = cpu.stackpt /\ r.amux = cpu.amux
      /\ r.accumulator = [cpu.accumulator EXCEPT ![cpu.amux] = v] /\ r.flags = cpu.flags
  BY DEF WithAcc, Registers
<1> HIDE DEF r
<1>2. /\ cpu.pc = x /\ cpu.mar = before.mr /\ cpu.stackpt = before.sp
      /\ cpu.accumulator = before.a /\ cpu.flags = before.fr
  BY DEF Passed, Kept, MarKept, SpKept, AccKept
<1>3. cpu.amux = before.ar /\ cpu.flags \in 0 .. 15
  BY DEF Frame
<1>4. /\ committed'.reg = Seen(r.pc, r.mar, r.stackpt, r.flags, r.amux, r.accumulator)
      /\ committed'.mem = committed.mem
      /\ Midway'
  BY <1>1, <1>3, MicroEnds DEF r
<1>5. t = Seen(x, before.mr, before.sp, before.fr, before.ar, before.a)
  BY SeenBefore
<1>6. t.ar = before.ar
  BY <1>5 DEF Seen
<1> HIDE DEF x, t
<1>7. committed'.reg = Holding(t, v)
  BY <1>1, <1>2, <1>3, <1>4, <1>5, SeenHolding
<1>8. committed'.reg = [t EXCEPT !.a[before.ar] = v]
  BY <1>6, <1>7 DEF Holding
<1> QED
  BY <1>4, <1>8 DEF t

LEMMA LoadEnds ==
  ASSUME cpu \in Registers, cpu' \in Registers, Midway, Commit, x0B
  PROVE  (ISA!LoadAcc \/ ISA!LoadOffset) /\ Midway'
<1>1. Micro("x0B", WithResult(cpu.mdr, 0), "x00")
  BY DEF x0B
<1>2. /\ Executes({LD, LDI}) /\ SpKept /\ AccKept /\ cpu.mdr = Load(cpu.mar)
      /\ Opcode(cpu.ir) = LD => ~f1 /\ MarKept
      /\ Opcode(cpu.ir) = LDI => cpu.mar = ISA!OffsetAddress
  BY <1>1 DEF Micro, Midway, LoadInv
<1>3. Frame /\ cpu.mdr \in Byte
  BY OperandTypes DEF Midway
<1>4. 0 # 0 <=> FALSE
  OBVIOUS
<1>5. Decoded /\ Opcode(cpu.ir) \in {LD, LDI}
  BY <1>2 DEF Executes
<1>6. CASE Opcode(cpu.ir) = LD
  <2>1. Kept /\ ~f1
    BY <1>2, <1>6 DEF Kept
  <2>2. ISA!Op = 6 /\ ~ISA!Has(8) /\ Passed(1)
    BY <1>5, <1>6, <2>1, Reading DEF Decoded, LD, HasOperand, LDI, STI, LA, BR
  <2>3. cpu.mdr = ISA!Cell(before.mr)
    BY <1>2, <1>3, <1>6, CellIsLoad DEF MarKept
  <2>4. ISA!Result(1, cpu.mdr, FALSE) /\ Midway'
    BY <1>1, <1>3, <1>4, <2>1, <2>2, ResultIs
  <2>5. ISA!LoadAcc
    BY <2>2, <2>3, <2>4 DEF ISA!LoadAcc, before
  <2> QED
    BY <2>4, <2>5
<1>7. CASE Opcode(cpu.ir) = LDI
  <2> DEFINE x == (before.ip + 2) % 65536
             o == ISA!OffsetAddress
             v == cpu.mdr
             f == ISA!Flag(v, FALSE)
             t == ISA!After(2)
  <2>1. ISA!Op = 7 /\ cpu.pc = x
    BY <1>5, <1>7, Reading DEF Decoded, Passed, HasOperand, LDI
  <2>2. cpu.mar = o /\ cpu.stackpt = before.sp /\ cpu.accumulator = before.a
    BY <1>2, <1>7 DEF SpKept, AccKept
  <2>3. v = ISA!Cell(o)
    BY <1>2, <1>3, <2>2, CellIsLoad
  <2>4. /\ committed'.reg = Seen(cpu.pc, cpu.mar, cpu.stackpt, f, before.ar,
                                 [cpu.accumulator EXCEPT ![before.ar] = v])
        /\ committed'.mem = committed.mem
        /\ Midway'
    BY <1>1, <1>3, <1>4, ResultEnds
  <2>5. t = Seen(x, before.mr, before.sp, before.fr, before.ar, before.a)
    BY <1>3, SeenBefore
  <2>6. t.ar = before.ar
    BY <2>5 DEF Seen
  <2> HIDE DEF x, o, v, f, t
  <2>7. committed'.reg = Loading(t, o, v, f)
    BY <2>1, <2>2, <2>4, <2>5, SeenLoaded
  <2>8. committed'.reg = [t EXCEPT !.mr = o, !.a[before.ar] = v, !.fr = f]
    BY <2>6, <2>7 DEF Loading
  <2>9. committed'.reg = [ISA!After(2) EXCEPT !.mr = ISA!OffsetAddress, !.a[before.ar] = v,
                                              !.fr = ISA!Flag(v, FALSE)]
    BY <2>8 DEF t, o, f
  <2>10. ISA!LoadOffset
    BY <2>1, <2>3, <2>4, <2>9 DEF ISA!LoadOffset, before, o
  <2> QED
    BY <2>4, <2>10
<1> QED
  BY <1>5, <1>6, <1>7

\* A half of $mr, or a load address, in the accumulator
LEMMA HalfEnds ==
  ASSUME cpu \in Registers, cpu' \in Registers, Midway, Commit, x25
  PROVE  ISA!LoadAcc /\ Midway'
<1> DEFINE v == IF f2 THEN High(cpu.mar) ELSE Low(cpu.mar)
<1>1. Micro("x25", WithAcc(v), "x00")
  BY DEF x25
<1>2. Executes({LD}) /\ f1 /\ Kept /\ MarKept /\ Decoded
  BY <1>1 DEF Micro, Midway, LoadInv, Executes, Kept
<1>3. Frame
  BY DEF Midway
<1>4. LD \notin HasOperand
  BY DEF LD, HasOperand, LDI, STI, LA, BR
<1>5. ISA!Op = 6 /\ Passed(1)
  BY <1>2, <1>3, <1>4, OneByte DEF LD
<1>6. ISA!Has(8) /\ (ISA!Has(4) <=> f2)
  BY <1>2, Reading
<1>7. v \in Byte
  BY OperandTypes, WordBytes
<1>8. v = IF ISA!Has(4) THEN ISA!High(before.mr) ELSE ISA!Low(before.mr)
  BY <1>2, <1>6, SameWords DEF MarKept
<1> HIDE DEF v
<1>9. /\ committed'.reg = [ISA!After(1) EXCEPT !.a[before.ar] = v]
      /\ committed'.mem = committed.mem
      /\ Midway'
  BY <1>1, <1>2, <1>3, <1>5, <1>7, AccEnds
<1>10. ISA!LoadAcc
  BY <1>5, <1>6, <1>8, <1>9 DEF ISA!LoadAcc, before
<1> QED
  BY <1>9, <1>10

\* The last place of a shift
LEMMA ShiftEnds ==
  ASSUME cpu \in Registers, cpu' \in Registers, Midway, Commit, x09, cpu.imm3 = 0
  PROVE  ISA!Shift /\ Midway'
<1> DEFINE r == [ShiftedOnce EXCEPT !.imm3 = @ - 1]
           old == before.a[before.ar]
           n == cpu.ir % 8
<1>1. Micro("x09", r, "x00")
  BY DEF x09
<1>2. /\ Executes({SHF}) /\ MarKept /\ SpKept /\ Decoded
      /\ \A i \in 0 .. ACCUMULATOR_COUNT - 1 : i # before.ar => cpu.accumulator[i] = before.a[i]
      /\ Acc = ShiftedBy(old, n - cpu.imm3, f1)
  BY <1>1 DEF Midway, ShiftInv, Executes, Micro
<1>3. /\ Acc \in Byte /\ old \in Byte /\ cpu.amux = before.ar /\ Frame
      /\ before.ar \in 0 .. ACCUMULATOR_COUNT - 1
      /\ cpu.accumulator \in [0 .. ACCUMULATOR_COUNT - 1 -> Byte]
      /\ before.a \in [0 .. ACCUMULATOR_COUNT - 1 -> Byte]
  BY OperandTypes, ViewTypes DEF Midway, Frame, Registers
<1>4. n \in 0 .. 7
  <2>1. ASSUME NEW w \in Word PROVE w % 8 \in 0 .. 7
    BY DEF Word
  <2> QED
    BY <2>1, OperandTypes
<1>5. ISA!Op = 5 /\ Passed(1)
  <2>1. SHF \notin HasOperand
    BY DEF SHF, HasOperand, LDI, STI, LA, BR
  <2> QED
    BY <1>2, <1>3, <2>1, OneByte DEF SHF
<1>6. ISA!Code % 8 = n /\ (ISA!Has(8) <=> f1) /\ ISA!ar = old
  BY <1>2, Reading DEF ISA!ar, before
<1> HIDE DEF old, n
<1>7. Acc = ShiftedBy(old, n, f1)
  BY <1>2, <1>4
<1> DEFINE onceLeft == (2 * Acc) % 256
           out == ((2 * Acc) \div 256) % 2
<1>8. f1 => Acc \div 2 = old \div 2^(n + 1)
  <2> SUFFICES ASSUME f1 PROVE Acc \div 2 = old \div 2^(n + 1)
    OBVIOUS
  <2>1. Acc = ShiftedBy(old, n, TRUE)
    BY <1>7 DEF f1
  <2>2. ShiftedBy(old, n, TRUE) \div 2 = ShiftedBy(old, n + 1, TRUE)
    BY <1>3, <1>4, OneMore
  <2>3. Acc \div 2 = ShiftedBy(old, n + 1, TRUE)
    BY <2>1, <2>2
  <2> QED
    BY <2>3 DEF ShiftedBy
<1>9. ~f1 => onceLeft = (old * 2^(n + 1)) % 256 /\ out = (old \div 2^(7 - n)) % 2
  <2> SUFFICES ASSUME ~f1
               PROVE  onceLeft = (old * 2^(n + 1)) % 256 /\ out = (old \div 2^(7 - n)) % 2
    OBVIOUS
  <2>1. f1 = FALSE
    BY DEF f1
  <2>2. Acc = ShiftedBy(old, n, FALSE)
    BY <1>7, <2>1
  <2>3. /\ (2 * ShiftedBy(old, n, FALSE)) % 256 = ShiftedBy(old, n + 1, FALSE)
        /\ ((2 * ShiftedBy(old, n, FALSE)) \div 256) % 2 = (old \div 2^(7 - n)) % 2
    <3>1. old \in Byte /\ n \in 0 .. 7
      BY <1>3, <1>4
    <3> QED
      BY <3>1, OneMore, Zenon
  <2>4. onceLeft = ShiftedBy(old, n + 1, FALSE) /\ out = (old \div 2^(7 - n)) % 2
    BY <2>2, <2>3
  <2> QED
    BY <2>4 DEF ShiftedBy
<1>10. onceLeft \in Byte /\ out \in 0 .. 1 /\ Acc \div 2 \in Byte /\ Carry(2 * Acc) = 256 * out
  <2>1. onceLeft \in Byte /\ Acc \div 2 \in Byte
    BY <1>3, ByteSteps, Half
  <2>2. out \in 0 .. 1
    BY <1>3 DEF Byte
  <2>3. Carry(2 * Acc) = 256 * out
    BY DEF Carry
  <2> QED
    BY <2>1, <2>2, <2>3
<1> DEFINE v == IF f1 THEN Acc \div 2 ELSE onceLeft
           overflow == IF f1 THEN 0 ELSE 256 * out
           o == ~f1 /\ out = 1
<1>11. ShiftedOnce = WithResult(v, overflow)
  BY <1>10 DEF ShiftedOnce
<1> HIDE DEF onceLeft, out
<1>12. v \in Byte /\ (overflow # 0 <=> o)
  <2>1. v \in Byte
    BY <1>10
  <2>2. 256 * out # 0 <=> out = 1
    BY <1>10
  <2> QED
    BY <2>1, <2>2
<1> HIDE DEF v, overflow, o
<1>13. /\ r.pc = cpu.pc /\ r.amux = cpu.amux /\ r.mar = cpu.mar /\ r.stackpt = cpu.stackpt
      /\ r.accumulator = [cpu.accumulator EXCEPT ![cpu.amux] = v]
      /\ r.flags = setflags(v, overflow)
  <2> DEFINE w == WithResult(v, overflow)
  <2>1. r = [w EXCEPT !.imm3 = @ - 1]
    BY <1>11
  <2>2. /\ w.pc = cpu.pc /\ w.amux = cpu.amux /\ w.mar = cpu.mar /\ w.stackpt = cpu.stackpt
        /\ w.accumulator = [cpu.accumulator EXCEPT ![cpu.amux] = v]
        /\ w.flags = setflags(v, overflow)
        /\ "imm3" \in DOMAIN w
    BY <1>12, ResultFields
  <2> HIDE DEF w, r
  <2> QED
    BY <2>1, <2>2
<1> HIDE DEF r
<1>14. setflags(v, overflow) = ISA!Flag(v, o) /\ setflags(v, overflow) \in 0 .. 15
  <2>1. setflags(v, overflow) = ISA!Flag(v, overflow # 0) /\ setflags(v, overflow) \in 0 .. 15
    BY <1>3, <1>12, FlagsAre
  <2>2. ISA!Flag(v, overflow # 0) = ISA!Flag(v, o)
    BY <1>12 DEF ISA!Flag
  <2> QED
    BY <2>1, <2>2
<1>15. /\ committed'.reg = Seen(r.pc, r.mar, r.stackpt, r.flags, r.amux, r.accumulator)
       /\ committed'.mem = committed.mem
       /\ Midway'
  BY <1>1, <1>3, <1>13, <1>14, MicroEnds
<1>16. [cpu.accumulator EXCEPT ![cpu.amux] = v] = [before.a EXCEPT ![before.ar] = v]
  BY <1>2, <1>3
<1> DEFINE x == (before.ip + 1) % 65536
           f == ISA!Flag(v, o)
           t == ISA!After(1)
<1>17. cpu.pc = x /\ cpu.mar = before.mr /\ cpu.stackpt = before.sp
  BY <1>2, <1>5 DEF Passed, MarKept, SpKept
<1>18. t = Seen(x, before.mr, before.sp, before.fr, before.ar, before.a)
  BY <1>3, SeenBefore
<1>19. t.ar = before.ar
  BY <1>18 DEF Seen
<1> HIDE DEF x, f, t
<1>20. r.flags = f
  BY <1>13, <1>14 DEF f
<1>21. committed'.reg = Resulting(t, v, f)
  BY <1>3, <1>13, <1>15, <1>16, <1>17, <1>18, <1>20, SeenResult
<1>22. committed'.reg = [t EXCEPT !.a[before.ar] = v, !.fr = f]
  BY <1>19, <1>21 DEF Resulting
<1>23. ISA!Result(1, v, o)
  BY <1>15, <1>22, Zenon DEF ISA!Result, before, f, t
<1>24. ISA!Shift
  <2>1. CASE f1
    <3>1. v = old \div 2^(n + 1) /\ o = FALSE
      BY <1>8, <2>1 DEF v, o
    <3> QED
      BY <1>5, <1>6, <1>23, <2>1, <3>1 DEF ISA!Shift
  <2>2. CASE ~f1
    <3>1. v = (old * 2^(n + 1)) % 256 /\ o = ((old \div 2^(7 - n)) % 2 = 1)
      BY <1>9, <2>2 DEF v, o
    <3>2. 8 - (n + 1) = 7 - n
      BY <1>4
    <3> QED
      BY <1>5, <1>6, <1>23, <2>2, <3>1, <3>2 DEF ISA!Shift
  <2> QED
    BY <2>1, <2>2
<1> QED
  BY <1>15, <1>24

\* Another mar, or another stack pointer
Pointing(s, x) == [s EXCEPT !.mr = x]
Moving(s, x) == [s EXCEPT !.sp = x]

LEMMA SeenPointing ==
  ASSUME NEW ip, NEW mr, NEW sp, NEW fr, NEW ar, NEW a, NEW x
  PROVE  Pointing(Seen(ip, mr, sp, fr, ar, a), x) = Seen(ip, x, sp, fr, ar, a)
  BY DEF Seen, Pointing

LEMMA SeenMoving ==
  ASSUME NEW ip, NEW mr, NEW sp, NEW fr, NEW ar, NEW a, NEW x
  PROVE  Moving(Seen(ip, mr, sp, fr, ar, a), x) = Seen(ip, mr, x, fr, ar, a)
  BY DEF Seen, Moving

\* Half of $mr, and the length of the instruction in $ip
LEMMA MarEnds ==
  ASSUME cpu \in Registers, cpu' \in Registers, Frame, Commit, NEW s, NEW n, NEW high, NEW v \in Byte,
         Micro(s, [cpu EXCEPT !.mar = MarByte(high, v)], "x00"), Passed(n), Kept
  PROVE  /\ committed'.reg = [ISA!After(n) EXCEPT !.mr = ISA!Half(high, v)]
         /\ committed'.mem = committed.mem
         /\ Midway'
<1> DEFINE m == MarByte(high, v)
           r == [cpu EXCEPT !.mar = m]
           t == ISA!After(n)
           x == (before.ip + n) % 65536
<1>1. m = ISA!Half(high, v)
  BY SameWords DEF MarByte, ISA!Half, Kept, MarKept, before
<1>2. /\ r.pc = cpu.pc /\ r.mar = m /\ r.stackpt = cpu.stackpt /\ r.amux = cpu.amux
      /\ r.accumulator = cpu.accumulator /\ r.flags = cpu.flags
  BY DEF Registers
<1> HIDE DEF r
<1>3. /\ cpu.pc = x /\ cpu.stackpt = before.sp
      /\ cpu.accumulator = before.a /\ cpu.flags = before.fr
  BY DEF Passed, Kept, SpKept, AccKept
<1>4. cpu.amux = before.ar /\ cpu.flags \in 0 .. 15
  BY DEF Frame
<1>5. /\ committed'.reg = Seen(r.pc, r.mar, r.stackpt, r.flags, r.amux, r.accumulator)
      /\ committed'.mem = committed.mem
      /\ Midway'
  BY <1>2, <1>4, MicroEnds DEF r
<1>6. t = Seen(x, before.mr, before.sp, before.fr, before.ar, before.a)
  BY SeenBefore
<1> HIDE DEF x, t, m
<1>7. committed'.reg = Pointing(t, m)
  BY <1>2, <1>3, <1>4, <1>5, <1>6, SeenPointing
<1>8. committed'.reg = [t EXCEPT !.mr = m]
  BY <1>7 DEF Pointing
<1> QED
  BY <1>1, <1>5, <1>8 DEF t

LEMMA HalfStored ==
  ASSUME cpu \in Registers, cpu' \in Registers, Midway, Commit, x0C
  PROVE  ISA!StoreAcc /\ Midway'
<1>1. Micro("x0C", [cpu EXCEPT !.mar = MarByte(f2, Acc)], "x00")
  BY DEF x0C
<1>2. Executes({ST}) /\ f1 /\ Kept /\ AccKept /\ Decoded
  BY <1>1 DEF Micro, Midway, StoreInv, Executes, Kept
<1>3. Frame /\ Acc \in Byte
  BY OperandTypes DEF Midway
<1>4. ST \notin HasOperand
  BY DEF ST, HasOperand, LDI, STI, LA, BR
<1>5. ISA!Op = 8 /\ Passed(1)
  BY <1>2, <1>3, <1>4, OneByte DEF ST
<1>6. ISA!Has(8) /\ (ISA!Has(4) <=> f2) /\ Acc = ISA!ar
  BY <1>2, <1>3, Reading, AccIs
<1>7. /\ committed'.reg = [ISA!After(1) EXCEPT !.mr = ISA!Half(f2, Acc)]
      /\ committed'.mem = committed.mem
      /\ Midway'
  BY <1>1, <1>2, <1>3, <1>5, MarEnds
<1>8. ISA!Half(f2, Acc) = ISA!Half(ISA!Has(4), ISA!ar)
  BY <1>6 DEF ISA!Half
<1>9. ISA!StoreAcc
  BY <1>5, <1>6, <1>7, <1>8 DEF ISA!StoreAcc, before
<1> QED
  BY <1>7, <1>9

LEMMA PutIs == ASSUME Frame, NEW f PROVE Overlay(f, memory) = ISA!Put(f)
<1>1. committed.mem = memory
  BY DEF Frame
<1> QED
  BY <1>1 DEF Overlay, ISA!Put

\* A byte in memory ends an instruction that stores.
LEMMA MemoryEnds ==
  ASSUME cpu \in Registers, cpu' \in Registers, Frame, Commit,
         cpu' = [cpu EXCEPT !.nextState = "x00"]
  PROVE  /\ committed'.reg = Seen(cpu.pc, cpu.mar, cpu.stackpt, cpu.flags, cpu.amux, cpu.accumulator)
         /\ committed'.mem = memory'
         /\ Midway'
<1>1. /\ cpu'.nextState = "x00"
      /\ cpu'.pc = cpu.pc /\ cpu'.mar = cpu.mar /\ cpu'.amux = cpu.amux /\ cpu'.stackpt = cpu.stackpt
      /\ cpu'.flags = cpu.flags /\ cpu'.accumulator = cpu.accumulator
  BY DEF Registers
<1>2. cpu.flags \in 0 .. 15
  BY DEF Frame
<1> QED
  BY <1>1, <1>2, Ends

LEMMA StoreEnds ==
  ASSUME cpu \in Registers, cpu' \in Registers, Midway, Commit, x11
  PROVE  (ISA!StoreAcc \/ ISA!StoreOffset) /\ Midway'
<1>1. /\ cpu.nextState = "x11"
      /\ cpu' = [cpu EXCEPT !.nextState = "x00"]
      /\ memory' = Store(cpu.mar, cpu.mdr)
  BY DEF x11
<1>2. /\ Executes({ST, STI}) /\ SpKept /\ AccKept /\ cpu.mdr = Acc
      /\ Opcode(cpu.ir) = ST => ~f1 /\ MarKept
      /\ Opcode(cpu.ir) = STI => cpu.mar = ISA!OffsetAddress
  BY <1>1 DEF Midway, StoreInv
<1>3. Frame /\ Acc = ISA!ar /\ cpu.amux = before.ar
  BY <1>2, AccIs DEF Midway, Frame
<1>4. Decoded /\ Opcode(cpu.ir) \in {ST, STI}
  BY <1>2 DEF Executes
<1>5. memory' = ISA!Put([x \in {cpu.mar} |-> ISA!ar])
  BY <1>1, <1>2, <1>3, PutIs DEF Store
<1>6. /\ committed'.reg = Seen(cpu.pc, cpu.mar, cpu.stackpt, cpu.flags, cpu.amux, cpu.accumulator)
      /\ committed'.mem = memory'
      /\ Midway'
  BY <1>1, <1>3, MemoryEnds
<1>7. /\ cpu.stackpt = before.sp /\ cpu.accumulator = before.a /\ cpu.flags = before.fr
  BY <1>2 DEF SpKept, AccKept
<1>8. CASE Opcode(cpu.ir) = ST
  <2>1. ~f1 /\ cpu.mar = before.mr
    BY <1>2, <1>8 DEF MarKept
  <2>2. ISA!Op = 8 /\ ~ISA!Has(8) /\ cpu.pc = (before.ip + 1) % 65536
    BY <1>4, <1>8, <2>1, Reading DEF Decoded, Passed, ST, HasOperand, LDI, STI, LA, BR
  <2>3. committed'.reg = ISA!After(1)
    BY <1>3, <1>6, <1>7, <2>1, <2>2, SeenBefore
  <2>4. ISA!StoreAcc
    BY <1>5, <1>6, <2>1, <2>2, <2>3 DEF ISA!StoreAcc, before
  <2> QED
    BY <1>6, <2>4
<1>9. CASE Opcode(cpu.ir) = STI
  <2> DEFINE x == (before.ip + 2) % 65536
             o == ISA!OffsetAddress
             t == ISA!After(2)
  <2>1. cpu.mar = o
    BY <1>2, <1>9
  <2>2. ISA!Op = 9 /\ cpu.pc = x
    BY <1>4, <1>9, Reading DEF Decoded, Passed, HasOperand, STI
  <2>3. t = Seen(x, before.mr, before.sp, before.fr, before.ar, before.a)
    BY <1>3, SeenBefore
  <2> HIDE DEF x, o, t
  <2>4. committed'.reg = Pointing(t, o)
    BY <1>3, <1>6, <1>7, <2>1, <2>2, <2>3, SeenPointing
  <2>5. committed'.reg = [t EXCEPT !.mr = o]
    BY <2>4 DEF Pointing
  <2>6. ISA!StoreOffset
    BY <1>5, <1>6, <2>1, <2>2, <2>5 DEF ISA!StoreOffset, o, t
  <2> QED
    BY <1>6, <2>6
<1> QED
  BY <1>4, <1>8, <1>9

LEMMA PushEnds ==
  ASSUME cpu \in Registers, cpu' \in Registers, Midway, Commit, x16
  PROVE  ISA!Push /\ Midway'
<1>1. /\ cpu.nextState = "x16"
      /\ cpu' = [cpu EXCEPT !.nextState = "x00"]
      /\ memory' = Store(stackmem + cpu.stackpt, cpu.mdr)
  BY DEF x16
<1>2. /\ Executes({STK}) /\ ~f1 /\ MarKept /\ AccKept /\ cpu.stackpt = (before.sp + 1) % 256
      /\ cpu.mdr = Acc /\ Decoded
  BY <1>1 DEF Midway, StackInv, Executes
<1>3. Frame /\ Acc = ISA!ar /\ cpu.amux = before.ar
  BY <1>2, AccIs DEF Midway, Frame
<1>4. STK \notin HasOperand
  BY DEF STK, HasOperand, LDI, STI, LA, BR
<1>5. ISA!Op = 10 /\ Passed(1) /\ ~ISA!Has(8)
  BY <1>2, <1>3, <1>4, OneByte, Reading DEF STK
<1> DEFINE x == (before.ip + 1) % 65536
           p == (before.sp + 1) % 256
           t == ISA!After(1)
<1>6. stackmem + cpu.stackpt = ISA!MkWord(255, p)
  <2> DEFINE q == cpu.stackpt
  <2>1. q \in Byte
    BY OperandTypes
  <2> HIDE DEF q
  <2>2. stackmem + q = MkWord(255, q)
    BY <2>1 DEF Byte, stackmem, MkWord
  <2> QED
    BY <1>2, <2>2, SameWords DEF q
<1>7. memory' = ISA!Put([y \in {ISA!MkWord(255, p)} |-> ISA!ar])
  BY <1>1, <1>2, <1>3, <1>6, PutIs DEF Store
<1>8. /\ committed'.reg = Seen(cpu.pc, cpu.mar, cpu.stackpt, cpu.flags, cpu.amux, cpu.accumulator)
      /\ committed'.mem = memory'
      /\ Midway'
  BY <1>1, <1>3, MemoryEnds
<1>9. /\ cpu.pc = x /\ cpu.mar = before.mr /\ cpu.stackpt = p
      /\ cpu.accumulator = before.a /\ cpu.flags = before.fr
  BY <1>2, <1>5 DEF Passed, MarKept, AccKept
<1>10. t = Seen(x, before.mr, before.sp, before.fr, before.ar, before.a)
  BY <1>3, SeenBefore
<1> HIDE DEF x, p, t
<1>11. committed'.reg = Moving(t, p)
  BY <1>3, <1>8, <1>9, <1>10, SeenMoving
<1>12. committed'.reg = [t EXCEPT !.sp = p]
  BY <1>11 DEF Moving
<1>13. ISA!Push
  BY <1>5, <1>7, <1>8, <1>12 DEF ISA!Push, before, p, t
<1> QED
  BY <1>8, <1>13

LEMMA PopEnds ==
  ASSUME cpu \in Registers, cpu' \in Registers, Midway, Commit, x1B
  PROVE  ISA!Pop /\ Midway'
<1>1. Micro("x1B", Popped, "x00")
  BY DEF x1B
<1>2. /\ Executes({STK}) /\ f1 /\ MarKept /\ AccKept /\ cpu.stackpt = (before.sp + 255) % 256
      /\ cpu.mdr = Load(stackmem + before.sp) /\ Decoded
  BY <1>1 DEF Micro, Midway, StackInv, Executes
<1>3. Frame /\ Acc = ISA!ar /\ Acc \in Byte /\ cpu.mdr \in Byte /\ Imm2 \in 0 .. 3
  BY <1>2, AccIs, OperandTypes DEF Midway
<1>4. STK \notin HasOperand
  BY DEF STK, HasOperand, LDI, STI, LA, BR
<1>5. /\ ISA!Op = 10 /\ Passed(1) /\ ISA!Has(8)
      /\ ISA!Has(4) <=> f2
      /\ ISA!Code % 4 = Imm2
  BY <1>2, <1>3, <1>4, OneByte, Reading DEF STK
<1> DEFINE top == ISA!Cell(ISA!MkWord(255, before.sp))
           v == IF ISA!Has(4) THEN ISA!Combine(ISA!Code % 4, top) ELSE top
           o == ISA!Has(4) /\ ISA!Code % 4 = 0 /\ ISA!ar + top > 255
<1>6. cpu.mdr = top
  <2> DEFINE q == before.sp
  <2>1. q \in Byte
    BY <1>3, ViewTypes
  <2> HIDE DEF q
  <2>2. stackmem + q = MkWord(255, q)
    BY <2>1 DEF Byte, stackmem, MkWord
  <2>3. stackmem + before.sp = ISA!MkWord(255, before.sp)
    BY <2>2, SameWords DEF q
  <2> QED
    BY <1>2, <1>3, <2>3, CellIsLoad
<1> HIDE DEF top
<1>7. PICK overflow : Popped = WithResult(v, overflow) /\ v \in Byte /\ (overflow # 0 <=> o)
  <2>1. CASE ~f2
    <3>1. Popped = WithResult(cpu.mdr, 0)
      BY <2>1 DEF Popped
    <3>2. v = cpu.mdr /\ ~o
      BY <1>5, <1>6, <2>1
    <3> QED
      BY <1>3, <3>1, <3>2
  <2>2. CASE f2 /\ Imm2 = 0
    <3>1. Popped = WithResult((Acc + cpu.mdr) % 256, Carry(Acc + cpu.mdr))
      BY <2>2 DEF Popped, ADD, AND, OR, XOR
    <3>2. v = (Acc + cpu.mdr) % 256 /\ (o <=> Acc + cpu.mdr > 255)
      BY <1>3, <1>5, <1>6, <2>2, Combined
    <3>3. (Acc + cpu.mdr) % 256 \in Byte /\ (Carry(Acc + cpu.mdr) # 0 <=> Acc + cpu.mdr > 255)
      <4>1. Acc \in Byte /\ cpu.mdr \in Byte
        BY <1>3
      <4>2. (Acc + cpu.mdr) % 256 \in Byte
        BY <4>1, ByteSum
      <4>3. Carry(Acc + cpu.mdr) # 0 <=> Acc + cpu.mdr > 255
        BY <4>1, Carried, Zenon
      <4> QED
        BY <4>2, <4>3
    <3> HIDE DEF v, o
    <3> QED
      BY <3>1, <3>2, <3>3
  <2>3. CASE f2 /\ Imm2 = 1
    <3>1. Popped = WithResult(BitAnd(Acc, cpu.mdr), 0)
      BY <2>3 DEF Popped, ADD, AND, OR, XOR
    <3>2. v = BitAnd(Acc, cpu.mdr) /\ ~o
      BY <1>3, <1>5, <1>6, <2>3, Combined
    <3> HIDE DEF v, o
    <3> QED
      BY <3>1, <3>2, BitOpsByte
  <2>4. CASE f2 /\ Imm2 = 2
    <3>1. Popped = WithResult(BitOr(Acc, cpu.mdr), 0)
      BY <2>4 DEF Popped, ADD, AND, OR, XOR
    <3>2. v = BitOr(Acc, cpu.mdr) /\ ~o
      BY <1>3, <1>5, <1>6, <2>4, Combined
    <3> HIDE DEF v, o
    <3> QED
      BY <3>1, <3>2, BitOpsByte
  <2>5. CASE f2 /\ Imm2 = 3
    <3>1. Popped = WithResult(BitXor(Acc, cpu.mdr), 0)
      BY <2>5 DEF Popped, ADD, AND, OR, XOR
    <3>2. v = BitXor(Acc, cpu.mdr) /\ ~o
      BY <1>3, <1>5, <1>6, <2>5, Combined
    <3> HIDE DEF v, o
    <3> QED
      BY <3>1, <3>2, BitOpsByte
  <2> QED
    BY <1>3, <2>1, <2>2, <2>3, <2>4, <2>5
<1> DEFINE x == (before.ip + 1) % 65536
           p == (before.sp + 255) % 256
           f == ISA!Flag(v, o)
           t == ISA!After(1)
<1> HIDE DEF v, o
<1>8. /\ committed'.reg = Seen(cpu.pc, cpu.mar, cpu.stackpt, f, before.ar,
                               [cpu.accumulator EXCEPT ![before.ar] = v])
      /\ committed'.mem = committed.mem
      /\ Midway'
  BY <1>1, <1>3, <1>7, ResultEnds
<1>9. cpu.pc = x /\ cpu.mar = before.mr /\ cpu.stackpt = p /\ cpu.accumulator = before.a
  BY <1>2, <1>5 DEF Passed, MarKept, AccKept
<1>10. t = Seen(x, before.mr, before.sp, before.fr, before.ar, before.a)
  BY <1>3, SeenBefore
<1>11. t.ar = before.ar /\ t.sp = before.sp
  BY <1>10 DEF Seen
<1> HIDE DEF x, p, f, t
<1>12. committed'.reg = Popping(t, p, v, f)
  BY <1>8, <1>9, <1>10, SeenPopped
<1>13. committed'.reg = [t EXCEPT !.sp = p, !.a[before.ar] = v, !.fr = f]
  BY <1>11, <1>12 DEF Popping
<1>14. committed'.reg = [t EXCEPT !.sp = (@ + 255) % 256, !.a[before.ar] = v, !.fr = f]
  BY <1>11, <1>13 DEF p
<1>15. committed'.reg = [ISA!After(1) EXCEPT !.sp = (@ + 255) % 256, !.a[before.ar] = v,
                                             !.fr = ISA!Flag(v, o)]
  BY <1>14 DEF t, f
<1>16. ISA!Pop
  BY <1>5, <1>8, <1>15 DEF ISA!Pop, before, top, v, o
<1> QED
  BY <1>8, <1>16

LEMMA SelectEnds ==
  ASSUME cpu \in Registers, cpu' \in Registers, Midway, Commit, x22
  PROVE  ISA!Select /\ Midway'
<1> DEFINE b == cpu.accumulator[Imm4]
           r == [cpu EXCEPT !.amux = Imm4, !.overflow = 0, !.flags = setflags(b, 0)]
<1>1. Micro("x22", r, "x00")
  BY DEF x22
<1>2. Executes({ASET}) /\ Kept /\ Decoded
  BY <1>1 DEF Micro, Midway, SingleInv, Executes
<1>3. Frame /\ b \in Byte
  <2>1. Imm4 \in 0 .. ACCUMULATOR_COUNT - 1
    BY OperandTypes DEF ACCUMULATOR_COUNT
  <2>2. cpu.accumulator \in [0 .. ACCUMULATOR_COUNT - 1 -> Byte]
    BY DEF Registers
  <2> QED
    BY <2>1, <2>2 DEF Midway
<1>4. ASET \notin HasOperand
  BY DEF ASET, HasOperand, LDI, STI, LA, BR
<1>5. ISA!Op = 14 /\ ISA!Imm = Imm4 /\ Passed(1)
  BY <1>2, <1>3, <1>4, OneByte DEF ASET
<1>6. /\ r.pc = cpu.pc /\ r.mar = cpu.mar /\ r.stackpt = cpu.stackpt /\ r.amux = Imm4
      /\ r.accumulator = cpu.accumulator /\ r.flags = setflags(b, 0)
  BY DEF Registers
<1>7. setflags(b, 0) = ISA!Flag(b, FALSE) /\ setflags(b, 0) \in 0 .. 15
  <2>1. setflags(b, 0) = ISA!Flag(b, 0 # 0) /\ setflags(b, 0) \in 0 .. 15
    BY <1>3, FlagsAre
  <2>2. ISA!Flag(b, 0 # 0) = ISA!Flag(b, FALSE)
    BY DEF ISA!Flag
  <2> QED
    BY <2>1, <2>2
<1> HIDE DEF r
<1>8. /\ committed'.reg = Seen(r.pc, r.mar, r.stackpt, r.flags, r.amux, r.accumulator)
      /\ committed'.mem = committed.mem
      /\ Midway'
  BY <1>1, <1>3, <1>6, <1>7, MicroEnds
<1> DEFINE x == (before.ip + 1) % 65536
           i == Imm4
           f == ISA!Flag(b, FALSE)
           t == ISA!After(1)
<1>9. cpu.pc = x /\ cpu.mar = before.mr /\ cpu.stackpt = before.sp /\ cpu.accumulator = before.a
  BY <1>2, <1>5 DEF Passed, Kept, MarKept, SpKept, AccKept
<1>10. t = Seen(x, before.mr, before.sp, before.fr, before.ar, before.a)
  BY <1>3, SeenBefore
<1> HIDE DEF x, i, f, t
<1>11. r.flags = f /\ r.amux = i
  BY <1>6, <1>7 DEF f, i
<1>12. committed'.reg = Selecting(t, i, f)
  BY <1>6, <1>8, <1>9, <1>10, <1>11, SeenSelected
<1>13. committed'.reg = [t EXCEPT !.ar = i, !.fr = f]
  BY <1>12 DEF Selecting
<1>14. f = ISA!Flag(before.a[ISA!Imm], FALSE) /\ i = ISA!Imm
  BY <1>5, <1>9 DEF f, i
<1>15. ISA!Select
  BY <1>5, <1>8, <1>13, <1>14 DEF ISA!Select, before, t
<1> QED
  BY <1>8, <1>15

LEMMA LoadAddressEnds ==
  ASSUME cpu \in Registers, cpu' \in Registers, Midway, Commit, x26
  PROVE  ISA!LoadAddress /\ Midway'
<1>1. Micro("x26", IF f2 THEN WithAcc(cpu.ia) ELSE [cpu EXCEPT !.mar = MarByte(f1, cpu.ia)], "x00")
  BY DEF x26
<1>2. Executes({LA}) /\ Kept /\ Decoded /\ cpu.ia = High(cpu.ir) /\ Opcode(cpu.ir) = LA
  BY <1>1 DEF Micro, Midway, SingleInv, Executes
<1>3. Frame /\ cpu.ia \in Byte
  BY OperandTypes DEF Midway
<1>4. /\ ISA!Op = 11 /\ Passed(2) /\ cpu.ia = ISA!Operand
      /\ ISA!Has(8) <=> f1
      /\ ISA!Has(4) <=> f2
  BY <1>2, Reading DEF Decoded, LA, HasOperand
<1>5. CASE f2
  <2>1. Micro("x26", WithAcc(cpu.ia), "x00")
    BY <1>1, <1>5
  <2>2. /\ committed'.reg = [ISA!After(2) EXCEPT !.a[before.ar] = cpu.ia]
        /\ committed'.mem = committed.mem
        /\ Midway'
    BY <1>2, <1>3, <1>4, <2>1, AccEnds
  <2>3. ISA!LoadAddress
    BY <1>4, <1>5, <2>2 DEF ISA!LoadAddress, before
  <2> QED
    BY <2>2, <2>3
<1>6. CASE ~f2
  <2>1. Micro("x26", [cpu EXCEPT !.mar = MarByte(f1, cpu.ia)], "x00")
    BY <1>1, <1>6
  <2>2. /\ committed'.reg = [ISA!After(2) EXCEPT !.mr = ISA!Half(f1, cpu.ia)]
        /\ committed'.mem = committed.mem
        /\ Midway'
    BY <1>2, <1>3, <1>4, <2>1, MarEnds
  <2>3. ISA!Half(f1, cpu.ia) = ISA!Half(ISA!Has(8), ISA!Operand)
    BY <1>4 DEF ISA!Half
  <2>4. ISA!LoadAddress
    BY <1>4, <1>6, <2>2, <2>3 DEF ISA!LoadAddress
  <2> QED
    BY <2>2, <2>4
<1> QED
  BY <1>5, <1>6

\* Another place in the program
Going(s, x) == [s EXCEPT !.ip = x]

LEMMA SeenGoing ==
  ASSUME NEW ip, NEW mr, NEW sp, NEW fr, NEW ar, NEW a, NEW x
  PROVE  Going(Seen(ip, mr, sp, fr, ar, a), x) = Seen(x, mr, sp, fr, ar, a)
  BY DEF Seen, Going

\* The condition of a branch, as cpu.c and as apricos.txt put it
LEMMA TakenIs ==
  ASSUME cpu \in Registers, Frame, AccKept, Decoded
  PROVE  Taken <=> {f \in {1, 2, 4} : ISA!Has(2 * f)} \cap ISA!Bits(before.fr) # {}
<1>1. /\ ISA!Has(8) <=> f1
      /\ ISA!Has(4) <=> f2
      /\ ISA!Has(2) <=> f3
  BY Reading
<1>2. 2 * 1 = 2 /\ 2 * 2 = 4 /\ 2 * 4 = 8
  OBVIOUS
<1>3. ISA!Bits(before.fr) = Bits(cpu.flags)
  BY SameWords DEF AccKept
<1> DEFINE B == Bits(cpu.flags)
           T == {f \in {1, 2, 4} : ISA!Has(2 * f)}
<1>4. /\ 1 \in T <=> f3
      /\ 2 \in T <=> f2
      /\ 4 \in T <=> f1
      /\ T \subseteq {1, 2, 4}
  BY <1>1, <1>2
<1>5. Taken <=> \/ f1 /\ 4 \in B
                \/ f2 /\ 2 \in B
                \/ f3 /\ 1 \in B
  BY DEF Taken, NEG_FLAG, ZER_FLAG, POS_FLAG
<1> HIDE DEF B, T
<1>6. Taken <=> T \cap B # {}
  BY <1>4, <1>5
<1> QED
  BY <1>3, <1>6 DEF T, B

LEMMA BranchEnds ==
  ASSUME cpu \in Registers, cpu' \in Registers, Midway, Commit, x1F
  PROVE  ISA!Branch /\ Midway'
<1> DEFINE y == IF Taken THEN Target ELSE cpu.pc
           r == [cpu EXCEPT !.pc = y]
<1>1. Micro("x1F", r, "x00")
  <2>1. Micro("x1F", [cpu EXCEPT !.pc = IF Taken THEN Target ELSE @], "x00")
    BY DEF x1F
  <2>2. [cpu EXCEPT !.pc = IF Taken THEN Target ELSE @] = r
    OBVIOUS
  <2> QED
    BY <2>1, <2>2
<1>2. Executes({BR}) /\ Kept /\ AccKept /\ Decoded /\ cpu.ia = High(cpu.ir) /\ Opcode(cpu.ir) = BR
  BY <1>1 DEF Micro, Midway, SingleInv, Executes, Kept
<1>3. Frame
  BY DEF Midway
<1>4. /\ ISA!Op = 12 /\ cpu.pc = (before.ip + 2) % 65536 /\ cpu.ia = ISA!Operand
      /\ ISA!Has(1) <=> f4
  BY <1>2, Reading DEF Decoded, Passed, BR, HasOperand
<1>5. r.pc = y /\ r.mar = cpu.mar /\ r.stackpt = cpu.stackpt /\ r.amux = cpu.amux
      /\ r.accumulator = cpu.accumulator /\ r.flags = cpu.flags
  BY DEF Registers
<1> HIDE DEF r
<1>6. cpu.amux = before.ar /\ cpu.flags \in 0 .. 15
  BY <1>3 DEF Frame
<1>7. /\ committed'.reg = Seen(r.pc, r.mar, r.stackpt, r.flags, r.amux, r.accumulator)
      /\ committed'.mem = committed.mem
      /\ Midway'
  BY <1>1, <1>3, <1>5, <1>6, MicroEnds
<1>8. cpu.mar = before.mr /\ cpu.stackpt = before.sp /\ cpu.accumulator = before.a
      /\ cpu.flags = before.fr
  BY <1>2 DEF Kept, MarKept, SpKept, AccKept
<1>9. before = Seen(before.ip, before.mr, before.sp, before.fr, before.ar, before.a)
  BY <1>3, SeenBefore
<1> DEFINE next == (before.ip + 2) % 65536
           condition == {f \in {1, 2, 4} : ISA!Has(2 * f)} \cap ISA!Bits(before.fr) # {}
<1>10. Taken <=> condition
  BY <1>2, <1>3, TakenIs
<1> HIDE DEF condition
<1>11. ISA!MkWord(ISA!High(next), ISA!Operand) = MkWord(High(cpu.pc), cpu.ia)
  BY <1>4, SameWords
<1> DEFINE z == CASE ~condition -> next
                  [] condition /\ ISA!Has(1) -> ISA!MkWord(ISA!High(next), ISA!Operand)
                  [] condition /\ ~ISA!Has(1) -> before.mr
<1>12. y = z
  <2>1. CASE ~condition
    BY <1>4, <1>10, <2>1
  <2>2. CASE condition /\ ISA!Has(1)
    BY <1>4, <1>10, <1>11, <2>2 DEF Target
  <2>3. CASE condition /\ ~ISA!Has(1)
    BY <1>4, <1>8, <1>10, <2>3 DEF Target
  <2> QED
    BY <2>1, <2>2, <2>3
<1> HIDE DEF y, z
<1>13. committed'.reg = Going(before, z)
  BY <1>5, <1>6, <1>7, <1>8, <1>9, <1>12, SeenGoing
<1>14. committed'.reg = [before EXCEPT !.ip = z]
  BY <1>13 DEF Going
<1>15. ISA!Branch
  BY <1>4, <1>7, <1>14 DEF ISA!Branch, before, z, condition
<1> QED
  BY <1>7, <1>15

\* Nothing but $ip
LEMMA PassedEnds ==
  ASSUME cpu \in Registers, cpu' \in Registers, Frame, Commit, Passed(1), Kept,
         cpu' = [cpu EXCEPT !.nextState = "x00"]
  PROVE  committed'.reg = ISA!After(1) /\ committed'.mem = memory' /\ Midway'
<1>1. /\ committed'.reg = Seen(cpu.pc, cpu.mar, cpu.stackpt, cpu.flags, cpu.amux, cpu.accumulator)
      /\ committed'.mem = memory'
      /\ Midway'
  BY MemoryEnds
<1>2. /\ cpu.pc = (before.ip + 1) % 65536 /\ cpu.mar = before.mr /\ cpu.stackpt = before.sp
      /\ cpu.accumulator = before.a /\ cpu.flags = before.fr /\ cpu.amux = before.ar
  BY DEF Passed, Kept, MarKept, SpKept, AccKept, Frame
<1> QED
  BY <1>1, <1>2, SeenBefore

LEMMA ReservedEnds ==
  ASSUME cpu \in Registers, cpu' \in Registers, Midway, Commit, exception
  PROVE  ISA!Reserved /\ Midway'
<1>1. cpu.nextState = "exception" /\ cpu' = [cpu EXCEPT !.nextState = "x00"] /\ memory' = memory
  BY DEF exception, Micro
<1>2. Executes({15}) /\ Kept
  BY <1>1 DEF Midway, SingleInv
<1>3. Frame /\ committed.mem = memory
  BY DEF Midway, Frame
<1>4. 15 \notin HasOperand
  BY DEF HasOperand, LDI, STI, LA, BR
<1>5. ISA!Op = 15 /\ Passed(1)
  BY <1>2, <1>3, <1>4, OneByte
<1> QED
  BY <1>1, <1>2, <1>3, <1>5, PassedEnds DEF ISA!Reserved

LEMMA PortEnds ==
  ASSUME cpu \in Registers, cpu' \in Registers, Midway, Commit, portIO
  PROVE  (ISA!PortIn \/ ISA!PortOut) /\ Midway'
<1>1. cpu.nextState = "x20"
  BY DEF portIO, x20
<1>2. Executes({PRT}) /\ Kept /\ MarKept /\ SpKept /\ AccKept /\ Decoded /\ cpu.imm3 = cpu.ir % 8
  BY <1>1 DEF Midway, SingleInv, Executes, Kept
<1>3. Frame /\ committed.mem = memory
  BY DEF Midway, Frame
<1>4. PRT \notin HasOperand
  BY DEF PRT, HasOperand, LDI, STI, LA, BR
<1>5. /\ ISA!Op = 13 /\ Passed(1) /\ ISA!Code % 8 = cpu.imm3
      /\ ISA!Has(8) <=> f1
  BY <1>2, <1>3, <1>4, OneByte, Reading DEF PRT
<1>6. Acc = ISA!ar /\ Acc \in Byte /\ cpu.flags = before.fr /\ cpu.stackpt = before.sp
      /\ before.fr \in Byte /\ before.sp \in Byte
  <2>1. Acc = ISA!ar /\ Acc \in Byte /\ cpu.flags = before.fr /\ cpu.stackpt = before.sp
    BY <1>2, <1>3, AccIs, OperandTypes DEF AccKept, SpKept
  <2> QED
    BY <1>3, <2>1, ViewTypes, NibbleByte
<1>7. CASE ~f1
  <2>1. PICK v \in PortReads(cpu.imm3) : x20(v, memory)
    BY <1>7 DEF portIO
  <2>2. Micro("x20", WithResult(v, 0), "x00")
    BY <1>7, <2>1 DEF x20, Micro
  <2>3. v \in Byte
    <3>1. 0 \in Byte /\ 1 \in Byte /\ 10 \in Byte
      BY DEF Byte
    <3> QED
      BY <1>6, <2>1, <3>1, RepliesAssumption DEF PortReads
  <2>4. 0 # 0 <=> FALSE
    OBVIOUS
  <2>5. ISA!Result(1, v, FALSE) /\ Midway'
    BY <1>2, <1>3, <1>5, <2>2, <2>3, <2>4, ResultIs
  <2>6. v \in CASE ISA!Code % 8 = 1 -> {0, 1}
                [] ISA!Code % 8 = 2 -> KeyReplies \cup {IF ISA!ar = 13 THEN 10 ELSE ISA!ar}
                [] ISA!Code % 8 = 3 -> DiskStatuses
                [] ISA!Code % 8 = 4 -> {before.fr}
                [] ISA!Code % 8 = 5 -> {before.sp}
                [] OTHER -> {ISA!ar}
    BY <1>5, <1>6, <2>1 DEF PortReads
  <2>7. ISA!PortIn
    BY <1>5, <1>7, <2>5, <2>6 DEF ISA!PortIn, before
  <2> QED
    BY <2>5, <2>7
<1>8. CASE f1
  <2>1. /\ cpu' = [cpu EXCEPT !.nextState = "x00"]
        /\ \/ cpu.imm3 # 5 /\ memory' = memory
           \/ cpu.imm3 = 5 /\ \E s \in SectorImages : memory' = Overlay(s, memory)
    BY <1>8 DEF portIO, x20
  <2>2. committed'.reg = ISA!After(1) /\ committed'.mem = memory' /\ Midway'
    BY <1>2, <1>3, <1>5, <2>1, PassedEnds
  <2>3. \/ cpu.imm3 # 5 /\ committed'.mem = committed.mem
        \/ cpu.imm3 = 5 /\ \E s \in SectorImages : committed'.mem = ISA!Put(s)
    BY <1>3, <2>1, <2>2, PutIs
  <2>4. ISA!PortOut
    BY <1>5, <1>8, <2>2, <2>3 DEF ISA!PortOut
  <2> QED
    BY <2>2, <2>4
<1> QED
  BY <1>7, <1>8

LEMMA MidwayStays ==
  ASSUME Midway, cpu' = cpu, memory' = memory, committed' = committed PROVE Midway'
<1>1. /\ before' = before /\ ISA!Code' = ISA!Code /\ ISA!Operand' = ISA!Operand
      /\ ISA!OffsetAddress' = ISA!OffsetAddress
  BY DEF before, ISA!Code, ISA!Operand, ISA!OffsetAddress, ISA!Cell
<1>2. /\ Acc' = Acc /\ f1' = f1 /\ Decoded' = Decoded
      /\ \A n : Passed(n)' = Passed(n)
      /\ \A a : Load(a)' = Load(a)
      /\ \A ops : Executes(ops)' = Executes(ops)
  BY <1>1 DEF Acc, f1, Decoded, Passed, Load, Executes
<1>3. MarKept' = MarKept /\ SpKept' = SpKept /\ AccKept' = AccKept /\ Kept' = Kept
  BY <1>1 DEF MarKept, SpKept, AccKept, Kept
<1>4. Frame'
  BY <1>1 DEF Midway, Frame
<1>5. FetchInv'
  BY <1>1, <1>2, <1>3 DEF Midway, FetchInv
<1>6. SingleInv' /\ ShiftInv'
  BY <1>1, <1>2, <1>3 DEF Midway, SingleInv, ShiftInv
<1>7. LoadInv' /\ StoreInv' /\ StackInv'
  BY <1>1, <1>2, <1>3 DEF Midway, LoadInv, StoreInv, StackInv
<1> QED
  BY <1>4, <1>5, <1>6, <1>7 DEF Midway

-----------------------------------------------------------------------------
(* The microprogram implements the instruction set *)

\* The functions an instruction ends with, and the others
Last ==
  \/ x04 \/ x05 \/ x06 \/ x07 \/ x08 \/ (x09 /\ cpu.imm3 = 0) \/ x0B \/ x0C \/ x11 \/ x16
  \/ x1B \/ x1F \/ x22 \/ x25 \/ x26 \/ exception \/ portIO
Inner ==
  \/ x00 \/ x01 \/ x03 \/ (x09 /\ cpu.imm3 # 0) \/ x0A \/ x0D \/ x0E \/ x0F \/ x10 \/ x12
  \/ x13 \/ x14 \/ x15 \/ x17 \/ x18 \/ x19 \/ x1A \/ x23 \/ x24

\* The functions that end an instruction make its change.
LEMMA LastFunction ==
  ASSUME cpu \in Registers, cpu' \in Registers, Midway, Commit,
         Last
  PROVE  ISA!ISANext /\ Midway'
<1>1. CASE x04 \/ x05 \/ x06 \/ x07 \/ x08
  BY <1>1, AluEnds DEF ISA!ISANext
<1>2. CASE x09 /\ cpu.imm3 = 0
  BY <1>2, ShiftEnds DEF ISA!ISANext
<1>3. CASE x0B
  BY <1>3, LoadEnds DEF ISA!ISANext
<1>4. CASE x25
  BY <1>4, HalfEnds DEF ISA!ISANext
<1>5. CASE x0C
  BY <1>5, HalfStored DEF ISA!ISANext
<1>6. CASE x11
  BY <1>6, StoreEnds DEF ISA!ISANext
<1>7. CASE x16
  BY <1>7, PushEnds DEF ISA!ISANext
<1>8. CASE x1B
  BY <1>8, PopEnds DEF ISA!ISANext
<1>9. CASE x1F
  BY <1>9, BranchEnds DEF ISA!ISANext
<1>10. CASE x22
  BY <1>10, SelectEnds DEF ISA!ISANext
<1>11. CASE x26
  BY <1>11, LoadAddressEnds DEF ISA!ISANext
<1>12. CASE exception
  BY <1>12, ReservedEnds DEF ISA!ISANext
<1>13. CASE portIO
  BY <1>13, PortEnds DEF ISA!ISANext
<1> QED
  BY <1>1, <1>2, <1>3, <1>4, <1>5, <1>6, <1>7, <1>8, <1>9, <1>10, <1>11, <1>12, <1>13 DEF Last

\* Every other function leaves what the program sees alone.
LEMMA InnerFunction ==
  ASSUME cpu \in Registers, cpu' \in Registers, OperandFetch, Midway, Commit,
         Inner
  PROVE  Midway' /\ committed' = committed
<1>1. cpu'.nextState # "x00"
  <2>1. ASSUME NEW s, NEW r, NEW t, Micro(s, r, t) PROVE cpu'.nextState = t
    BY <2>1, MicroFields
  <2>2. \A op : Dispatch(op) # "x00"
    BY DEF Dispatch
  <2>3. CASE x00 \/ x01 \/ x03 \/ x23 \/ x24
    BY <2>1, <2>2, <2>3 DEF x00, x01, x03, x23, x24
  <2>4. CASE x09 /\ cpu.imm3 # 0
    BY <2>1, <2>4 DEF x09
  <2>5. CASE x0A \/ x0D \/ x0E \/ x0F
    BY <2>1, <2>5 DEF x0A, x0D, x0E, x0F
  <2>6. CASE x10 \/ x12 \/ x13 \/ x14
    BY <2>1, <2>6 DEF x10, x12, x13, x14
  <2>7. CASE x15 \/ x17 \/ x18 \/ x19 \/ x1A
    BY <2>1, <2>7 DEF x15, x17, x18, x19, x1A
  <2> QED
    BY <2>3, <2>4, <2>5, <2>6, <2>7 DEF Inner
<1>2. committed' = committed
  BY <1>1, Held
<1>3. CASE x00 \/ x01 \/ x03 \/ x23 \/ x24
  BY <1>2, <1>3, FetchStart, FetchRead, Dispatched, OperandRead, OperandTaken
<1>4. CASE x09 /\ cpu.imm3 # 0
  BY <1>2, <1>4, ShiftGoesOn
<1>5. CASE x0A \/ x0D \/ x0E \/ x0F
  BY <1>2, <1>5, LoadBegins, LoadToPc, LoadToOffset, LoadFetches
<1>6. CASE x10 \/ x12 \/ x13 \/ x14
  BY <1>2, <1>6, StoreBegins, StoreToPc, StoreToOffset, StoreLatches
<1>7. CASE x15 \/ x17 \/ x18 \/ x19 \/ x1A
  BY <1>2, <1>7, StackBegins, PushAdvances, PushLatches, PopFetches, PopGoesBack
<1> QED
  BY <1>3, <1>4, <1>5, <1>6, <1>7 DEF Inner

LEMMA MidwayStep ==
  ASSUME CPUInv, Midway, RNext
  PROVE  Midway' /\ (ISA!ISANext \/ UNCHANGED ISA!ISAvars)
<1>1. cpu \in Registers /\ OperandFetch /\ Commit /\ (Microcode \/ portIO)
  BY DEF CPUInv, RNext, Next, cycle
<1>2. cpu' \in Registers
  BY <1>1, CycleInv DEF CPUInv
<1>3. Last \/ Inner
  BY <1>1 DEF Microcode, Last, Inner
<1>4. CASE Last
  BY <1>1, <1>2, <1>4, LastFunction
<1>5. CASE Inner
  <2>1. Midway' /\ committed' = committed
    BY <1>1, <1>2, <1>5, InnerFunction
  <2> QED
    BY <2>1 DEF ISA!ISAvars
<1> QED
  BY <1>3, <1>4, <1>5

LEMMA MidwayStart == RInit => Midway /\ ISA!ISAInit
<1> SUFFICES ASSUME RInit PROVE Midway /\ ISA!ISAInit
  OBVIOUS
<1>1. cpu = ResetRegisters /\ committed = Visible
  BY DEF RInit, Init, resetMachine
<1>2. /\ cpu.pc = 0 /\ cpu.mar = 0 /\ cpu.stackpt = 255 /\ cpu.flags = 0 /\ cpu.amux = 0
      /\ cpu.accumulator = [i \in 0 .. ACCUMULATOR_COUNT - 1 |-> 0] /\ cpu.nextState = "x00"
  BY <1>1 DEF ResetRegisters
<1>3. before = [ip |-> 0, mr |-> 0, sp |-> 255, fr |-> 0, ar |-> 0,
                a |-> [i \in 0 .. ACCUMULATOR_COUNT - 1 |-> 0]]
  BY <1>1, <1>2 DEF before, Visible
<1>4. /\ before.ip = 0 /\ before.mr = 0 /\ before.sp = 255 /\ before.fr = 0 /\ before.ar = 0
      /\ before.a = [i \in 0 .. ACCUMULATOR_COUNT - 1 |-> 0]
  BY <1>3
<1>5. Frame
  <2>1. before \in View
    <3>1. /\ 0 \in Word /\ 0 \in Byte /\ 255 \in Byte /\ 0 \in 0 .. 15
      BY DEF Word, Byte
    <3>2. [i \in 0 .. ACCUMULATOR_COUNT - 1 |-> 0] \in [0 .. ACCUMULATOR_COUNT - 1 -> Byte]
      BY <3>1
    <3> HIDE DEF before
    <3> QED
      BY <1>3, <3>1, <3>2 DEF View
  <2>2. committed = [reg |-> before, mem |-> memory]
    BY <1>1 DEF before, Visible
  <2> QED
    BY <1>2, <1>4, <2>1, <2>2 DEF Frame
<1>6. FetchInv
  <2>1. (0 + 0) % 65536 = 0
    OBVIOUS
  <2> QED
    BY <1>2, <1>4, <2>1 DEF FetchInv, Passed, Kept, MarKept, SpKept, AccKept
<1>7. SingleInv /\ ShiftInv
  BY <1>2 DEF SingleInv, ShiftInv
<1>8. LoadInv /\ StoreInv /\ StackInv
  BY <1>2 DEF LoadInv, StoreInv, StackInv
<1>9. ISA!ISAInit
  BY <1>3 DEF ISA!ISAInit, before, ACCUMULATOR_COUNT
<1> QED
  BY <1>5, <1>6, <1>7, <1>8, <1>9 DEF Midway

\* Whatever program is loaded, the microprogram of cpu.c carries out the
\* instruction set: what a program can see of the machine changes once in each
\* instruction, as AprISA says, and never in the middle of one (cpu.c:76-497).
THEOREM ISAImplemented == RSpec => ImplementsISA
<1>1. RInit => CPUInv /\ Midway /\ ISA!ISAInit
  BY CPUInvHolds, MidwayStart DEF RInit
<1>2. CPUInv /\ Midway /\ [RNext]_<<vars, committed>> => CPUInv' /\ Midway'
  <2>1. CPUInv /\ Midway /\ RNext => CPUInv' /\ Midway'
    BY CPUInvHolds, MidwayStep DEF RNext
  <2>2. CPUInv /\ Midway /\ UNCHANGED <<vars, committed>> => CPUInv' /\ Midway'
    <3> SUFFICES ASSUME CPUInv, Midway, UNCHANGED <<vars, committed>> PROVE CPUInv' /\ Midway'
      OBVIOUS
    <3>1. CPUInv'
      BY CPUInvHolds
    <3>2. cpu' = cpu /\ memory' = memory /\ committed' = committed
      BY DEF vars
    <3>3. Midway'
      BY <3>2, MidwayStays
    <3> QED
      BY <3>1, <3>3
  <2> QED
    BY <2>1, <2>2
<1>3. CPUInv /\ Midway /\ [RNext]_<<vars, committed>> => [ISA!ISANext]_(ISA!ISAvars)
  <2>1. CPUInv /\ Midway /\ RNext => ISA!ISANext \/ UNCHANGED ISA!ISAvars
    BY MidwayStep
  <2>2. UNCHANGED <<vars, committed>> => UNCHANGED ISA!ISAvars
    BY DEF ISA!ISAvars
  <2> QED
    BY <2>1, <2>2
<1> QED
  BY <1>1, <1>2, <1>3, PTL DEF RSpec, ImplementsISA, ISA!ISASpec
=============================================================================
