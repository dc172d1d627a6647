------------------------------- MODULE AprCPU -------------------------------
(***************************************************************************)
(* The simulated Apricos processor (cpu.c).  `cycle' calls the function    *)
(* nextState points at; each of those functions is one step of the         *)
(* microprogram and leaves nextState at the function of the next cycle.    *)
(* An instruction starts and ends with nextState = x00.                    *)
(*                                                                         *)
(* The registers are one record.  nextState is the name of the function.   *)
(* The latches imm4, imm2, f1..f4 of x03 are read off ir, which does not   *)
(* change between x03 and the next x01; imm3 is kept because x09 counts it *)
(* down.  currentState and halted are shown or ignored, never read by the  *)
(* microprogram, and are left out, as are the functions no state leads to  *)
(* (x02, x1C, x1D, x1E, x21).                                              *)
(*                                                                         *)
(* memory is sparse: a cell outside its domain holds the 0 reset puts in   *)
(* every cell.                                                             *)
(***************************************************************************)
EXTENDS Words

CONSTANTS
  Programs,       \* memory images loadProgram may leave: sparse functions
  COUNT_MANY,     \* where the cycle and instruction counts stop being exact
  KeyReplies,     \* bytes a read of port 2 may deliver
  DiskStatuses,   \* bytes a read of port 3 may deliver
  SectorImages    \* what a sector read may put in the disk page

ACCUMULATOR_COUNT == 16
DISK_PAGE_SECTOR == 254

\* memory[0xFE00 .. 0xFEFF], the only cells a port operation writes
DiskPage == {a \in Word : High(a) = DISK_PAGE_SECTOR}

Sparse(m) == DOMAIN m \subseteq Word /\ \A a \in DOMAIN m : m[a] \in Byte

ASSUME CountManyAssumption == COUNT_MANY \in Nat \ {0}
ASSUME ProgramsAssumption == \A m \in Programs : Sparse(m)
ASSUME RepliesAssumption == KeyReplies \subseteq Byte /\ DiskStatuses \subseteq Byte
ASSUME SectorAssumption == \A m \in SectorImages : Sparse(m) /\ DOMAIN m \subseteq DiskPage

VARIABLES
  cpu,                \* registers and nextState
  memory,
  cycleCount,
  instructionCount

vars == <<cpu, memory, cycleCount, instructionCount>>

\* Operation codes
ADD == 0
AND == 1
OR == 2
XOR == 3
NOT == 4
SHF == 5
LD == 6
LDI == 7
ST == 8
STI == 9
STK == 10
LA == 11
BR == 12
PRT == 13
ASET == 14

OVF_FLAG == 8
NEG_FLAG == 4
ZER_FLAG == 2
POS_FLAG == 1

\* Instructions whose second byte x23 and x24 fetch
HasOperand == {LDI, STI, LA, BR}

States == {"x00", "x01", "x03", "x04", "x05", "x06", "x07", "x08", "x09",
           "x0A", "x0B", "x0C", "x0D", "x0E", "x0F", "x10", "x11", "x12",
           "x13", "x14", "x15", "x16", "x17", "x18", "x19", "x1A", "x1B",
           "x1F", "x20", "x22", "x23", "x24", "x25", "x26", "exception"}

Registers ==
  [pc : Word, mar : Word, mdr : Byte, ir : Word, ia : Byte, amux : 0 .. 15,
   stackpt : Byte, flags : Byte, overflow : {0, 256}, imm3 : -1 .. 7,
   accumulator : [0 .. ACCUMULATOR_COUNT - 1 -> Byte], nextState : States]

-----------------------------------------------------------------------------
(* Memory *)

Overlay(f, m) == [a \in DOMAIN f \cup DOMAIN m |->
                    IF a \in DOMAIN f THEN f[a] ELSE m[a]]
Load(a) == IF a \in DOMAIN memory THEN memory[a] ELSE 0
Store(a, v) == Overlay([x \in {a} |-> v], memory)

stackmem == 65536 - 256
Next16(w) == (w + 1) % 65536

(* Fields of the instruction register *)

Opcode(ir) == Low(ir) \div 16
Imm4 == cpu.ir % 16
Imm2 == cpu.ir % 4
f1 == 8 \in Bits(Low(cpu.ir))
f2 == 4 \in Bits(Low(cpu.ir))
f3 == 2 \in Bits(Low(cpu.ir))
f4 == 1 \in Bits(Low(cpu.ir))

(* The selected accumulator and the flags *)

Acc == cpu.accumulator[cpu.amux]

setflags(v, overflow) ==
  16 * (cpu.flags \div 16)
    + (CASE v >= 128 -> NEG_FLAG [] v \in 1 .. 127 -> POS_FLAG [] OTHER -> ZER_FLAG)
    + (IF overflow # 0 THEN OVF_FLAG ELSE 0)

\* The registers after v is put in the selected accumulator, without flags
WithAcc(v) == [cpu EXCEPT !.accumulator[cpu.amux] = v]

\* ... and with the overflow latch and the flags that go with it
WithResult(v, ovf) ==
  [cpu EXCEPT !.accumulator[cpu.amux] = v,
              !.overflow = ovf,
              !.flags = setflags(v, ovf)]

\* The carry of a 9-bit result, as the code keeps it: 0 or 0x100
Carry(x) == 256 * ((x \div 256) % 2)

-----------------------------------------------------------------------------
(* The microprogram *)

\* Function s runs, leaves registers c and names t as the next function.
Micro(s, c, t) ==
  /\ cpu.nextState = s
  /\ cpu' = [c EXCEPT !.nextState = t]
  /\ UNCHANGED memory

x00 == Micro("x00", [cpu EXCEPT !.mdr = Load(cpu.pc)], "x01")

x01 == Micro("x01",
             [cpu EXCEPT !.pc = Next16(@), !.ir = cpu.mdr],
             IF Opcode(cpu.mdr) \in HasOperand THEN "x23" ELSE "x03")

\* Where x03 sends each operation
Dispatch(op) ==
  CASE op = ADD -> "x04" [] op = AND -> "x06" [] op = OR  -> "x07"
    [] op = XOR -> "x08" [] op = NOT -> "x05" [] op = SHF -> "x09"
    [] op = LD  -> "x0A" [] op = LDI -> "x0D" [] op = ST  -> "x10"
    [] op = STI -> "x12" [] op = STK -> "x15" [] op = LA  -> "x26"
    [] op = BR  -> "x1F" [] op = PRT -> "x20" [] op = ASET -> "x22"
    [] OTHER -> "exception"

x03 == Micro("x03",
             [cpu EXCEPT !.ia = High(cpu.ir), !.imm3 = cpu.ir % 8],
             Dispatch(Opcode(cpu.ir)))

\* ADD, NOT, AND, OR, XOR
x04 == Micro("x04", WithResult((Acc + Imm4) % 256, Carry(Acc + Imm4)), "x00")
x05 == Micro("x05", WithResult(BitNot(Acc), 0), "x00")
x06 == Micro("x06", WithResult(BitAnd(Acc, Imm4), 0), "x00")
x07 == Micro("x07", WithResult(BitOr(Acc, Imm4), 0), "x00")
x08 == Micro("x08", WithResult(BitXor(Acc, Imm4), 0), "x00")

\* SHF: one place per cycle, `if(imm3--)' decides whether to go on
ShiftedOnce == IF f1 THEN WithResult(Acc \div 2, 0)
                     ELSE WithResult((2 * Acc) % 256, Carry(2 * Acc))

\* Wrong variant: the count is tested and not counted down.
x09NoCount == Micro("x09", ShiftedOnce, IF cpu.imm3 # 0 THEN "x09" ELSE "x00")

x09 == Micro("x09",
             [ShiftedOnce EXCEPT !.imm3 = @ - 1],
             IF cpu.imm3 # 0 THEN "x09" ELSE "x00")

\* LD
x0A == \/ f1 /\ Micro("x0A", cpu, "x25")
       \/ ~f1 /\ Micro("x0A", [cpu EXCEPT !.mdr = Load(cpu.mar)], "x0B")
x0B == Micro("x0B", WithResult(cpu.mdr, 0), "x00")
x25 == Micro("x25", WithAcc(IF f2 THEN High(cpu.mar) ELSE Low(cpu.mar)), "x00")

\* LDI
x0D == Micro("x0D", [cpu EXCEPT !.mar = cpu.pc], "x0E")
x0E == Micro("x0E", [cpu EXCEPT !.mar = (@ + cpu.ia) % 65536], "x0F")
x0F == Micro("x0F", [cpu EXCEPT !.mdr = Load(cpu.mar)], "x0B")

\* The memory address register with its high or its low byte replaced by v
MarByte(high, v) == IF high THEN MkWord(v, Low(cpu.mar))
                            ELSE MkWord(High(cpu.mar), v)

\* ST
x10 == \/ f1 /\ Micro("x10", cpu, "x0C")
       \/ ~f1 /\ Micro("x10", [cpu EXCEPT !.mdr = Acc], "x11")
x0C == Micro("x0C", [cpu EXCEPT !.mar = MarByte(f2, Acc)], "x00")
x11 == /\ cpu.nextState = "x11"
       /\ cpu' = [cpu EXCEPT !.nextState = "x00"]
       /\ memory' = Store(cpu.mar, cpu.mdr)

\* STI
x12 == Micro("x12", [cpu EXCEPT !.mar = cpu.pc], "x13")
x13 == Micro("x13", [cpu EXCEPT !.mar = (@ + cpu.ia) % 65536], "x14")
x14 == Micro("x14", [cpu EXCEPT !.mdr = Acc], "x11")

\* Wrong variant: the stack pointer as a wider integer.
x17Wide == Micro("x17", [cpu EXCEPT !.stackpt = @ + 1], "x18")

\* STK push
x15 == Micro("x15", cpu, IF f1 THEN "x19" ELSE "x17")
x17 == Micro("x17", [cpu EXCEPT !.stackpt = (@ + 1) % 256], "x18")
x18 == Micro("x18", [cpu EXCEPT !.mdr = Acc], "x16")
x16 == /\ cpu.nextState = "x16"
       /\ cpu' = [cpu EXCEPT !.nextState = "x00"]
       /\ memory' = Store(stackmem + cpu.stackpt, cpu.mdr)

\* STK pop
x19 == Micro("x19", [cpu EXCEPT !.mdr = Load(stackmem + cpu.stackpt)], "x1A")
x1A == Micro("x1A", [cpu EXCEPT !.stackpt = (@ + 255) % 256], "x1B")

Popped ==
  CASE ~f2 -> WithResult(cpu.mdr, 0)
    [] f2 /\ Imm2 = ADD -> WithResult((Acc + cpu.mdr) % 256, Carry(Acc + cpu.mdr))
    [] f2 /\ Imm2 = AND -> WithResult(BitAnd(Acc, cpu.mdr), 0)
    [] f2 /\ Imm2 = OR  -> WithResult(BitOr(Acc, cpu.mdr), 0)
    [] f2 /\ Imm2 = XOR -> WithResult(BitXor(Acc, cpu.mdr), 0)
x1B == Micro("x1B", Popped, "x00")

\* BR
Taken == \/ f1 /\ NEG_FLAG \in Bits(cpu.flags)
         \/ f2 /\ ZER_FLAG \in Bits(cpu.flags)
         \/ f3 /\ POS_FLAG \in Bits(cpu.flags)

\* Wrong variant: the page of the opcode instead of that of the next instruction.
TargetOpcodePage == IF f4 THEN MkWord(High((cpu.pc + 65534) % 65536), cpu.ia) ELSE cpu.mar

Target == IF f4 THEN MkWord(High(cpu.pc), cpu.ia) ELSE cpu.mar
x1F == Micro("x1F", [cpu EXCEPT !.pc = IF Taken THEN Target ELSE @], "x00")

\* PRT: v and m are the selected accumulator and the memory as portIO leaves them
x20(v, m) ==
  /\ cpu.nextState = "x20"
  /\ cpu' = [(IF f1 THEN cpu ELSE WithResult(v, 0)) EXCEPT !.nextState = "x00"]
  /\ memory' = m

\* ASET: the flags are those of the newly selected accumulator
x22 == Micro("x22",
             [cpu EXCEPT !.amux = Imm4,
                         !.overflow = 0,
                         !.flags = setflags(cpu.accumulator[Imm4], 0)],
             "x00")

\* Second byte of an instruction
x23 == Micro("x23", [cpu EXCEPT !.mdr = Load(cpu.pc)], "x24")
x24 == Micro("x24",
             [cpu EXCEPT !.ir = MkWord(cpu.mdr, Low(@)), !.pc = Next16(@)],
             "x03")

\* LA
x26 == Micro("x26",
             IF f2 THEN WithAcc(cpu.ia) ELSE [cpu EXCEPT !.mar = MarByte(f1, cpu.ia)],
             "x00")

exception == Micro("exception", cpu, "x00")

-----------------------------------------------------------------------------
(* Port input and output as the processor alone can know it: what a read   *)
(* may deliver, and what a write may leave in memory.  AprSim replaces the *)
(* keyboard ports by the real ones.                                        *)

PortReads(port) ==
  CASE port = 1 -> {0, 1}
    [] port = 2 -> KeyReplies \cup {IF Acc = 13 THEN 10 ELSE Acc}
    [] port = 3 -> DiskStatuses
    [] port = 4 -> {cpu.flags}
    [] port = 5 -> {cpu.stackpt}
    [] OTHER -> {Acc}

portIO ==
  \/ ~f1 /\ \E v \in PortReads(cpu.imm3) : x20(v, memory)
  \/ /\ f1
     /\ \/ cpu.imm3 # 5 /\ x20(Acc, memory)
        \/ cpu.imm3 = 5 /\ \E s \in SectorImages : x20(Acc, Overlay(s, memory))

(* The two counts, each of which falls back to COUNT_MANY before it overflows *)

\* Wrong variants: no fall back, and one to zero.
CountedOn(n) == n + 1
CountedAnew(n) == IF n + 1 = 2 * COUNT_MANY THEN 0 ELSE n + 1

Counted(n) == IF n + 1 = 2 * COUNT_MANY THEN COUNT_MANY ELSE n + 1

\* Wrong variant: the instruction is counted when it is fetched.
CountCycleEarly ==
  /\ cycleCount' = Counted(cycleCount)
  /\ instructionCount' = IF cpu.nextState = "x00" THEN Counted(instructionCount)
                                                  ELSE instructionCount

CountCycle ==
  /\ cycleCount' = Counted(cycleCount)
  /\ instructionCount' = IF cpu'.nextState = "x00" THEN Counted(instructionCount)
                                                   ELSE instructionCount

\* Every function but the port one, which depends on the machine around it
Microcode ==
  \/ x00 \/ x01 \/ x03 \/ x04 \/ x05 \/ x06 \/ x07 \/ x08 \/ x09 \/ x0A \/ x0B
  \/ x0C \/ x0D \/ x0E \/ x0F \/ x10 \/ x11 \/ x12 \/ x13 \/ x14 \/ x15 \/ x16
  \/ x17 \/ x18 \/ x19 \/ x1A \/ x1B \/ x1F \/ x22 \/ x23 \/ x24 \/ x25 \/ x26
  \/ exception

cycle == (Microcode \/ portIO) /\ CountCycle

\* resetMachine, then loadProgram
ResetRegisters ==
  [pc |-> 0, mar |-> 0, mdr |-> 0, ir |-> 0, ia |-> 0, amux |-> 0,
   stackpt |-> 255, flags |-> 0, overflow |-> 0, imm3 |-> 0,
   accumulator |-> [i \in 0 .. ACCUMULATOR_COUNT - 1 |-> 0],
   nextState |-> "x00"]

resetMachine ==
  /\ cpu = ResetRegisters
  /\ cycleCount = 0
  /\ instructionCount = 0

Init == resetMachine /\ memory \in Programs
Next == cycle
Spec == Init /\ [][Next]_vars
-----------------------------------------------------------------------------
(* Properties *)

\* Every register keeps the width its C type gives it, nextState always points
\* at a function of the microprogram, and memory holds bytes (cpu.h:91-117).
TypeOK ==
  /\ cpu \in Registers
  /\ Sparse(memory)
  /\ cycleCount \in 0 .. 2 * COUNT_MANY - 1
  /\ instructionCount \in 0 .. 2 * COUNT_MANY - 1

\* The most cycles that are left, the one of nextState included, before the
\* instruction ends.  Before the opcode is known it may still be a SHF by 8.
CyclesLeft ==
  LET s == cpu.nextState
      \* from x03 on, for operation op
      Execution(op) == IF op = SHF THEN 2 + (cpu.ir % 8) ELSE 5
  IN  CASE s = "x00" -> 11
        [] s = "x01" -> 10
        [] s = "x23" -> 7
        [] s = "x24" -> 6
        [] s = "x03" -> Execution(Opcode(cpu.ir))
        [] s = "x09" -> cpu.imm3 + 1
        [] s \in {"x0D", "x12", "x15"} -> 4
        [] s \in {"x0E", "x13", "x17", "x19"} -> 3
        [] s \in {"x0A", "x0F", "x10", "x14", "x18", "x1A"} -> 2
        [] OTHER -> 1

\* The fewest cycles the current instruction has used when nextState is next
CyclesDone ==
  CASE cpu.nextState = "x00" -> 0
    [] cpu.nextState = "x01" -> 1
    [] cpu.nextState \in {"x03", "x23"} -> 2
    [] OTHER -> 3

\* Every cycle either ends the instruction or leaves strictly fewer to go: the
\* microprogram cannot loop, so `do cycle(); while(nextState != &x00)' in
\* runSlice and in INSTRUCTION mode (sim.c:136-138, 288-290) always returns,
\* whatever bytes the program consists of.
InstructionEnds == [][cpu'.nextState = "x00" \/ CyclesLeft' < CyclesLeft]_vars

\* The two counts on the status line agree with each other while they are
\* exact: an instruction takes at least 4 cycles and at most 11, and an
\* unfinished one is within its share (cpu.c:51-57, 233-236).
CycleBudget ==
  cycleCount < COUNT_MANY =>
    /\ 4 * instructionCount + CyclesDone <= cycleCount
    /\ cycleCount + CyclesLeft <= 11 * (instructionCount + 1)

\* Once a count is shown as "(many + n)" it stays so: it never falls back to a
\* number that would be read as exact (cpu.c:53-56, versions.txt:9).
ManyForGood ==
  [][/\ cycleCount >= COUNT_MANY => cycleCount' >= COUNT_MANY
     /\ instructionCount >= COUNT_MANY => instructionCount' >= COUNT_MANY]_vars

\* "O = Unsigned carry out of bit 7 (set by ADD and SPOP ADD; cleared by other
\* flag-setting instructions)" (apricos.txt:23): no other step sets O.
OverflowByAdd ==
  [][(OVF_FLAG \in Bits(cpu'.flags) \ Bits(cpu.flags)) =>
       \/ cpu.nextState = "x04"
       \/ cpu.nextState = "x1B" /\ f2 /\ Imm2 = ADD]_vars
=============================================================================
