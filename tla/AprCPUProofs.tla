---------------------------- MODULE AprCPUProofs ----------------------------
(***************************************************************************)
(* Theorems about the processor, for every program, every reply of the     *)
(* ports and every bound of the counts.                                    *)
(***************************************************************************)
EXTENDS AprCPU, TLAPS

-----------------------------------------------------------------------------
(* Words and memory *)

\* Whatever bits are set, they make a byte.
LEMMA FromBitsByte == ASSUME NEW S PROVE FromBits(S) \in Byte
  BY DEF FromBits, Byte

\* The logical operations on bytes yield bytes (cpu.c:188-212, 369-377).
LEMMA BitOpsByte ==
  ASSUME NEW x, NEW y
  PROVE  BitAnd(x, y) \in Byte /\ BitOr(x, y) \in Byte /\ BitXor(x, y) \in Byte
  BY FromBitsByte DEF BitAnd, BitOr, BitXor

\* A word is made of two bytes ...
LEMMA WordBytes == ASSUME NEW w \in Word PROVE Low(w) \in Byte /\ High(w) \in Byte
<1>1. w \in Int /\ 0 <= w /\ w <= 65535
  BY DEF Word
<1>2. w % 256 \in 0 .. 255
  BY <1>1
<1>3. w \div 256 \in 0 .. 255
  BY <1>1
<1> QED
  BY <1>2, <1>3 DEF Low, High, Byte

\* ... and any two bytes make one.
LEMMA MkWordType == ASSUME NEW h \in Byte, NEW l \in Byte PROVE MkWord(h, l) \in Word
  BY DEF MkWord, Byte, Word

\* Reading any cell of a sparse memory gives a byte.
LEMMA LoadByte == ASSUME Sparse(memory), NEW a PROVE Load(a) \in Byte
  BY DEF Sparse, Load, Byte

\* Laying one sparse memory over another gives a sparse memory.
LEMMA OverlaySparse ==
  ASSUME NEW f, Sparse(f), NEW m, Sparse(m) PROVE Sparse(Overlay(f, m))
  BY DEF Sparse, Overlay

\* A byte stored at an address leaves memory sparse.
LEMMA StoreSparse ==
  ASSUME Sparse(memory), NEW a \in Word, NEW v \in Byte PROVE Sparse(Store(a, v))
<1>1. Sparse([x \in {a} |-> v])
  BY DEF Sparse
<1> QED
  BY <1>1, OverlaySparse DEF Store

-----------------------------------------------------------------------------
(* Registers *)

\* The flags computed for any byte fit the flags register.
LEMMA SetflagsByte ==
  ASSUME cpu \in Registers, NEW v \in Byte, NEW ovf
  PROVE  setflags(v, ovf) \in Byte
<1> DEFINE sign == CASE v >= 128 -> NEG_FLAG [] v \in 1 .. 127 -> POS_FLAG [] OTHER -> ZER_FLAG
<1> DEFINE carry == IF ovf # 0 THEN OVF_FLAG ELSE 0
<1>1. cpu.flags \in Byte
  BY DEF Registers
<1>2. cpu.flags \div 16 \in 0 .. 15
  <2>1. cpu.flags \in Int /\ 0 <= cpu.flags /\ cpu.flags <= 255
    BY <1>1 DEF Byte
  <2> QED
    BY <2>1
<1>3. sign \in {1, 2, 4}
  BY DEF Byte, NEG_FLAG, POS_FLAG, ZER_FLAG
<1>4. carry \in {0, 8}
  BY DEF OVF_FLAG
<1>5. setflags(v, ovf) = 16 * (cpu.flags \div 16) + sign + carry
  BY DEF setflags
<1> HIDE DEF sign, carry
<1> QED
  BY <1>2, <1>3, <1>4, <1>5 DEF Byte

\* Putting a byte in the selected accumulator, with or without the flags,
\* keeps every register in range and nextState where it was.
LEMMA ResultRegisters ==
  ASSUME cpu \in Registers, NEW v \in Byte, NEW ovf \in {0, 256}
  PROVE  /\ WithAcc(v) \in Registers
         /\ WithResult(v, ovf) \in Registers
         /\ WithResult(v, ovf).imm3 = cpu.imm3
<1>1. setflags(v, ovf) \in Byte
  BY SetflagsByte
<1> QED
  BY <1>1 DEF WithAcc, WithResult, Registers, ACCUMULATOR_COUNT

\* What the operands of the microprogram are.
LEMMA OperandTypes ==
  ASSUME cpu \in Registers
  PROVE  /\ Acc \in Byte /\ Imm4 \in 0 .. 15 /\ Imm2 \in 0 .. 3
         /\ cpu.mdr \in Byte /\ cpu.ia \in Byte /\ cpu.pc \in Word /\ cpu.mar \in Word
         /\ cpu.ir \in Word /\ cpu.stackpt \in Byte /\ cpu.imm3 \in -1 .. 7
<1>1. /\ cpu.mdr \in Byte /\ cpu.ia \in Byte /\ cpu.pc \in Word /\ cpu.mar \in Word
      /\ cpu.ir \in Word /\ cpu.stackpt \in Byte /\ cpu.imm3 \in -1 .. 7
  BY DEF Registers
<1>2. Acc \in Byte
  BY DEF Registers, Acc, ACCUMULATOR_COUNT
<1>3. cpu.ir % 16 \in 0 .. 15 /\ cpu.ir % 4 \in 0 .. 3
  <2>1. \A w \in Word : w % 16 \in 0 .. 15 /\ w % 4 \in 0 .. 3
    BY DEF Word
  <2> QED
    BY <1>1, <2>1
<1> QED
  BY <1>1, <1>2, <1>3 DEF Imm4, Imm2

\* The carry of a sum or a shift of bytes is 0 or 0x100.
LEMMA CarryType == ASSUME NEW x \in Nat PROVE Carry(x) \in {0, 256}
  BY DEF Carry

-----------------------------------------------------------------------------
(* Type correctness *)

\* A step of the microprogram that only changes registers keeps the types when
\* the registers it leaves are in range.
LEMMA MicroTypes ==
  ASSUME NEW s, NEW r \in Registers, NEW t \in States, Sparse(memory), Micro(s, r, t)
  PROVE  cpu' \in Registers /\ Sparse(memory')
<1>1. cpu' = [r EXCEPT !.nextState = t] /\ memory' = memory
  BY DEF Micro
<1>2. [r EXCEPT !.nextState = t] \in Registers
  BY DEF Registers
<1> QED
  BY <1>1, <1>2

\* Going on to the next function alone changes nothing else.
LEMMA GoOnTypes ==
  ASSUME cpu \in Registers, NEW t \in States PROVE [cpu EXCEPT !.nextState = t] \in Registers
  BY DEF Registers

\* Reduction to the width of a register.
LEMMA Modulo == \A x \in Int : x % 65536 \in Word /\ x % 256 \in Byte
<1>1. \A x \in Int : x % 65536 \in Word
  BY DEF Word
<1>2. \A x \in Int : x % 256 \in Byte
  BY DEF Byte
<1> QED
  BY <1>1, <1>2

\* Words and bytes are numbers.
LEMMA WordsAreNumbers == Word \subseteq Nat /\ Byte \subseteq Nat
<1>1. Word \subseteq Nat
  BY DEF Word
<1>2. Byte \subseteq Nat
  BY DEF Byte
<1> QED
  BY <1>1, <1>2

\* Addresses stay words.
LEMMA Next16Word == ASSUME NEW w \in Word PROVE Next16(w) \in Word
<1>1. w + 1 \in Int
  BY WordsAreNumbers
<1> QED
  BY <1>1, Modulo DEF Next16

LEMMA OffsetWord == ASSUME NEW w \in Word, NEW b \in Byte PROVE (w + b) % 65536 \in Word
<1>1. w + b \in Int
  BY WordsAreNumbers
<1> QED
  BY <1>1, Modulo

\* A byte is a word with a zero high byte.
LEMMA ByteWord == ASSUME NEW b \in Byte PROVE b \in Word
  BY DEF Byte, Word

\* The sum of two bytes: the byte that is kept and the carry.
LEMMA ByteSum ==
  ASSUME NEW b \in Byte, NEW d \in Byte
  PROVE  (b + d) % 256 \in Byte /\ Carry(b + d) \in {0, 256}
<1>1. b + d \in Nat /\ b + d \in Int
  BY WordsAreNumbers
<1> QED
  BY <1>1, Modulo, CarryType

\* A byte shifted left, and the stack pointer moved up and down.
LEMMA ByteSteps ==
  ASSUME NEW b \in Byte
  PROVE  /\ (2 * b) % 256 \in Byte /\ Carry(2 * b) \in {0, 256}
         /\ (b + 1) % 256 \in Byte /\ (b + 255) % 256 \in Byte
<1>1. 2 * b \in Nat /\ b + 1 \in Int /\ b + 255 \in Int /\ 2 * b \in Int
  BY WordsAreNumbers
<1> QED
  BY <1>1, Modulo, CarryType

\* The complement of a byte, and the address of a cell of the stack.
LEMMA ByteOffsets == ASSUME NEW b \in Byte PROVE BitNot(b) \in Byte /\ stackmem + b \in Word
<1>1. BitNot(b) \in Byte
  BY DEF Byte, BitNot
<1>2. stackmem + b \in Word
  BY DEF Byte, Word, stackmem
<1> QED
  BY <1>1, <1>2

\* Halving a byte gives a byte.
LEMMA Half == ASSUME NEW b \in Byte PROVE b \div 2 \in Byte
<1>1. b \in Int /\ 0 <= b /\ b <= 255
  BY DEF Byte
<1>2. b \div 2 \in 0 .. 255
  BY <1>1
<1> QED
  BY <1>2 DEF Byte

\* The four bits of an instruction that name a number or a register.
LEMMA NibbleByte == ASSUME NEW n \in 0 .. 15 PROVE n \in Byte
  BY DEF Byte

\* A result in the accumulator, then the next fetch.
LEMMA ResultStep ==
  ASSUME cpu \in Registers, Sparse(memory), NEW s, NEW v \in Byte, NEW ovf \in {0, 256},
         Micro(s, WithResult(v, ovf), "x00") \/ Micro(s, WithAcc(v), "x00")
  PROVE  cpu' \in Registers /\ Sparse(memory')
<1>1. "x00" \in States
  BY DEF States
<1> QED
  BY <1>1, ResultRegisters, MicroTypes

\* ADD, NOT and the logical operations keep the types (cpu.c:175-215).
LEMMA AluTypes ==
  ASSUME cpu \in Registers, Sparse(memory), x04 \/ x05 \/ x06 \/ x07 \/ x08
  PROVE  cpu' \in Registers /\ Sparse(memory')
<1>1. Acc \in Byte /\ Imm4 \in Byte
  BY OperandTypes, NibbleByte
<1>2. CASE x04
  <2>1. (Acc + Imm4) % 256 \in Byte /\ Carry(Acc + Imm4) \in {0, 256}
    BY <1>1, ByteSum
  <2> QED
    BY <1>2, <2>1, ResultStep DEF x04
<1>3. CASE x05
  BY <1>1, <1>3, ByteOffsets, ResultStep DEF x05
<1>4. CASE x06
  BY <1>4, BitOpsByte, ResultStep DEF x06
<1>5. CASE x07
  BY <1>5, BitOpsByte, ResultStep DEF x07
<1>6. CASE x08
  BY <1>6, BitOpsByte, ResultStep DEF x08
<1> QED
  BY <1>2, <1>3, <1>4, <1>5, <1>6

\* The fetch of one or two bytes and the dispatch (cpu.c:76-96, 112-173, 451-463).
LEMMA FetchTypes ==
  ASSUME cpu \in Registers, Sparse(memory), x00 \/ x01 \/ x03 \/ x23 \/ x24
  PROVE  cpu' \in Registers /\ Sparse(memory')
<1>1. /\ cpu.pc \in Word /\ cpu.ir \in Word /\ cpu.mdr \in Byte
  BY OperandTypes
<1>2. {"x01", "x03", "x23", "x24"} \subseteq States
  BY DEF States
<1>3. Load(cpu.pc) \in Byte
  BY LoadByte
<1>4. ASSUME NEW b \in Byte PROVE [cpu EXCEPT !.mdr = b] \in Registers
  BY DEF Registers
<1>5. CASE x00
  BY <1>2, <1>3, <1>4, <1>5, MicroTypes DEF x00
<1>6. CASE x01
  <2>1. Next16(cpu.pc) \in Word /\ cpu.mdr \in Word
    BY <1>1, Next16Word, ByteWord
  <2>2. [cpu EXCEPT !.pc = Next16(@), !.ir = cpu.mdr] \in Registers
    BY <2>1 DEF Registers
  <2> QED
    BY <1>2, <1>6, <2>2, MicroTypes DEF x01
<1>7. CASE x03
  <2>1. High(cpu.ir) \in Byte
    BY <1>1, WordBytes
  <2>2. cpu.ir % 8 \in -1 .. 7
    <3>1. \A w \in Word : w % 8 \in -1 .. 7
      BY DEF Word
    <3> QED
      BY <1>1, <3>1
  <2>3. [cpu EXCEPT !.ia = High(cpu.ir), !.imm3 = cpu.ir % 8] \in Registers
    BY <2>1, <2>2 DEF Registers
  <2>4. Dispatch(Opcode(cpu.ir)) \in States
    BY DEF Dispatch, States
  <2> QED
    BY <1>7, <2>3, <2>4, MicroTypes DEF x03
<1>8. CASE x23
  BY <1>2, <1>3, <1>4, <1>8, MicroTypes DEF x23
<1>9. CASE x24
  <2>1. Next16(cpu.pc) \in Word /\ MkWord(cpu.mdr, Low(cpu.ir)) \in Word
    BY <1>1, Next16Word, WordBytes, MkWordType
  <2>2. [cpu EXCEPT !.ir = MkWord(cpu.mdr, Low(@)), !.pc = Next16(@)] \in Registers
    BY <2>1 DEF Registers
  <2> QED
    BY <1>2, <1>9, <2>2, MicroTypes DEF x24
<1> QED
  BY <1>5, <1>6, <1>7, <1>8, <1>9

\* A shift by one place, and the count of the places to go (cpu.c:222-237).
LEMMA ShiftTypes ==
  ASSUME cpu \in Registers, Sparse(memory), x09, cpu.nextState = "x09" => cpu.imm3 \in 0 .. 7
  PROVE  cpu' \in Registers /\ Sparse(memory')
<1>1. Acc \div 2 \in Byte /\ (2 * Acc) % 256 \in Byte /\ Carry(2 * Acc) \in {0, 256}
  BY OperandTypes, Half, ByteSteps
<1>2. ShiftedOnce \in Registers /\ ShiftedOnce.imm3 = cpu.imm3
  BY <1>1, ResultRegisters DEF ShiftedOnce
<1>3. cpu.nextState = "x09" /\ cpu.imm3 - 1 \in -1 .. 7
  BY DEF x09, Micro
<1>4. [ShiftedOnce EXCEPT !.imm3 = @ - 1] \in Registers
  BY <1>2, <1>3 DEF Registers
<1>5. {"x00", "x09"} \subseteq States
  BY DEF States
<1> QED
  BY <1>4, <1>5, MicroTypes DEF x09

\* Loads, and the byte of mar an LD may read (cpu.c:239-283, 467-474).
LEMMA LoadTypes ==
  ASSUME cpu \in Registers, Sparse(memory), x0A \/ x0B \/ x0D \/ x0E \/ x0F \/ x25
  PROVE  cpu' \in Registers /\ Sparse(memory')
<1>1. cpu.mdr \in Byte /\ cpu.mar \in Word /\ cpu.pc \in Word /\ cpu.ia \in Byte
  BY OperandTypes
<1>2. {"x0B", "x0E", "x0F", "x25"} \subseteq States
  BY DEF States
<1>3. Load(cpu.mar) \in Byte
  BY LoadByte
<1>4. ASSUME NEW b \in Byte PROVE [cpu EXCEPT !.mdr = b] \in Registers
  BY DEF Registers
<1>5. ASSUME NEW w \in Word PROVE [cpu EXCEPT !.mar = w] \in Registers
  BY DEF Registers
<1>6. CASE x0A
  BY <1>2, <1>3, <1>4, <1>6, MicroTypes DEF x0A
<1>7. CASE x0B
  BY <1>1, <1>7, ResultStep DEF x0B
<1>8. CASE x0D
  BY <1>1, <1>2, <1>5, <1>8, MicroTypes DEF x0D
<1>9. CASE x0E
  <2>1. (cpu.mar + cpu.ia) % 65536 \in Word
    BY <1>1, OffsetWord
  <2> QED
    BY <1>2, <1>5, <1>9, <2>1, MicroTypes DEF x0E
<1>10. CASE x0F
  BY <1>2, <1>3, <1>4, <1>10, MicroTypes DEF x0F
<1>11. CASE x25
  BY <1>1, <1>11, WordBytes, ResultStep DEF x25
<1> QED
  BY <1>6, <1>7, <1>8, <1>9, <1>10, <1>11

\* The memory address register after one of its bytes is replaced.
LEMMA MarByteWord ==
  ASSUME cpu \in Registers, NEW high, NEW b \in Byte PROVE MarByte(high, b) \in Word
<1>1. Low(cpu.mar) \in Byte /\ High(cpu.mar) \in Byte
  BY OperandTypes, WordBytes
<1> QED
  BY <1>1, MkWordType DEF MarByte

\* Stores, to memory and to a byte of mar (cpu.c:257-265, 285-317).
LEMMA StoreTypes ==
  ASSUME cpu \in Registers, Sparse(memory), x0C \/ x10 \/ x11 \/ x12 \/ x13 \/ x14
  PROVE  cpu' \in Registers /\ Sparse(memory')
<1>1. cpu.mdr \in Byte /\ cpu.mar \in Word /\ cpu.pc \in Word /\ cpu.ia \in Byte /\ Acc \in Byte
  BY OperandTypes
<1>2. {"x00", "x0C", "x11", "x13", "x14"} \subseteq States
  BY DEF States
<1>3. ASSUME NEW b \in Byte PROVE [cpu EXCEPT !.mdr = b] \in Registers
  BY DEF Registers
<1>4. ASSUME NEW w \in Word PROVE [cpu EXCEPT !.mar = w] \in Registers
  BY DEF Registers
<1>5. CASE x0C
  BY <1>1, <1>2, <1>4, <1>5, MarByteWord, MicroTypes DEF x0C
<1>6. CASE x10
  BY <1>1, <1>2, <1>3, <1>6, MicroTypes DEF x10
<1>7. CASE x11
  BY <1>1, <1>2, <1>7, GoOnTypes, StoreSparse DEF x11
<1>8. CASE x12
  BY <1>1, <1>2, <1>4, <1>8, MicroTypes DEF x12
<1>9. CASE x13
  <2>1. (cpu.mar + cpu.ia) % 65536 \in Word
    BY <1>1, OffsetWord
  <2> QED
    BY <1>2, <1>4, <1>9, <2>1, MicroTypes DEF x13
<1>10. CASE x14
  BY <1>1, <1>2, <1>3, <1>10, MicroTypes DEF x14
<1> QED
  BY <1>5, <1>6, <1>7, <1>8, <1>9, <1>10

\* The stack: push (cpu.c:319-345) ...
LEMMA PushTypes ==
  ASSUME cpu \in Registers, Sparse(memory), x15 \/ x16 \/ x17 \/ x18
  PROVE  cpu' \in Registers /\ Sparse(memory')
<1>1. cpu.mdr \in Byte /\ Acc \in Byte /\ cpu.stackpt \in Byte
  BY OperandTypes
<1>2. {"x00", "x16", "x17", "x18", "x19"} \subseteq States
  BY DEF States
<1>3. CASE x15
  BY <1>2, <1>3, MicroTypes DEF x15
<1>4. CASE x16
  BY <1>1, <1>2, <1>4, GoOnTypes, ByteOffsets, StoreSparse DEF x16
<1>5. CASE x17
  <2>1. (cpu.stackpt + 1) % 256 \in Byte
    BY <1>1, ByteSteps
  <2>2. [cpu EXCEPT !.stackpt = (@ + 1) % 256] \in Registers
    BY <2>1 DEF Registers
  <2> QED
    BY <1>2, <1>5, <2>2, MicroTypes DEF x17
<1>6. CASE x18
  <2>1. [cpu EXCEPT !.mdr = Acc] \in Registers
    BY <1>1 DEF Registers
  <2> QED
    BY <1>2, <1>6, <2>1, MicroTypes DEF x18
<1> QED
  BY <1>3, <1>4, <1>5, <1>6

\* ... and pop (cpu.c:347-385).
LEMMA PopTypes ==
  ASSUME cpu \in Registers, Sparse(memory), x19 \/ x1A \/ x1B
  PROVE  cpu' \in Registers /\ Sparse(memory')
<1>1. cpu.mdr \in Byte /\ Acc \in Byte /\ cpu.stackpt \in Byte /\ Imm2 \in 0 .. 3
  BY OperandTypes
<1>2. {"x00", "x1A", "x1B"} \subseteq States
  BY DEF States
<1>3. CASE x19
  <2>1. Load(stackmem + cpu.stackpt) \in Byte
    BY LoadByte
  <2>2. [cpu EXCEPT !.mdr = Load(stackmem + cpu.stackpt)] \in Registers
    BY <2>1 DEF Registers
  <2> QED
    BY <1>2, <1>3, <2>2, MicroTypes DEF x19
<1>4. CASE x1A
  <2>1. (cpu.stackpt + 255) % 256 \in Byte
    BY <1>1, ByteSteps
  <2>2. [cpu EXCEPT !.stackpt = (@ + 255) % 256] \in Registers
    BY <2>1 DEF Registers
  <2> QED
    BY <1>2, <1>4, <2>2, MicroTypes DEF x1A
<1>5. CASE x1B
  <2>1. (Acc + cpu.mdr) % 256 \in Byte /\ Carry(Acc + cpu.mdr) \in {0, 256}
    BY <1>1, ByteSum
  <2>2. Imm2 \in {ADD, AND, OR, XOR}
    BY <1>1 DEF ADD, AND, OR, XOR
  <2>3. PICK v \in Byte, ovf \in {0, 256} : Popped = WithResult(v, ovf)
    BY <1>1, <2>1, <2>2, BitOpsByte DEF Popped, ADD, AND, OR, XOR
  <2> QED
    BY <1>5, <2>3, ResultStep DEF x1B
<1> QED
  BY <1>3, <1>4, <1>5

\* Branch, select, load address and the reserved opcode (cpu.c:409-420,
\* 442-448, 476-497).
LEMMA ControlTypes ==
  ASSUME cpu \in Registers, Sparse(memory), x1F \/ x22 \/ x26 \/ exception
  PROVE  cpu' \in Registers /\ Sparse(memory')
<1>1. cpu.pc \in Word /\ cpu.mar \in Word /\ cpu.ia \in Byte /\ Imm4 \in 0 .. 15
  BY OperandTypes
<1>2. "x00" \in States
  BY DEF States
<1>3. CASE x1F
  <2>1. Target \in Word
    BY <1>1, WordBytes, MkWordType DEF Target
  <2>2. [cpu EXCEPT !.pc = IF Taken THEN Target ELSE @] \in Registers
    BY <1>1, <2>1 DEF Registers
  <2> QED
    BY <1>2, <1>3, <2>2, MicroTypes DEF x1F
<1>4. CASE x22
  <2>1. cpu.accumulator[Imm4] \in Byte
    BY <1>1 DEF Registers, ACCUMULATOR_COUNT
  <2>2. setflags(cpu.accumulator[Imm4], 0) \in Byte
    BY <2>1, SetflagsByte
  <2>3. [cpu EXCEPT !.amux = Imm4, !.overflow = 0,
                    !.flags = setflags(cpu.accumulator[Imm4], 0)] \in Registers
    BY <1>1, <2>2 DEF Registers
  <2> QED
    BY <1>2, <1>4, <2>3, MicroTypes DEF x22
<1>5. CASE x26
  <2>1. WithAcc(cpu.ia) \in Registers
    BY <1>1, ResultRegisters
  <2>2. [cpu EXCEPT !.mar = MarByte(f1, cpu.ia)] \in Registers
    BY <1>1, MarByteWord DEF Registers
  <2> QED
    BY <1>2, <1>5, <2>1, <2>2, MicroTypes DEF x26
<1>6. CASE exception
  BY <1>2, <1>6, MicroTypes DEF exception
<1> QED
  BY <1>3, <1>4, <1>5, <1>6

\* The port instruction keeps the types, whatever byte portIO delivers and
\* whatever it leaves in memory (cpu.c:422-433).
LEMMA PortStepTypes ==
  ASSUME cpu \in Registers, NEW v \in Byte, NEW m, Sparse(m), x20(v, m)
  PROVE  cpu' \in Registers /\ Sparse(memory')
<1>1. WithResult(v, 0) \in Registers
  BY ResultRegisters
<1>2. "x00" \in States
  BY DEF States
<1>3. ASSUME NEW r \in Registers PROVE [r EXCEPT !.nextState = "x00"] \in Registers
  BY <1>2 DEF Registers
<1> QED
  BY <1>1, <1>3 DEF x20

\* portIO as the processor knows it delivers bytes.
LEMMA PortTypes ==
  ASSUME cpu \in Registers, Sparse(memory), portIO PROVE cpu' \in Registers /\ Sparse(memory')
<1>1. Acc \in Byte /\ cpu.stackpt \in Byte
  BY OperandTypes
<1>2. cpu.flags \in Byte
  BY DEF Registers
<1>3. 0 \in Byte /\ 1 \in Byte /\ 10 \in Byte
  BY DEF Byte
<1>4. CASE \E v \in PortReads(cpu.imm3) : x20(v, memory)
  <2>1. PortReads(cpu.imm3) \subseteq Byte
    BY <1>1, <1>2, <1>3, RepliesAssumption DEF PortReads
  <2> QED
    BY <1>4, <2>1, PortStepTypes
<1>5. CASE x20(Acc, memory)
  BY <1>1, <1>5, PortStepTypes
<1>6. CASE \E s \in SectorImages : x20(Acc, Overlay(s, memory))
  <2>1. \A s \in SectorImages : Sparse(Overlay(s, memory))
    BY SectorAssumption, OverlaySparse
  <2> QED
    BY <1>1, <1>6, <2>1, PortStepTypes
<1> QED
  BY <1>4, <1>5, <1>6 DEF portIO

\* x09 is only run with a count that x03 or x09 has left: the wrap of imm3 to
\* -1 happens when the shift is over.
ShiftCount == cpu.nextState = "x09" => cpu.imm3 \in 0 .. 7

\* A second byte is only fetched for the operations that have one.
OperandFetch == cpu.nextState \in {"x23", "x24"} => Opcode(cpu.ir) \in HasOperand

\* The processor's part of the inductive invariant
CPUInv == cpu \in Registers /\ Sparse(memory) /\ ShiftCount /\ OperandFetch

\* Every function of the microprogram but the port one keeps the types.
LEMMA MicrocodeTypes ==
  ASSUME cpu \in Registers, Sparse(memory), ShiftCount, Microcode
  PROVE  cpu' \in Registers /\ Sparse(memory')
<1>1. CASE x00 \/ x01 \/ x03 \/ x23 \/ x24
  BY <1>1, FetchTypes
<1>2. CASE x04 \/ x05 \/ x06 \/ x07 \/ x08
  BY <1>2, AluTypes
<1>3. CASE x09
  BY <1>3, ShiftTypes DEF ShiftCount
<1>4. CASE x0A \/ x0B \/ x0D \/ x0E \/ x0F \/ x25
  BY <1>4, LoadTypes
<1>5. CASE x0C \/ x10 \/ x11 \/ x12 \/ x13 \/ x14
  BY <1>5, StoreTypes
<1>6. CASE x15 \/ x16 \/ x17 \/ x18
  BY <1>6, PushTypes
<1>7. CASE x19 \/ x1A \/ x1B
  BY <1>7, PopTypes
<1>8. CASE x1F \/ x22 \/ x26 \/ exception
  BY <1>8, ControlTypes
<1> QED
  BY <1>1, <1>2, <1>3, <1>4, <1>5, <1>6, <1>7, <1>8 DEF Microcode

\* ... and so does the port function, hence every cycle.
LEMMA CycleTypes ==
  ASSUME CPUInv, Microcode \/ portIO
  PROVE  cpu' \in Registers /\ Sparse(memory')
  BY MicrocodeTypes, PortTypes DEF CPUInv

-----------------------------------------------------------------------------
(* The order of the functions *)

\* Which function ran and which is next.
LEMMA MicroNext ==
  ASSUME cpu' \in Registers, NEW s, NEW r, NEW t, Micro(s, r, t)
  PROVE  cpu.nextState = s /\ cpu'.nextState = t
<1>1. "nextState" \in DOMAIN cpu'
  BY DEF Registers
<1>2. cpu' = [r EXCEPT !.nextState = t]
  BY DEF Micro
<1> QED
  BY <1>1, <1>2 DEF Micro

LastStates == {"x04", "x05", "x06", "x07", "x08", "x0B", "x0C", "x11", "x16", "x1B",
               "x1F", "x20", "x22", "x25", "x26", "exception"}

\* The functions that end an instruction.
LEMMA LastStep ==
  ASSUME cpu \in Registers, cpu' \in Registers,
         \/ x04 \/ x05 \/ x06 \/ x07 \/ x08 \/ x0B \/ x0C \/ x11 \/ x16
         \/ x1B \/ x1F \/ x22 \/ x25 \/ x26 \/ exception \/ portIO
  PROVE  cpu.nextState \in LastStates /\ cpu'.nextState = "x00"
<1>1. CASE x04 \/ x05 \/ x06 \/ x07 \/ x08 \/ x0B \/ x0C
  BY <1>1, MicroNext DEF x04, x05, x06, x07, x08, x0B, x0C, LastStates
<1>2. CASE x1B \/ x1F \/ x22 \/ x25 \/ x26 \/ exception
  BY <1>2, MicroNext DEF x1B, x1F, x22, x25, x26, exception, LastStates
<1>3. CASE x11 \/ x16
  BY <1>3 DEF x11, x16, LastStates, Registers
<1>4. CASE portIO
  <2>1. PICK v, m : x20(v, m)
    BY <1>4 DEF portIO
  <2>2. "nextState" \in DOMAIN cpu'
    BY DEF Registers
  <2> QED
    BY <2>1, <2>2 DEF x20, LastStates
<1> QED
  BY <1>1, <1>2, <1>3, <1>4

\* The steps from one function of an operation to its next.
LEMMA InnerStep ==
  ASSUME cpu' \in Registers,
         \/ x00 \/ x0A \/ x0D \/ x0E \/ x0F \/ x10 \/ x12 \/ x13 \/ x14 \/ x15
         \/ x17 \/ x18 \/ x19 \/ x1A \/ x23
  PROVE  <<cpu.nextState, cpu'.nextState>> \in
           {<<"x00", "x01">>, <<"x0A", "x25">>, <<"x0A", "x0B">>, <<"x0D", "x0E">>,
            <<"x0E", "x0F">>, <<"x0F", "x0B">>, <<"x10", "x0C">>, <<"x10", "x11">>,
            <<"x12", "x13">>, <<"x13", "x14">>, <<"x14", "x11">>, <<"x15", "x19">>,
            <<"x15", "x17">>, <<"x17", "x18">>, <<"x18", "x16">>, <<"x19", "x1A">>,
            <<"x1A", "x1B">>, <<"x23", "x24">>}
<1>1. CASE x00 \/ x0A \/ x0D \/ x0E \/ x0F
  BY <1>1, MicroNext DEF x00, x0A, x0D, x0E, x0F
<1>2. CASE x10 \/ x12 \/ x13 \/ x14
  BY <1>2, MicroNext DEF x10, x12, x13, x14
<1>3. CASE x15 \/ x17 \/ x18 \/ x19 \/ x1A \/ x23
  BY <1>3, MicroNext DEF x15, x17, x18, x19, x1A, x23
<1> QED
  BY <1>1, <1>2, <1>3

\* The steps that depend on the instruction: the fetch of the opcode ...
LEMMA OpcodeStep ==
  ASSUME cpu \in Registers, x01
  PROVE  /\ cpu.nextState = "x01" /\ cpu'.ir \in Byte
         /\ \/ cpu'.nextState = "x23" /\ Opcode(cpu'.ir) \in HasOperand
            \/ cpu'.nextState = "x03"
<1>1. cpu.mdr \in Byte
  BY OperandTypes
<1>2. /\ cpu.nextState = "x01" /\ cpu'.ir = cpu.mdr
      /\ cpu'.nextState = IF Opcode(cpu.mdr) \in HasOperand THEN "x23" ELSE "x03"
  BY DEF x01, Micro, Registers
<1> QED
  BY <1>1, <1>2

\* ... the fetch of its second byte, which does not change the operation ...
LEMMA OperandStep ==
  ASSUME cpu \in Registers, x24
  PROVE  /\ cpu.nextState = "x24" /\ cpu'.nextState = "x03"
         /\ Opcode(cpu'.ir) = Opcode(cpu.ir)
<1>1. cpu.mdr \in Byte /\ Low(cpu.ir) \in Byte
  BY OperandTypes, WordBytes
<1>2. /\ cpu.nextState = "x24" /\ cpu'.nextState = "x03"
      /\ cpu'.ir = MkWord(cpu.mdr, Low(cpu.ir))
  BY DEF x24, Micro, Registers
<1>3. ASSUME NEW h \in Byte, NEW l \in Byte PROVE (256 * h + l) % 256 = l
  BY DEF Byte
<1>4. Low(cpu'.ir) = Low(cpu.ir)
  BY <1>1, <1>2, <1>3 DEF Low, MkWord
<1> QED
  BY <1>2, <1>4 DEF Opcode

\* ... the dispatch ...
LEMMA DispatchStep ==
  ASSUME cpu \in Registers, x03
  PROVE  /\ cpu.nextState = "x03" /\ cpu'.imm3 = cpu.ir % 8
         /\ cpu'.nextState = Dispatch(Opcode(cpu.ir))
  BY DEF x03, Micro, Registers

\* ... and a shift by one place.
LEMMA ShiftStep ==
  ASSUME cpu \in Registers, x09
  PROVE  /\ cpu.nextState = "x09" /\ cpu'.imm3 = cpu.imm3 - 1
         /\ cpu'.nextState = IF cpu.imm3 # 0 THEN "x09" ELSE "x00"
<1>1. Acc \div 2 \in Byte /\ (2 * Acc) % 256 \in Byte /\ Carry(2 * Acc) \in {0, 256}
  BY OperandTypes, Half, ByteSteps
<1>2. ShiftedOnce \in Registers /\ ShiftedOnce.imm3 = cpu.imm3
  BY <1>1, ResultRegisters DEF ShiftedOnce
<1>3. "imm3" \in DOMAIN ShiftedOnce /\ "nextState" \in DOMAIN ShiftedOnce
  BY <1>2 DEF Registers
<1> QED
  BY <1>2, <1>3 DEF x09, Micro

\* Only SHF is sent to x09, and no operation to the fetch.
LEMMA DispatchTargets ==
  ASSUME NEW op
  PROVE  IF op = SHF
           THEN Dispatch(op) = "x09"
           ELSE Dispatch(op) \in LastStates \cup {"x0A", "x0D", "x10", "x12", "x15"}
<1>1. CASE op = SHF
  BY <1>1 DEF Dispatch, ADD, AND, OR, XOR, NOT, SHF, LD, LDI, ST, STI, STK, LA, BR,
                  PRT, ASET
<1>2. CASE op # SHF
  BY <1>2 DEF Dispatch, LastStates
<1> QED
  BY <1>1, <1>2

-----------------------------------------------------------------------------
(* The inductive invariant *)

\* Every cycle keeps the registers in range, the shift count in 0 .. 7 while a
\* shift is going on, and a second byte only for the operations that have one.
LEMMA CycleInv == ASSUME CPUInv, Microcode \/ portIO PROVE CPUInv'
<1>1. cpu \in Registers /\ cpu' \in Registers /\ Sparse(memory')
  BY CycleTypes DEF CPUInv
<1>2. SUFFICES ShiftCount' /\ OperandFetch'
  BY <1>1 DEF CPUInv
<1>3. CASE x01
  BY <1>1, <1>3, OpcodeStep DEF ShiftCount, OperandFetch
<1>4. CASE x03
  <2>1. cpu'.imm3 = cpu.ir % 8 /\ cpu'.nextState \notin {"x23", "x24"}
    BY <1>1, <1>4, DispatchStep, DispatchTargets DEF LastStates
  <2>2. cpu.ir \in Word
    BY <1>1, OperandTypes
  <2>3. \A w \in Word : w % 8 \in 0 .. 7
    BY DEF Word
  <2> QED
    BY <2>1, <2>2, <2>3 DEF ShiftCount, OperandFetch
<1>5. CASE x09
  <2>1. /\ cpu.nextState = "x09" /\ cpu'.imm3 = cpu.imm3 - 1
        /\ cpu'.nextState = IF cpu.imm3 # 0 THEN "x09" ELSE "x00"
    BY <1>1, <1>5, ShiftStep
  <2>2. cpu.imm3 \in 0 .. 7
    BY <2>1 DEF CPUInv, ShiftCount
  <2> QED
    BY <2>1, <2>2 DEF ShiftCount, OperandFetch
<1>6. CASE x23
  <2>1. cpu'.ir = cpu.ir /\ cpu.nextState = "x23" /\ cpu'.nextState = "x24"
    BY <1>1, <1>6 DEF x23, Micro, Registers
  <2> QED
    BY <2>1 DEF CPUInv, ShiftCount, OperandFetch
<1>7. CASE x24
  BY <1>1, <1>7, OperandStep DEF ShiftCount, OperandFetch
<1>8. CASE \/ x00 \/ x0A \/ x0D \/ x0E \/ x0F \/ x10 \/ x12 \/ x13 \/ x14 \/ x15
           \/ x17 \/ x18 \/ x19 \/ x1A
  <2>1. cpu'.nextState \notin {"x09", "x23", "x24"}
    BY <1>1, <1>8, MicroNext DEF x00, x0A, x0D, x0E, x0F, x10, x12, x13, x14, x15,
                                 x17, x18, x19, x1A
  <2> QED
    BY <2>1 DEF ShiftCount, OperandFetch
<1>9. CASE \/ x04 \/ x05 \/ x06 \/ x07 \/ x08 \/ x0B \/ x0C \/ x11 \/ x16
           \/ x1B \/ x1F \/ x22 \/ x25 \/ x26 \/ exception \/ portIO
  BY <1>1, <1>9, LastStep DEF ShiftCount, OperandFetch
<1> QED
  BY <1>3, <1>4, <1>5, <1>6, <1>7, <1>8, <1>9 DEF Microcode

\* The processor starts in the invariant, and every step keeps it.
LEMMA CPUInvHolds ==
  /\ Init => CPUInv
  /\ CPUInv /\ [Next]_vars => CPUInv'
<1>1. Init => CPUInv
  <2>1. ResetRegisters \in Registers
    <3>1. /\ 0 \in Word /\ 0 \in Byte /\ 255 \in Byte /\ 0 \in 0 .. 15 /\ 0 \in -1 .. 7
          /\ "x00" \in States
      BY DEF Word, Byte, States
    <3> QED
      BY <3>1 DEF ResetRegisters, Registers
  <2>2. ResetRegisters.nextState = "x00"
    BY DEF ResetRegisters
  <2> QED
    BY <2>1, <2>2, ProgramsAssumption
       DEF Init, resetMachine, CPUInv, ShiftCount, OperandFetch
<1>2. CPUInv /\ Next => CPUInv'
  BY CycleInv DEF Next, cycle
<1>3. CPUInv /\ UNCHANGED vars => CPUInv'
  BY DEF vars, CPUInv, Sparse, ShiftCount, OperandFetch
<1> QED
  BY <1>1, <1>2, <1>3

\* The counts stay below 2 * COUNT_MANY (cpu.c:53-56).
LEMMA CountedRange ==
  ASSUME NEW n \in 0 .. 2 * COUNT_MANY - 1
  PROVE  Counted(n) \in 0 .. 2 * COUNT_MANY - 1
  BY CountManyAssumption DEF Counted

CountsOK == /\ cycleCount \in 0 .. 2 * COUNT_MANY - 1
            /\ instructionCount \in 0 .. 2 * COUNT_MANY - 1

LEMMA CountsStep == CountsOK /\ [Next]_vars => CountsOK'
<1>1. CASE UNCHANGED vars
  BY <1>1 DEF vars, CountsOK
<1>2. ASSUME CountsOK, Next PROVE CountsOK'
  BY <1>2, CountedRange DEF Next, cycle, CountCycle, CountsOK
<1> QED
  BY <1>1, <1>2

\* For every program, every reply of the ports and every COUNT_MANY: registers
\* keep their C widths, memory holds bytes, nextState is a function of the
\* microprogram, and neither count can overflow.
THEOREM TypeCorrect == Spec => []TypeOK
<1>1. Init => CountsOK
  BY CountManyAssumption DEF Init, resetMachine, CountsOK
<1>2. CPUInv /\ CountsOK => TypeOK
  BY DEF CPUInv, CountsOK, TypeOK
<1> QED
  BY <1>1, <1>2, CountsStep, CPUInvHolds, PTL DEF Spec

-----------------------------------------------------------------------------
(* Every instruction ends *)

\* The bound on the cycles to go is a positive number, 11 at most.
CyclesInRange == CyclesLeft \in 1 .. 11 /\ CyclesDone \in 0 .. 3

LEMMA CyclesLeftRange == CPUInv => CyclesInRange
<1> SUFFICES ASSUME CPUInv PROVE CyclesInRange
  OBVIOUS
<1> USE DEF CyclesInRange
<1>1. cpu.ir \in Word /\ cpu.imm3 \in -1 .. 7
  BY OperandTypes DEF CPUInv
<1>2. cpu.ir % 8 \in 0 .. 7
  <2>1. \A w \in Word : w % 8 \in 0 .. 7
    BY DEF Word
  <2> QED
    BY <1>1, <2>1
<1>3. CASE cpu.nextState = "x09"
  BY <1>3 DEF CPUInv, ShiftCount, CyclesLeft, CyclesDone
<1>4. CASE cpu.nextState = "x03"
  BY <1>2, <1>4 DEF CyclesLeft, CyclesDone
<1>5. CASE cpu.nextState \notin {"x03", "x09"}
  BY <1>5 DEF CyclesLeft, CyclesDone
<1> QED
  BY <1>3, <1>4, <1>5

LEMMA RangeAfter == CPUInv' => CyclesInRange'
  BY CyclesLeftRange, PTL

\* A cycle that does not end the instruction brings the end nearer, and the
\* last one comes after three others at least.
LEMMA CycleProgress ==
  ASSUME CPUInv, Microcode \/ portIO
  PROVE  \/ cpu'.nextState = "x00" /\ CyclesDone = 3
         \/ /\ cpu'.nextState # "x00"
            /\ CyclesLeft' < CyclesLeft
            /\ CyclesDone' <= CyclesDone + 1
<1>1. cpu \in Registers /\ cpu' \in Registers /\ CPUInv'
  BY CycleInv DEF CPUInv
<1>2. cpu.ir \in Word
  BY <1>1, OperandTypes
<1>3. \A w \in Word : w % 8 \in 0 .. 7
  BY DEF Word
<1>4. SHF \notin HasOperand
  BY DEF SHF, HasOperand, LDI, STI, LA, BR
<1>5. CASE x01
  <2>1. /\ cpu.nextState = "x01" /\ cpu'.ir \in Word
        /\ \/ cpu'.nextState = "x23"
           \/ cpu'.nextState = "x03"
    BY <1>1, <1>5, OpcodeStep, ByteWord
  <2>2. cpu'.ir % 8 \in 0 .. 7
    BY <1>3, <2>1
  <2>3. CASE cpu'.nextState = "x23"
    BY <2>1, <2>3 DEF CyclesLeft, CyclesDone
  <2>4. CASE cpu'.nextState = "x03"
    BY <2>1, <2>2, <2>4 DEF CyclesLeft, CyclesDone
  <2> QED
    BY <2>1, <2>3, <2>4
<1>6. CASE x24
  <2>1. /\ cpu.nextState = "x24" /\ cpu'.nextState = "x03"
        /\ Opcode(cpu'.ir) # SHF
    BY <1>1, <1>4, <1>6, OperandStep DEF CPUInv, OperandFetch
  <2> QED
    BY <2>1 DEF CyclesLeft, CyclesDone
<1>7. CASE x03
  <2>1. /\ cpu.nextState = "x03" /\ cpu'.imm3 = cpu.ir % 8
        /\ cpu'.nextState = Dispatch(Opcode(cpu.ir))
    BY <1>1, <1>7, DispatchStep
  <2>2. CASE Opcode(cpu.ir) = SHF
    <3>1. cpu'.nextState = "x09"
      BY <2>1, <2>2, DispatchTargets
    <3>2. cpu.ir % 8 \in 0 .. 7
      BY <1>2, <1>3
    <3> QED
      BY <2>1, <2>2, <3>1, <3>2 DEF CyclesLeft, CyclesDone
  <2>3. CASE Opcode(cpu.ir) # SHF
    <3>1. cpu'.nextState \in LastStates \cup {"x0A", "x0D", "x10", "x12", "x15"}
      BY <2>1, <2>3, DispatchTargets
    <3> QED
      BY <2>1, <2>3, <3>1 DEF CyclesLeft, CyclesDone, LastStates
  <2> QED
    BY <2>2, <2>3
<1>8. CASE x09
  <2>1. /\ cpu.nextState = "x09" /\ cpu'.imm3 = cpu.imm3 - 1 /\ cpu.imm3 \in 0 .. 7
        /\ cpu'.nextState = IF cpu.imm3 # 0 THEN "x09" ELSE "x00"
    BY <1>1, <1>8, ShiftStep DEF CPUInv, ShiftCount
  <2> QED
    BY <2>1 DEF CyclesLeft, CyclesDone
<1>9. CASE \/ x00 \/ x0A \/ x0D \/ x0E \/ x0F \/ x10 \/ x12 \/ x13 \/ x14 \/ x15
           \/ x17 \/ x18 \/ x19 \/ x1A \/ x23
  BY <1>1, <1>9, InnerStep DEF CyclesLeft, CyclesDone
<1>10. CASE \/ x04 \/ x05 \/ x06 \/ x07 \/ x08 \/ x0B \/ x0C \/ x11 \/ x16
            \/ x1B \/ x1F \/ x22 \/ x25 \/ x26 \/ exception \/ portIO
  <2>1. cpu.nextState \in LastStates /\ cpu'.nextState = "x00"
    BY <1>1, <1>10, LastStep
  <2> QED
    BY <2>1 DEF LastStates, CyclesDone
<1> QED
  BY <1>5, <1>6, <1>7, <1>8, <1>9, <1>10 DEF Microcode

\* Whatever bytes a program consists of, no instruction takes more than 11
\* cycles: the loops of sim.c that call cycle() until nextState is x00 return.
THEOREM EveryInstructionEnds == Spec => InstructionEnds
<1>1. CPUInv /\ Next => cpu'.nextState = "x00" \/ CyclesLeft' < CyclesLeft
  BY CycleProgress DEF Next, cycle
<1>2. CPUInv /\ [Next]_vars => [cpu'.nextState = "x00" \/ CyclesLeft' < CyclesLeft]_vars
  BY <1>1
<1> QED
  BY <1>2, CPUInvHolds, PTL DEF Spec, InstructionEnds

-----------------------------------------------------------------------------
(* The two counts *)

\* The budget is kept by a cycle: it is charged to the instruction that is
\* going on, and at x00 the next instruction opens with a full one.
LEMMA BudgetStep ==
  ASSUME CPUInv, CountsOK, CycleBudget, cycle
  PROVE  CycleBudget'
<1> DEFINE i == instructionCount
<1>1. CyclesLeft \in 1 .. 11 /\ CyclesDone \in 0 .. 3
  BY CyclesLeftRange DEF CyclesInRange
<1>2. CyclesLeft' \in 1 .. 11 /\ CyclesDone' \in 0 .. 3
  BY RangeAfter, CycleInv DEF cycle, CyclesInRange
<1>3. SUFFICES ASSUME cycleCount' < COUNT_MANY
               PROVE  /\ 4 * i' + CyclesDone' <= cycleCount'
                      /\ cycleCount' + CyclesLeft' <= 11 * (i' + 1)
  BY DEF CycleBudget
<1>4. cycleCount \in Nat /\ i \in Nat /\ COUNT_MANY \in Nat \ {0}
  BY CountManyAssumption DEF CountsOK
<1>5. cycleCount' = cycleCount + 1 /\ cycleCount < COUNT_MANY
  BY <1>3, <1>4 DEF cycle, CountCycle, Counted, CountsOK
<1>6. 4 * i + CyclesDone <= cycleCount /\ cycleCount + CyclesLeft <= 11 * (i + 1)
  BY <1>5 DEF CycleBudget
<1>7. CASE cpu'.nextState = "x00"
  <2>1. CyclesLeft' = 11 /\ CyclesDone' = 0
    BY <1>7 DEF CyclesLeft, CyclesDone
  <2>2. CyclesDone = 3
    BY <1>7, CycleProgress DEF cycle
  <2>3. i' = i + 1
    <3>1. i + 1 < 2 * COUNT_MANY
      BY <1>1, <1>4, <1>5, <1>6
    <3> QED
      BY <1>4, <1>7, <3>1 DEF cycle, CountCycle, Counted
  <2> QED
    BY <1>1, <1>4, <1>5, <1>6, <2>1, <2>2, <2>3
<1>8. CASE cpu'.nextState # "x00"
  <2>1. CyclesLeft' < CyclesLeft /\ CyclesDone' <= CyclesDone + 1
    BY <1>8, CycleProgress DEF cycle
  <2>2. i' = i
    BY <1>8 DEF cycle, CountCycle
  <2>3. ASSUME NEW n \in Nat, NEW k \in Nat, NEW l \in 1 .. 11, NEW l1 \in 1 .. 11,
               NEW d \in 0 .. 3, NEW d1 \in 0 .. 3, l1 < l, d1 <= d + 1,
               4 * k + d <= n, n + l <= 11 * (k + 1)
        PROVE  4 * k + d1 <= n + 1 /\ n + 1 + l1 <= 11 * (k + 1)
    BY <2>3
  <2> QED
    BY <1>1, <1>2, <1>4, <1>5, <1>6, <2>1, <2>2, <2>3
<1> QED
  BY <1>7, <1>8

\* While the cycle count is exact, the instructions it was spent on took 4 to
\* 11 cycles each, and the unfinished one is within its share.
THEOREM CountsAgree == Spec => []CycleBudget
<1>1. Init => CycleBudget /\ CountsOK
  BY CountManyAssumption
     DEF Init, resetMachine, ResetRegisters, CycleBudget, CyclesLeft, CyclesDone, CountsOK
<1>2. CPUInv /\ CountsOK /\ CycleBudget /\ [Next]_vars => CycleBudget'
  <2>1. CASE UNCHANGED vars
    BY <2>1 DEF vars, CycleBudget, CyclesLeft, CyclesDone
  <2> QED
    BY <2>1, BudgetStep DEF Next
<1>3. CountsOK /\ [Next]_vars => CountsOK'
  BY CountsStep
<1> QED
  BY <1>1, <1>2, <1>3, CPUInvHolds, PTL DEF Spec

\* A count that is no longer exact is never shown as one that is.
THEOREM ManyStaysMany == Spec => ManyForGood
<1> DEFINE Stays == /\ cycleCount >= COUNT_MANY => cycleCount' >= COUNT_MANY
                    /\ instructionCount >= COUNT_MANY => instructionCount' >= COUNT_MANY
<1>1. \A n \in 0 .. 2 * COUNT_MANY - 1 : n >= COUNT_MANY => Counted(n) >= COUNT_MANY
  BY CountManyAssumption DEF Counted
<1>2. CountsOK /\ [Next]_vars => [Stays]_vars
  BY <1>1 DEF CountsOK, Next, cycle, CountCycle
<1>3. Init => CountsOK
  BY CountManyAssumption DEF Init, resetMachine, CountsOK
<1> QED
  BY <1>2, <1>3, CountsStep, PTL DEF Spec, ManyForGood
=============================================================================
