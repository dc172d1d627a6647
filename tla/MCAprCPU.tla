------------------------------ MODULE MCAprCPU ------------------------------
(***************************************************************************)
(* Programs that bring the machine from reset to each of the 256 opcodes,  *)
(* at chosen addresses and with chosen contents of the registers.          *)
(***************************************************************************)
EXTENDS AprDisasm, TLC

\* LAh, LAl: mar = target.  ASET 3; LARl v; ADD n.  BRnzp to mar.
Setup(target, v, n) ==
  0 :> 184 @@ 1 :> High(target) @@ 2 :> 176 @@ 3 :> Low(target) @@ 4 :> 227
    @@ 5 :> 180 @@ 6 :> v @@ 7 :> n @@ 8 :> 206 @@ 9 :> 0

\* Bytes to be loaded or popped, different in neighbouring cells
Data(a) == (a % 65536) :> (250 - (a % 7))

Program(target, op, operand, vn) ==
  target :> op @@ Next16(target) :> operand @@ Setup(target, vn[1], vn[2])
    @@ Data(target + operand + 1) @@ Data(target + operand + 2)
    @@ Data(target + operand + 3) @@ Data(65535) @@ Data(65280)

OneByte == {op \in 0 .. 255 : op \div 16 \notin HasOperand}
Targets == {320, 510, 511, 65534, 65535}
\* <<v, n>> for ADD: zero, positive, negative, and zero with a carry
Values == {<<0, 0>>, <<1, 0>>, <<127, 1>>, <<255, 0>>, <<255, 1>>}

AllOpcodes ==
  {Program(t, op, 27, vn) : t \in Targets, op \in OneByte, vn \in Values}
    \cup {Program(t, op, o, vn) : t \in Targets, op \in (0 .. 255) \ OneByte,
                                  o \in {1, 254}, vn \in Values}

\* ADD 1; SHFr 1; BRnzp 0 and AND 0; SHFl 8; BRnzp 0: loops with short and long
\* instructions, for the two counts
Counting == {0 :> 1 @@ 1 :> 88 @@ 2 :> 207 @@ 3 :> 0, 0 :> 16 @@ 1 :> 87 @@ 2 :> 207 @@ 3 :> 0}

AllPrograms == AllOpcodes \cup Counting

\* JMP with its opcode in the last and the last but one byte of a page, and before
PageEndBranches == {Program(t, 207, 27, <<1, 0>>) : t \in {320, 509, 510, 511}}

\* AND 0; ADD 8; SHFl n: the shifts of 8, with n - 1 in the low bits
Shifts == {0 :> 16 @@ 1 :> 8 @@ 2 :> (80 + n) : n \in 0 .. 7}

NoneOrThreeBytes == {<<>>, [a \in 65024 .. 65026 |-> 77]}

\* Bound: the 6 instructions of the setup, the one under test, and the next.  The
\* loops of Counting, which are shorter than the setup, have no bound.
Instructions == 8
WithinBound == 9 \in DOMAIN memory => instructionCount < Instructions
=============================================================================
