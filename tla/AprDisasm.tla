----------------------------- MODULE AprDisasm -----------------------------
(***************************************************************************)
(* The disassembler (disassembler.c): the text the memory panel puts       *)
(* beside an address.                                                      *)
(*                                                                         *)
(* A text is the sequence of what is written: the mnemonic, then numbers.  *)
(* A number that getSymbolAtAddress writes comes with the address whose    *)
(* symbol is written after it: that stands for the symbol, as if every     *)
(* address had one of its own.  The empty sequence is the empty text.      *)
(* Hexadecimal or decimal, and the cut at 31 characters, are left out.     *)
(***************************************************************************)
EXTENDS AprCPURefinement, Sequences

HINT_INST == 1
HINT_IARG == 2
HINT_NDAT == 3
HINT_CDAT == 4

Number(value, address) == [value |-> value, symbolAt |-> address]

\* The addresses whose symbols are written.  That of LDI and STI is not cut to
\* 16 bits; that of an immediate branch, and of LAl, is in the opcode's page.
\* Wrong variant: the offset counts from the opcode.
OffsetNamedFromOpcode(address, nextData) == address + nextData
OffsetNamed(address, nextData) == address + nextData + 2
PageNamed(address, nextData) == MkWord(High(address), nextData)

Mnemonic == [op \in 0 .. 14 |->
  <<"ADD", "AND", "OR", "XOR", "NOT", "SHF", "LD", "LDI", "ST", "STI", "STK", "LA",
    "BR", "PRT", "ASET">>[op + 1]]

disassembleInstruction(address) ==
  LET data == Load(address)
      nextData == IF address < 65535 THEN Load(address + 1) ELSE 0
      op == data \div 16
      imm4 == data % 16
      imm3 == data % 8
      f(weight) == weight \in Bits(data)
      name == Mnemonic[op]
      page == Number(nextData, PageNamed(address, nextData))
      offset == Number(nextData, OffsetNamed(address, nextData))
      target == IF f(1) THEN <<page>> ELSE <<>>
  IN  CASE data = 0 \/ op = 15 -> <<>>
        [] data # 0 /\ op \in {ADD, AND, OR, XOR, ASET} -> <<name, imm4>>
        [] op = NOT -> <<name>>
        [] op = SHF -> <<name, IF f(8) THEN "r" ELSE "l", imm3 + 1>>
        [] op \in {LD, ST} ->
             IF f(8) THEN <<name, "a", IF f(4) THEN "h" ELSE "l">> ELSE <<name>>
        [] op \in {LDI, STI} -> <<name, offset>>
        [] op = STK ->
             <<IF f(8) THEN "SPOP" ELSE "SPUSH">>
               \o (IF f(4) THEN <<Mnemonic[data % 4]>> ELSE <<>>)
        [] op = LA ->
             <<IF f(4) THEN "LAR" ELSE "LA">>
               \o (IF f(8) THEN <<"h", nextData>> ELSE <<"l", page>>)
        [] op = BR ->
             (IF f(8) /\ f(4) /\ f(2) THEN <<"JMP">>
              ELSE <<"BR", {b \in {8, 4, 2} : f(b)}>>) \o target
        [] op = PRT -> <<name, IF f(8) THEN "out" ELSE "in", imm3>>

\* A byte as a number, or as a character when it prints or has an escape
disassembleData(address, numeric) ==
  LET v == Load(address)
  IN  IF numeric THEN <<"number", v>>
      ELSE IF v >= 32 \/ v \in {0, 9, 10, 13} THEN <<"character", v>> ELSE <<>>

disassembleAddress(address, hint) ==
  CASE hint = HINT_NDAT -> disassembleData(address, TRUE)
    [] hint = HINT_CDAT -> disassembleData(address, FALSE)
    [] hint = HINT_IARG -> <<>>
    [] hint \notin {HINT_NDAT, HINT_CDAT, HINT_IARG} -> disassembleInstruction(address)

-----------------------------------------------------------------------------
(* What a reader of the text takes the instruction for, as an action on    *)
(* `committed', in the terms of AprISA.  Nothing here looks at the code.   *)

Operation == [ADD |-> 0, AND |-> 1, OR |-> 2, XOR |-> 3]

r == committed.reg
acc == r.a[r.ar]

\* The registers become rs and the cells of f change, nothing else
Becomes(rs, f) == committed' = [reg |-> rs, mem |-> ISA!Put(f)]
NoCells == [a \in {} |-> 0]
After(length) == ISA!After(length)
Result(v, carry) == ISA!Result(1, v, carry)

\* Two bytes, arguments in the order they are written
MeansOfTwo(text) ==
  LET name == text[1]
      last == text[Len(text)]
      letters == IF name = "JMP" THEN {8, 4, 2} ELSE text[2]
      taken == \E b \in letters : b \div 2 \in Bits(r.fr)
      \* JMP and BR name a target or go to $mr
      named == Len(text) = (IF name = "JMP" THEN 2 ELSE 3)
      target == IF named THEN last.symbolAt ELSE r.mr
      value == IF text[2] = "h" THEN last ELSE last.value
  IN  CASE name = "LDI" ->
             LET v == ISA!Cell(last.symbolAt)
             IN  Becomes([After(2) EXCEPT !.mr = last.symbolAt, !.a[r.ar] = v,
                                          !.fr = ISA!Flag(v, FALSE)], NoCells)
        [] name = "STI" ->
             Becomes([After(2) EXCEPT !.mr = last.symbolAt], [a \in {last.symbolAt} |-> acc])
        [] name = "LA" ->
             Becomes([After(2) EXCEPT !.mr = ISA!Half(text[2] = "h", value)], NoCells)
        [] name = "LAR" -> Becomes([After(2) EXCEPT !.a[r.ar] = value], NoCells)
        [] name \in {"JMP", "BR"} ->
             Becomes(IF taken THEN [r EXCEPT !.ip = target] ELSE After(2), NoCells)

MeansOfOne(text) ==
  LET name == text[1]
      last == text[Len(text)]
      high == last = "h"
      pushed == (r.sp + 1) % 256
      top == ISA!Cell(MkWord(255, r.sp))
  IN  CASE name \in DOMAIN Operation ->
             Result(ISA!Combine(Operation[name], last), name = "ADD" /\ acc + last > 255)
        [] name = "NOT" -> Result(255 - acc, FALSE)
        [] name = "SHF" ->
             IF text[2] = "r" THEN Result(acc \div 2^last, FALSE)
             ELSE Result((acc * 2^last) % 256, (acc \div 2^(8 - last)) % 2 = 1)
        [] name = "LD" ->
             IF Len(text) = 1 THEN Result(ISA!Cell(r.mr), FALSE)
             ELSE Becomes([After(1) EXCEPT !.a[r.ar] = IF high THEN High(r.mr) ELSE Low(r.mr)],
                          NoCells)
        [] name = "ST" ->
             IF Len(text) = 1 THEN Becomes(After(1), [a \in {r.mr} |-> acc])
             ELSE Becomes([After(1) EXCEPT !.mr = ISA!Half(high, acc)], NoCells)
        [] name = "SPUSH" ->
             Becomes([After(1) EXCEPT !.sp = pushed], [a \in {MkWord(255, pushed)} |-> acc])
        [] name = "SPOP" ->
             LET op == IF Len(text) = 2 THEN Operation[last] ELSE 0
                 v == IF Len(text) = 2 THEN ISA!Combine(op, top) ELSE top
                 carry == Len(text) = 2 /\ op = 0 /\ acc + top > 255
             IN  Becomes([After(1) EXCEPT !.sp = (@ + 255) % 256, !.a[r.ar] = v,
                                          !.fr = ISA!Flag(v, carry)], NoCells)
        [] name = "ASET" ->
             Becomes([After(1) EXCEPT !.ar = last, !.fr = ISA!Flag(r.a[last], FALSE)], NoCells)
        [] name = "PRT" ->
             IF text[2] = "out"
               THEN /\ committed'.reg = After(1)
                    /\ last # 5 => committed'.mem = committed.mem
               ELSE \E v \in Byte : Result(v, FALSE) /\ (last = 4 => v = r.fr) /\ (last = 5 => v = r.sp)

\* Nothing is written beside an ADD 0 and the reserved operation.
Means(text) ==
  CASE text = <<>> -> committed'.mem = committed.mem /\ [committed'.reg EXCEPT !.fr = r.fr] = After(1)
    [] text # <<>> /\ text[1] \in {"LDI", "STI", "LA", "LAR", "JMP", "BR"} -> MeansOfTwo(text)
    [] text # <<>> /\ text[1] \notin {"LDI", "STI", "LA", "LAR", "JMP", "BR"} -> MeansOfOne(text)

InstructionIsOver == cpu.nextState # "x00" /\ cpu'.nextState = "x00"

\* Where the text is known to be wrong: the operand of the last address, an
\* offset past the end of memory, and a branch whose opcode is in the last two
\* bytes of a page (TargetShown).
AtAnEdge ==
  LET op == Load(r.ip) \div 16
  IN  \/ r.ip = 65535 /\ op \in HasOperand
      \/ op \in {LDI, STI} /\ OffsetNamed(r.ip, Load(r.ip + 1)) \notin Word
      \/ op = BR /\ High(r.ip) # High(Next16(Next16(r.ip)))

-----------------------------------------------------------------------------
(* Properties *)

\* The text beside an address says what is there.  As an instruction: read as
\* the mnemonics of apricos.txt, it is what the processor does when it executes
\* that address, with the same counts, offsets, targets and conditions.  As data:
\* the byte (disassembler.c:36-147).
DisassemblyTrue ==
  [][InstructionIsOver =>
       /\ AtAnEdge \/ Means(disassembleAddress(r.ip, HINT_INST))
       /\ \A hint \in {HINT_NDAT, HINT_CDAT} :
            LET text == disassembleAddress(r.ip, hint)
            IN  text # <<>> => text[2] = Load(r.ip)]_<<vars, committed>>

\* "at execution time $ip already points past the 2-byte instruction (opcode
\* address + 2), so the immediate form branches within the page containing
\* opcode+2" (apricos.txt:243-245): the target a BR or JMP is shown with is where
\* it goes.
TargetShown ==
  [][InstructionIsOver /\ cpu.nextState = "x1F" /\ Taken /\ f4 =>
       LET text == disassembleAddress(r.ip, HINT_INST)
       IN  cpu'.pc = text[Len(text)].symbolAt]_<<vars, committed>>
=============================================================================
