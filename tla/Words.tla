------------------------------- MODULE Words -------------------------------
(***************************************************************************)
(* The unsigned integer types of the simulated machine, and the bit        *)
(* operations cpu.c applies to them.  A byte is read as the set of the     *)
(* weights (1, 2, 4, ... 128) of the bits that are set in it.              *)
(***************************************************************************)
EXTENDS Integers

Byte == 0 .. 255                \* unsigned char
Word == 0 .. 65535              \* unsigned short

Low(w) == w % 256               \* w & 0xFF
High(w) == w \div 256           \* (w >> 8) & 0xFF
MkWord(h, l) == 256 * h + l     \* (h << 8) | l, for bytes h and l

Weights == {1, 2, 4, 8, 16, 32, 64, 128}
Bits(x) == {w \in Weights : (x \div w) % 2 = 1}

FromBits(S) ==
  LET b(w) == IF w \in S THEN w ELSE 0
  IN  b(128) + b(64) + b(32) + b(16) + b(8) + b(4) + b(2) + b(1)

BitNot(x) == 255 - x
BitAnd(x, y) == FromBits(Bits(x) \cap Bits(y))
BitOr(x, y) == FromBits(Bits(x) \cup Bits(y))
BitXor(x, y) == FromBits((Bits(x) \ Bits(y)) \cup (Bits(y) \ Bits(x)))
=============================================================================
