----------------------------- MODULE MCAprStart -----------------------------
(***************************************************************************)
(* Command lines of up to three arguments, and files that are whole, cut   *)
(* off, overlapping, at the end of memory or not what they should be.      *)
(***************************************************************************)
EXTENDS AprStart

\* "PB", size and origin, then the bytes of code; `high' has four for the last
\* two cells, `short' says five and has two, `other' is no program
ProgramFiles ==
  [low   |-> <<80, 66, 3, 0, 0, 0, 11, 12, 13>>,
   short |-> <<80, 66, 5, 0, 1, 0, 21, 22>>,
   high  |-> <<80, 66, 4, 0, 254, 255, 31, 32, 33, 34>>,
   other |-> <<80, 67, 1, 0, 0, 0, 41>>]

Line(loc, name, chars) == [loc |-> loc, name |-> name, chars |-> chars]

\* A name replaced by the longest there may be, a name left out, and a line that
\* is neither
SymbolLines ==
  [names |-> <<Line(5, "a", 1), Line(7, "b", 1), Line(5, "c", 255), Line(NONE, NONE, 0),
               Line(9, NONE, 0)>>]

\* Two entries; an entry and a byte of the next; half a count
HintBytes ==
  [whole |-> <<0, 2, 0, 5, 3, 1, 5, 2>>,
   cut   |-> <<0, 3, 0, 5, 3, 1>>,
   half  |-> <<0>>]

Stack == {<<0, 1, 0, 0, 0>>, <<1, 0, 9, 9, 9>>}

Option(o) == [opt |-> o, arg |-> NONE]
With(o, a) == [opt |-> o, arg |-> a]

Arguments ==
  {Option("v"), Option("h"), Option("bad"), With("f", "tty"), With("u", "tty"),
   With("s", "names"), With("s", "missing"), With("d", "whole"), With("d", "cut"), With("d", "half"),
   With("file", "low"), With("file", "short"), With("file", "high"), With("file", "other")}

CommandLines == UNION {[1 .. k -> Arguments] : k \in 0 .. 3}
=============================================================================
