----------------------------- MODULE AprDisplay -----------------------------
(***************************************************************************)
(* The memory panel of gui.c, character by character: the curses window,   *)
(* the whole drawing of it (refreshMemoryDisplay) and the incremental      *)
(* drawing of the scrolling functions, which move the lines that stay and  *)
(* print the ones that come in.  The stack panel is the same code with 256 *)
(* lines and no disassembly.                                               *)
(*                                                                         *)
(* A character on the screen is a sequence: the address whose line it      *)
(* belongs to, its place in that line, and whether the line was printed    *)
(* with disassembly; a blank is the empty one.                             *)
(* What the machine holds does not change while the panel is moved (the    *)
(* keys are locked during a run, AprSim's LockedWhileRunning), and every   *)
(* other change of it is followed by a whole drawing (FreshWhenIdle).      *)
(***************************************************************************)
EXTENDS Integers, Sequences

CONSTANTS
  Size,         \* how many lines there are: 65536
  Rows, Columns,\* of the window inside the border: mh - 2, mw - 2
  LineLength,   \* [print disassembly? -> [address -> length of its line]]
  Amounts       \* lines scrolled at once

\* initDimensions leaves at least 8 rows inside the border.
ASSUME SizeAssumption == Size \in Nat \ {0} /\ Rows \in Nat \ {0, 1} /\ Columns \in Nat \ {0}
ASSUME LengthAssumption == LineLength \in [BOOLEAN -> [0 .. Size - 1 -> Nat \ {0}]]
\* The mouse scrolls at most 6 lines.
ASSUME AmountsAssumption == Amounts \subseteq 1 .. Rows - 1

VARIABLES
  memdisplay,          \* the address of the first line
  printDisassembly,
  mainmem              \* the window, rows of characters

panelvars == <<memdisplay, printDisassembly, mainmem>>

-----------------------------------------------------------------------------
(* Curses windows *)

Line == 0 .. Rows - 1
Column == 0 .. Columns - 1
Blank == <<>>

werase == [r \in Line |-> [k \in Column |-> Blank]]

wscrl(w, n) ==
  [r \in Line |-> IF r + n \in Line THEN w[r + n] ELSE [k \in Column |-> Blank]]

\* wmove to the start of row y and waddstr of the text.  A character at the right
\* margin wraps to the next row at once; on the last row that scrolls the window
\* (scrollok), here by `up' rows in all.
mvwaddstr(w, y, text) ==
  LET start == y * Columns
      end == start + Len(text)
      lastRow == end \div Columns
      up == IF lastRow > Rows - 1 THEN lastRow - (Rows - 1) ELSE 0
      At(r, k) == IF r * Columns + k \in start .. end - 1
                  THEN text[r * Columns + k - start + 1]
                  ELSE IF r \in Line THEN w[r][k] ELSE Blank
  IN  [r \in Line |-> [k \in Column |-> At(r + up, k)]]

-----------------------------------------------------------------------------
(* gui.c *)

Text(a, d) == [k \in 1 .. LineLength[d][a] |-> <<a, k, d>>]
Tilde == <<"~">>

printMemory(w, y, a, d) == mvwaddstr(w, y, Text(a, d))

\* Row y is to show line a, or that there is no such line
DrawRow(w, y, a, d) ==
  IF a < Size THEN printMemory(w, y, a, d) ELSE mvwaddstr(w, y, <<Tilde>>)

\* The window after so many rows are drawn, from row y and line a on, going down
\* (step = 1) or up (step = -1)
DrawRows(w, y, a, step, rows, d) ==
  LET drawn[k \in 0 .. rows] ==
        IF k = 0 THEN w
        ELSE DrawRow(drawn[k - 1], y + step * (k - 1), a + step * (k - 1), d)
  IN  drawn[rows]

\* The window after refreshMemoryDisplay with these two values
Refreshed(top, d) == DrawRows(werase, 0, top, 1, Rows, d)

Refresh == mainmem' = Refreshed(memdisplay', printDisassembly')

\* The lines before the first one come in at the top, the lowest of them first.
scrollMemoryDisplayUp(lines) ==
  LET new == IF memdisplay < lines THEN 0 ELSE memdisplay - lines
      comeIn == memdisplay - new
  IN  /\ memdisplay' = new
      /\ mainmem' = DrawRows(wscrl(mainmem, new - memdisplay), comeIn - 1, memdisplay - 1, -1,
                             comeIn, printDisassembly)
      /\ UNCHANGED printDisassembly

\* Wrong variants: the end of memory is not checked; the last row is missed.
scrollMemoryDisplayDownOn(lines) ==
  /\ memdisplay' = memdisplay + lines
  /\ mainmem' = DrawRows(wscrl(mainmem, lines), Rows - 1 - lines, memdisplay + Rows - 1, 1,
                         lines + 1, printDisassembly)
  /\ UNCHANGED printDisassembly

scrollMemoryDisplayDownShort(lines) ==
  LET new == IF memdisplay + lines > Size - 1 THEN Size - 1 ELSE memdisplay + lines
      comeIn == new - memdisplay
  IN  /\ memdisplay' = new
      /\ mainmem' = DrawRows(wscrl(mainmem, comeIn), Rows - 1 - comeIn, memdisplay + Rows - 1, 1,
                             comeIn, printDisassembly)
      /\ UNCHANGED printDisassembly

\* The line that was the last one and those that come in below it
scrollMemoryDisplayDown(lines) ==
  LET new == IF memdisplay + lines > Size - 1 THEN Size - 1 ELSE memdisplay + lines
      comeIn == new - memdisplay
      drawOffset == Rows - 1
  IN  /\ memdisplay' = new
      /\ mainmem' = DrawRows(wscrl(mainmem, comeIn), drawOffset - comeIn, memdisplay + drawOffset, 1,
                             comeIn + 1, printDisassembly)
      /\ UNCHANGED printDisassembly

-----------------------------------------------------------------------------
(* The d key, and the panel at the start.  AprPanels has the other keys. *)

ToggleDisassembly ==
  /\ printDisassembly' = ~printDisassembly
  /\ UNCHANGED memdisplay
  /\ Refresh

PanelInit ==
  /\ memdisplay = 0 /\ printDisassembly = FALSE
  /\ mainmem = Refreshed(0, FALSE)

-----------------------------------------------------------------------------
(* Properties *)

PanelTypeOK ==
  /\ memdisplay \in 0 .. Size - 1 /\ printDisassembly \in BOOLEAN
  /\ DOMAIN mainmem = Line /\ \A r \in Line : DOMAIN mainmem[r] = Column

\* Where the address a line starts with is to be seen
Starts(r, a) == mainmem[r][0] = <<a, 1, printDisassembly>>

\* However the panel got where it is, row r shows line memdisplay + r, all of it
\* and nothing else, or a tilde: scrolling leaves neither an old row behind nor
\* a gap, at both ends of memory too.  This takes lines that are not as wide as
\* the window; wider ones wrap (gui.c:463-504).
Picture ==
  \A r \in Line, k \in Column :
    mainmem[r][k] =
      IF memdisplay + r >= Size THEN (IF k = 0 THEN Tilde ELSE Blank)
      ELSE IF k < LineLength[printDisassembly][memdisplay + r] THEN <<memdisplay + r, k + 1, printDisassembly>>
      ELSE Blank

\* Row r of the panel is memdisplay + r: what a click takes it for (gui.c:439),
\* and what test_d_toggles_disassembly expects of row 0 (test_display.py).
RowsInPlace == \A r \in Line : memdisplay + r < Size => Starts(r, memdisplay + r)
=============================================================================
