----------------------------- MODULE AprLayout -----------------------------
(***************************************************************************)
(* Where the panels are (initDimensions of gui.c): four rectangles for a   *)
(* terminal of maxX columns and maxY rows, and how many pages the register *)
(* panel is divided into.                                                  *)
(***************************************************************************)
EXTENDS Integers

MINIMUM_WINDOW_HEIGHT == 20
MINIMUM_WINDOW_WIDTH == 75
ALTERNATE_LAYOUT_WINDOW_HEIGHT_THRESHOLD == 30

Height(maxY) == IF maxY < MINIMUM_WINDOW_HEIGHT THEN MINIMUM_WINDOW_HEIGHT ELSE maxY
Width(maxX) == IF maxX < MINIMUM_WINDOW_WIDTH THEN MINIMUM_WINDOW_WIDTH ELSE maxX

Panel == {"registers", "mainmem", "stack", "info"}

registerDisplayLayout(maxY) == IF Height(maxY) > ALTERNATE_LAYOUT_WINDOW_HEIGHT_THRESHOLD THEN 0 ELSE 1
RegistersHeight(maxY) == IF registerDisplayLayout(maxY) = 0 THEN 12 ELSE 8

\* Wrong variant: the status line is laid out below the border above it.
InfoTopBelow(maxY) == Height(maxY) - 2

InfoTop(maxY) == Height(maxY) - 3

\* (int)(maxX / 1.8)
MemoryWidth(maxX) == (5 * Width(maxX)) \div 9

initDimensions(maxX, maxY) ==
  LET rh == RegistersHeight(maxY)
      mw == MemoryWidth(maxX)
      mh == Height(maxY) - rh - 2
      Window(x, y, w, h) == [x |-> x, y |-> y, w |-> w, h |-> h]
  IN  [p \in Panel |->
         CASE p = "registers" -> Window(0, 0, Width(maxX), rh)
           [] p = "mainmem"   -> Window(0, rh, mw, mh)
           [] p = "stack"     -> Window(mw, rh, Width(maxX) - mw, mh)
           [] p = "info"      -> Window(0, InfoTop(maxY), Width(maxX), 3)]

\* Wrong variant: a page less in the low layout.
numberOfRegisterPagesThree(layout) == IF layout = 0 THEN 2 ELSE 3

\* initRegisterPageLayout
numberOfRegisterPages(layout) == IF layout = 0 THEN 2 ELSE 4

-----------------------------------------------------------------------------
\* Row y, column x is in the window, or in the part of it inside the border
Inside(win, x, y) == x \in win.x .. win.x + win.w - 1 /\ y \in win.y .. win.y + win.h - 1
Within(win, x, y) == x \in win.x + 1 .. win.x + win.w - 2 /\ y \in win.y + 1 .. win.y + win.h - 2

\* The panels fill a screen of this size, lie inside it, and what one shows is
\* covered by no other; the status line's upper border is the lower one of the
\* panels above.
Tiles(dims, width, height) ==
  \A x \in 0 .. width - 1, y \in 0 .. height - 1 :
    /\ \E p \in Panel : Inside(dims[p], x, y)
    /\ \A p \in Panel : Within(dims[p], x, y) =>
         \A q \in Panel \ {p} : ~Inside(dims[q], x, y)

InScreen(dims, width, height) ==
  \A p \in Panel :
    /\ dims[p].x >= 0 /\ dims[p].x + dims[p].w <= width
    /\ dims[p].y >= 0 /\ dims[p].y + dims[p].h <= height

\* The memory and stack panels have room for the lines that scroll in at once
\* (6, twice MOUSE_SCROLL_LINES) and one that stays.
RoomToScroll(dims) == \A p \in {"mainmem", "stack"} : dims[p].h - 2 > 6 /\ dims[p].w - 2 > 0
=============================================================================
