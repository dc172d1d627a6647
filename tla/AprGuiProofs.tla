---------------------------- MODULE AprGuiProofs ----------------------------
(***************************************************************************)
(* Theorems about the layout, for every size of the terminal, and about    *)
(* the windows under any number of resizes.                                *)
(***************************************************************************)
EXTENDS AprGui, SequenceTheorems, TLAPS

\* The measures of the panels, in the numbers of initDimensions.
LEMMA Measures ==
  ASSUME NEW maxX \in Nat, NEW maxY \in Nat
  PROVE  /\ Width(maxX) \in Nat /\ Width(maxX) >= 75
         /\ Height(maxY) \in Nat /\ Height(maxY) >= 20
         /\ MemoryWidth(maxX) \in Nat
         /\ 9 * MemoryWidth(maxX) <= 5 * Width(maxX)
         /\ 5 * Width(maxX) < 9 * MemoryWidth(maxX) + 9
         /\ RegistersHeight(maxY) \in {8, 12}
         /\ RegistersHeight(maxY) = 12 => Height(maxY) > 30
         /\ InfoTop(maxY) = Height(maxY) - 3
<1>1. Width(maxX) \in Nat /\ Width(maxX) >= 75
  BY DEF Width, MINIMUM_WINDOW_WIDTH
<1>2. Height(maxY) \in Nat /\ Height(maxY) >= 20
  BY DEF Height, MINIMUM_WINDOW_HEIGHT
<1>3. /\ MemoryWidth(maxX) \in Nat
      /\ 9 * MemoryWidth(maxX) <= 5 * Width(maxX)
      /\ 5 * Width(maxX) < 9 * MemoryWidth(maxX) + 9
  BY <1>1 DEF MemoryWidth
<1>4. RegistersHeight(maxY) \in {8, 12} /\ (RegistersHeight(maxY) = 12 => Height(maxY) > 30)
  BY <1>2 DEF RegistersHeight, registerDisplayLayout, ALTERNATE_LAYOUT_WINDOW_HEIGHT_THRESHOLD
<1> QED
  BY <1>1, <1>2, <1>3, <1>4 DEF InfoTop

\* initDimensions panel by panel
LEMMA Windows ==
  ASSUME NEW maxX, NEW maxY
  PROVE  LET d == initDimensions(maxX, maxY)
             rh == RegistersHeight(maxY)
             mh == Height(maxY) - rh - 2
         IN  /\ d["registers"] = [x |-> 0, y |-> 0, w |-> Width(maxX), h |-> rh]
             /\ d["mainmem"] = [x |-> 0, y |-> rh, w |-> MemoryWidth(maxX), h |-> mh]
             /\ d["stack"] = [x |-> MemoryWidth(maxX), y |-> rh,
                              w |-> Width(maxX) - MemoryWidth(maxX), h |-> mh]
             /\ d["info"] = [x |-> 0, y |-> InfoTop(maxY), w |-> Width(maxX), h |-> 3]
  BY DEF initDimensions, Panel

\* For every size, the panels fill the screen, stay inside it, do not cover each
\* other, and leave room to scroll (gui.c:118-154).
THEOREM LayoutTiles ==
  ASSUME NEW maxX \in Nat, NEW maxY \in Nat
  PROVE  /\ Tiles(initDimensions(maxX, maxY), Width(maxX), Height(maxY))
         /\ InScreen(initDimensions(maxX, maxY), Width(maxX), Height(maxY))
         /\ RoomToScroll(initDimensions(maxX, maxY))
<1> DEFINE d == initDimensions(maxX, maxY)
           W == Width(maxX)
           H == Height(maxY)
           rh == RegistersHeight(maxY)
           mw == MemoryWidth(maxX)
           mh == H - rh - 2
<1>1. /\ W \in Nat /\ W >= 75 /\ H \in Nat /\ H >= 20 /\ mw \in Nat
      /\ 9 * mw <= 5 * W /\ 5 * W < 9 * mw + 9
      /\ rh \in {8, 12} /\ (rh = 12 => H > 30)
  BY Measures
<1>2. /\ d["registers"] = [x |-> 0, y |-> 0, w |-> W, h |-> rh]
      /\ d["mainmem"] = [x |-> 0, y |-> rh, w |-> mw, h |-> mh]
      /\ d["stack"] = [x |-> mw, y |-> rh, w |-> W - mw, h |-> mh]
      /\ d["info"] = [x |-> 0, y |-> H - 3, w |-> W, h |-> 3]
  BY Windows, Measures
<1> HIDE DEF d, W, H, rh, mw
<1>3. Tiles(d, W, H)
  <2> SUFFICES ASSUME NEW x \in 0 .. W - 1, NEW y \in 0 .. H - 1
               PROVE  /\ \E p \in Panel : Inside(d[p], x, y)
                      /\ \A p \in Panel : Within(d[p], x, y) =>
                           \A q \in Panel \ {p} : ~Inside(d[q], x, y)
    BY DEF Tiles
  <2>1. /\ Inside(d["registers"], x, y) <=> y < rh
        /\ Inside(d["mainmem"], x, y) <=> x < mw /\ rh <= y /\ y < H - 2
        /\ Inside(d["stack"], x, y) <=> mw <= x /\ rh <= y /\ y < H - 2
        /\ Inside(d["info"], x, y) <=> y >= H - 3
    BY <1>1, <1>2 DEF Inside
  <2>2. /\ Within(d["registers"], x, y) => y < rh - 1
        /\ Within(d["mainmem"], x, y) => x < mw - 1 /\ rh < y /\ y < H - 3
        /\ Within(d["stack"], x, y) => mw < x /\ rh < y /\ y < H - 3
        /\ Within(d["info"], x, y) => y > H - 3 /\ y < H - 1
    BY <1>1, <1>2 DEF Within
  <2>3. \E p \in Panel : Inside(d[p], x, y)
    BY <1>1, <2>1 DEF Panel
  <2>4. ASSUME NEW p \in Panel, Within(d[p], x, y), NEW q \in Panel \ {p}
        PROVE  ~Inside(d[q], x, y)
    <3>1. CASE p = "registers"
      BY <1>1, <2>1, <2>2, <2>4, <3>1 DEF Panel
    <3>2. CASE p = "mainmem"
      BY <1>1, <2>1, <2>2, <2>4, <3>2 DEF Panel
    <3>3. CASE p = "stack"
      BY <1>1, <2>1, <2>2, <2>4, <3>3 DEF Panel
    <3>4. CASE p = "info"
      <4>1. y = H - 2
        BY <1>1, <2>2, <2>4, <3>4
      <4> QED
        BY <1>1, <2>1, <2>4, <3>4, <4>1 DEF Panel
    <3> QED
      BY <3>1, <3>2, <3>3, <3>4 DEF Panel
  <2> QED
    BY <2>3, <2>4
<1>4. InScreen(d, W, H)
  BY <1>1, <1>2 DEF InScreen, Panel
<1>5. RoomToScroll(d)
  BY <1>1, <1>2 DEF RoomToScroll
<1> QED
  BY <1>3, <1>4, <1>5 DEF d, W, H

-----------------------------------------------------------------------------
(* The inductive invariant of the program under its signals *)

\* The places where the panels are laid out as curses knows the terminal
Laid == {"create", "draw", "top", "work", "port", "reset"}

\* What is laid out
LaidOut ==
  at \in Laid =>
    /\ seen \in Sizes
    /\ dims = initDimensions(seen[1], seen[2])
    /\ pages = numberOfRegisterPages(registerDisplayLayout(seen[2]))
    /\ pages \in {2, 4} /\ registerPage \in Nat
    /\ CharIsSigned => registerPage < pages
    /\ registerPage <= 255

\* Where the size of the terminal may be out of date without a note of it: only
\* between the reset of the flag and the reading of the size, and after a resize
\* that came before the handler.
NoteKept ==
  /\ handler = "running" => windowShouldResize
  /\ at \in Laid \cup {"install", "layout"} /\ ~windowShouldResize /\ ~pending /\ ~missed =>
       seen = screen
  /\ at \in {"load", "start"} => handler = "none"
  /\ at = "install" => handler = "curses"
  /\ at \notin {"load", "start", "install", "exited"} => handler \in {"ready", "running"}

Shapes ==
  /\ screen \in Sizes /\ pending \in BOOLEAN /\ missed \in BOOLEAN
  /\ windowShouldResize \in BOOLEAN
  /\ handler \in {"none", "curses", "ready", "running"}
  /\ at = "install" => seen \in Sizes
  /\ at = "layout" => seen \in Sizes /\ registerPage \in Nat
  /\ at \in {"destroy", "refresh"} => registerPage \in Nat
  /\ at \in {"load", "start"} => windows = "none"
  /\ at \in {"draw", "top", "work", "port", "reset", "destroy"} => windows = "live"

GuiInv == LaidOut /\ NoteKept /\ Shapes

LEMMA PagesOf ==
  ASSUME NEW height
  PROVE  numberOfRegisterPages(registerDisplayLayout(height)) \in {2, 4}
  BY DEF numberOfRegisterPages

\* A step of the program keeps the invariant.
LEMMA ProgramKeeps == ASSUME GuiInv, Program PROVE GuiInv'
<1> USE DEF GuiInv, LaidOut, NoteKept, Shapes, Laid, Goes, terminal, layoutvars
<1>1. CASE InitScreen
  BY <1>1 DEF InitScreen
<1>2. CASE LayOut
  <2>1. /\ pages' \in {2, 4} /\ UNCHANGED seen
        /\ pages' = numberOfRegisterPages(registerDisplayLayout(seen[2]))
    BY <1>2, PagesOf DEF LayOut
  <2>2. registerPage' \in Nat /\ registerPage' < pages' /\ registerPage' <= 255
    BY <1>2, <2>1 DEF LayOut
  <2> QED
    BY <1>2, <2>1, <2>2 DEF LayOut
<1>3. CASE Create
  BY <1>3 DEF Create
<1>4. CASE Draw
  BY <1>4 DEF Draw
<1>5. CASE unlockGui
  BY <1>5 DEF unlockGui
<1>6. CASE Reset
  BY <1>6 DEF Reset
<1>7. CASE Destroy
  BY <1>7 DEF Destroy
<1>8. CASE PickUpSize
  BY <1>8 DEF PickUpSize
<1>9. CASE Work
  <2>1. /\ registerPage' \in Nat /\ registerPage' <= 255
        /\ CharIsSigned => registerPage' < pages
    BY <1>9, CharAssumption DEF Work, Previous
  <2> QED
    BY <1>9, <2>1 DEF Work
<1>10. CASE Leave
  BY <1>10 DEF Leave
<1>11. CASE Finish
  BY <1>11 DEF Finish
<1>12. CASE Exit
  BY <1>12 DEF Exit
<1>13. CASE HoldUp
  BY <1>13 DEF HoldUp
<1>14. CASE GoOn
  BY <1>14 DEF GoOn
<1>15. CASE BrokenPipe
  BY <1>15 DEF BrokenPipe
<1>16. CASE LoadPrograms
  BY <1>16 DEF LoadPrograms
<1>17. CASE Install
  BY <1>17 DEF Install
<1> QED
  BY <1>1, <1>2, <1>3, <1>4, <1>5, <1>6, <1>7, <1>8, <1>9, <1>10, <1>11, <1>12, <1>13, <1>14,
     <1>15, <1>16, <1>17
  DEF Program

\* A signal, at any moment, keeps it.
LEMMA SignalKeeps == ASSUME GuiInv, Signals PROVE GuiInv'
<1> USE DEF GuiInv, LaidOut, NoteKept, Shapes, Laid, terminal, layoutvars
<1>1. CASE ResizeTerminal
  <2>1. screen' \in Sizes /\ pending' \in BOOLEAN
    BY <1>1 DEF ResizeTerminal
  <2>2. /\ handler = "ready" => pending'
        /\ handler = "curses" => missed'
        /\ handler # "curses" => UNCHANGED missed
        /\ missed' \in BOOLEAN
    BY <1>1 DEF ResizeTerminal
  <2> QED
    BY <1>1, <2>1, <2>2 DEF ResizeTerminal
<1>2. CASE handle_winch
  BY <1>2 DEF handle_winch
<1>3. CASE Reinstall
  BY <1>3 DEF Reinstall
<1>4. CASE Interrupt
  BY <1>4 DEF Interrupt
<1> QED
  BY <1>1, <1>2, <1>3, <1>4 DEF Signals

LEMMA GuiInvHolds == GuiSpec => []GuiInv
<1>1. GuiInit => GuiInv
  BY DEF GuiInit, GuiInv, LaidOut, NoteKept, Shapes, Laid
<1>2. GuiInv /\ [GuiNext]_guivars => GuiInv'
  <2>1. ASSUME GuiInv, UNCHANGED guivars PROVE GuiInv'
    BY <2>1 DEF GuiInv, LaidOut, NoteKept, Shapes, guivars, terminal, layoutvars
  <2> QED
    BY <2>1, ProgramKeeps, SignalKeeps DEF GuiNext, Exited
<1> QED
  BY <1>1, <1>2, PTL DEF GuiSpec

-----------------------------------------------------------------------------
\* No resize is forgotten once handle_winch is installed, whenever the signals
\* come and however many; and none is after that because of one that went by
\* before it (gui.c:28-50, 56-58).
THEOREM ResizesKept == GuiSpec => []ResizeKept
<1>1. GuiInv => ResizeKept
  BY DEF GuiInv, LaidOut, NoteKept, Laid, ResizeKept
<1> QED
  BY <1>1, GuiInvHolds, PTL

\* Nothing is drawn in a window that was deleted: the loaders draw before there
\* is one, and everything else while they are all there (sim.c:39; gui.c:11-23).
THEOREM WindowsThere == GuiSpec => []WindowsWhenDrawing
<1>1. GuiInv => WindowsWhenDrawing
  BY DEF GuiInv, Shapes, WindowsWhenDrawing
<1> QED
  BY <1>1, GuiInvHolds, PTL

\* Where a char is signed, the register page shown is one of the present layout
\* (gui.c:156-182).
THEOREM PagesExist == GuiSpec => []PageExists
<1>1. GuiInv => PageExists
  BY DEF GuiInv, LaidOut, Laid, PageExists
<1> QED
  BY <1>1, GuiInvHolds, PTL

\* Whatever the terminal was resized to, the panels tile it (gui.c:118-154).
THEOREM ScreenTiled == GuiSpec => []PanelsTile
<1>1. ASSUME GuiInv, at \in {"draw", "top", "work"}
      PROVE  /\ Tiles(dims, Width(seen[1]), Height(seen[2]))
             /\ InScreen(dims, Width(seen[1]), Height(seen[2]))
             /\ RoomToScroll(dims)
  <2>1. seen[1] \in Nat /\ seen[2] \in Nat
    BY <1>1, SizesAssumption DEF GuiInv, LaidOut, Laid
  <2>2. dims = initDimensions(seen[1], seen[2])
    BY <1>1 DEF GuiInv, LaidOut, Laid
  <2> QED
    BY <2>1, <2>2, LayoutTiles
<1>2. GuiInv => PanelsTile
  BY <1>1 DEF PanelsTile
<1> QED
  BY <1>2, GuiInvHolds, PTL
-----------------------------------------------------------------------------
(* Types *)

\* Measures are numbers, whatever the size of the terminal.
LEMMA DimensionsAreNumbers ==
  ASSUME NEW maxX \in Nat, NEW maxY \in Nat
  PROVE  initDimensions(maxX, maxY) \in [Panel -> [x : Nat, y : Nat, w : Nat, h : Nat]]
<1> DEFINE d == initDimensions(maxX, maxY)
           W == Width(maxX)
           H == Height(maxY)
           rh == RegistersHeight(maxY)
           mw == MemoryWidth(maxX)
<1>1. /\ W \in Nat /\ W >= 75 /\ H \in Nat /\ H >= 20 /\ mw \in Nat
      /\ 9 * mw <= 5 * W /\ rh \in {8, 12} /\ (rh = 12 => H > 30)
  BY Measures
<1>2. W - mw \in Nat /\ H - rh - 2 \in Nat /\ H - 3 \in Nat
  BY <1>1
<1>3. /\ d["registers"] = [x |-> 0, y |-> 0, w |-> W, h |-> rh]
      /\ d["mainmem"] = [x |-> 0, y |-> rh, w |-> mw, h |-> H - rh - 2]
      /\ d["stack"] = [x |-> mw, y |-> rh, w |-> W - mw, h |-> H - rh - 2]
      /\ d["info"] = [x |-> 0, y |-> H - 3, w |-> W, h |-> 3]
  BY Windows, Measures
<1> DEFINE Window(x, y, w, h) == [x |-> x, y |-> y, w |-> w, h |-> h]
           e(p) == CASE p = "registers" -> Window(0, 0, W, rh)
                     [] p = "mainmem"   -> Window(0, rh, mw, H - rh - 2)
                     [] p = "stack"     -> Window(mw, rh, W - mw, H - rh - 2)
                     [] p = "info"      -> Window(0, InfoTop(maxY), W, 3)
<1>4. d = [p \in Panel |-> e(p)]
  BY DEF initDimensions
<1> HIDE DEF d, W, H, rh, mw, e
<1>5. rh \in Nat
  BY <1>1
<1>6. \A p \in Panel : d[p] \in [x : Nat, y : Nat, w : Nat, h : Nat]
  BY <1>1, <1>2, <1>3, <1>5 DEF Panel
<1>7. \A p \in Panel : e(p) = d[p]
  BY <1>4
<1> QED
  BY <1>4, <1>6, <1>7 DEF d

\* The values registerPage may have
Pages == IF CharIsSigned THEN 0 .. 3 ELSE 0 .. 255

LEMMA PagesFit == \A k \in 0 .. 3 : k \in Pages
  BY DEF Pages

\* The page is one of at most four where a char is signed and fits in a char where
\* it is not, also while the layout is renewed.
LEMMA TypesKept == ASSUME GuiInv, GuiTypeOK, [GuiNext]_guivars PROVE GuiTypeOK'
<1> USE DEF GuiTypeOK, Goes, terminal, layoutvars
<1>1. CASE UNCHANGED guivars
  BY <1>1 DEF guivars
<1>2. CASE LayOut
  <2>1. pages' \in {2, 4}
    BY <1>2, PagesOf DEF LayOut
  <2>2. registerPage' \in Pages
    <3>1. registerPage \in Nat /\ registerPage' = registerPage % pages'
      BY <1>2 DEF LayOut, GuiInv, Shapes
    <3>2. \A k \in Nat : k % 2 \in 0 .. 3 /\ k % 4 \in 0 .. 3
      OBVIOUS
    <3>3. registerPage' \in 0 .. 3
      BY <2>1, <3>1, <3>2
    <3> QED
      BY <3>3, PagesFit
  <2>3. seen \in Sizes
    BY <1>2 DEF LayOut, GuiInv, Shapes
  <2>4. seen[1] \in Nat /\ seen[2] \in Nat
    BY <2>3, SizesAssumption
  <2>5. dims' \in [Panel -> [x : Nat, y : Nat, w : Nat, h : Nat]]
    BY <1>2, <2>4, DimensionsAreNumbers DEF LayOut
  <2> QED
    BY <1>2, <2>1, <2>2, <2>5 DEF LayOut
<1>3. CASE Work
  <2>1. /\ pages \in {2, 4} /\ registerPage \in Nat /\ registerPage <= 255
        /\ CharIsSigned => registerPage < pages
    BY <1>3 DEF Work, GuiInv, LaidOut, Laid
  <2>2. registerPage' \in {registerPage, (registerPage + 1) % pages, Previous}
    BY <1>3 DEF Work
  <2>3. registerPage' \in Nat /\ registerPage' <= 255 /\ (CharIsSigned => registerPage' < pages)
    BY <2>1, <2>2 DEF Previous
  <2>4. registerPage' \in Pages
    BY <2>1, <2>3 DEF Pages
  <2> QED
    BY <1>3, <2>4 DEF Work, Pages
<1>4. CASE ResizeTerminal
  <2>1. screen' \in Sizes /\ pending' \in BOOLEAN /\ missed' \in BOOLEAN
    BY <1>4 DEF ResizeTerminal
  <2>2. resizes' \in 0 .. MaxResizes
    <3>1. resizes \in 0 .. MaxResizes /\ resizes < MaxResizes /\ resizes' = resizes + 1
      BY <1>4 DEF ResizeTerminal
    <3> QED
      BY <3>1, MaxResizesAssumption
  <2> QED
    BY <1>4, <2>1, <2>2 DEF ResizeTerminal
<1>5. CASE handle_winch \/ Reinstall \/ Interrupt
  BY <1>5 DEF handle_winch, Reinstall, Interrupt, destroygui
<1>6. CASE Program /\ ~LayOut /\ ~Work
  <2>1. /\ UNCHANGED <<screen, pending, resizes, dims, pages>>
        /\ registerPage' \in {0, registerPage} /\ seen' \in {seen, screen}
        /\ windowShouldResize' \in {FALSE, windowShouldResize}
        /\ handler' \in {handler, "curses", "ready"} /\ missed' \in {FALSE, missed}
    BY <1>6 DEF Program, LoadPrograms, InitScreen, Install, Create, Draw, unlockGui, Reset, Destroy,
       PickUpSize, HoldUp, GoOn, BrokenPipe, Leave, Finish, Exit
  <2>2. /\ windows' \in {windows, "live", "none", "deleted", "twice"}
        /\ at' \in {"start", "install", "layout", "draw", "top", "reset", "work", "destroy",
                    "refresh", "port", "finish", "free", "exited"}
    BY <1>6 DEF Program, LoadPrograms, InitScreen, Install, Create, Draw, unlockGui, Reset, Destroy,
       PickUpSize, HoldUp, GoOn, BrokenPipe, Leave, Finish, Exit, destroygui
  <2>3. /\ windowShouldResize' \in BOOLEAN /\ missed' \in BOOLEAN
        /\ handler' \in {"none", "curses", "ready", "running"}
    BY <2>1
  <2>4. seen' \in Sizes \cup {<<0, 0>>} /\ registerPage' \in Pages
    BY <2>1, PagesFit DEF Pages
  <2>5. windows' \in {"none", "live", "deleted", "twice"}
    BY <2>2
  <2> QED
    BY <2>1, <2>2, <2>3, <2>4, <2>5
<1> QED
  BY <1>1, <1>2, <1>3, <1>4, <1>5, <1>6 DEF GuiNext, Signals, Exited

\* The windows, the layout and the handler's flag keep their types through every
\* resize and every key (gui.c:11-182).
THEOREM GuiTypeCorrect == GuiSpec => []GuiTypeOK
<1>1. GuiInit => GuiTypeOK
  <2> SUFFICES ASSUME GuiInit PROVE GuiTypeOK
    OBVIOUS
  <2>1. resizes \in 0 .. MaxResizes /\ pages \in {0, 2, 4} /\ registerPage \in Pages
    BY MaxResizesAssumption, PagesFit DEF GuiInit
  <2>2. dims \in [Panel -> [x : Nat, y : Nat, w : Nat, h : Nat]]
    BY DEF GuiInit
  <2> QED
    BY <2>1, <2>2 DEF GuiInit, GuiTypeOK, Pages
<1> QED
  BY <1>1, TypesKept, GuiInvHolds, PTL DEF GuiSpec
-----------------------------------------------------------------------------
(* The register pages *)

Accumulators == {A(k) : k \in Nat}
Registers == Special \cup {Pc} \cup Accumulators
Rows == Seq(Seq(Registers))

LEMMA Three ==
  \A a, b, c : /\ Len(<<a, b, c>>) = 3 /\ Range(<<a, b, c>>) = {a, b, c}
               /\ \A S : a \in S /\ b \in S /\ c \in S => <<a, b, c>> \in Seq(S)
  BY DEF Range

LEMMA SpecialNames ==
  Special = {<<"CPU Flags">>, <<"MDR">>, <<"IA">>, <<"Stack Pointer">>, <<"IR">>, <<"MAR">>}
<1>1. Range(Upper) = {<<"CPU Flags">>, <<"MDR">>, <<"IA">>}
  BY Three, Zenon DEF Upper
<1>2. Range(Lower) = {<<"Stack Pointer">>, <<"IR">>, <<"MAR">>}
  BY Three, Zenon DEF Lower
<1>3. \A a, b, c, d, e, f : {a, b, c} \cup {d, e, f} = {a, b, c, d, e, f}
  OBVIOUS
<1> QED
  BY <1>1, <1>2, <1>3, Zenon DEF Special

LEMMA RegistersDiffer ==
  /\ \A j, k \in Nat : A(j) = A(k) => j = k
  /\ \A k \in Nat : A(k) \notin Special /\ A(k) # Pc
  /\ Pc \notin Special
<1>1. \A j, k \in Nat : A(j) = A(k) => j = k
  BY DEF A
<1>2. \A k : Len(A(k)) = 2
  BY DEF A
<1>3. \A name : Len(<<name>>) = 1
  OBVIOUS
<1>4. \A r \in Special \cup {Pc} : Len(r) = 1
  <2>1. \A r \in Special \cup {Pc} : \E name : r = <<name>>
    BY SpecialNames, Zenon DEF Pc
  <2> QED
    BY <1>3, <2>1
<1>5. Pc \notin Special
  BY SpecialNames DEF Pc
<1> QED
  BY <1>1, <1>2, <1>4, <1>5

LEMMA OnRows ==
  ASSUME NEW rows, NEW r
  PROVE  r \in On(rows) <=> \E y \in DOMAIN rows : \E k \in DOMAIN rows[y] : r = rows[y][k]
  BY DEF On

\* No row is wider than w columns.
Narrow(rows, w) == \A y \in DOMAIN rows : RowWidth(rows[y]) \in 0 .. w

LEMMA Joined ==
  ASSUME NEW s \in Rows, NEW t \in Rows
  PROVE  /\ s \o t \in Rows /\ Len(s \o t) = Len(s) + Len(t)
         /\ On(s \o t) = On(s) \cup On(t)
         /\ \A w : Narrow(s, w) /\ Narrow(t, w) => Narrow(s \o t, w)
<1> DEFINE u == s \o t
<1>1. /\ u \in Rows /\ Len(u) = Len(s) + Len(t)
      /\ \A y \in 1 .. Len(s) + Len(t) : u[y] = IF y <= Len(s) THEN s[y] ELSE t[y - Len(s)]
  BY ConcatProperties DEF Rows
<1>2. /\ Len(s) \in Nat /\ DOMAIN s = 1 .. Len(s) /\ Len(t) \in Nat /\ DOMAIN t = 1 .. Len(t)
      /\ DOMAIN u = 1 .. Len(s) + Len(t)
  BY <1>1 DEF Rows
<1> HIDE DEF u
<1>3. \A y \in DOMAIN s : y \in DOMAIN u /\ u[y] = s[y]
  BY <1>1, <1>2
<1>4. \A y \in DOMAIN t : y + Len(s) \in DOMAIN u /\ u[y + Len(s)] = t[y]
  BY <1>1, <1>2
<1>5. \A y \in DOMAIN u : \/ y \in DOMAIN s /\ u[y] = s[y]
                          \/ y - Len(s) \in DOMAIN t /\ u[y] = t[y - Len(s)]
  BY <1>1, <1>2
<1>6. \A r : r \in On(u) <=> r \in On(s) \/ r \in On(t)
  BY <1>3, <1>4, <1>5, OnRows
<1>7. \A w : Narrow(s, w) /\ Narrow(t, w) => Narrow(u, w)
  BY <1>5 DEF Narrow
<1> QED
  BY <1>1, <1>6, <1>7 DEF u

LEMMA TwoColumnsShown ==
  ASSUME NEW first \in Nat, NEW half \in Nat
  PROVE  LET rows == TwoColumns(first, half)
         IN  /\ rows \in Rows /\ Len(rows) = half /\ Narrow(rows, 73)
             /\ On(rows) = {A(k) : k \in first .. first + 2 * half - 1}
<1> DEFINE rows == TwoColumns(first, half)
           row(k) == <<A(first + k - 1), A(first + half + k - 1)>>
<1>1. rows = [k \in 1 .. half |-> row(k)]
  BY DEF TwoColumns
<1>2. ASSUME NEW k \in 1 .. half
      PROVE  row(k) \in Seq(Registers) /\ RowWidth(row(k)) \in 0 .. 73
  <2>1. first + k - 1 \in Nat /\ first + half + k - 1 \in Nat
    OBVIOUS
  <2>2. A(first + k - 1) \in Registers /\ A(first + half + k - 1) \in Registers
    BY <2>1 DEF Registers, Accumulators
  <2>3. row(k) \in Seq(Registers) /\ Len(row(k)) = 2 /\ row(k)[1] = A(first + k - 1)
    BY <2>2
  <2>4. RegisterWidth(A(first + k - 1)) = 34
    BY <2>1, RegistersDiffer DEF RegisterWidth
  <2> QED
    BY <2>3, <2>4 DEF RowWidth
<1>3. /\ rows \in Rows /\ Len(rows) = half /\ DOMAIN rows = 1 .. half
      /\ \A k \in 1 .. half : rows[k] = row(k)
  <2> HIDE DEF rows, row
  <2> QED
    BY <1>1, <1>2 DEF Rows
<1>4. Narrow(rows, 73)
  BY <1>2, <1>3 DEF Narrow
<1>5. \A k \in 1 .. half : DOMAIN row(k) = 1 .. 2 /\ row(k)[1] = A(first + k - 1)
                                                  /\ row(k)[2] = A(first + half + k - 1)
  OBVIOUS
<1> HIDE DEF rows, row
<1>6. \A r : r \in On(rows) <=>
               \E k \in 1 .. half : r = A(first + k - 1) \/ r = A(first + half + k - 1)
  <2>1. \A k \in 1 .. half : \A y : y \in DOMAIN row(k) <=> y = 1 \/ y = 2
    BY <1>5
  <2>2. \A r : r \in On(rows) <=> \E y \in 1 .. half : \E k \in DOMAIN row(y) : r = row(y)[k]
    BY <1>3, OnRows
  <2>3. \A r : r \in On(rows) <=> \E y \in 1 .. half : r = row(y)[1] \/ r = row(y)[2]
    BY <2>1, <2>2
  <2>4. \A k \in 1 .. half : row(k)[1] = A(first + k - 1) /\ row(k)[2] = A(first + half + k - 1)
    BY <1>5
  <2>5. ASSUME NEW r \in On(rows)
        PROVE  \E k \in 1 .. half : r = A(first + k - 1) \/ r = A(first + half + k - 1)
    <3>1. PICK y \in 1 .. half : r = row(y)[1] \/ r = row(y)[2]
      BY <2>3
    <3>2. r = A(first + y - 1) \/ r = A(first + half + y - 1)
      BY <2>4, <3>1
    <3> QED
      BY <3>2
  <2>6. ASSUME NEW r, NEW k \in 1 .. half, r = A(first + k - 1) \/ r = A(first + half + k - 1)
        PROVE  r \in On(rows)
    <3>1. r = row(k)[1] \/ r = row(k)[2]
      BY <2>4, <2>6
    <3> QED
      BY <2>3, <3>1
  <2> QED
    BY <2>5, <2>6
<1>7. \A k \in 1 .. half : /\ first + k - 1 \in first .. first + 2 * half - 1
                           /\ first + half + k - 1 \in first .. first + 2 * half - 1
  OBVIOUS
<1>8. \A j \in first .. first + 2 * half - 1 :
        \/ j - first + 1 \in 1 .. half /\ j = first + (j - first + 1) - 1
        \/ j - first - half + 1 \in 1 .. half /\ j = first + half + (j - first - half + 1) - 1
  OBVIOUS
<1>9. \A r : r \in On(rows) => r \in {A(k) : k \in first .. first + 2 * half - 1}
  BY <1>6, <1>7
<1>10. \A j \in first .. first + 2 * half - 1 : A(j) \in On(rows)
  BY <1>6, <1>8
<1> QED
  BY <1>3, <1>4, <1>9, <1>10 DEF rows

LEMMA OneColumnShown ==
  ASSUME NEW registers \in Seq(Special)
  PROVE  LET rows == OneColumn(registers)
         IN  /\ rows \in Rows /\ Len(rows) = Len(registers) /\ Narrow(rows, 73)
             /\ On(rows) = Range(registers)
<1> DEFINE rows == OneColumn(registers)
           m == Len(registers)
<1>1. rows = [k \in 1 .. m |-> <<registers[k]>>] /\ m \in Nat
  BY DEF OneColumn
<1>2. ASSUME NEW k \in 1 .. m
      PROVE  /\ <<registers[k]>> \in Seq(Registers) /\ RowWidth(<<registers[k]>>) \in 0 .. 73
             /\ DOMAIN <<registers[k]>> = {1}
  <2>1. registers[k] \in Special
    OBVIOUS
  <2>2. registers[k] \in Registers /\ RegisterWidth(registers[k]) = 58
    BY <2>1 DEF Registers, RegisterWidth
  <2>3. Len(<<registers[k]>>) = 1 /\ <<registers[k]>>[1] = registers[k] /\ DOMAIN <<registers[k]>> = {1}
    OBVIOUS
  <2> QED
    BY <2>2, <2>3 DEF RowWidth
<1>3. rows \in Rows /\ Len(rows) = m /\ DOMAIN rows = 1 .. m
  BY <1>1, <1>2 DEF Rows
<1>4. \A k \in 1 .. m : rows[k] = <<registers[k]>> /\ DOMAIN rows[k] = {1} /\ rows[k][1] = registers[k]
  BY <1>1, <1>2
<1>5. Narrow(rows, 73)
  BY <1>2, <1>3, <1>4 DEF Narrow
<1> HIDE DEF rows
<1>6. \A r : r \in On(rows) <=> \E k \in 1 .. m : r = registers[k]
  BY <1>3, <1>4, OnRows
<1> QED
  BY <1>3, <1>5, <1>6 DEF rows, Range

LEMMA GapShown ==
  ASSUME NEW g \in Nat
  PROVE  Gap(g) \in Rows /\ Len(Gap(g)) = g /\ Narrow(Gap(g), 73) /\ On(Gap(g)) = {}
<1>1. Gap(g) = [k \in 1 .. g |-> <<>>]
  BY DEF Gap
<1>2. Gap(g) \in Rows /\ Len(Gap(g)) = g
  BY <1>1 DEF Rows
<1>3. \A k \in DOMAIN Gap(g) : Gap(g)[k] = <<>>
  BY <1>1
<1>4. RowWidth(<<>>) = 0 /\ DOMAIN <<>> = {}
  BY DEF RowWidth
<1>5. Narrow(Gap(g), 73)
  BY <1>3, <1>4 DEF Narrow
<1>6. \A r : r \notin On(Gap(g))
  BY <1>3, <1>4, OnRows
<1> QED
  BY <1>2, <1>5, <1>6

\* A page: what is on top, rows left free, and the program counter
LEMMA PageShown ==
  ASSUME NEW top \in Rows, NEW g \in Nat, Narrow(top, 73)
  PROVE  LET page == top \o Gap(g) \o << <<Pc>> >>
         IN  /\ Len(page) = Len(top) + g + 1 /\ Narrow(page, 73)
             /\ On(page) = On(top) \cup {Pc}
<1> DEFINE last == << <<Pc>> >>
           upper == top \o Gap(g)
<1>1. /\ last \in Rows /\ Len(last) = 1 /\ DOMAIN last = {1} /\ last[1] = <<Pc>>
      /\ DOMAIN <<Pc>> = {1} /\ <<Pc>>[1] = Pc /\ Len(<<Pc>>) = 1
  <2>1. Pc \in Registers
    BY DEF Registers
  <2>2. <<Pc>> \in Seq(Registers)
    BY <2>1
  <2> HIDE DEF Rows
  <2>3. last \in Rows
    BY <2>2 DEF Rows
  <2> QED
    BY <2>3
<1>2. \A r : r \in On(last) <=> r = Pc
  BY <1>1, OnRows
<1>3. RowWidth(<<Pc>>) = 58
  BY <1>1 DEF RowWidth, RegisterWidth
<1>4. Narrow(last, 73)
  BY <1>1, <1>3 DEF Narrow
<1>5. upper \in Rows /\ Len(upper) = Len(top) + g /\ On(upper) = On(top) /\ Narrow(upper, 73)
  <2>1. Gap(g) \in Rows /\ Len(Gap(g)) = g /\ Narrow(Gap(g), 73) /\ On(Gap(g)) = {}
    BY GapShown
  <2>2. /\ upper \in Rows /\ Len(upper) = Len(top) + Len(Gap(g))
        /\ On(upper) = On(top) \cup On(Gap(g)) /\ Narrow(upper, 73)
    BY <2>1, Joined
  <2> QED
    BY <2>1, <2>2
<1> HIDE DEF last, upper
<1>6. /\ Len(upper \o last) = Len(upper) + 1 /\ On(upper \o last) = On(upper) \cup On(last)
      /\ Narrow(upper \o last, 73)
  BY <1>1, <1>4, <1>5, Joined
<1>7. On(last) = {Pc}
  BY <1>2
<1> QED
  BY <1>5, <1>6, <1>7 DEF last, upper

\* The six pages there are: the registers on them besides the program counter
Shown(layout, page) ==
  CASE layout = 0 /\ page = 0 -> {A(k) : k \in 0 .. 15}
    [] layout = 0 /\ page = 1 -> Range(Upper \o Lower)
    [] layout = 1 /\ page = 0 -> {A(k) : k \in 0 .. 7}
    [] layout = 1 /\ page = 1 -> {A(k) : k \in 8 .. 15}
    [] layout = 1 /\ page = 2 -> Range(Upper)
    [] layout = 1 /\ page = 3 -> Range(Lower)

LEMMA Lists ==
  /\ Upper \in Seq(Special) /\ Len(Upper) = 3
  /\ Lower \in Seq(Special) /\ Len(Lower) = 3
  /\ Upper \o Lower \in Seq(Special) /\ Len(Upper \o Lower) = 6
  /\ Range(Upper \o Lower) = Special
<1>1. /\ <<"CPU Flags">> \in Special /\ <<"MDR">> \in Special /\ <<"IA">> \in Special
      /\ <<"Stack Pointer">> \in Special /\ <<"IR">> \in Special /\ <<"MAR">> \in Special
  BY SpecialNames, Zenon
<1>2. /\ Upper \in Seq(Special) /\ Len(Upper) = 3
      /\ Lower \in Seq(Special) /\ Len(Lower) = 3
  BY <1>1, Three, Zenon DEF Upper, Lower
<1>3. /\ Upper \o Lower \in Seq(Special) /\ Len(Upper \o Lower) = 6
      /\ \A k \in 1 .. 6 : (Upper \o Lower)[k] = IF k <= 3 THEN Upper[k] ELSE Lower[k - 3]
  <2>1. /\ Upper \o Lower \in Seq(Special) /\ Len(Upper \o Lower) = Len(Upper) + Len(Lower)
        /\ \A k \in 1 .. Len(Upper) + Len(Lower) :
             (Upper \o Lower)[k] = IF k <= Len(Upper) THEN Upper[k] ELSE Lower[k - Len(Upper)]
    BY <1>2, ConcatProperties
  <2>2. Len(Upper) = 3 /\ Len(Lower) = 3 /\ 3 + 3 = 6
    BY <1>2
  <2> QED
    BY <2>1, <2>2
<1>4. DOMAIN Upper = 1 .. 3 /\ DOMAIN Lower = 1 .. 3 /\ DOMAIN (Upper \o Lower) = 1 .. 6
  BY <1>2, <1>3
<1>5. \A k \in 1 .. 3 : k \in 1 .. 6 /\ k + 3 \in 1 .. 6 /\ k <= 3 /\ ~(k + 3 <= 3) /\ k + 3 - 3 = k
  OBVIOUS
<1>6. \A k \in 1 .. 6 : (k <= 3 => k \in 1 .. 3) /\ (~(k <= 3) => k - 3 \in 1 .. 3)
  OBVIOUS
<1>7. \A k \in 1 .. 3 : (Upper \o Lower)[k] = Upper[k] /\ (Upper \o Lower)[k + 3] = Lower[k]
  BY <1>3, <1>5
<1>8. Range(Upper \o Lower) = Special
  BY <1>3, <1>4, <1>5, <1>6, <1>7 DEF Range, Special
<1> QED
  BY <1>2, <1>3, <1>8

LEMMA ColumnPage ==
  ASSUME NEW registers \in Seq(Special), NEW g \in Nat
  PROVE  LET rows == OneColumn(registers) \o Gap(g) \o << <<Pc>> >>
         IN  /\ Len(rows) = Len(registers) + g + 1 /\ Narrow(rows, 73)
             /\ On(rows) = Range(registers) \cup {Pc}
<1> DEFINE top == OneColumn(registers)
<1>1. /\ top \in Rows /\ Len(top) = Len(registers) /\ Narrow(top, 73)
      /\ On(top) = Range(registers)
  BY OneColumnShown
<1> HIDE DEF top
<1> QED
  BY <1>1, PageShown DEF top

LEMMA TwoColumnPage ==
  ASSUME NEW first \in Nat, NEW half \in Nat
  PROVE  LET rows == TwoColumns(first, half) \o Gap(1) \o << <<Pc>> >>
         IN  /\ Len(rows) = half + 2 /\ Narrow(rows, 73)
             /\ On(rows) = {A(k) : k \in first .. first + 2 * half - 1} \cup {Pc}
<1> DEFINE top == TwoColumns(first, half)
<1>1. /\ top \in Rows /\ Len(top) = half /\ Narrow(top, 73)
      /\ On(top) = {A(k) : k \in first .. first + 2 * half - 1}
  BY TwoColumnsShown
<1> HIDE DEF top
<1>2. half + 1 + 1 = half + 2
  OBVIOUS
<1> QED
  BY <1>1, <1>2, PageShown DEF top

LEMMA PagesShown ==
  ASSUME NEW layout \in {0, 1}, NEW page \in 0 .. numberOfRegisterPages(layout) - 1
  PROVE  /\ Len(refreshRegisterDisplay(layout, page)) = IF layout = 0 THEN 10 ELSE 6
         /\ Narrow(refreshRegisterDisplay(layout, page), 73)
         /\ On(refreshRegisterDisplay(layout, page)) = Shown(layout, page) \cup {Pc}
<1> DEFINE rows == refreshRegisterDisplay(layout, page)
           last == << <<Pc>> >>
<1>1. page \in 0 .. 3 /\ (layout = 0 => page \in {0, 1})
  BY DEF numberOfRegisterPages
<1>2. CASE layout = 0 /\ page = 0
  <2>1. rows = TwoColumns(0, 8) \o Gap(1) \o last /\ Shown(layout, page) = {A(k) : k \in 0 .. 15}
    BY <1>2 DEF refreshRegisterDisplay, Shown
  <2>2. 0 + 2 * 8 - 1 = 15 /\ 8 + 2 = 10
    OBVIOUS
  <2> HIDE DEF rows
  <2>3. Len(rows) = 10 /\ Narrow(rows, 73) /\ On(rows) = {A(k) : k \in 0 .. 15} \cup {Pc}
    BY <2>1, <2>2, TwoColumnPage
  <2> QED
    BY <1>2, <2>1, <2>3 DEF rows
<1>3. CASE layout = 0 /\ page = 1
  <2>1. rows = OneColumn(Upper \o Lower) \o Gap(3) \o last /\ Shown(layout, page) = Range(Upper \o Lower)
    BY <1>3 DEF refreshRegisterDisplay, Shown
  <2> HIDE DEF rows
  <2>2. Len(rows) = 6 + 3 + 1 /\ Narrow(rows, 73) /\ On(rows) = Range(Upper \o Lower) \cup {Pc}
    BY <2>1, Lists, ColumnPage
  <2> QED
    BY <1>3, <2>1, <2>2 DEF rows
<1>4. CASE layout = 1 /\ page = 0
  <2>1. rows = TwoColumns(0, 4) \o Gap(1) \o last /\ Shown(layout, page) = {A(k) : k \in 0 .. 7}
    BY <1>4 DEF refreshRegisterDisplay, Shown
  <2>2. 0 + 2 * 4 - 1 = 7 /\ 4 + 2 = 6
    OBVIOUS
  <2> HIDE DEF rows
  <2>3. Len(rows) = 6 /\ Narrow(rows, 73) /\ On(rows) = {A(k) : k \in 0 .. 7} \cup {Pc}
    BY <2>1, <2>2, TwoColumnPage
  <2> QED
    BY <1>4, <2>1, <2>3 DEF rows
<1>5. CASE layout = 1 /\ page = 1
  <2>1. rows = TwoColumns(8, 4) \o Gap(1) \o last /\ Shown(layout, page) = {A(k) : k \in 8 .. 15}
    BY <1>5 DEF refreshRegisterDisplay, Shown
  <2>2. 8 + 2 * 4 - 1 = 15 /\ 4 + 2 = 6
    OBVIOUS
  <2> HIDE DEF rows
  <2>3. Len(rows) = 6 /\ Narrow(rows, 73) /\ On(rows) = {A(k) : k \in 8 .. 15} \cup {Pc}
    BY <2>1, <2>2, TwoColumnPage
  <2> QED
    BY <1>5, <2>1, <2>3 DEF rows
<1>6. CASE layout = 1 /\ page = 2
  <2>1. rows = OneColumn(Upper) \o Gap(2) \o last /\ Shown(layout, page) = Range(Upper)
    BY <1>6 DEF refreshRegisterDisplay, Shown
  <2> HIDE DEF rows
  <2>2. Len(rows) = 3 + 2 + 1 /\ Narrow(rows, 73) /\ On(rows) = Range(Upper) \cup {Pc}
    BY <2>1, Lists, ColumnPage
  <2> QED
    BY <1>6, <2>1, <2>2 DEF rows
<1>7. CASE layout = 1 /\ page = 3
  <2>1. rows = OneColumn(Lower) \o Gap(2) \o last /\ Shown(layout, page) = Range(Lower)
    BY <1>7 DEF refreshRegisterDisplay, Shown
  <2> HIDE DEF rows
  <2>2. Len(rows) = 3 + 2 + 1 /\ Narrow(rows, 73) /\ On(rows) = Range(Lower) \cup {Pc}
    BY <2>1, Lists, ColumnPage
  <2> QED
    BY <1>7, <2>1, <2>2 DEF rows
<1> HIDE DEF rows
<1> QED
  BY <1>1, <1>2, <1>3, <1>4, <1>5, <1>6, <1>7 DEF rows

\* Every register is on one page and one only.
LEMMA OnePageEach ==
  ASSUME NEW layout \in {0, 1}, NEW register \in Special \cup {A(k) : k \in 0 .. 15}
  PROVE  LET on == {k \in 0 .. numberOfRegisterPages(layout) - 1 :
                      register \in On(refreshRegisterDisplay(layout, k))}
         IN  \E k \in on : on = {k}
<1> DEFINE pages0 == numberOfRegisterPages(layout)
           on == {k \in 0 .. pages0 - 1 : register \in On(refreshRegisterDisplay(layout, k))}
<1>1. register # Pc
  BY RegistersDiffer
<1>2. \A k \in 0 .. pages0 - 1 : k \in on <=> register \in Shown(layout, k)
  BY <1>1, PagesShown
<1>3. /\ layout = 0 => pages0 = 2
      /\ layout = 1 => pages0 = 4
  BY DEF numberOfRegisterPages
<1>4. /\ \A k : k \in 0 .. 2 - 1 <=> k = 0 \/ k = 1
      /\ \A k : k \in 0 .. 4 - 1 <=> k = 0 \/ k = 1 \/ k = 2 \/ k = 3
  OBVIOUS
<1>5. on \subseteq 0 .. pages0 - 1
  OBVIOUS
<1>6. /\ Shown(0, 0) = {A(k) : k \in 0 .. 15} /\ Shown(0, 1) = Special
      /\ Shown(1, 0) = {A(k) : k \in 0 .. 7} /\ Shown(1, 1) = {A(k) : k \in 8 .. 15}
      /\ Shown(1, 2) = Range(Upper) /\ Shown(1, 3) = Range(Lower)
  BY Lists DEF Shown
<1>7. CASE register \in Special
  <2>1. \A k \in Nat : register # A(k)
    BY <1>7, RegistersDiffer
  <2>2. /\ register \in Range(Upper) \/ register \in Range(Lower)
        /\ ~(register \in Range(Upper) /\ register \in Range(Lower))
    <3>1. Range(Upper) = {<<"CPU Flags">>, <<"MDR">>, <<"IA">>}
      BY Three, Zenon DEF Upper
    <3>2. Range(Lower) = {<<"Stack Pointer">>, <<"IR">>, <<"MAR">>}
      BY Three, Zenon DEF Lower
    <3>3. register \in Range(Upper) \/ register \in Range(Lower)
      BY <1>7 DEF Special
    <3>4. \A a, b : a # b => <<a>> # <<b>>
      OBVIOUS
    <3>5. register \in Range(Upper) => register \notin Range(Lower)
      BY <3>1, <3>2, <3>4
    <3> QED
      BY <3>3, <3>5
  <2>3. \A j \in 0 .. 15 : j \in Nat
    OBVIOUS
  <2>4. /\ register \notin Shown(0, 0) /\ register \in Shown(0, 1)
        /\ register \notin Shown(1, 0) /\ register \notin Shown(1, 1)
        /\ register \in Shown(1, 2) <=> register \notin Shown(1, 3)
    BY <1>6, <1>7, <2>1, <2>2
  <2> HIDE DEF on, pages0
  <2>5. CASE layout = 0
    <3>1. on = {1}
      BY <1>2, <1>3, <1>4, <1>5, <2>4, <2>5
    <3> QED
      BY <3>1 DEF on, pages0
  <2>6. CASE layout = 1 /\ register \in Shown(1, 2)
    <3>1. on = {2}
      BY <1>2, <1>3, <1>4, <1>5, <2>4, <2>6
    <3> QED
      BY <3>1 DEF on, pages0
  <2>7. CASE layout = 1 /\ register \notin Shown(1, 2)
    <3>1. on = {3}
      BY <1>2, <1>3, <1>4, <1>5, <2>4, <2>7
    <3> QED
      BY <3>1 DEF on, pages0
  <2> QED
    BY <2>5, <2>6, <2>7
<1>8. CASE register \in {A(k) : k \in 0 .. 15}
  <2>1. PICK j \in 0 .. 15 : register = A(j)
    BY <1>8
  <2>2. \A k \in 0 .. 15 : A(k) = register => k = j
    BY <2>1, RegistersDiffer
  <2>3. register \notin Special
    BY <2>1, RegistersDiffer
  <2>4. register \notin Range(Upper) /\ register \notin Range(Lower)
    BY <2>3 DEF Special
  <2>5. /\ \A k \in 0 .. 7 : k \in 0 .. 15 /\ k \notin 8 .. 15
        /\ \A k \in 8 .. 15 : k \in 0 .. 15 /\ k \notin 0 .. 7
        /\ j \in 0 .. 7 \/ j \in 8 .. 15
    OBVIOUS
  <2>6. register \in {A(k) : k \in 0 .. 7} <=> j \in 0 .. 7
    BY <2>1, <2>2, <2>5
  <2>7. register \in {A(k) : k \in 8 .. 15} <=> j \in 8 .. 15
    BY <2>1, <2>2, <2>5
  <2>8. /\ register \in Shown(0, 0) /\ register \notin Shown(0, 1)
        /\ register \in Shown(1, 0) <=> j \in 0 .. 7
        /\ register \in Shown(1, 1) <=> j \in 8 .. 15
        /\ register \notin Shown(1, 2) /\ register \notin Shown(1, 3)
    BY <1>6, <1>8, <2>3, <2>4, <2>6, <2>7
  <2> HIDE DEF on, pages0
  <2>9. CASE layout = 0
    <3>1. on = {0}
      BY <1>2, <1>3, <1>4, <1>5, <2>8, <2>9
    <3> QED
      BY <3>1 DEF on, pages0
  <2>10. CASE layout = 1 /\ j \in 0 .. 7
    <3>1. on = {0}
      BY <1>2, <1>3, <1>4, <1>5, <2>5, <2>8, <2>10
    <3> QED
      BY <3>1 DEF on, pages0
  <2>11. CASE layout = 1 /\ j \in 8 .. 15
    <3>1. on = {1}
      BY <1>2, <1>3, <1>4, <1>5, <2>5, <2>8, <2>11
    <3> QED
      BY <3>1 DEF on, pages0
  <2> QED
    BY <2>5, <2>9, <2>10, <2>11
<1> QED
  BY <1>7, <1>8

\* Whatever the terminal is resized to, the pages show every register on one of
\* them, the program counter on all, and none reaches outside its panel
\* (gui.c:127-168, 203-310).
THEOREM RegistersAllShown == GuiSpec => []RegistersShown
<1> DEFINE layout == registerDisplayLayout(seen[2])
           page(k) == refreshRegisterDisplay(layout, k)
<1>1. ASSUME GuiInv, at \in {"draw", "top", "work"}
      PROVE  /\ \A k \in 0 .. pages - 1 : FitsIn(dims["registers"], page(k)) /\ Pc \in On(page(k))
             /\ \A register \in Special \cup {A(k) : k \in 0 .. 15} :
                  \E k \in {k \in 0 .. pages - 1 : register \in On(page(k))} :
                    {j \in 0 .. pages - 1 : register \in On(page(j))} = {k}
  <2>1. /\ seen[1] \in Nat /\ seen[2] \in Nat
        /\ dims = initDimensions(seen[1], seen[2]) /\ pages = numberOfRegisterPages(layout)
    BY <1>1, SizesAssumption DEF GuiInv, LaidOut, Laid
  <2>2. /\ layout \in {0, 1}
        /\ RegistersHeight(seen[2]) = IF layout = 0 THEN 12 ELSE 8
    BY DEF registerDisplayLayout, RegistersHeight
  <2>3. /\ dims["registers"] = [x |-> 0, y |-> 0, w |-> Width(seen[1]), h |-> RegistersHeight(seen[2])]
        /\ Width(seen[1]) \in Nat /\ Width(seen[1]) >= 75
    BY <2>1, Windows, Measures
  <2> HIDE DEF layout
  <2>4. ASSUME NEW k \in 0 .. pages - 1
        PROVE  FitsIn(dims["registers"], page(k)) /\ Pc \in On(page(k))
    <3>1. /\ Len(page(k)) = IF layout = 0 THEN 10 ELSE 6
          /\ Narrow(page(k), 73) /\ Pc \in On(page(k))
      BY <2>1, <2>2, PagesShown
    <3>2. dims["registers"].h = (IF layout = 0 THEN 12 ELSE 8) /\ dims["registers"].w = Width(seen[1])
      BY <2>2, <2>3
    <3>3. Len(page(k)) <= dims["registers"].h - 2
      BY <2>2, <3>1, <3>2
    <3>4. \A y \in DOMAIN page(k) : RowWidth(page(k)[y]) <= dims["registers"].w - 2
      <4>1. \A r \in 0 .. 73, w \in Nat : w >= 75 => r <= w - 2
        OBVIOUS
      <4>2. \A y \in DOMAIN page(k) : RowWidth(page(k)[y]) \in 0 .. 73
        BY <3>1 DEF Narrow
      <4> QED
        BY <2>3, <3>2, <4>1, <4>2
    <3> QED
      BY <3>1, <3>3, <3>4 DEF FitsIn
  <2> QED
    BY <2>1, <2>2, <2>4, OnePageEach
<1>2. GuiInv => RegistersShown
  BY <1>1 DEF RegistersShown
<1> QED
  BY <1>2, GuiInvHolds, PTL
=============================================================================
