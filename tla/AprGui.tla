------------------------------- MODULE AprGui -------------------------------
(***************************************************************************)
(* The life of the windows of gui.c under signals.  SIGWINCH only sets     *)
(* windowShouldResize; unlockGui, at the head of the main loop, acts on it. *)
(* SIGINT runs finish where the program happens to be.                     *)
(*                                                                         *)
(* In C89 a handler may be removed when its signal is delivered (gui.c:31); *)
(* until handle_winch has installed itself again a SIGWINCH is then        *)
(* ignored.  Where signal() does not remove it, the signal is held back    *)
(* until the handler returns.  The model has both.                         *)
(*                                                                         *)
(* `at' says where the main program is:                                    *)
(*   "load"     the loaders of main    "top"     the test in unlockGui     *)
(*   "start"    initscr                "reset"   the flag is to be reset   *)
(*   "install"  signal() in initgui    "destroy" destroygui in doResize    *)
(*   "layout"   initDimensions         "refresh" refresh() in doResize     *)
(*   "create"   newwin, subwin         "work"    the rest of the loop      *)
(*   "draw"     borders and panels     "port"    held up in portIO         *)
(*   "finish"   finish, after mainloop "free"    the rest of finish        *)
(*   "exited"                                                              *)
(* portIO may hold the loop up in two places: PRTin 2 without a key        *)
(* (ports.c:104) and a write to a fifo that is full (ports.c:183).         *)
(* The eight delwin calls are one step.  A read of the size of the         *)
(* terminal by curses, in initscr and in refresh() after endwin, is        *)
(* external code, and so is the handler curses itself has for SIGWINCH     *)
(* between initscr and signal(): it tells the program by KEY_RESIZE, a key *)
(* mainloop does nothing about.                                            *)
(***************************************************************************)
EXTENDS AprRegisters

CONSTANTS
  Sizes,         \* <<columns, rows>> the terminal may have
  MaxResizes,    \* bound: how often its size changes
  Interrupts,    \* may the user type the interrupt character?
  CharIsSigned   \* is a plain char signed, as on x86 and not on ARM?

ASSUME SizesAssumption == Sizes \subseteq Nat \X Nat
ASSUME MaxResizesAssumption == MaxResizes \in Nat
ASSUME InterruptsAssumption == Interrupts \in BOOLEAN
ASSUME CharAssumption == CharIsSigned \in BOOLEAN

VARIABLES
  at,
  handler,              \* of SIGWINCH: "none", that of "curses", handle_winch
                        \* "ready" or "running"
  windowShouldResize,
  screen,               \* the size of the terminal
  pending,              \* a SIGWINCH has been sent and not yet delivered
  missed,               \* a resize went by handle_winch, before it was installed
  seen,                 \* the size getmaxyx gives when the layout is made
  dims,                 \* rx .. ih
  pages,                \* numberOfRegisterPages
  registerPage,         \* a plain char
  windows,              \* "none", "live", "deleted" or "twice" deleted
  resizes

terminal == <<screen, pending, missed, resizes>>
layoutvars == <<seen, dims, pages, registerPage>>
guivars == <<at, handler, windowShouldResize, terminal, layoutvars, windows>>

-----------------------------------------------------------------------------
(* The terminal and the signals *)

\* The kernel changes the size and sends the signal, which is ignored where
\* there is no handler and lost on the program where it is that of curses.
ResizeTerminal ==
  /\ at # "exited" /\ resizes < MaxResizes
  /\ screen' \in Sizes \ {screen}
  /\ pending' \in CASE handler = "ready" -> {TRUE}
                    [] handler = "running" -> {pending, TRUE}
                    [] OTHER -> {pending}
  /\ missed' = (missed \/ handler = "curses")
  /\ resizes' = resizes + 1
  /\ UNCHANGED <<at, handler, windowShouldResize, layoutvars, windows>>

\* Wrong variant: the resize is begun in the handler.
handle_winchDirect ==
  /\ pending /\ handler = "ready" /\ at # "exited"
  /\ pending' = FALSE /\ handler' = "running"
  /\ windows' = "deleted"
  /\ UNCHANGED <<at, windowShouldResize, screen, missed, resizes, layoutvars>>

\* Wrong variant: a resize while one is being handled is taken as done with it.
handle_winchOnce ==
  /\ pending /\ handler = "ready" /\ at # "exited"
  /\ pending' = FALSE /\ handler' = "running"
  /\ windowShouldResize' = (at \notin {"reset", "destroy", "refresh", "layout", "create"})
  /\ UNCHANGED <<at, screen, missed, resizes, layoutvars, windows>>

\* handle_winch begins, on top of whatever the program does
handle_winch ==
  /\ pending /\ handler = "ready" /\ at # "exited"
  /\ pending' = FALSE /\ handler' = "running"
  /\ windowShouldResize' = TRUE
  /\ UNCHANGED <<at, screen, missed, resizes, layoutvars, windows>>

\* signal(SIGWINCH, handle_winch), and the handler returns
Reinstall ==
  /\ handler = "running" /\ at # "exited"
  /\ handler' = "ready"
  /\ UNCHANGED <<at, windowShouldResize, terminal, layoutvars, windows>>

destroygui ==
  windows' = CASE windows = "none" -> "none"
               [] windows = "live" -> "deleted"
               [] OTHER -> "twice"

\* finish as the handler of SIGINT, also on top of handle_winch
Interrupt ==
  /\ Interrupts /\ at # "exited"
  /\ destroygui
  /\ at' = "exited"
  /\ UNCHANGED <<handler, windowShouldResize, terminal, layoutvars>>

-----------------------------------------------------------------------------
(* The program *)

\* The main program is at `from', no handler on top of it, and goes on to `to'.
Goes(from, to) == at = from /\ handler # "running" /\ at' = to

\* loadProgram shows memory before there is a window to show it in; curses
\* refuses a null window.
LoadPrograms ==
  /\ Goes("load", "start")
  /\ UNCHANGED <<handler, windowShouldResize, terminal, layoutvars, windows>>

InitScreen ==
  /\ Goes("start", "install")
  /\ seen' = screen
  /\ handler' = "curses"
  /\ UNCHANGED <<windowShouldResize, terminal, dims, pages, registerPage, windows>>

\* signal(SIGWINCH, handle_winch)
Install ==
  /\ Goes("install", "layout")
  /\ handler' = "ready"
  /\ registerPage' = 0
  /\ UNCHANGED <<windowShouldResize, terminal, seen, dims, pages, windows>>

\* Wrong variant: the page is kept as it is.
LayOutKeepingPage ==
  /\ Goes("layout", "create")
  /\ dims' = initDimensions(seen[1], seen[2])
  /\ pages' = numberOfRegisterPages(registerDisplayLayout(seen[2]))
  /\ UNCHANGED <<handler, windowShouldResize, terminal, seen, registerPage, windows>>

\* getmaxyx, initDimensions and initRegisterPageLayout
LayOut ==
  /\ Goes("layout", "create")
  /\ dims' = initDimensions(seen[1], seen[2])
  /\ pages' = numberOfRegisterPages(registerDisplayLayout(seen[2]))
  /\ registerPage' = registerPage % pages'
  /\ UNCHANGED <<handler, windowShouldResize, terminal, seen, windows>>

\* Wrong variant: the flag is reset when the resize is done.
CreateAndReset ==
  /\ Goes("create", "draw")
  /\ windows' = "live"
  /\ windowShouldResize' = FALSE
  /\ UNCHANGED <<handler, terminal, layoutvars>>

Create ==
  /\ Goes("create", "draw")
  /\ windows' = "live"
  /\ UNCHANGED <<handler, windowShouldResize, terminal, layoutvars>>

Draw ==
  /\ Goes("draw", "top")
  /\ UNCHANGED <<handler, windowShouldResize, terminal, layoutvars, windows>>

unlockGui ==
  /\ Goes("top", IF windowShouldResize THEN "reset" ELSE "work")
  /\ UNCHANGED <<handler, windowShouldResize, terminal, layoutvars, windows>>

Reset ==
  /\ Goes("reset", "destroy")
  /\ windowShouldResize' = FALSE
  /\ UNCHANGED <<handler, terminal, layoutvars, windows>>

Destroy ==
  /\ Goes("destroy", "refresh")
  /\ destroygui
  /\ UNCHANGED <<handler, windowShouldResize, terminal, layoutvars>>

\* refresh() after endwin: curses picks up the size; doResize goes on to initgui
PickUpSize ==
  /\ Goes("refresh", "layout")
  /\ seen' = screen
  /\ missed' = FALSE
  /\ UNCHANGED <<handler, windowShouldResize, screen, pending, resizes,
                 dims, pages, registerPage, windows>>

\* Wrong variant: R goes round one page too far.
WorkBelow ==
  /\ Goes("work", "top")
  /\ registerPage' \in {registerPage, (registerPage + 1) % pages,
                        IF registerPage = 0 THEN pages ELSE registerPage - 1}
  /\ UNCHANGED <<handler, windowShouldResize, terminal, seen, dims, pages, windows>>

\* --registerPage < 0, where a char is signed; else one below 0 is 255.
Previous ==
  IF registerPage > 0 THEN registerPage - 1
                      ELSE IF CharIsSigned THEN pages - 1 ELSE 255

\* The rest of the loop: among the keys, only r and R change anything here.
Work ==
  /\ Goes("work", "top")
  /\ registerPage' \in {registerPage, (registerPage + 1) % pages, Previous}
  /\ UNCHANGED <<handler, windowShouldResize, terminal, seen, dims, pages, windows>>

\* The program that is run reads port 2 and the user lets it wait, or it writes
\* port 7 and the fifo is full.
HoldUp ==
  /\ Goes("work", "port")
  /\ UNCHANGED <<handler, windowShouldResize, terminal, layoutvars, windows>>

GoOn ==
  /\ Goes("port", "top")
  /\ UNCHANGED <<handler, windowShouldResize, terminal, layoutvars, windows>>

\* The fifo has lost its reader: SIGPIPE, which nothing catches
BrokenPipe ==
  /\ Goes("port", "exited")
  /\ UNCHANGED <<handler, windowShouldResize, terminal, layoutvars, windows>>

Leave ==
  /\ Goes("work", "finish")
  /\ UNCHANGED <<handler, windowShouldResize, terminal, layoutvars, windows>>

Finish ==
  /\ Goes("finish", "free")
  /\ destroygui
  /\ UNCHANGED <<handler, windowShouldResize, terminal, layoutvars>>

\* The tables are freed, and exit
Exit ==
  /\ Goes("free", "exited")
  /\ UNCHANGED <<handler, windowShouldResize, terminal, layoutvars, windows>>

Exited == at = "exited" /\ UNCHANGED guivars

-----------------------------------------------------------------------------
\* The ports are open.
GuiInit ==
  /\ at = "load" /\ handler = "none" /\ windowShouldResize = FALSE
  /\ screen \in Sizes /\ pending = FALSE /\ missed = FALSE /\ resizes = 0
  /\ seen = <<0, 0>> /\ pages = 0 /\ registerPage = 0
  /\ dims = [p \in Panel |-> [x |-> 0, y |-> 0, w |-> 0, h |-> 0]]
  /\ windows = "none"

Program ==
  \/ LoadPrograms \/ InitScreen \/ Install \/ LayOut \/ Create \/ Draw
  \/ unlockGui \/ Reset \/ Destroy \/ PickUpSize
  \/ Work \/ HoldUp \/ GoOn \/ BrokenPipe \/ Leave \/ Finish \/ Exit

Signals == ResizeTerminal \/ handle_winch \/ Reinstall \/ Interrupt

GuiNext == Program \/ Signals \/ Exited
GuiSpec == GuiInit /\ [][GuiNext]_guivars

\* The process keeps running, and the kernel delivers what is pending.  Nothing
\* is assumed of portIO: the user may leave a program that waits for a key alone
\* for ever, and the reader of the fifo may never make room.
Proceeds == Program /\ at # "port"
GuiFairSpec ==
  GuiSpec /\ WF_guivars(Proceeds) /\ WF_guivars(handle_winch) /\ WF_guivars(Reinstall)

-----------------------------------------------------------------------------
(* Properties *)

GuiTypeOK ==
  /\ at \in {"load", "start", "install", "layout", "create", "draw", "top", "reset", "destroy",
             "refresh", "work", "port", "finish", "free", "exited"}
  /\ handler \in {"none", "curses", "ready", "running"} /\ windowShouldResize \in BOOLEAN
  /\ screen \in Sizes /\ pending \in BOOLEAN /\ missed \in BOOLEAN /\ resizes \in 0 .. MaxResizes
  /\ seen \in Sizes \cup {<<0, 0>>}
  /\ dims \in [Panel -> [x : Nat, y : Nat, w : Nat, h : Nat]]
  /\ pages \in {0, 2, 4} /\ registerPage \in (IF CharIsSigned THEN 0 .. 3 ELSE 0 .. 255)
  /\ windows \in {"none", "live", "deleted", "twice"}

\* From the moment handle_winch is installed no resize is forgotten, wherever it
\* falls in the handling of the one before, and although SIGWINCH is ignored for
\* a moment in handle_winch: unless there is still something to act on, the size
\* that was laid out is that of the terminal.  One between initscr and signal()
\* is forgotten, until the next one (gui.c:28-32, 44-50, 56-58).
ResizeKept ==
  at \in {"top", "work"} /\ ~windowShouldResize /\ ~pending /\ ~missed =>
    seen = screen /\ dims = initDimensions(screen[1], screen[2])

\* A resize is acted on some day, whatever comes in between, with two exceptions:
\* a program that is run stays in portIO for ever, so that the main loop does not
\* come back to unlockGui; or the resize fell between initscr and signal() and no
\* other follows (gui.c:44-50, 56-58; ports.c:104-116, 183).
ResizeHandled ==
  seen # screen ~> (seen = screen \/ at = "exited" \/ [](at = "port") \/ []missed)

\* What draws never finds a window that was deleted.  Before initgui, where
\* loadProgram shows memory, there is none at all, and curses refuses to draw;
\* from then on they are only away inside doResize and after the end
\* (sim.c:39; gui.c:11-23; tests/test_resize.py:3-4).
WindowsWhenDrawing ==
  /\ at = "load" => windows = "none"
  /\ at \in {"draw", "top", "work", "port"} => windows = "live"

\* Where a char is signed, the register page that is shown exists, in the layout
\* there is, after any sequence of r, R and resizes.  Where it is not, R at the
\* first page goes to page 255 (gui.c:156-182).
PageExists ==
  CharIsSigned /\ at \in {"create", "draw", "top", "work", "port"} => registerPage < pages

\* The panels fill the terminal curses knows, exactly, when it has the least size
\* or more; a smaller one is laid out as one of the least size (gui.c:118-154).
PanelsTile ==
  at \in {"draw", "top", "work"} =>
    /\ Tiles(dims, Width(seen[1]), Height(seen[2]))
    /\ InScreen(dims, Width(seen[1]), Height(seen[2]))
    /\ RoomToScroll(dims)

\* The pages r and R go through show every register on exactly one of them and
\* the program counter on all, inside the panel of the present layout: no
\* register is cut off or out of reach after a resize (gui.c:127-168, 203-310).
RegistersShown ==
  at \in {"draw", "top", "work"} =>
    LET page(k) == refreshRegisterDisplay(registerDisplayLayout(seen[2]), k)
        on(register) == {k \in 0 .. pages - 1 : register \in On(page(k))}
    IN  /\ \A k \in 0 .. pages - 1 : FitsIn(dims["registers"], page(k)) /\ Pc \in On(page(k))
        /\ \A register \in Special \cup {A(k) : k \in 0 .. 15} :
             \E k \in on(register) : on(register) = {k}

\* "Only set a flag here; curses calls are not async-signal-safe" (gui.c:25), and
\* the crashes of "a double delwin in destroygui" (tests/test_resize.py:3): no
\* window is deleted twice, a signal handler included.
DeletedOnce == windows # "twice"
=============================================================================
