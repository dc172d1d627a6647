----------------------------- MODULE AprPanels -----------------------------
(***************************************************************************)
(* The memory and the stack panel together, under the keys and the mouse   *)
(* (mainloop of sim.c, gui.c).  The stack panel is an instance of the      *)
(* memory panel's module: its functions are the same code for 256 lines,   *)
(* its own window, and never with disassembly.                             *)
(*                                                                         *)
(* findNextBreakpoint is here turn by turn; AprSim takes its answer only.  *)
(***************************************************************************)
EXTENDS AprDisplay

CONSTANTS
  StackSize,                  \* 256
  StackRows, StackColumns,    \* sh - 2, sw - 2
  StackLineLength,            \* as LineLength
  PageLines,                  \* 0x0100
  Marks,                      \* bound: addresses the user marks
  ProgramCounters             \* bound: where the program counter may be

ASSUME StackAssumption ==
  /\ StackSize \in Nat \ {0} /\ StackRows \in Nat \ {0, 1} /\ StackColumns \in Nat \ {0}
  /\ StackLineLength \in [BOOLEAN -> [0 .. StackSize - 1 -> Nat \ {0}]]
  /\ Amounts \subseteq 1 .. StackRows - 1
ASSUME PageAssumption == PageLines \in Nat \ {0}
ASSUME MarksAssumption == Marks \cup ProgramCounters \subseteq 0 .. Size - 1

VARIABLES
  stackdisplay, stack,
  breakpoints,
  at,             \* "keys", or "search" inside findNextBreakpoint
  i, stepSize     \* its variables, 0 outside

stackpanel == <<stackdisplay, stack>>
search == <<at, i, stepSize>>
panelsvars == <<panelvars, stackpanel, breakpoints, search>>

Stack == INSTANCE AprDisplay
  WITH Size <- StackSize, Rows <- StackRows, Columns <- StackColumns,
       LineLength <- StackLineLength, memdisplay <- stackdisplay, mainmem <- stack,
       printDisassembly <- FALSE

-----------------------------------------------------------------------------
(* Keys and mouse that move one of the panels *)

\* Wrong variant: the window of the other panel is scrolled.
scrollStackDisplayDownOther(lines) ==
  /\ stackdisplay' = IF stackdisplay + lines > StackSize - 1 THEN StackSize - 1
                     ELSE stackdisplay + lines
  /\ UNCHANGED stack

scrollStackDisplayUp(lines) == Stack!scrollMemoryDisplayUp(lines)
scrollStackDisplayDown(lines) == Stack!scrollMemoryDisplayDown(lines)

MemoryOnly == at = "keys" /\ UNCHANGED <<stackpanel, breakpoints, search>>
StackOnly == at = "keys" /\ UNCHANGED <<panelvars, breakpoints, search>>

\* The mouse is on the stack panel (wenclose) or anywhere else.
scrollSelectedDisplayUp(lines) ==
  \/ StackOnly /\ scrollStackDisplayUp(lines)
  \/ MemoryOnly /\ scrollMemoryDisplayUp(lines)
scrollSelectedDisplayDown(lines) ==
  \/ StackOnly /\ scrollStackDisplayDown(lines)
  \/ MemoryOnly /\ scrollMemoryDisplayDown(lines)

Wheel == \E lines \in Amounts : scrollSelectedDisplayUp(lines) \/ scrollSelectedDisplayDown(lines)

\* j and k, J and K
LineKeys ==
  \/ MemoryOnly /\ (scrollMemoryDisplayUp(1) \/ scrollMemoryDisplayDown(1))
  \/ StackOnly /\ (scrollStackDisplayUp(1) \/ scrollStackDisplayDown(1))

\* The memory panel is drawn at address a.
Show(a) ==
  /\ memdisplay' = a
  /\ UNCHANGED printDisassembly /\ Refresh

PageKeys ==
  /\ MemoryOnly
  /\ \/ Show(IF memdisplay + PageLines > Size - 1 THEN Size - 1 ELSE memdisplay + PageLines)
     \/ Show(IF memdisplay > PageLines THEN memdisplay - PageLines ELSE 0)

\* p
ToProgramCounter == MemoryOnly /\ \E pc \in ProgramCounters : Show(pc)

DisassemblyKey == MemoryOnly /\ ToggleDisassembly

\* b
MarkKey ==
  /\ at = "keys" /\ memdisplay \in Marks
  /\ breakpoints' = (breakpoints \ {memdisplay}) \cup ({memdisplay} \ breakpoints)
  /\ UNCHANGED <<memdisplay, printDisassembly, stackpanel, search>> /\ Refresh

-----------------------------------------------------------------------------
(* n and N: findNextBreakpoint *)

\* Wrong variant: the search begins where the panel is.
SearchKeyHere ==
  /\ at = "keys"
  /\ at' = "search"
  /\ stepSize' \in {1, -1}
  /\ i' = memdisplay
  /\ UNCHANGED <<panelvars, stackpanel, breakpoints>>

SearchKey ==
  /\ at = "keys"
  /\ at' = "search"
  /\ stepSize' \in {1, -1}
  /\ i' = (memdisplay + stepSize') % Size
  /\ UNCHANGED <<panelvars, stackpanel, breakpoints>>

Return == at' = "keys" /\ i' = 0 /\ stepSize' = 0

\* Wrong variant: the search does not stop where it began.
NotFoundNever == FALSE /\ UNCHANGED panelsvars

NotFound ==
  /\ at = "search" /\ i = memdisplay
  /\ Return
  /\ UNCHANGED <<panelvars, stackpanel, breakpoints>>

Found ==
  /\ at = "search" /\ i # memdisplay /\ i \in breakpoints
  /\ Return
  /\ Show(i)
  /\ UNCHANGED <<stackpanel, breakpoints>>

SearchOn ==
  /\ at = "search" /\ i # memdisplay /\ i \notin breakpoints
  /\ i' = (i + stepSize) % Size
  /\ UNCHANGED <<panelvars, stackpanel, breakpoints, at, stepSize>>

-----------------------------------------------------------------------------
PanelsInit ==
  /\ PanelInit
  /\ stackdisplay = 0 /\ stack = Stack!Refreshed(0, FALSE)
  /\ breakpoints = {}
  /\ at = "keys" /\ i = 0 /\ stepSize = 0

Key == Wheel \/ LineKeys \/ PageKeys \/ ToProgramCounter \/ DisassemblyKey \/ MarkKey \/ SearchKey
Search == NotFound \/ Found \/ SearchOn

PanelsNext == Key \/ Search

\* The process keeps running.
PanelsSpec == PanelsInit /\ [][PanelsNext]_panelsvars /\ WF_panelsvars(Search)

-----------------------------------------------------------------------------
(* Properties *)

PanelsTypeOK ==
  /\ PanelTypeOK /\ Stack!PanelTypeOK
  /\ breakpoints \subseteq Marks
  /\ at \in {"keys", "search"} /\ i \in 0 .. Size - 1 /\ stepSize \in {-1, 0, 1}

\* The stack panel too is what a whole drawing would give, however it and the
\* memory panel were scrolled before, as long as no line is as wide as the window
\* (gui.c:507-546).
StackPicture == Stack!Picture

\* What is seen from memdisplay going upwards or downwards
Distance(step, a) == (step * (a - memdisplay)) % Size
Others == breakpoints \ {memdisplay}

\* The address n and N move to is the nearest other one that is marked, going
\* round the ends of memory in the direction of the key; without one the panel
\* stays (sim.c:149-158, 231-251).
FoundNearest ==
  [][at = "search" /\ at' = "keys" =>
       \/ Others = {} /\ UNCHANGED memdisplay
       \/ /\ memdisplay' \in Others
          /\ \A a \in Others : Distance(stepSize, memdisplay') <= Distance(stepSize, a)
    ]_panelsvars

\* The search always comes back, also when nothing is marked, or only the first
\* address of the panel (sim.c:151).
SearchEnds == at = "search" ~> at = "keys"
=============================================================================
