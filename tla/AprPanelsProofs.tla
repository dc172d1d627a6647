--------------------------- MODULE AprPanelsProofs ---------------------------
(***************************************************************************)
(* Proofs about the two panels: their type, what they show for every size  *)
(* of memory and window, and that n and N go to the nearest mark.          *)
(*                                                                         *)
(* The lemmas about the drawing are those of AprDisplayProofs, for the     *)
(* stack panel by instance as the panel itself.                            *)
(***************************************************************************)
EXTENDS AprPanels, AprDisplayProofs

SP == INSTANCE AprDisplayProofs
  WITH Size <- StackSize, Rows <- StackRows, Columns <- StackColumns,
       LineLength <- StackLineLength, memdisplay <- stackdisplay, mainmem <- stack,
       printDisassembly <- FALSE

\* The stack panel's constants are as the module of the panel assumes.
LEMMA StackIsAPanel ==
  /\ StackSize \in Nat \ {0} /\ StackRows \in Nat \ {0, 1} /\ StackColumns \in Nat \ {0}
  /\ StackLineLength \in [BOOLEAN -> [0 .. StackSize - 1 -> Nat \ {0}]]
  /\ Amounts \subseteq 1 .. StackRows - 1
BY StackAssumption

LEMMA AmountIsSmall ==
  ASSUME NEW lines \in Amounts \cup {1}
  PROVE  lines \in 1 .. Rows - 1 /\ lines \in 1 .. StackRows - 1 /\ lines \in Nat
<1>1. 1 \in 1 .. Rows - 1 /\ 1 \in 1 .. StackRows - 1
  BY SizeAssumption, StackAssumption
<1> QED
  BY <1>1, AmountsAssumption, StackAssumption

\* What an action of the memory panel does
MemoryStep ==
  \/ \E lines \in Amounts \cup {1} : scrollMemoryDisplayUp(lines) \/ scrollMemoryDisplayDown(lines)
  \/ memdisplay' \in 0 .. Size - 1 /\ printDisassembly' \in BOOLEAN /\ Refresh
StackStep ==
  \E lines \in Amounts \cup {1} : scrollStackDisplayUp(lines) \/ scrollStackDisplayDown(lines)

LEMMA ShowIsAStep ==
  ASSUME PanelTypeOK, NEW a \in 0 .. Size - 1, Show(a)
  PROVE  MemoryStep
BY DEF PanelTypeOK, Show, MemoryStep

\* Every step is one of the memory panel, or of the stack panel, or leaves both.
LEMMA OnePanelAtATime ==
  ASSUME PanelsTypeOK, [PanelsNext]_panelsvars
  PROVE  \/ MemoryStep /\ UNCHANGED stackpanel
         \/ StackStep /\ UNCHANGED panelvars
         \/ UNCHANGED <<panelvars, stackpanel>>
<1> DEFINE Goal == \/ MemoryStep /\ UNCHANGED stackpanel
                   \/ StackStep /\ UNCHANGED panelvars
                   \/ UNCHANGED <<panelvars, stackpanel>>
<1>1. PanelTypeOK /\ Size \in Nat \ {0} /\ memdisplay \in 0 .. Size - 1 /\ i \in 0 .. Size - 1
      /\ printDisassembly \in BOOLEAN
  BY SizeAssumption DEF PanelsTypeOK, PanelTypeOK
<1>2. CASE Wheel
  BY <1>2 DEF Wheel, scrollSelectedDisplayUp, scrollSelectedDisplayDown, StackOnly, MemoryOnly,
              MemoryStep, StackStep
<1>3. CASE LineKeys
  BY <1>3 DEF LineKeys, StackOnly, MemoryOnly, MemoryStep, StackStep
<1>4. CASE PageKeys
  <2>1. \E a \in 0 .. Size - 1 : Show(a)
    <3>1. PageLines \in Nat
      BY PageAssumption
    <3>2. /\ (IF memdisplay + PageLines > Size - 1 THEN Size - 1 ELSE memdisplay + PageLines)
               \in 0 .. Size - 1
          /\ (IF memdisplay > PageLines THEN memdisplay - PageLines ELSE 0) \in 0 .. Size - 1
      BY <1>1, <3>1
    <3> QED
      BY <1>4, <3>2 DEF PageKeys
  <2> QED
    BY <1>1, <1>4, <2>1, ShowIsAStep DEF PageKeys, MemoryOnly
<1>5. CASE ToProgramCounter
  BY <1>1, <1>5, MarksAssumption, ShowIsAStep DEF ToProgramCounter, MemoryOnly
<1>6. CASE DisassemblyKey
  BY <1>1, <1>6 DEF DisassemblyKey, MemoryOnly, ToggleDisassembly, MemoryStep
<1>7. CASE MarkKey
  BY <1>1, <1>7 DEF MarkKey, MemoryStep
<1>8. CASE SearchKey \/ NotFound \/ SearchOn
  BY <1>8 DEF SearchKey, NotFound, SearchOn
<1>9. CASE Found
  BY <1>1, <1>9, ShowIsAStep DEF Found
<1>10. CASE UNCHANGED panelsvars
  BY <1>10 DEF panelsvars
<1> QED
  BY <1>2, <1>3, <1>4, <1>5, <1>6, <1>7, <1>8, <1>9, <1>10 DEF PanelsNext, Key, Search

\* Both instances of the panel are the same one.
LEMMA SameDrawing ==
  ASSUME NEW w, NEW y, NEW a, NEW step, NEW rows, NEW d
  PROVE  Stack!DrawRows(w, y, a, step, rows, d) = SP!DrawRows(w, y, a, step, rows, d)
BY DEF Stack!DrawRows, SP!DrawRows, Stack!DrawRow, SP!DrawRow, Stack!printMemory, SP!printMemory,
       Stack!Text, SP!Text, Stack!Tilde, SP!Tilde, Stack!mvwaddstr, SP!mvwaddstr,
       Stack!Line, SP!Line, Stack!Column, SP!Column, Stack!Blank, SP!Blank

LEMMA SameWindows ==
  /\ \A w, n : Stack!wscrl(w, n) = SP!wscrl(w, n)
  /\ \A top, d : Stack!Refreshed(top, d) = SP!Refreshed(top, d)
<1>1. \A w, n : Stack!wscrl(w, n) = SP!wscrl(w, n)
  BY DEF Stack!wscrl, SP!wscrl, Stack!Line, SP!Line, Stack!Column, SP!Column, Stack!Blank, SP!Blank
<1>2. Stack!werase = SP!werase
  BY DEF Stack!werase, SP!werase, Stack!Line, SP!Line, Stack!Column, SP!Column, Stack!Blank, SP!Blank
<1>3. \A top, d : Stack!Refreshed(top, d) = SP!Refreshed(top, d)
  BY <1>2, SameDrawing DEF Stack!Refreshed, SP!Refreshed
<1> QED
  BY <1>1, <1>3

LEMMA SamePanel ==
  /\ Stack!PanelTypeOK <=> SP!PanelTypeOK
  /\ Stack!Picture <=> SP!Picture
<1>1. Stack!PanelTypeOK <=> SP!PanelTypeOK
  BY DEF Stack!PanelTypeOK, SP!PanelTypeOK, Stack!Line, SP!Line, Stack!Column, SP!Column
<1>2. Stack!Picture <=> SP!Picture
  BY DEF Stack!Picture, SP!Picture, Stack!Line, SP!Line, Stack!Column, SP!Column, Stack!Blank,
         SP!Blank, Stack!Tilde, SP!Tilde
<1> QED
  BY <1>1, <1>2

LEMMA StackStepIsAStep ==
  ASSUME StackStep
  PROVE  \E lines \in Amounts \cup {1} :
           SP!scrollMemoryDisplayUp(lines) \/ SP!scrollMemoryDisplayDown(lines)
<1>1. PICK lines \in Amounts \cup {1} : scrollStackDisplayUp(lines) \/ scrollStackDisplayDown(lines)
  BY DEF StackStep
<1>2. CASE scrollStackDisplayUp(lines)
  <2>1. SP!scrollMemoryDisplayUp(lines)
    BY <1>2, SameDrawing, SameWindows
    DEF scrollStackDisplayUp, Stack!scrollMemoryDisplayUp, SP!scrollMemoryDisplayUp
  <2> QED
    BY <2>1
<1>3. CASE scrollStackDisplayDown(lines)
  <2>1. SP!scrollMemoryDisplayDown(lines)
    BY <1>3, SameDrawing, SameWindows
    DEF scrollStackDisplayDown, Stack!scrollMemoryDisplayDown, SP!scrollMemoryDisplayDown
  <2> QED
    BY <2>1
<1> QED
  BY <1>1, <1>2, <1>3

LEMMA StackAtFirst ==
  ASSUME PanelsInit
  PROVE  SP!PanelInit
BY SameWindows DEF PanelsInit, SP!PanelInit

-----------------------------------------------------------------------------
(* Type *)

LEMMA TypeInit ==
  PanelsInit => PanelsTypeOK
<1> SUFFICES ASSUME PanelsInit PROVE PanelsTypeOK
  OBVIOUS
<1>1. PanelTypeOK
  BY TypeAtFirst DEF PanelsInit
<1>2. Stack!PanelTypeOK
  <2>1. SP!PanelInit
    BY StackAtFirst
  <2>2. SP!PanelTypeOK
    BY <2>1, SP!TypeAtFirst, StackIsAPanel
  <2> QED
    BY <2>2, SamePanel
<1>3. 0 \in 0 .. Size - 1
  BY SizeAssumption
<1> QED
  BY <1>1, <1>2, <1>3 DEF PanelsInit, PanelsTypeOK

LEMMA MemoryTypeNext ==
  ASSUME PanelsTypeOK, [PanelsNext]_panelsvars
  PROVE  PanelTypeOK'
<1>1. PanelTypeOK
  BY DEF PanelsTypeOK
<1>2. CASE MemoryStep
  BY <1>1, <1>2, AmountIsSmall, TypeAfterScrollUp, TypeAfterScrollDown, TypeAfterRefresh DEF MemoryStep
<1>3. CASE UNCHANGED panelvars
  BY <1>1, <1>3 DEF PanelTypeOK, panelvars, Line, Column
<1> QED
  BY <1>2, <1>3, OnePanelAtATime

LEMMA StackTypeNext ==
  ASSUME PanelsTypeOK, [PanelsNext]_panelsvars
  PROVE  Stack!PanelTypeOK'
<1>1. SP!PanelTypeOK
  BY SamePanel DEF PanelsTypeOK
<1>2. CASE StackStep
  <2>1. PICK lines \in Amounts \cup {1} :
          SP!scrollMemoryDisplayUp(lines) \/ SP!scrollMemoryDisplayDown(lines)
    BY <1>2, StackStepIsAStep
  <2> QED
    <3>1. lines \in Nat
      BY AmountIsSmall
    <3>2. SP!PanelTypeOK'
      BY <1>1, <2>1, <3>1, StackIsAPanel, SP!TypeAfterScrollUp, SP!TypeAfterScrollDown
    <3> QED
      BY <3>2 DEF Stack!PanelTypeOK, SP!PanelTypeOK, Stack!Line, SP!Line, Stack!Column, SP!Column
<1>3. CASE UNCHANGED stackpanel
  BY <1>3 DEF PanelsTypeOK, Stack!PanelTypeOK, stackpanel, Stack!Line, Stack!Column
<1> QED
  BY <1>2, <1>3, OnePanelAtATime

LEMMA SearchTypeNext ==
  ASSUME PanelsTypeOK, [PanelsNext]_panelsvars
  PROVE  /\ breakpoints' \subseteq Marks
         /\ at' \in {"keys", "search"} /\ i' \in 0 .. Size - 1 /\ stepSize' \in {-1, 0, 1}
<1>1. /\ Size \in Nat \ {0} /\ memdisplay \in 0 .. Size - 1 /\ i \in 0 .. Size - 1
      /\ stepSize \in {-1, 0, 1} /\ at \in {"keys", "search"} /\ breakpoints \subseteq Marks
  BY SizeAssumption DEF PanelsTypeOK, PanelTypeOK
<1>2. CASE UNCHANGED <<breakpoints, search>>
  BY <1>1, <1>2 DEF search
<1>3. CASE MarkKey
  BY <1>1, <1>3 DEF MarkKey, search
<1>4. CASE SearchKey
  <2>1. \A s \in {1, -1} : (memdisplay + s) % Size \in 0 .. Size - 1
    BY <1>1
  <2> QED
    BY <1>1, <1>4, <2>1 DEF SearchKey
<1>5. CASE NotFound \/ Found
  BY <1>1, <1>5 DEF NotFound, Found, Return
<1>6. CASE SearchOn
  <2>1. (i + stepSize) % Size \in 0 .. Size - 1
    BY <1>1
  <2> QED
    BY <1>1, <1>6, <2>1 DEF SearchOn
<1>7. CASE Wheel \/ LineKeys \/ PageKeys \/ ToProgramCounter \/ DisassemblyKey
  BY <1>2, <1>7 DEF Wheel, LineKeys, PageKeys, ToProgramCounter, DisassemblyKey, MemoryOnly, StackOnly,
                    scrollSelectedDisplayUp, scrollSelectedDisplayDown
<1>8. CASE UNCHANGED panelsvars
  BY <1>2, <1>8 DEF panelsvars
<1> QED
  BY <1>3, <1>4, <1>5, <1>6, <1>7, <1>8 DEF PanelsNext, Key, Search

\* Both panels, the marks and the search keep their types, however wide the lines
\* are (gui.c, sim.c:149-158).
THEOREM PanelsTypeCorrect ==
  PanelsSpec => []PanelsTypeOK
<1>1. PanelsInit => PanelsTypeOK
  BY TypeInit
<1>2. PanelsTypeOK /\ [PanelsNext]_panelsvars => PanelsTypeOK'
  BY MemoryTypeNext, StackTypeNext, SearchTypeNext DEF PanelsTypeOK
<1> QED
  BY <1>1, <1>2, PTL DEF PanelsSpec

-----------------------------------------------------------------------------
(* What the panels show *)

\* However they are moved, row r of the memory panel shows line memdisplay + r, or a
\* tilde, and nothing else, for every size of memory and window: if no line is as
\* wide as the window (gui.c:376-401, 463-504).
THEOREM MemoryPanelShows ==
  ASSUME \A d \in BOOLEAN : WideEnough(d)
  PROVE  PanelsSpec => []Picture
<1> DEFINE Inv == PanelsTypeOK /\ Shows
<1>1. PanelsInit => Inv
  <2> SUFFICES ASSUME PanelsInit PROVE Inv
    OBVIOUS
  <2>1. Shows
    BY ShownAtFirst DEF PanelsInit
  <2> QED
    BY <2>1, TypeInit
<1>2. Inv /\ [PanelsNext]_panelsvars => Inv'
  <2> SUFFICES ASSUME Inv, [PanelsNext]_panelsvars PROVE Inv'
    OBVIOUS
  <2>1. PanelsTypeOK'
    BY MemoryTypeNext, StackTypeNext, SearchTypeNext DEF PanelsTypeOK
  <2>2. Shows'
    <3>1. CASE MemoryStep
      <4>1. WideEnough(printDisassembly)
        BY DEF Shows
      <4>2. ASSUME NEW lines \in Amounts \cup {1},
                   scrollMemoryDisplayUp(lines) \/ scrollMemoryDisplayDown(lines)
            PROVE  Shows'
        <5>1. lines \in 1 .. Rows - 1
          BY AmountIsSmall
        <5> QED
          BY <4>1, <4>2, <5>1, ShownAfterScrollUp, ShownAfterScrollDown
      <4>3. CASE memdisplay' \in 0 .. Size - 1 /\ printDisassembly' \in BOOLEAN /\ Refresh
        <5>1. WideEnough(printDisassembly')
          BY <4>3
        <5> QED
          BY <4>3, <5>1, ShownAfterRefresh
      <4> QED
        BY <3>1, <4>2, <4>3 DEF MemoryStep
    <3>2. CASE UNCHANGED panelvars
      BY <3>2 DEF Shows, panelvars, Full, Shown, Printed, Character
    <3> QED
      BY <3>1, <3>2, OnePanelAtATime
  <2> QED
    BY <2>1, <2>2
<1>3. Inv => Picture
  BY ShowsThePicture
<1> QED
  BY <1>1, <1>2, <1>3, PTL DEF PanelsSpec

\* The same of the stack panel, which never shows disassembly (gui.c:403-428,
\* 507-546).
THEOREM StackPanelShows ==
  ASSUME \A a \in 0 .. StackSize - 1 : StackLineLength[FALSE][a] < StackColumns
  PROVE  PanelsSpec => []StackPicture
<1> DEFINE Inv == PanelsTypeOK /\ SP!Shows
<1>1. SP!WideEnough(FALSE)
  BY DEF SP!WideEnough
<1>2. PanelsInit => Inv
  <2> SUFFICES ASSUME PanelsInit PROVE Inv
    OBVIOUS
  <2>1. SP!PanelInit
    BY StackAtFirst
  <2>2. SP!Shows
    BY <1>1, <2>1, StackIsAPanel, SP!ShownAtFirst
  <2> QED
    BY <2>2, TypeInit
<1>3. Inv /\ [PanelsNext]_panelsvars => Inv'
  <2> SUFFICES ASSUME Inv, [PanelsNext]_panelsvars PROVE Inv'
    OBVIOUS
  <2>1. PanelsTypeOK'
    BY MemoryTypeNext, StackTypeNext, SearchTypeNext DEF PanelsTypeOK
  <2>2. SP!Shows'
    <3>1. CASE StackStep
      <4>1. PICK lines \in Amounts \cup {1} :
              SP!scrollMemoryDisplayUp(lines) \/ SP!scrollMemoryDisplayDown(lines)
        BY <3>1, StackStepIsAStep
      <4>2. lines \in 1 .. StackRows - 1
        BY AmountIsSmall
      <4> QED
        BY <1>1, <4>1, <4>2, StackIsAPanel, SP!ShownAfterScrollUp, SP!ShownAfterScrollDown
    <3>2. CASE UNCHANGED stackpanel
      BY <3>2 DEF SP!Shows, stackpanel, SP!Full, SP!Shown, SP!Printed, SP!Character
    <3> QED
      BY <3>1, <3>2, OnePanelAtATime
  <2> QED
    BY <2>1, <2>2
<1>4. Inv => StackPicture
  <2> SUFFICES ASSUME SP!Shows PROVE StackPicture
    OBVIOUS
  <2>1. SP!Picture
    BY StackIsAPanel, SP!ShowsThePicture
  <2> QED
    BY <2>1, SamePanel DEF StackPicture
<1> QED
  BY <1>2, <1>3, <1>4, PTL DEF PanelsSpec

-----------------------------------------------------------------------------
(* n and N *)

\* Distance is a walk in one direction, round the end.
LEMMA DistanceIs ==
  ASSUME memdisplay \in 0 .. Size - 1, NEW a \in 0 .. Size - 1
  PROVE  /\ Distance(1, a) = IF a >= memdisplay THEN a - memdisplay ELSE a - memdisplay + Size
         /\ Distance(-1, a) = IF a <= memdisplay THEN memdisplay - a ELSE memdisplay - a + Size
<1>1. Size \in Nat \ {0}
  BY SizeAssumption
<1>2. Distance(1, a) = (a - memdisplay) % Size
  BY <1>1 DEF Distance
<1>3. Distance(-1, a) = (memdisplay - a) % Size
  <2>1. (-1) * (a - memdisplay) = memdisplay - a
    BY <1>1
  <2> QED
    BY <2>1 DEF Distance
<1>4. \A x \in (1 - Size) .. (Size - 1) : x % Size = IF x >= 0 THEN x ELSE x + Size
  BY <1>1
<1>5. a - memdisplay \in (1 - Size) .. (Size - 1) /\ memdisplay - a \in (1 - Size) .. (Size - 1)
  BY <1>1
<1> QED
  BY <1>1, <1>2, <1>3, <1>4, <1>5

LEMMA OneOn ==
  ASSUME NEW a \in 0 .. Size - 1
  PROVE  /\ (a + 1) % Size = IF a = Size - 1 THEN 0 ELSE a + 1
         /\ (a + (-1)) % Size = IF a = 0 THEN Size - 1 ELSE a - 1
<1>1. Size \in Nat \ {0}
  BY SizeAssumption
<1>2. \A x \in (1 - Size) .. Size : x % Size = IF x = Size THEN 0 ELSE IF x >= 0 THEN x ELSE x + Size
  BY <1>1
<1>3. CASE Size = 1
  BY <1>3
<1>4. CASE Size # 1
  <2>1. a + 1 \in (1 - Size) .. Size /\ a + (-1) \in (1 - Size) .. Size
    BY <1>1, <1>4
  <2> QED
    BY <1>1, <1>2, <2>1
<1> QED
  BY <1>3, <1>4

\* While the search is at i, no other mark is nearer than i; when it is back where
\* it began, there is none.
Searching ==
  at = "search" =>
    /\ stepSize \in {1, -1}
    /\ \A a \in Others : /\ i # memdisplay
                         /\ Distance(stepSize, i) <= Distance(stepSize, a)

\* One step brings the search one address further from the panel, or back to it.
LEMMA OneFurther ==
  ASSUME memdisplay \in 0 .. Size - 1, NEW step \in {1, -1}, NEW a \in 0 .. Size - 1
  PROVE  LET next == (a + step) % Size
         IN  /\ next \in 0 .. Size - 1
             /\ next # memdisplay => Distance(step, next) = Distance(step, a) + 1
             /\ next = memdisplay => Distance(step, a) = Size - 1
<1>1. Size \in Nat \ {0}
  BY SizeAssumption
<1> DEFINE next == (a + step) % Size
<1>2. CASE step = 1
  <2>1. next = IF a = Size - 1 THEN 0 ELSE a + 1
    BY <1>2, OneOn
  <2>2. next \in 0 .. Size - 1
    BY <1>1, <2>1
  <2> HIDE DEF next
  <2> QED
    BY <1>1, <1>2, <2>1, <2>2, DistanceIs DEF next
<1>3. CASE step = -1
  <2>1. next = IF a = 0 THEN Size - 1 ELSE a - 1
    BY <1>3, OneOn
  <2>2. next \in 0 .. Size - 1
    BY <1>1, <2>1
  <2> HIDE DEF next
  <2> QED
    BY <1>1, <1>3, <2>1, <2>2, DistanceIs DEF next
<1> QED
  BY <1>2, <1>3

\* Different addresses are at different distances, all less than Size.
LEMMA DistancesDiffer ==
  ASSUME memdisplay \in 0 .. Size - 1, NEW step \in {1, -1},
         NEW a \in 0 .. Size - 1, NEW b \in 0 .. Size - 1
  PROVE  /\ Distance(step, a) \in 0 .. Size - 1
         /\ Distance(step, a) = Distance(step, b) => a = b
         /\ Distance(step, memdisplay) = 0
<1>1. Size \in Nat \ {0}
  BY SizeAssumption
<1> QED
  BY <1>1, DistanceIs

LEMMA SearchingNext ==
  ASSUME PanelsTypeOK, Searching, [PanelsNext]_panelsvars
  PROVE  Searching'
<1>1. /\ Size \in Nat \ {0} /\ memdisplay \in 0 .. Size - 1 /\ i \in 0 .. Size - 1
      /\ breakpoints \subseteq 0 .. Size - 1
  BY SizeAssumption, MarksAssumption DEF PanelsTypeOK, PanelTypeOK
<1>2. Others \subseteq 0 .. Size - 1 /\ \A a \in Others : a # memdisplay
  BY <1>1 DEF Others
<1>3. CASE at' = "keys"
  BY <1>3 DEF Searching
<1>4. CASE UNCHANGED <<memdisplay, breakpoints, search>>
  BY <1>4 DEF Searching, search, Others, Distance
<1>5. CASE SearchKey
  <2>1. PICK step \in {1, -1} : stepSize' = step /\ i' = (memdisplay + step) % Size
    BY <1>5 DEF SearchKey
  <2>2. UNCHANGED <<memdisplay, breakpoints>>
    BY <1>5 DEF SearchKey, panelvars
  <2>3. /\ i' \in 0 .. Size - 1
        /\ i' # memdisplay => Distance(step, i') = 1
        /\ i' = memdisplay => Size = 1
    <3> DEFINE next == (memdisplay + step) % Size
    <3>1. /\ next \in 0 .. Size - 1
          /\ next # memdisplay => Distance(step, next) = Distance(step, memdisplay) + 1
          /\ next = memdisplay => Distance(step, memdisplay) = Size - 1
      BY <1>1, OneFurther
    <3>2. Distance(step, memdisplay) = 0
      BY <1>1, DistancesDiffer
    <3>3. i' = next
      BY <2>1
    <3> HIDE DEF next
    <3> QED
      BY <1>1, <3>1, <3>2, <3>3
  <2>4. ASSUME NEW a \in Others
        PROVE  i' # memdisplay /\ Distance(step, i') <= Distance(step, a)
    <3>1. /\ Distance(step, a) \in 0 .. Size - 1
          /\ Distance(step, a) = Distance(step, memdisplay) => a = memdisplay
          /\ Distance(step, memdisplay) = 0
      BY <1>1, <1>2, DistancesDiffer
    <3> QED
      BY <1>1, <1>2, <2>3, <3>1
  <2> QED
    BY <2>1, <2>2, <2>4 DEF Searching, Others, Distance
<1>6. CASE SearchOn
  <2>1. /\ stepSize \in {1, -1} /\ i # memdisplay /\ i \notin breakpoints
        /\ \A a \in Others : Distance(stepSize, i) <= Distance(stepSize, a)
    BY <1>6 DEF SearchOn, Searching
  <2>2. /\ i' = (i + stepSize) % Size
        /\ UNCHANGED <<memdisplay, breakpoints, stepSize>>
    BY <1>6 DEF SearchOn, panelvars
  <2>3. /\ i' # memdisplay => Distance(stepSize, i') = Distance(stepSize, i) + 1
        /\ i' = memdisplay => Distance(stepSize, i) = Size - 1
    BY <1>1, <2>1, <2>2, OneFurther
  <2>4. ASSUME NEW a \in Others
        PROVE  i' # memdisplay /\ Distance(stepSize, i') <= Distance(stepSize, a)
    <3>1. a # i
      BY <2>1 DEF Others
    <3>2. /\ Distance(stepSize, a) \in 0 .. Size - 1 /\ Distance(stepSize, i) \in 0 .. Size - 1
          /\ Distance(stepSize, a) = Distance(stepSize, i) => a = i
      BY <1>1, <1>2, <2>1, DistancesDiffer
    <3> QED
      BY <1>1, <2>1, <2>3, <3>1, <3>2
  <2> QED
    BY <2>1, <2>2, <2>4 DEF Searching, Others, Distance
<1>7. CASE NotFound \/ Found
  BY <1>3, <1>7 DEF NotFound, Found, Return
<1>8. CASE Wheel \/ LineKeys \/ PageKeys \/ ToProgramCounter \/ DisassemblyKey \/ MarkKey
  <2>1. at = "keys" /\ at' = at
    BY <1>8 DEF Wheel, LineKeys, PageKeys, ToProgramCounter, DisassemblyKey, MarkKey, MemoryOnly,
                StackOnly, scrollSelectedDisplayUp, scrollSelectedDisplayDown, search
  <2> QED
    BY <1>3, <2>1
<1>9. CASE UNCHANGED panelsvars
  BY <1>4, <1>9 DEF panelsvars, panelvars
<1> QED
  BY <1>5, <1>6, <1>7, <1>8, <1>9 DEF PanelsNext, Key, Search

\* The address n and N move to is the nearest other one that is marked, in the
\* direction of the key and round the ends of memory; without one the panel stays
\* (sim.c:149-158, 231-251).
THEOREM SearchFindsNearest ==
  PanelsSpec => FoundNearest
<1> DEFINE Inv == PanelsTypeOK /\ Searching
           Nearest == at = "search" /\ at' = "keys" =>
             \/ Others = {} /\ UNCHANGED memdisplay
             \/ /\ memdisplay' \in Others
                /\ \A a \in Others : Distance(stepSize, memdisplay') <= Distance(stepSize, a)
<1>1. PanelsInit => Inv
  BY TypeInit DEF PanelsInit, Searching
<1>2. Inv /\ [PanelsNext]_panelsvars => Inv'
  BY MemoryTypeNext, StackTypeNext, SearchTypeNext, SearchingNext DEF PanelsTypeOK
<1>3. Inv /\ [PanelsNext]_panelsvars => [Nearest]_panelsvars
  <2> SUFFICES ASSUME Inv, PanelsNext, at = "search", at' = "keys" PROVE Nearest
    OBVIOUS
  <2>1. NotFound \/ Found
    BY DEF PanelsNext, Key, Search, Wheel, LineKeys, PageKeys, ToProgramCounter, DisassemblyKey,
           MarkKey, SearchKey, SearchOn, MemoryOnly, StackOnly, scrollSelectedDisplayUp,
           scrollSelectedDisplayDown
  <2>2. CASE NotFound
    BY <2>2 DEF NotFound, Searching, panelvars
  <2>3. CASE Found
    <3>1. memdisplay' = i /\ i \in Others
      BY <2>3 DEF Found, Show, Others
    <3> QED
      BY <3>1 DEF Searching
  <2> QED
    BY <2>1, <2>2, <2>3
<1> QED
  BY <1>1, <1>2, <1>3, PTL DEF PanelsSpec, FoundNearest
=============================================================================
