---------------------------- MODULE AprSimProofs ----------------------------
(***************************************************************************)
(* Theorems about the main loop, for every program, every key the user may *)
(* type, any number of keys, every interval of the clock, and every        *)
(* terminal behind port 7.                                                 *)
(***************************************************************************)
EXTENDS AprTerminal, AprCPUProofs, FiniteSetTheorems

-----------------------------------------------------------------------------
(* The inductive invariant of the loop, one part for each thing the loop   *)
(* remembers from one place to another.                                    *)

\* What docycle and running mean at each place: at the head they agree; inside
\* runSlice both are set; a single step is taken with running clear.
Control ==
  /\ at \in Locations /\ docycle \in BOOLEAN /\ running \in BOOLEAN
  /\ running => cyclemode = 2
  /\ at \in {"top", "discard", "handle"} => docycle = running
  /\ at \in {"slice", "boundary"} => docycle /\ running
  /\ at = "step" => docycle /\ ~running
  /\ at = "after" /\ docycle => running

\* Where the program counter is when a run is to go on
Boundary ==
  /\ count \in 0 .. CheckInterval
  /\ at \in {"top", "discard", "handle"} /\ running => AtUnmarked
  /\ at = "after" /\ docycle => AtUnmarked
  /\ at = "boundary" => cpu.nextState = "x00"
  /\ at = "slice" /\ count > 0 /\ cpu.nextState = "x00" => AtUnmarked

\* What may be stale between the end of a cycle and the next
Fresh ==
  /\ at \in {"top", "discard", "handle", "dispatch", "after"} => "status" \notin stale
  /\ at \in {"top", "discard", "handle", "dispatch", "after"} /\ ~running => stale = {}

\* The values the rest of the loop works on
Shape ==
  /\ c \in Readable /\ cyclemode \in 0 .. 2
  /\ breakpoints \subseteq Word /\ memdisplay \in Word
  /\ stale \subseteq Panels /\ inbuff \in -1 .. 255
  /\ keys \in Seq(KeyCodes) /\ typed \in Nat

Machine == CPUInv /\ CountsOK

LoopInv == Machine /\ Shape /\ Control /\ Boundary /\ Fresh

-----------------------------------------------------------------------------
(* The keyboard *)

\* Reading a key takes it from the queue, and what is read is a key or ERR.
LEMMA GetchTypes ==
  ASSUME keys \in Seq(KeyCodes), NEW k, getch(k) \/ Peek(k)
  PROVE  keys' \in Seq(KeyCodes) /\ k \in Readable
  BY DEF getch, Peek, Readable

\* A character handed over by either port fits its C type.
LEMMA AsCharRange == ASSUME NEW k \in Readable PROVE AsChar(k) \in -1 .. 255
  BY KeyCodesAssumption DEF AsChar, Readable, ERR

LEMMA DeliveredByte ==
  ASSUME NEW k \in Readable, inbuff \in -1 .. 255
  PROVE  Delivered(k) \in Byte /\ Newline(Delivered(k)) \in Byte
<1>1. (IF inbuff # -1 THEN inbuff ELSE AsChar(k)) \in Int
  BY AsCharRange
<1>2. Delivered(k) \in Byte
  BY <1>1, Modulo DEF Delivered
<1>3. 10 \in Byte
  BY DEF Byte
<1> QED
  BY <1>2, <1>3 DEF Newline

-----------------------------------------------------------------------------
(* The machine inside the loop *)

\* A port operation ends the instruction.
LEMMA PortEnds ==
  ASSUME CPUInv, NEW v \in Byte, x20(v, memory)
  PROVE  CPUInv' /\ cpu'.nextState = "x00"
<1>1. cpu' \in Registers /\ Sparse(memory')
  BY PortStepTypes DEF CPUInv
<1>2. "nextState" \in DOMAIN cpu'
  BY <1>1 DEF Registers
<1>3. cpu'.nextState = "x00"
  BY <1>2 DEF x20
<1> QED
  BY <1>1, <1>3 DEF CPUInv, ShiftCount, OperandFetch

\* With the keyboard ports connected, a cycle still keeps the invariant of the
\* processor, and what port 1 buffers fits a character.
LEMMA SimCycle ==
  ASSUME Machine, inbuff \in -1 .. 255, keys \in Seq(KeyCodes), Cycle
  PROVE  Machine' /\ inbuff' \in -1 .. 255 /\ keys' \in Seq(KeyCodes)
<1>1. CPUInv' /\ inbuff' \in -1 .. 255 /\ keys' \in Seq(KeyCodes)
  <2>1. CASE (Microcode \/ portIO) /\ UNCHANGED <<keys, inbuff>>
    BY <2>1, CycleInv DEF Machine
  <2>2. CASE KeyboardStatus
    <3>1. PICK k \in Readable : /\ IF k = KEY_F1 THEN Peek(k) ELSE getch(k)
                                /\ inbuff' = AsChar(k)
                                /\ x20(IF k = ERR THEN 0 ELSE 1, memory)
      BY <2>2 DEF KeyboardStatus
    <3>2. (IF k = ERR THEN 0 ELSE 1) \in Byte
      BY DEF Byte
    <3> QED
      BY <3>1, <3>2, GetchTypes, AsCharRange, PortEnds DEF Machine
  <2>3. CASE KeyboardInput
    <3>1. CASE Peek(KEY_F1) /\ x20(Newline(Acc), memory)
      <4>1. Newline(Acc) \in Byte
        BY OperandTypes DEF Machine, CPUInv, Newline, Byte
      <4> QED
        BY <2>3, <3>1, <4>1, GetchTypes, PortEnds DEF Machine, KeyboardInput
    <3>2. ASSUME NEW k \in KeyCodes \ {KEY_F1}, getch(k), x20(Newline(Delivered(k)), memory)
          PROVE  CPUInv' /\ keys' \in Seq(KeyCodes)
      <4>1. Newline(Delivered(k)) \in Byte
        BY DeliveredByte DEF Readable
      <4> QED
        BY <3>2, <4>1, GetchTypes, PortEnds DEF Machine
    <3> QED
      BY <2>3, <3>1, <3>2 DEF KeyboardInput
  <2> QED
    BY <2>1, <2>2, <2>3 DEF Cycle
<1>2. CountsOK'
  <2>1. CountCycle
    BY DEF Cycle, KeyboardStatus, KeyboardInput
  <2> QED
    BY <2>1, CountedRange DEF Machine, CountCycle, CountsOK
<1> QED
  BY <1>1, <1>2 DEF Machine

\* A turn of the port 2 loop without a key stays in the port function.
LEMMA WaitTurn ==
  ASSUME Machine, inbuff \in -1 .. 255, keys \in Seq(KeyCodes), KeyboardWait
  PROVE  /\ Machine' /\ cpu'.nextState = "x20"
         /\ inbuff' = inbuff /\ keys' \in Seq(KeyCodes)
<1>1. Delivered(ERR) \in Byte
  BY DeliveredByte DEF Readable
<1>2. cpu \in Registers /\ cpu' \in Registers
  BY <1>1, ResultRegisters DEF Machine, CPUInv, KeyboardWait
<1>3. cpu'.nextState = "x20"
  BY <1>2 DEF KeyboardWait, WithAcc, Registers
<1>4. keys' \in Seq(KeyCodes)
  BY GetchTypes DEF KeyboardWait
<1>5. memory' = memory /\ cycleCount' = cycleCount /\ instructionCount' = instructionCount
      /\ inbuff' = inbuff
  BY DEF KeyboardWait
<1>6. Sparse(memory') /\ CountsOK'
  BY <1>5 DEF Machine, CPUInv, CountsOK, Sparse
<1> QED
  BY <1>2, <1>3, <1>4, <1>5, <1>6 DEF Machine, CPUInv, ShiftCount, OperandFetch

-----------------------------------------------------------------------------
(* The types of the loop *)

TypesInv == Machine /\ Shape /\ at \in Locations

\* The machine does not move when no cycle is run.
LEMMA MachineStays == Machine /\ UNCHANGED cpuvars => Machine'
  BY DEF Machine, cpuvars, CPUInv, CountsOK, Sparse, ShiftCount, OperandFetch

LEMMA SmallWord == ASSUME NEW x \in Int, 0 <= x, x <= 65535 PROVE x \in Word
<1>1. x % 65536 = x
  OBVIOUS
<1> QED
  BY <1>1, Modulo

\* Moves up and down stop at the ends of the address space.
LEMMA ViewWord ==
  ASSUME NEW m \in Word, NEW n \in Nat
  PROVE  /\ (IF m + n > 65535 THEN 65535 ELSE m + n) \in Word
         /\ (IF m < n THEN 0 ELSE m - n) \in Word
         /\ (IF m > n THEN m - n ELSE 0) \in Word
         /\ m + n < 65536 => m + n \in Word
<1>1. m \in Int /\ 0 <= m /\ m <= 65535
  BY DEF Word
<1>2. \A x \in Int : 0 <= x /\ x <= 65535 => x \in Word
  BY SmallWord
<1>3. m + n \in Int /\ m - n \in Int /\ 0 <= m + n /\ m - n <= 65535
  BY <1>1
<1> QED
  BY <1>1, <1>2, <1>3

\* The mode stays one of three.
LEMMA NextMode == ASSUME NEW n \in 0 .. 2 PROVE (n + 1) % 3 \in 0 .. 2
  OBVIOUS

\* Every key leaves the view inside the address space, and the mode one of three.
LEMMA KeysTypes ==
  ASSUME TypesInv,
         NoKey \/ StartOrPause \/ ChangeMode \/ ToggleBreakpoint \/ LeftClick \/ Move \/ Quit
  PROVE  TypesInv'
<1>1. Machine' /\ at' \in Locations
  <2>1. UNCHANGED cpuvars /\ at' \in {"dispatch", "done"}
    BY DEF NoKey, StartOrPause, ChangeMode, ToggleBreakpoint, LeftClick, Toggle, Move,
           ScrollDown, ScrollUp, Scroll, Jump, Show, Handled, Quit
  <2> QED
    BY <2>1, MachineStays DEF TypesInv, Locations
<1>2. Shape /\ memdisplay \in Word
  BY DEF TypesInv, Shape
<1>3. ASSUME NoKey \/ StartOrPause \/ Quit PROVE Shape'
  BY <1>2, <1>3 DEF NoKey, StartOrPause, Handled, Quit, Shape, control
<1>4. ASSUME ChangeMode PROVE Shape'
  BY <1>2, <1>4, NextMode DEF ChangeMode, Handled, Shape
<1>5. ASSUME NEW a \in Word, Toggle(a) PROVE Shape'
  BY <1>2, <1>5 DEF Toggle, Handled, Shape
<1>6. ASSUME NEW a \in Word, Show(a), stale' \subseteq stale PROVE Shape'
  BY <1>2, <1>6 DEF Show, Handled, Shape
<1>7. ASSUME ToggleBreakpoint \/ LeftClick PROVE Shape'
  <2>1. \A row \in MouseRows : memdisplay + row < 65536 => memdisplay + row \in Word
    BY <1>2, RowsAssumption, ViewWord
  <2> QED
    BY <1>2, <1>5, <1>7, <2>1 DEF ToggleBreakpoint, LeftClick
<1>8. ASSUME Move PROVE Shape'
  <2>1. ASSUME NEW n \in Nat, ScrollDown(n) \/ ScrollUp(n) PROVE Shape'
    <3>1. PICK a \in Word : Scroll(a)
      BY <1>2, <2>1, ViewWord DEF ScrollDown, ScrollUp
    <3> QED
      BY <1>6, <3>1 DEF Scroll
  <2>2. ASSUME NEW a \in Word, Jump(a) PROVE Shape'
    BY <1>6, <2>2 DEF Jump
  <2>3. /\ (IF memdisplay + 256 > 65535 THEN 65535 ELSE memdisplay + 256) \in Word
        /\ (IF memdisplay > 256 THEN memdisplay - 256 ELSE 0) \in Word
    BY <1>2, ViewWord
  <2>4. NextBreakpoint(1) \subseteq Word /\ NextBreakpoint(-1) \subseteq Word
    BY <1>2 DEF NextBreakpoint, Shape
  <2>5. cpu.pc \in Word
    BY OperandTypes DEF TypesInv, Machine, CPUInv
  <2>6. 1 \in Nat /\ \A n \in {1, 2} : n * MOUSE_SCROLL_LINES \in Nat
    BY DEF MOUSE_SCROLL_LINES
  <2> QED
    BY <1>8, <2>1, <2>2, <2>3, <2>4, <2>5, <2>6 DEF Move
<1> QED
  BY <1>1, <1>3, <1>4, <1>7, <1>8 DEF TypesInv, ToggleBreakpoint, LeftClick

\* ... and so does every other step.
LEMMA TypesStep == ASSUME TypesInv, [SimNext]_simvars PROVE TypesInv'
<1>0. Machine /\ Shape
  BY DEF TypesInv
<1>1. CASE NoKey \/ StartOrPause \/ ChangeMode \/ ToggleBreakpoint \/ LeftClick \/ Move \/ Quit
  BY <1>1, KeysTypes
<1>2. CASE Poll \/ Discard
  <2>1. at' \in Locations /\ UNCHANGED cpuvars
    BY <1>2 DEF Poll, Discard, Locations
  <2>2. c' \in Readable /\ keys' \in Seq(KeyCodes)
    BY <1>0, <1>2, GetchTypes DEF Poll, Discard, Shape
  <2> QED
    BY <1>0, <1>2, <2>1, <2>2, MachineStays DEF TypesInv, Poll, Discard, Shape, control
<1>3. CASE Type
  BY <1>3, MachineStays DEF TypesInv, Type, Shape, control
<1>4. CASE StartSlice \/ StartStep \/ HitBreakpoint \/ GoOn \/ SliceOver \/ After \/ Finished
           \/ UNCHANGED simvars
  <2>1. UNCHANGED cpuvars /\ at' \in Locations
    BY <1>4 DEF StartSlice, StartStep, HitBreakpoint, GoOn, SliceOver, After, Finished,
                simvars, Locations, TypesInv
  <2>2. UNCHANGED <<c, cyclemode, breakpoints, memdisplay, inbuff, keys, typed>>
        /\ stale' \subseteq stale
    BY <1>4 DEF StartSlice, StartStep, HitBreakpoint, GoOn, SliceOver, After, Finished,
                simvars, control, refreshAll
  <2> QED
    BY <1>0, <2>1, <2>2, MachineStays DEF TypesInv, Shape
<1>5. CASE Wait
  <2>1. Machine' /\ inbuff' = inbuff /\ keys' \in Seq(KeyCodes)
    BY <1>0, <1>5, WaitTurn DEF Wait, Shape
  <2> QED
    BY <1>0, <1>5, <2>1 DEF TypesInv, Wait, Shape, control
<1>6. CASE SliceCycle \/ StepCycle
  <2>1. Machine' /\ inbuff' \in -1 .. 255 /\ keys' \in Seq(KeyCodes)
    BY <1>0, <1>6, SimCycle DEF SliceCycle, StepCycle, Shape
  <2>2. at' \in Locations /\ stale' \subseteq Panels
    BY <1>0, <1>6 DEF SliceCycle, StepCycle, Locations, refreshAll
  <2>3. UNCHANGED <<c, cyclemode, breakpoints, memdisplay, typed>>
    BY <1>6 DEF SliceCycle, StepCycle, control
  <2> QED
    BY <1>0, <2>1, <2>2, <2>3 DEF TypesInv, Shape
<1> QED
  BY <1>1, <1>2, <1>3, <1>4, <1>5, <1>6 DEF SimNext, Loop

-----------------------------------------------------------------------------
(* The control of the loop *)

\* The count of instructions in a slice stays within the interval.
LEMMA CountRange == ASSUME Counting, count \in 0 .. CheckInterval PROVE count' \in 0 .. CheckInterval
<1>1. CheckInterval \in Int /\ 0 < CheckInterval /\ count \in Int
  BY IntervalAssumption
<1>2. count % CheckInterval \in 0 .. CheckInterval - 1
  BY <1>1
<1> QED
  BY <1>1, <1>2 DEF Counting

\* The keys, read and handled: during a run only space and F1 do anything.
LEMMA KeysControl ==
  ASSUME LoopInv,
         \/ Poll \/ Discard \/ NoKey \/ StartOrPause \/ ChangeMode \/ ToggleBreakpoint
         \/ LeftClick \/ Move \/ Quit \/ Type
  PROVE  Control' /\ Boundary' /\ Fresh'
<1>1. Control /\ Boundary /\ Fresh
  BY DEF LoopInv
<1>2. cpu' = cpu /\ running' = running /\ count' = count /\ stale' \subseteq stale
  BY DEF Poll, Discard, NoKey, StartOrPause, ChangeMode, ToggleBreakpoint, LeftClick, Toggle,
         Move, ScrollDown, ScrollUp, Scroll, Jump, Show, Handled, Quit, Type, control, cpuvars
<1>3. CASE Poll \/ Discard \/ Type
  <2>1. UNCHANGED <<docycle, cyclemode, breakpoints, stale>>
    BY <1>3 DEF Poll, Discard, Type, control
  <2>2. \/ at \in {"top", "discard"} /\ at' \in {"top", "discard", "handle"}
        \/ at' = at /\ c' = c
    BY <1>3 DEF Poll, Discard, Type
  <2> QED
    BY <1>1, <1>2, <2>1, <2>2 DEF Control, Boundary, AtUnmarked, Fresh, Locations
<1>4. CASE NoKey \/ StartOrPause \/ ChangeMode \/ ToggleBreakpoint \/ LeftClick \/ Move
  <2>1. at = "handle" /\ at' = "dispatch" /\ c' = c
    BY <1>4 DEF NoKey, StartOrPause, ChangeMode, ToggleBreakpoint, LeftClick, Toggle, Move,
                ScrollDown, ScrollUp, Scroll, Jump, Show, Handled, Acted
  <2>2. docycle' = docycle \/ (c = SPACE /\ docycle' = ~docycle)
    BY <1>4 DEF NoKey, StartOrPause, ChangeMode, ToggleBreakpoint, LeftClick, Toggle, Move,
                ScrollDown, ScrollUp, Scroll, Jump, Show
  <2>3. running => cyclemode' = cyclemode
    BY <1>4 DEF NoKey, StartOrPause, ChangeMode, ToggleBreakpoint, LeftClick, Toggle, Move,
                ScrollDown, ScrollUp, Scroll, Jump, Show, Acted, SPACE, KEY_F1, Char
  <2> QED
    BY <1>1, <1>2, <2>1, <2>2, <2>3
       DEF Control, Boundary, AtUnmarked, Fresh, Locations
<1>5. CASE Quit
  <2>1. at' = "done" /\ UNCHANGED <<docycle, cyclemode>>
    BY <1>5 DEF Quit, control
  <2> QED
    BY <1>1, <1>2, <2>1 DEF Control, Boundary, Fresh, Locations
<1> QED
  BY <1>3, <1>4, <1>5

\* The slice, the single step and the end of the loop body.
LEMMA CyclesControl ==
  ASSUME LoopInv,
         \/ StartSlice \/ StartStep \/ Wait \/ SliceCycle \/ HitBreakpoint \/ GoOn
         \/ SliceOver \/ StepCycle \/ After
  PROVE  Control' /\ Boundary' /\ Fresh'
<1>1. Control /\ Boundary /\ Fresh
  BY DEF LoopInv
<1> USE DEF Control, Boundary, AtUnmarked, Fresh, Locations, control, cpuvars
<1>2. CASE StartSlice
  BY <1>1, <1>2, IntervalAssumption DEF StartSlice
<1>3. CASE StartStep
  BY <1>1, <1>3 DEF StartStep
<1>4. CASE Wait
  <2>1. cpu'.nextState = "x20" /\ at' = at /\ at \in {"slice", "step"}
    BY <1>4, WaitTurn DEF Wait, LoopInv, Shape
  <2> QED
    BY <1>1, <1>4, <2>1 DEF Wait
<1>5. CASE SliceCycle
  BY <1>1, <1>5 DEF SliceCycle
<1>6. CASE HitBreakpoint
  BY <1>1, <1>6 DEF HitBreakpoint
<1>7. CASE GoOn
  BY <1>1, <1>7, CountRange DEF GoOn
<1>8. CASE SliceOver
  BY <1>1, <1>8, CountRange DEF SliceOver
<1>9. CASE StepCycle
  BY <1>1, <1>9 DEF StepCycle, refreshAll
<1>10. CASE After
  BY <1>1, <1>10 DEF After, refreshAll
<1> QED
  BY <1>2, <1>3, <1>4, <1>5, <1>6, <1>7, <1>8, <1>9, <1>10

-----------------------------------------------------------------------------
(* The theorems *)

\* The simulator starts in the invariant, and every step keeps it.
LEMMA LoopInvHolds ==
  /\ SimInit => LoopInv
  /\ LoopInv /\ [SimNext]_simvars => LoopInv'
<1>1. SimInit => LoopInv
  <2> SUFFICES ASSUME SimInit PROVE LoopInv
    OBVIOUS
  <2>1. Machine
    BY CPUInvHolds, CountManyAssumption DEF SimInit, Init, resetMachine, Machine, CountsOK
  <2>2. Shape
    <3>1. 0 \in Word /\ <<>> \in Seq(KeyCodes)
      BY SmallWord
    <3> QED
      BY <3>1, StartAssumption DEF SimInit, Shape, Readable
  <2>3. Control /\ Boundary /\ Fresh
    <3>1. count \in 0 .. CheckInterval
      BY IntervalAssumption DEF SimInit
    <3>2. at = "top" /\ docycle = FALSE /\ running = FALSE /\ stale = {}
      BY DEF SimInit
    <3>3. Control
      BY <3>2 DEF Control, Locations
    <3> QED
      BY <3>1, <3>2, <3>3 DEF Boundary, Fresh
  <2> QED
    BY <2>1, <2>2, <2>3 DEF LoopInv
<1>2. ASSUME LoopInv, [SimNext]_simvars PROVE LoopInv'
  <2>1. Machine' /\ Shape'
    BY <1>2, TypesStep DEF LoopInv, TypesInv, Control
  <2>2. CASE Loop \/ Type
    BY <1>2, <2>1, <2>2, KeysControl, CyclesControl DEF LoopInv, Loop
  <2>3. CASE Finished \/ UNCHANGED simvars
    BY <1>2, <2>1, <2>3
       DEF LoopInv, Finished, simvars, control, cpuvars, Control, Boundary,
           AtUnmarked, Fresh
  <2> QED
    BY <1>2, <2>2, <2>3 DEF SimNext
<1> QED
  BY <1>1, <1>2

\* For every program, all keys and every interval of the clock: the variables of
\* the loop keep the values C gives them, the panel never leaves the address
\* space, and what a port buffers fits a character.
THEOREM SimTypeCorrect == SimSpec => []SimTypeOK
<1>1. LoopInv => SimTypeOK
  BY DEF LoopInv, Machine, CPUInv, CountsOK, Shape, Control, Boundary, SimTypeOK, TypeOK
<1> QED
  BY <1>1, LoopInvHolds, PTL DEF SimSpec

\* `running' is right whenever the head of the loop relies on it.
THEOREM RunningTold == SimSpec => []RunningIsTold
<1>1. LoopInv => RunningIsTold
  BY DEF LoopInv, Control, RunningIsTold
<1> QED
  BY <1>1, LoopInvHolds, PTL DEF SimSpec

\* No run is carried past a marked address, however slices and instructions fall.
THEOREM BreakpointsHonoured == SimSpec => []BreakpointHonoured
<1>1. LoopInv => BreakpointHonoured
  BY DEF LoopInv, Boundary, BreakpointHonoured
<1> QED
  BY <1>1, LoopInvHolds, PTL DEF SimSpec

\* No panel is left behind when the simulator is idle, whichever way a run ended.
THEOREM ScreenFresh == SimSpec => []FreshWhenIdle
<1>1. LoopInv => FreshWhenIdle
  BY DEF LoopInv, Fresh, FreshWhenIdle
<1> QED
  BY <1>1, LoopInvHolds, PTL DEF SimSpec

\* A run ends at the space's case of the switch or at the mark of runSlice; a step
\* is no run, and After only finds a run over.
THEOREM RunsEndForAReason == SimSpec => RunEndsForAReason
<1> DEFINE Reason == \/ at = "handle" /\ c = SPACE
                     \/ cpu.nextState = "x00" /\ cpu.pc \in breakpoints
           Ended == Runs /\ ~Runs' => Reason
<1>1. ASSUME LoopInv, [SimNext]_simvars PROVE [Ended]_simvars
  <2>1. CASE After
    BY <2>1 DEF After, Runs
  <2>2. CASE StartOrPause
    BY <2>2 DEF StartOrPause, Acted
  <2>3. CASE HitBreakpoint
    BY <1>1, <2>3 DEF LoopInv, Boundary, HitBreakpoint
  <2>4. CASE StepCycle
    BY <1>1, <2>4 DEF LoopInv, Control, StepCycle, Runs
  <2>5. CASE SimNext /\ ~After /\ ~StartOrPause /\ ~HitBreakpoint /\ ~StepCycle
    <3>1. docycle' = docycle /\ (running' = running \/ running')
      BY <2>5 DEF SimNext, Loop, Poll, Discard, NoKey, ChangeMode, ToggleBreakpoint,
           LeftClick, Toggle, Move, ScrollDown, ScrollUp, Scroll, Jump, Show, Handled, Quit,
           Type, StartSlice, StartStep, Wait, SliceCycle, GoOn, SliceOver, Finished, control,
           simvars
    <3> QED
      BY <3>1 DEF Runs
  <2> QED
    BY <1>1, <2>1, <2>2, <2>3, <2>4, <2>5
<1> QED
  BY <1>1, LoopInvHolds, PTL DEF SimSpec, RunEndsForAReason

\* During a run the keys act on nothing: all but space and F1 are ignored.
THEOREM KeysLocked == SimSpec => LockedWhileRunning
<1> DEFINE Locked == docycle => /\ UNCHANGED <<cyclemode, breakpoints, memdisplay>>
                                /\ at' = "done" => c = KEY_F1 \/ at = "done"
<1>1. ASSUME LoopInv, [SimNext]_simvars PROVE [Locked]_simvars
  <2>1. CASE ChangeMode \/ ToggleBreakpoint \/ LeftClick \/ Move
    <3>1. ~docycle
      BY <1>1, <2>1 DEF LoopInv, Control, ChangeMode, ToggleBreakpoint, LeftClick, Move, Acted, SPACE, KEY_F1, Char,
                  KEY_NPAGE, KEY_PPAGE, KEY_MOUSE
    <3> QED
      BY <3>1
  <2>2. CASE Quit
    <3>1. docycle => running
      BY <1>1, <2>2 DEF LoopInv, Control, Quit, Acted
    <3>2. running => c = KEY_F1
      BY <2>2 DEF Quit, Acted, Char, SPACE, KEY_F1
    <3> QED
      BY <2>2, <3>1, <3>2 DEF Quit, control
  <2>3. CASE SimNext /\ ~(ChangeMode \/ ToggleBreakpoint \/ LeftClick \/ Move \/ Quit)
    <3>1. UNCHANGED <<cyclemode, breakpoints, memdisplay>>
      BY <2>3 DEF SimNext, Loop, Poll, Discard, NoKey, StartOrPause, Handled, Type, StartSlice,
           StartStep, Wait, SliceCycle, HitBreakpoint, GoOn, SliceOver, StepCycle, After,
           Finished, control, simvars
    <3>2. at' = "done" => at = "done"
      BY <2>3 DEF SimNext, Loop, Poll, Discard, NoKey, StartOrPause, Handled, Type, StartSlice,
           StartStep, Wait, SliceCycle, HitBreakpoint, GoOn, SliceOver, StepCycle, After,
           Finished, control, simvars
    <3> QED
      BY <3>1, <3>2
  <2> QED
    BY <1>1, <2>1, <2>2, <2>3
<1> QED
  BY <1>1, LoopInvHolds, PTL DEF SimSpec, LockedWhileRunning

-----------------------------------------------------------------------------
(* F1 *)

F1Places(q) == {j \in DOMAIN q : q[j] = KEY_F1}

LEMMA F1sFinite ==
  ASSUME NEW q \in Seq(KeyCodes)
  PROVE  IsFiniteSet(F1Places(q)) /\ F1s(q) = Cardinality(F1Places(q)) /\ F1s(q) \in Nat
<1>1. IsFiniteSet(1 .. Len(q)) /\ F1Places(q) \in SUBSET (1 .. Len(q))
  BY FS_Interval DEF F1Places
<1>2. IsFiniteSet(F1Places(q))
  BY <1>1, FS_Subset
<1>3. F1s(q) = Cardinality(F1Places(q))
  BY DEF F1s, F1Places
<1> QED
  BY <1>2, <1>3, FS_CardinalityType

\* Typing loses no F1.
LEMMA F1sAppend ==
  ASSUME NEW q \in Seq(KeyCodes), NEW k \in KeyCodes
  PROVE  F1s(q) <= F1s(Append(q, k))
<1> DEFINE r == Append(q, k)
<1>1. r \in Seq(KeyCodes) /\ F1Places(q) \subseteq F1Places(r)
  BY DEF F1Places
<1>2. Cardinality(F1Places(q)) <= Cardinality(F1Places(r))
  BY <1>1, F1sFinite, FS_Subset
<1> QED
  BY <1>1, <1>2, F1sFinite

\* Reading another key loses none either.
LEMMA F1sTail ==
  ASSUME NEW q \in Seq(KeyCodes), q # <<>>, Head(q) # KEY_F1
  PROVE  F1s(q) <= F1s(Tail(q))
<1> DEFINE r == Tail(q)
           S == F1Places(q)
           T == F1Places(r)
           f == [j \in S |-> j - 1]
<1>1. /\ r \in Seq(KeyCodes) /\ Len(r) = Len(q) - 1 /\ Len(q) \in Nat
      /\ \A j \in 1 .. Len(r) : r[j] = q[j + 1]
      /\ q[1] # KEY_F1
  OBVIOUS
<1>2. \A j \in S : j \in 2 .. Len(q) /\ q[j] = KEY_F1
  BY <1>1 DEF F1Places
<1>3. \A j \in S : j - 1 \in T
  <2> TAKE j \in S
  <2>1. j - 1 \in 1 .. Len(r) /\ (j - 1) + 1 = j
    BY <1>1, <1>2
  <2>2. r[j - 1] = KEY_F1
    BY <1>1, <1>2, <2>1
  <2> QED
    BY <1>1, <2>1, <2>2 DEF F1Places
<1> HIDE DEF S, T
<1>4. \A j, k \in S : f[j] = f[k] => j = k
  BY <1>2
<1>5. f \in [S -> T]
  BY <1>3
<1> HIDE DEF f
<1>6. f \in Injection(S, T)
  BY <1>4, <1>5 DEF Injection, IsInjective
<1>7. IsFiniteSet(T)
  BY <1>1, F1sFinite DEF T
<1>8. Cardinality(S) <= Cardinality(T)
  BY <1>6, <1>7, FS_Injection
<1> QED
  BY <1>1, <1>8, F1sFinite DEF S, T

\* A program reads the keyboard by looking at an F1 and taking anything else.
LEMMA OnlyTheLoopTakesF1 ==
  ASSUME keys \in Seq(KeyCodes), NEW k, getch(k), k # KEY_F1
  PROVE  F1s(keys) <= F1s(keys')
<1>1. CASE UNCHANGED keys
  BY <1>1, F1sFinite
<1>2. CASE keys # <<>> /\ k = Head(keys) /\ keys' = Tail(keys)
  BY <1>2, F1sTail
<1> QED
  BY <1>1, <1>2 DEF getch

\* A typed F1 is lost by no program: what takes it from the keys is the head of
\* the main loop (ports.c:84, 107, sim.c:171-185).
THEOREM F1Kept == SimSpec => F1NotSwallowed
<1> DEFINE Kept == F1s(keys') < F1s(keys) => c' = KEY_F1 /\ at \in {"top", "discard"}
<1>1. ASSUME SimTypeOK, [SimNext]_simvars PROVE [Kept]_simvars
  <2>1. keys \in Seq(KeyCodes)
    BY <1>1 DEF SimTypeOK
  <2>2. F1s(keys) \in Nat
    BY <2>1, F1sFinite
  <2>3. ASSUME UNCHANGED keys PROVE Kept
    BY <2>2, <2>3
  <2>4. ASSUME F1s(keys) <= F1s(keys'), F1s(keys') \in Nat PROVE Kept
    BY <2>2, <2>4
  <2>5. ASSUME NEW k, getch(k), k # KEY_F1 PROVE Kept
    <3>1. keys' \in Seq(KeyCodes)
      BY <2>1, <2>5 DEF getch
    <3> QED
      BY <2>1, <2>4, <2>5, <3>1, OnlyTheLoopTakesF1, F1sFinite
  <2>6. CASE Type
    <3>1. PICK k \in KeyCodes : keys' = Append(keys, k)
      BY <2>6 DEF Type
    <3>2. keys' \in Seq(KeyCodes)
      BY <2>1, <3>1
    <3>3. F1s(keys) <= F1s(keys')
      BY <2>1, <3>1, <3>2, F1sAppend
    <3> QED
      BY <2>4, <3>2, <3>3, F1sFinite
  <2>7. CASE Poll \/ Discard
    <3>1. UNCHANGED keys \/ \E k : getch(k) /\ c' = k
      BY <2>7 DEF Poll, Discard
    <3>2. at \in {"top", "discard"}
      BY <2>7 DEF Poll, Discard
    <3> QED
      BY <2>3, <2>5, <3>1, <3>2
  <2>8. ASSUME Cycle PROVE Kept
    <3>1. CASE KeyboardStatus
      BY <2>3, <2>5, <3>1 DEF KeyboardStatus, Peek
    <3>2. CASE KeyboardInput
      BY <2>3, <2>5, <3>2 DEF KeyboardInput, Peek
    <3>3. CASE UNCHANGED keys
      BY <2>3, <3>3
    <3> QED
      BY <2>8, <3>1, <3>2, <3>3 DEF Cycle
  <2>9. CASE Wait
    <3>1. ERR # KEY_F1
      BY DEF ERR, KEY_F1
    <3> QED
      BY <2>5, <2>9, <3>1 DEF Wait, KeyboardWait
  <2>10. CASE SliceCycle \/ StepCycle
    BY <2>8, <2>10 DEF SliceCycle, StepCycle
  <2>11. CASE SimNext /\ ~(Type \/ Poll \/ Discard \/ Wait \/ SliceCycle \/ StepCycle)
    <3>1. UNCHANGED keys
      BY <2>11 DEF SimNext, Loop, NoKey, StartOrPause, ChangeMode, ToggleBreakpoint, LeftClick,
           Toggle, Move, ScrollDown, ScrollUp, Scroll, Jump, Show, Handled, Quit, StartSlice,
           StartStep, HitBreakpoint, GoOn, SliceOver, After, Finished, simvars
    <3> QED
      BY <2>3, <3>1
  <2> QED
    BY <1>1, <2>6, <2>7, <2>9, <2>10, <2>11
<1> QED
  BY <1>1, SimTypeCorrect, PTL DEF SimSpec, F1NotSwallowed

-----------------------------------------------------------------------------
(* What is proved of the simulator holds with a terminal behind port 7     *)
(* too: it only makes the simulator wait, or ends it.                      *)

\* Every step with a terminal is one of the simulator alone, or none.
LEMMA TermStep == ASSUME [TermNext]_termvars PROVE [SimNext]_simvars
<1>1. CASE Step
  BY <1>1 DEF Step, SimNext
<1>2. CASE BrokenPipe
  BY <1>2 DEF BrokenPipe
<1>3. CASE UserTypes
  BY <1>3 DEF UserTypes, SimNext
<1>4. CASE TerminalReads
  BY <1>4 DEF TerminalReads
<1>5. CASE TerminalCloses
  BY <1>5 DEF TerminalCloses
<1>6. CASE TerminalOpens
  BY <1>6 DEF TerminalOpens
<1>7. CASE Over \/ UNCHANGED termvars
  BY <1>7 DEF Over, termvars
<1> QED
  BY <1>1, <1>2, <1>3, <1>4, <1>5, <1>6, <1>7 DEF TermNext

\* The simulator with a terminal implements the one without (ports.c:181-190).
THEOREM TerminalOnlyDelays == TermSpec => SimSpec
<1>1. TermInit => SimInit
  BY DEF TermInit
<1> QED
  BY <1>1, TermStep, PTL DEF TermSpec, SimSpec

\* The fifo never holds more than a pipe can, and nothing once its reader has
\* gone, for every capacity (ports.c:184).
LEMMA PipeTypeCorrect == TermSpec => []PipeTypeOK
<1>1. TermInit => PipeTypeOK
  <2>1. ASSUME TermInit PROVE reader \in BOOLEAN /\ killed \in BOOLEAN
    BY <2>1, Zenon DEF TermInit, initPorts
  <2>2. ASSUME TermInit PROVE unread = 0 /\ terminal \in Terminals
    BY <2>2 DEF TermInit, initPorts
  <2> QED
    BY <2>1, <2>2, PipeAssumption DEF PipeTypeOK
<1>2. ASSUME PipeTypeOK, [TermNext]_termvars PROVE PipeTypeOK'
  <2>0. PipeTypeOK /\ PipeCapacity \in Nat
    BY <1>2, PipeAssumption
  <2>1. CASE Step
    BY <2>0, <2>1 DEF Step, ToFifo, PipeTypeOK
  <2>2. CASE BrokenPipe
    BY <2>0, <2>2 DEF BrokenPipe, PipeTypeOK
  <2>3. CASE UserTypes
    BY <2>0, <2>3 DEF UserTypes, pipevars, PipeTypeOK
  <2>4. CASE TerminalReads
    BY <2>0, <2>4 DEF TerminalReads, PipeTypeOK
  <2>5. CASE TerminalCloses
    <3>1. unread' = 0 /\ unread' \in 0 .. PipeCapacity /\ ~(unread' > 0)
      BY <2>0, <2>5 DEF TerminalCloses
    <3>2. terminal' \in Terminals /\ killed' \in BOOLEAN /\ reader' \in BOOLEAN
      BY <2>0, <2>5, Zenon DEF TerminalCloses, PipeTypeOK
    <3> QED
      BY <3>1, <3>2 DEF PipeTypeOK
  <2>6. CASE TerminalOpens
    BY <2>0, <2>6 DEF TerminalOpens, PipeTypeOK
  <2>7. CASE Over \/ UNCHANGED termvars
    BY <2>0, <2>7 DEF Over, termvars, pipevars, PipeTypeOK
  <2> QED
    BY <1>2, <2>1, <2>2, <2>3, <2>4, <2>5, <2>6, <2>7 DEF TermNext
<1> QED
  BY <1>1, <1>2, PTL DEF TermSpec

\* The types of the loop and of the pipe hold for every program, set of keys and
\* capacity (ports.c:81-122, 184).
THEOREM TermTypeCorrect == TermSpec => []TermTypeOK
BY TerminalOnlyDelays, SimTypeCorrect, PipeTypeCorrect, PTL DEF TermTypeOK

\* With a terminal that is slow, or goes away, the screen is fresh and the loop
\* is told of the run as without (sim.c:172, 281-303).
THEOREM TerminalKeepsLoop == TermSpec => [](RunningIsTold /\ FreshWhenIdle)
BY TerminalOnlyDelays, RunningTold, ScreenFresh, PTL

\* No program and no terminal loses a typed F1 (ports.c:84, 107).
THEOREM TerminalKeepsF1 == TermSpec => F1NotSwallowed
BY TerminalOnlyDelays, F1Kept, PTL
=============================================================================
