------------------------------- MODULE AprSim -------------------------------
(***************************************************************************)
(* The simulator around the processor: mainloop and runSlice of sim.c, the *)
(* user at the keyboard, and the keyboard ports 1 and 2 of ports.c, which  *)
(* read the same queue of keys as the main loop while a program runs.      *)
(*                                                                         *)
(* The processor is the one of AprCPU, cycle by cycle.  `at' says where in *)
(* the program the simulator is:                                           *)
(*   "top"       the getch at the head of the main loop                    *)
(*   "discard"   the while loop that throws keys away during a run         *)
(*   "handle"    the switch on the key                                     *)
(*   "dispatch"  `if(docycle && cyclemode == 2) ... else if(docycle)'      *)
(*   "slice"     runSlice, inside its do ... while                         *)
(*   "boundary"  runSlice, at the breakpoint and time checks               *)
(*   "step"      the do ... while of STATE and INSTRUCTION mode            *)
(*   "after"     the end of the loop body                                  *)
(*   "done"      mainloop has returned                                     *)
(*                                                                         *)
(* A panel of the screen is in `stale' when what it shows may no longer be *)
(* the state of the machine.  Scrolling of the stack and register panels   *)
(* and the disassembly switch change neither the machine nor the control   *)
(* of the loop; they count among the keys that have no effect here.        *)
(***************************************************************************)
EXTENDS AprCPU, Sequences, FiniteSets

CONSTANTS
  KeyCodes,        \* what the user may type, as getch reports it
  MaxKeys,         \* bound: how many keys the user types
  CheckInterval,   \* RUN_SLICE_CHECK_INTERVAL
  StartModes,      \* the mode chosen with `m' ...
  StartBreakpoints,\* ... and the sets of addresses marked with `b' before the
                   \* behaviour begins; reset gives mode 0 and the empty set
  MouseRows        \* rows of the memory panel the user clicks on

ASSUME KeyCodesAssumption == KeyCodes \subseteq Nat \ {0}
ASSUME StartAssumption ==
  StartModes \subseteq 0 .. 2 /\ \A b \in StartBreakpoints : b \subseteq Word
ASSUME RowsAssumption == MouseRows \subseteq Nat
ASSUME IntervalAssumption == CheckInterval \in Nat \ {0}

VARIABLES
  at,            \* location, see above
  c,             \* the key mainloop last read
  docycle, running,
  cyclemode,     \* 0 STATE, 1 INSTRUCTION, 2 RUN
  breakpoints,   \* the addresses that are marked
  memdisplay,    \* first address of the memory panel
  stale,         \* panels that need a refresh
  count,         \* instructions run in this slice, counted to CheckInterval
  inbuff,        \* the key port 1 took, -1 when there is none
  keys,          \* typed and not yet read, with what ungetch put back in front
  typed          \* how many keys have been typed

control == <<docycle, running, cyclemode, breakpoints, memdisplay>>
cpuvars == <<cpu, memory, cycleCount, instructionCount>>
simvars == <<cpuvars, at, c, control, stale, count, inbuff, keys, typed>>

Locations == {"top", "discard", "handle", "dispatch", "slice", "boundary", "step",
              "after", "done"}
Panels == {"memory", "stack", "registers", "status"}

\* curses key codes
ERR == -1
KEY_F1 == 265
KEY_NPAGE == 338
KEY_PPAGE == 339
KEY_MOUSE == 409
MOUSE_SCROLL_LINES == 3
SPACE == 32
Char == [b |-> 98, j |-> 106, k |-> 107, m |-> 109, n |-> 110, N |-> 78,
         p |-> 112, q |-> 113, Q |-> 81]

-----------------------------------------------------------------------------
(* The terminal: getch does not wait (nodelay) and answers ERR when there  *)
(* is no key.                                                              *)

Type ==
  /\ at # "done" /\ typed < MaxKeys
  /\ typed' = typed + 1
  /\ \E k \in KeyCodes : keys' = Append(keys, k)
  /\ UNCHANGED <<cpuvars, at, c, control, stale, count, inbuff>>

\* getch() returns k
getch(k) ==
  \/ keys = <<>> /\ k = ERR /\ UNCHANGED keys
  \/ keys # <<>> /\ k = Head(keys) /\ keys' = Tail(keys)

\* Wrong variant: the key is not put back.
PeekTaking(k) == getch(k)

\* getch() returns k, and ungetch(k) puts it back
Peek(k) == keys # <<>> /\ k = Head(keys) /\ UNCHANGED keys

Readable == KeyCodes \cup {ERR}

-----------------------------------------------------------------------------
(* The keyboard ports *)

KeyboardPort == cpu.nextState = "x20" /\ ~f1 /\ cpu.imm3 \in {1, 2}

\* Wrong variant: function keys are kept as they are.
AsCharWide(k) == k

\* `if(inbuff > 0xFF) inbuff = 0', and the same for charin
AsChar(k) == IF k > 255 THEN 0 ELSE k

\* Port 1: takes the key into inbuff, whether or not one is there already
KeyboardStatus ==
  /\ cpu.nextState = "x20" /\ ~f1 /\ cpu.imm3 = 1
  /\ \E k \in Readable :
       /\ IF k = KEY_F1 THEN Peek(k) ELSE getch(k)
       /\ inbuff' = AsChar(k)
       /\ x20(IF k = ERR THEN 0 ELSE 1, memory)
  /\ CountCycle

\* What accumulator[amux] = (inbuff != -1) ? inbuff : charin leaves; -1 is 255
Delivered(charin) == (IF inbuff # -1 THEN inbuff ELSE AsChar(charin)) % 256

Newline(v) == IF v = 13 THEN 10 ELSE v

\* Port 2, one turn of its loop: no key yet
KeyboardWait ==
  /\ cpu.nextState = "x20" /\ ~f1 /\ cpu.imm3 = 2
  /\ getch(ERR)
  /\ cpu' = WithAcc(Delivered(ERR))
  /\ UNCHANGED <<memory, cycleCount, instructionCount, inbuff>>

\* Port 2, the turn that leaves the loop; F1 leaves the accumulator as it is
KeyboardInput ==
  /\ cpu.nextState = "x20" /\ ~f1 /\ cpu.imm3 = 2
  /\ \/ Peek(KEY_F1) /\ x20(Newline(Acc), memory)
     \/ \E k \in KeyCodes \ {KEY_F1} : getch(k) /\ x20(Newline(Delivered(k)), memory)
  /\ inbuff' = -1
  /\ CountCycle

\* cycle() as the simulator runs it, with the keyboard ports connected
Cycle ==
  \/ Microcode /\ CountCycle /\ UNCHANGED <<keys, inbuff>>
  \/ ~KeyboardPort /\ portIO /\ CountCycle /\ UNCHANGED <<keys, inbuff>>
  \/ KeyboardStatus
  \/ KeyboardInput

\* refreshAll, or the four refreshes at the end of a step
refreshAll == stale' = {}

-----------------------------------------------------------------------------
(* The head of the loop *)

Poll ==
  /\ at = "top"
  /\ \E k \in Readable : getch(k) /\ c' = k
  /\ at' = IF c' = ERR /\ ~docycle THEN "top" ELSE "discard"
  /\ UNCHANGED <<cpuvars, control, stale, count, inbuff, typed>>

\* Wrong variants: the loop also throws F1 away, or a space.
DiscardF1 ==
  /\ at = "discard"
  /\ IF running /\ c \notin {ERR, SPACE}
       THEN (\E k \in Readable : getch(k) /\ c' = k) /\ at' = "discard"
       ELSE UNCHANGED <<keys, c>> /\ at' = "handle"
  /\ UNCHANGED <<cpuvars, control, stale, count, inbuff, typed>>

DiscardSpace ==
  /\ at = "discard"
  /\ IF running /\ c \notin {ERR, KEY_F1}
       THEN (\E k \in Readable : getch(k) /\ c' = k) /\ at' = "discard"
       ELSE UNCHANGED <<keys, c>> /\ at' = "handle"
  /\ UNCHANGED <<cpuvars, control, stale, count, inbuff, typed>>

Discard ==
  /\ at = "discard"
  /\ IF running /\ c \notin {ERR, SPACE, KEY_F1}
       THEN (\E k \in Readable : getch(k) /\ c' = k) /\ at' = "discard"
       ELSE UNCHANGED <<keys, c>> /\ at' = "handle"
  /\ UNCHANGED <<cpuvars, control, stale, count, inbuff, typed>>

\* The keys the switch acts on, for the state of the loop
Acted == at = "handle" /\ (~running \/ c \in {SPACE, KEY_F1})

\* A case of the switch that goes on to the cycle below
Handled == /\ at' = "dispatch"
           /\ UNCHANGED <<cpuvars, c, running, count, inbuff, keys, typed>>

\* No key, one that is ignored during a run, one with no effect here (n and N
\* when no other address is marked, a mouse event off the memory panel)
NoEffect ==
  \/ ~Acted
  \/ c \in {Char.n, Char.N} /\ breakpoints \subseteq {memdisplay}
  \/ c \notin {SPACE, KEY_F1, KEY_NPAGE, KEY_PPAGE} \cup {Char[l] : l \in DOMAIN Char}

NoKey ==
  /\ at = "handle" /\ NoEffect
  /\ Handled /\ UNCHANGED <<docycle, cyclemode, breakpoints, memdisplay, stale>>

StartOrPause ==
  /\ Acted /\ c = SPACE
  /\ docycle' = ~docycle
  /\ Handled /\ UNCHANGED <<cyclemode, breakpoints, memdisplay, stale>>

ChangeMode ==
  /\ Acted /\ c = Char.m
  /\ cyclemode' = (cyclemode + 1) % 3
  /\ stale' = stale \ {"status"}
  /\ Handled /\ UNCHANGED <<docycle, breakpoints, memdisplay>>

Toggle(a) ==
  /\ breakpoints' = (breakpoints \ {a}) \cup ({a} \ breakpoints)
  /\ stale' = stale \ {"memory"}
  /\ Handled /\ UNCHANGED <<docycle, cyclemode, memdisplay>>

ToggleBreakpoint == Acted /\ c = Char.b /\ Toggle(memdisplay)

LeftClick ==
  /\ Acted /\ c = KEY_MOUSE
  /\ \E row \in MouseRows : memdisplay + row < 65536 /\ Toggle(memdisplay + row)

\* findNextBreakpoint: the first marked address other than memdisplay, going
\* round the address space upwards (step 1) or downwards (step -1); a set of
\* one address, or of none
Distance(step, a) == (step * (a - memdisplay)) % 65536
NextBreakpoint(step) ==
  {a \in breakpoints \ {memdisplay} :
     \A b \in breakpoints \ {memdisplay} : Distance(step, a) <= Distance(step, b)}

\* The memory panel is moved to address a.  The scrolling functions draw the
\* lines that come in, every other move draws the whole panel.
Show(a) ==
  /\ memdisplay' = a
  /\ Handled /\ UNCHANGED <<docycle, cyclemode, breakpoints>>
Scroll(a) == Show(a) /\ UNCHANGED stale
Jump(a) == Show(a) /\ stale' = stale \ {"memory"}

\* Wrong variant: the start of the address space is not checked.
ScrollUpOn(lines) == Scroll(memdisplay - lines)

ScrollDown(lines) == Scroll(IF memdisplay + lines > 65535 THEN 65535 ELSE memdisplay + lines)
ScrollUp(lines) == Scroll(IF memdisplay < lines THEN 0 ELSE memdisplay - lines)

Move ==
  /\ Acted
  /\ \/ c = Char.j /\ ScrollDown(1)
     \/ c = Char.k /\ ScrollUp(1)
     \/ c = KEY_MOUSE /\ \E n \in {1, 2} : \/ ScrollDown(n * MOUSE_SCROLL_LINES)
                                           \/ ScrollUp(n * MOUSE_SCROLL_LINES)
     \/ c = KEY_NPAGE /\ Jump(IF memdisplay + 256 > 65535 THEN 65535 ELSE memdisplay + 256)
     \/ c = KEY_PPAGE /\ Jump(IF memdisplay > 256 THEN memdisplay - 256 ELSE 0)
     \/ c = Char.n /\ \E a \in NextBreakpoint(1) : Jump(a)
     \/ c = Char.N /\ \E a \in NextBreakpoint(-1) : Jump(a)
     \/ c = Char.p /\ Jump(cpu.pc)

Quit ==
  /\ Acted /\ c \in {Char.q, Char.Q, KEY_F1}
  /\ at' = "done"
  /\ UNCHANGED <<cpuvars, c, control, stale, count, inbuff, keys, typed>>

-----------------------------------------------------------------------------
(* The rest of the loop body *)

\* Wrong variant: the loop is not told of the run.
StartSliceUntold ==
  /\ at = "dispatch" /\ docycle /\ cyclemode = 2
  /\ count' = 0
  /\ at' = "slice"
  /\ UNCHANGED <<cpuvars, c, control, stale, inbuff, keys, typed>>

StartSlice ==
  /\ at = "dispatch" /\ docycle /\ cyclemode = 2
  /\ running' = TRUE
  /\ count' = 0
  /\ at' = "slice"
  /\ UNCHANGED <<cpuvars, c, docycle, cyclemode, breakpoints, memdisplay, stale, inbuff, keys, typed>>

StartStep ==
  /\ at = "dispatch" /\ ~(docycle /\ cyclemode = 2)
  /\ at' = IF docycle THEN "step" ELSE "after"
  /\ UNCHANGED <<cpuvars, c, control, stale, count, inbuff, keys, typed>>

\* A turn of the port 2 loop that finds no key, in a slice or in a step
Wait ==
  /\ at \in {"slice", "step"}
  /\ KeyboardWait
  /\ stale' = Panels
  /\ UNCHANGED <<at, c, control, count, typed>>

SliceCycle ==
  /\ at = "slice"
  /\ Cycle
  /\ stale' = Panels
  /\ at' = IF cpu'.nextState = "x00" THEN "boundary" ELSE "slice"
  /\ UNCHANGED <<c, control, count, typed>>

\* Wrong variant: the run is called off here, and After finds it over.
HitBreakpointOver ==
  /\ at = "boundary" /\ cpu.pc \in breakpoints
  /\ docycle' = FALSE /\ running' = FALSE
  /\ stale' = stale \ {"status"}
  /\ at' = "after"
  /\ UNCHANGED <<cpuvars, c, cyclemode, breakpoints, memdisplay, count, inbuff, keys, typed>>

\* runSlice returns 1
HitBreakpoint ==
  /\ at = "boundary" /\ cpu.pc \in breakpoints
  /\ docycle' = FALSE
  /\ stale' = stale \ {"status"}
  /\ at' = "after"
  /\ UNCHANGED <<cpuvars, c, running, cyclemode, breakpoints, memdisplay, count, inbuff, keys, typed>>

\* The instruction is counted; the clock is read at every CheckInterval-th one
\* and after every PRT
Counting == count' = (count % CheckInterval) + 1
ClockIsRead == count' = CheckInterval \/ Opcode(cpu.ir) = PRT

GoOn ==
  /\ at = "boundary" /\ cpu.pc \notin breakpoints
  /\ Counting
  /\ at' = "slice"
  /\ UNCHANGED <<cpuvars, c, control, stale, inbuff, keys, typed>>

\* Wrong variants: the clock is read before the mark is looked at; the end of a
\* slice ends the run.
SliceOverFirst ==
  /\ at = "boundary"
  /\ Counting /\ ClockIsRead
  /\ stale' = stale \ {"status"}
  /\ at' = "after"
  /\ UNCHANGED <<cpuvars, c, control, inbuff, keys, typed>>

SliceOverStops ==
  /\ at = "boundary" /\ cpu.pc \notin breakpoints
  /\ Counting /\ ClockIsRead
  /\ docycle' = FALSE
  /\ stale' = stale \ {"status"}
  /\ at' = "after"
  /\ UNCHANGED <<cpuvars, c, running, cyclemode, breakpoints, memdisplay, inbuff, keys, typed>>

\* runSlice returns 0: RUN_SLICE_USEC have passed
SliceOver ==
  /\ at = "boundary" /\ cpu.pc \notin breakpoints
  /\ Counting /\ ClockIsRead
  /\ stale' = stale \ {"status"}
  /\ at' = "after"
  /\ UNCHANGED <<cpuvars, c, control, inbuff, keys, typed>>

StepCycle ==
  /\ at = "step"
  /\ Cycle
  /\ IF cyclemode # 0 /\ cpu'.nextState # "x00"
       THEN at' = "step" /\ stale' = Panels /\ UNCHANGED docycle
       ELSE at' = "after" /\ refreshAll /\ docycle' = FALSE
  /\ UNCHANGED <<c, running, cyclemode, breakpoints, memdisplay, count, typed>>

\* Wrong variant: the screen is refreshed, and the run is not marked as over.
AfterStillRunning ==
  /\ at = "after"
  /\ IF ~docycle /\ running THEN refreshAll ELSE UNCHANGED stale
  /\ at' = "top"
  /\ UNCHANGED <<cpuvars, c, control, count, inbuff, keys, typed>>

After ==
  /\ at = "after"
  /\ IF ~docycle /\ running THEN running' = FALSE /\ refreshAll
                            ELSE UNCHANGED <<running, stale>>
  /\ at' = "top"
  /\ UNCHANGED <<cpuvars, c, docycle, cyclemode, breakpoints, memdisplay, count, inbuff, keys, typed>>

-----------------------------------------------------------------------------
SimInit ==
  /\ Init
  /\ at = "top" /\ c = ERR
  /\ docycle = FALSE /\ running = FALSE
  /\ cyclemode \in StartModes /\ breakpoints \in StartBreakpoints /\ memdisplay = 0
  /\ stale = {}
  /\ count = 0 /\ inbuff = -1
  /\ keys = <<>> /\ typed = 0

Loop ==
  \/ Poll \/ Discard
  \/ NoKey \/ StartOrPause \/ ChangeMode \/ ToggleBreakpoint \/ LeftClick
  \/ Move \/ Quit
  \/ StartSlice \/ StartStep \/ SliceCycle \/ Wait \/ HitBreakpoint \/ GoOn
  \/ SliceOver \/ StepCycle \/ After

\* mainloop has returned; main calls finish
Finished == at = "done" /\ UNCHANGED simvars

SimNext == Loop \/ Type \/ Finished
SimSpec == SimInit /\ [][SimNext]_simvars

-----------------------------------------------------------------------------
(* Properties *)

\* The state of the loop has the shape the C variables give it.
SimTypeOK ==
  /\ TypeOK
  /\ at \in Locations /\ c \in Readable
  /\ docycle \in BOOLEAN /\ running \in BOOLEAN
  /\ cyclemode \in 0 .. 2 /\ breakpoints \subseteq Word /\ memdisplay \in Word
  /\ stale \subseteq Panels
  /\ count \in 0 .. CheckInterval
  /\ inbuff \in -1 .. 255
  /\ keys \in Seq(KeyCodes) /\ typed \in Nat

\* `running' tells the head of the loop the truth: when a key is read, a run is
\* going on exactly when cycles are due, and only in RUN mode.  The discarding
\* of keys and the sleep on ERR rest on it (sim.c:172, 184, 280-303).
RunningIsTold ==
  /\ running => cyclemode = 2
  /\ at \in {"top", "discard"} => docycle = running

\* A run is never carried past a marked address: between slices and between the
\* instructions of a slice the program counter is at an unmarked one, and at
\* the start of an instruction (sim.c:136-146).
AtUnmarked == cpu.nextState = "x00" /\ cpu.pc \notin breakpoints

BreakpointHonoured ==
  /\ at \in {"top", "discard"} /\ running => AtUnmarked
  /\ at = "slice" /\ count > 0 /\ cpu.nextState = "x00" => AtUnmarked

\* A run that is going on ends only by a space the user types during it or at a
\* marked address; in particular the end of a slice of time does not end it, nor
\* does the space that started it (sim.c:121-123, 202, 284).
Runs == running /\ docycle
RunEndsForAReason ==
  [][Runs /\ ~Runs' =>
       \/ at = "handle" /\ c = SPACE
       \/ cpu.nextState = "x00" /\ cpu.pc \in breakpoints]_simvars

\* From the space that starts a run to the end of the run the keys cannot change
\* the mode, the marks or the view, and among them only F1 quits (sim.c:179-187).
LockedWhileRunning ==
  [][docycle => /\ UNCHANGED <<cyclemode, breakpoints, memdisplay>>
                /\ at' = "done" => c = KEY_F1 \/ at = "done"]_simvars

\* When the loop waits for a key with no run going on, no panel shows an older
\* state of the machine, not even when a breakpoint ended the first slice of a
\* run; and the status line is up to date after every slice (sim.c:281-303).
FreshWhenIdle ==
  at = "top" => (running \/ stale = {}) /\ "status" \notin stale

F1s(q) == Cardinality({i \in DOMAIN q : q[i] = KEY_F1})

\* The program cannot swallow an F1: the ports put it back, so a typed F1 goes
\* away only by reaching the main loop (ports.c:84, 107).
F1NotSwallowed == [][F1s(keys') < F1s(keys) => c' = KEY_F1 /\ at \in {"top", "discard"}]_simvars

Waiting(k) == \E i \in DOMAIN keys : keys[i] = k

\* "Block and poll for keyboard input unless a chaaracter was buffered by a
\* status check" (ports.c:103): a read of port 2 does not wait for another key
\* while a character is buffered.
BufferedCharAnswers == [][Wait => inbuff = -1]_simvars
=============================================================================
