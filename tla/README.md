# Formal models of aprsim

aprsim (C89, curses) simulates the Apricos, an 8-bit processor with a 16-bit
address space. This directory holds TLA+ models of the simulator, the TLC runs
that check them on small instances, and theorems that TLAPS checks for every
value of the constants. Line numbers refer to the repository's files: `cpu.c`
is `src/src/cpu.c`, `apricos.txt` is `src/apricos.txt`.

## The system

One process and one thread, with two signal handlers. All state is global.

| Component | State | Operations | Correct when |
|---|---|---|---|
| Processor, `cpu.c` | registers, `memory`, `nextState` (a function pointer), the latches of `x03`, the two counts | `cycle` calls `*nextState`; 35 functions, one per microprogram state | every instruction does what `apricos.txt` says and ends; widths are kept; the counts agree and saturate |
| Ports, `ports.c` | `inbuff` (one character), the handle of the terminal | `initPorts`; `portIO`, called by `x20` | keys are not lost to the program they should stop; a buffered character is delivered; a slow terminal takes nothing from the user |
| Disk, `diskio.c` | `driveFile`, `diskID`, `track`; files `0.dsk` .. `8.dsk` | select disk, select track, read and write a sector, status | a write changes the sector it names and outlives a crash; a failed selection changes nothing |
| Main loop, `sim.c` | `docycle`, `running`, `cyclemode`, `breakpoints`, `memdisplay` | `mainloop`, `runSlice`, `findNextBreakpoint` | marks stop a run, the user can always stop it, the keys are locked meanwhile, no panel is stale when idle |
| Loaders, `sim.c` | `memory`, `hints`, `symbols` and the names on the heap | `loadProgram`, `loadDisassemblyHintsFile`, `loadSymbolsFile`, `freeSymbolTable` | bytes go where the file says, inside memory; no name is lost or freed twice |
| Display, `gui.c` | curses windows, `windowShouldResize`, `registerPage`, scroll positions | refresh and scroll functions, `doResize`, layout | an incremental scroll shows what a full refresh would; a resize is never forgotten; panels tile the screen |
| Disassembler, `disassembler.c` | none | `disassembleAddress` | the text says what the processor will do |
| Command line, `argparser.c` | `settings` | `getSettingsFromArgs`, `freeSettings` | the files named are the files loaded |
| Start and exit, `sim.c` | - | `main`, `finish` (also the SIGINT handler) | windows and tables are destroyed once, and the terminal is given back |

How they interact. `mainloop` calls `cycle` directly (a step) or through
`runSlice` (a run). `cycle` calls one microprogram function; `x20` calls
`portIO`, and `portIO` calls curses' `getch` - the same queue of keys the main
loop reads - and the disk functions, which read and write a page of `memory`.
The main loop calls the refresh functions of the display; the display reads the
machine. SIGWINCH sets a flag that the main loop tests once per turn, SIGINT
runs `finish` where the program happens to be.

What is hard. The program being simulated runs inside the loop that serves the
user: it may loop for ever, sleep, or wait for a key in `portIO`, and it
competes with the loop for keys. A run is chopped into slices of wall time, and
the breakpoint check, the clock check and the two flags `docycle` and `running`
must agree over any sequence of slices, keys and mode changes. The screen is
deliberately not refreshed during a run. The disk remembers a selection across
failed selections. The processor's microprogram is a graph of functions whose
termination nothing enforces.

Every hazard found in the code, with its line and the properties that cover it,
is in `PROJECT.json` under `hazards`.

## The modules

| Module | What it is | Source |
|---|---|---|
| `Words` | bytes, words, bitwise operators on sets of bit weights | C integer types |
| `AprCPU` | the processor, one action per microprogram function | `cpu.c`, `cpu.h` |
| `AprISA` | abstract: one action per instruction | what `apricos.txt` promises, as `cpu.c` does it |
| `AprCPURefinement` | the processor implements the instruction set | - |
| `AprSim` | `EXTENDS AprCPU`: main loop, run slices, keyboard ports, the user | `sim.c`, `ports.c`, scrolling in `gui.c` |
| `AprDisasm` | `EXTENDS AprCPURefinement`: the text beside an address, and what it says to a reader | `disassembler.c` |
| `AprTerminal` | `EXTENDS AprSim`: the terminal behind port 7, another process | `ports.c` |
| `AprStart` | the command line, the loaders, the order of `main`, `finish`, SIGINT | `sim.c`, `argparser.c` |
| `AprDisk` | disk functions and disk ports over byte sequences, with crashes | `diskio.c`, `ports.c` |
| `SectorStore` | abstract: disks as tables of sectors | what the disk ports promise |
| `AprLayout` | the rectangles of the panels and the number of register pages, as operators | `initDimensions`, `initRegisterPageLayout` in `gui.c` |
| `AprRegisters` | `EXTENDS AprLayout`: the registers on each page of the register panel | `refreshRegisterDisplay`, `printRegister` in `gui.c` |
| `AprGui` | `EXTENDS AprRegisters`: the windows, resizing, the two signal handlers | `gui.c`, `finish` in `sim.c` |
| `AprDisplay` | the characters of the memory panel, drawn whole and scrolled | `gui.c` |
| `AprPanels` | `EXTENDS AprDisplay`, and an instance of it for the stack panel: the keys and the wheel that move them, the search for marks | `gui.c`, `sim.c` |
| `AprCPUProofs`, `AprISAProofs` | theorems about `AprCPU`; that it implements `AprISA` | - |
| `AprSimProofs` | theorems about `AprSim` and `AprTerminal` | - |
| `AprDiskProofs` | theorems about `AprDisk`; that it implements `SectorStore` | - |
| `AprGuiProofs` | theorems about `AprLayout`, `AprRegisters` and `AprGui` | - |
| `AprDisplayProofs`, `AprPanelsProofs` | lemmas about drawing and scrolling one panel; theorems about both | - |
| `AprStartProofs` | theorems about `AprStart` | - |
| `MCAprCPU`, `MCAprSim`, `MCAprTerminal`, `MCAprDisk`, `MCAprGui`, `MCAprPanels`, `MCAprStart` | programs, images, sizes, formats and bounds for TLC | - |

### AprCPU

`cpu` is one record of the registers and `nextState`, whose value is the name of
the function it points at. `Micro(s, c, t)` is "function `s` runs, leaves
registers `c`, and the next one is `t`"; all but three of the 35 actions have
this form. `memory` is sparse: what a program never touched is 0, as reset leaves
it. `f1..f4`, `imm4`, `imm2` are read off `ir`, which does not change after the
code latches them; `imm3` is a register because `x09` counts it down. The port
function `x20(v, m)` takes the accumulator and the memory as `portIO` leaves
them: in `AprCPU` that is any of the values a port may deliver, in `AprSim` the
keyboard ports are the real ones. `currentState` and `halted` are shown on the
screen or ignored and left out.

### AprDisasm

A text is the mnemonic and the numbers after it; a number that is looked up in
the symbol table carries the address it is looked up at, as if every address had a
name. The second half of the module is a reader who knows the mnemonics of
`apricos.txt` and nothing of the code: `Means(text)` is what such a reader expects
the processor to do, in the terms of `AprISA`. `DisassemblyTrue` compares the two
for every instruction that is executed. Three places where the text is known to be
wrong are named in `AtAnEdge` and left out of it: the operand of an instruction in
the last byte of memory is shown as 0; an LDI or STI that reaches past the end of
memory is looked up behind the end of `symbols`; and a branch in the last two bytes
of a page, which is the finding of `branchpage`.

### AprSim

`at` is the place in the program (the head of the loop, the discarding loop, the
switch, inside a slice, at the end of a slice's instruction, in a step, the end
of the loop body). The user may type at any moment, between any two cycles.
Each action is what happens between two places where something else could be
observed: one `getch`, one `cycle`, one case of the switch, one check. `stale`
is the set of panels that may show an old state of the machine: every cycle makes
them all stale, a refresh function takes its panel out. Wall time is abstracted:
where `runSlice` reads the clock (`ClockIsRead`), both "the slice is over" and
"it goes on" are possible. `sleep` is a port write that takes time and changes
nothing. The mode and the marks may already be set when a behaviour begins
(`StartModes`, `StartBreakpoints`): the user's earlier `m` and `b`.

### AprTerminal

A byte written to port 7 goes into the pipe of the fifo, whose reader is another
actor: it reads, goes away and comes back at any moment. `write` waits for room, and
with it the main loop; without a reader the kernel ends the simulator, which has
no handler for SIGPIPE. Every other terminal - a serial line, the standard input when
the device could not be opened, a handle that is not open - takes a byte at once.

### AprStart

`main` step by step: the options `getopt_long` reports, the check of `-f` against
`-u`, `initPorts`, the loaders, the screen, the main loop as one step, `finish`. The
main loop has three ends: it returns, SIGINT comes, or a byte is written to a fifo
without a reader (`BrokenPipe`), when SIGPIPE ends the process with nothing freed and
the terminal in curses mode. What `loadProgram` draws (`sim.c:39`) is in `AprGui`.
`loadSymbolsFile` is cut where a signal matters: between reading a line, `malloc`,
`free` of the old name and the assignment. Blocks of the heap are numbered in the
order `malloc` gives them out, and `live` is what has not been freed, so that a lost
name, a double free and a name freed too early are all states. SIGINT begins
`finish` between any two steps; during `finish` as a handler SIGINT is blocked. A
file is what its loader reads. A line of a symbol file is what one `fgets` returns, at
most 511 characters, so that a longer line of the file is several; it carries the
length of its name, since `sscanf` is given no width and writes a name of more than
255 characters behind the end of `symbolNameBuff`. That has no defined behaviour and
is assumed away (`LinesAssumption`): all that is said of symbols is said of files
without such names. `sscanf` keeps what a line does not have, and `fread`
at the end of the file leaves the rest of the buffer; the two buffers of the hints
start with anything (`Uninitialised`), and the hints are read entry by entry, as many as
the first two bytes say.

### AprDisk and SectorStore

A file is the sequence of its bytes; `fwrite` behind the end leaves a hole of
zeros, `fgetc` stops at the end. `SectorStore` knows only tables of sectors, and
the refinement mapping in `AprDisk` cuts the file into them: a sector beyond the
end of the file is a short or empty sequence. A write has two parts, as `fwrite` and
`fflush` have: until the second the sector is in the stream only (`unflushed`), and
the program does not go on. `Restart` is the end of the simulator, by SIGKILL
anywhere or by the user, and its next start over the same files. In `SectorStore` a
program asks for a write and is held until it is there, so a write may be lost only
when the machine stops while it is under way. Both modules show the last `command`, the
port and the accumulator, so that a step of the ports has to be what the abstract
disks do at that very command: a selection that fails and still moves the track is not
an abstract step.

### AprLayout and AprGui

`initDimensions` is a function from the size of the terminal to four rectangles;
`(int)(maxX / 1.8)` is `5 * maxX \div 9`. `AprGui` has the program as its walk
through `initgui`, the loop, `doResize` and `finish` (`at`), and the terminal as a
second actor that changes its size and sends SIGWINCH at any moment.
`handle_winch` runs on top of any step and while it does the program stands
still. A second SIGWINCH during it is either ignored - C89 may remove a handler
when it is called, and `handle_winch` puts itself back last - or held back; the
model has both. SIGINT runs `finish` on top of any step and ends the program. What
curses does when it reads the size (in `initscr`, and in `refresh` after `endwin`) is
external. The eight `delwin` calls are one step, and the eight `newwin`/`subwin` calls
are one; everything else a signal can tell apart is a step of its own.

The start is cut where it matters. At "load" the loaders run, and `loadProgram` calls
`refreshMemoryDisplay` (`sim.c:39`) before there is a window; curses refuses a null
one. Between `initscr` (`gui.c:56`) and `signal` (`gui.c:58`), at "install", SIGWINCH
has the handler curses put there: the program hears of the resize as KEY_RESIZE only, a
key `mainloop` does nothing about, and `windowShouldResize` stays 0. The resize is
forgotten until another follows. `missed` notes it, and `ResizeKept` and
`ResizeHandled` name it as their exception: no document of the repository promises
anything about a resize there.

The place "port" is `portIO` holding the loop up, in a read of port 2 without a key or
in a write to a full fifo: until it returns the loop does not come back to `unlockGui`,
and it may also end the process (`BrokenPipe`). `registerPage` is a plain `char`, and
whether that is signed is left to the compiler: `CharIsSigned`. Where it is not,
`--registerPage < 0` (`gui.c:179`) is never true and R at the first page goes to page
255, which is drawn as the first one once more (the `default` of `gui.c:208`) under a
number that does not exist, so that R never comes to the last page; `PageExists` is about
the signed case, and the runs have it.

`AprRegisters` says which registers each page of each layout has, and how wide a
register is; `RegistersShown` puts this together with the number of pages that
`initRegisterPageLayout` computes, the paging of `r` and `R`, and the room of the
panel in the present layout.

### AprDisplay

The window is rows of characters, and a character is the address it belongs to, its
place in the line and whether it was printed with the disassembly; so an old line, a
line in the wrong place and a line cut short are all different. `mvwaddstr` is written
in closed form: text that meets the right margin goes on in the next row, and in the
last row moves the window up, as `scrollok` asks. The whole drawing and the two
scrolling functions are the loops of `gui.c`: `DrawRows`, a recursive function of the
rows still to draw, in the order of the code. `Amounts` lies below the height of the
panel because the least panel has 8 rows and the mouse scrolls 6 at most, which is
`RoomToScroll`, proved of every layout.

`AprPanels` has both panels under every key and wheel step that reaches them. The
functions of the stack panel are the same code with 256 lines, a window of their own
and no disassembly, so the stack panel is an `INSTANCE` of `AprDisplay`; which of the
two a wheel step moves is a choice. `findNextBreakpoint` is a loop with one action
per turn, while `AprSim` takes its answer by distance; `FoundNearest` says that the
two agree, and `SearchEnds` that the loop does.

## What the runs check

| Run | Shows | Instance |
|---|---|---|
| `opcodes` | each of 256 opcodes acts as `AprISA` says (`ImplementsISA`) and as its disassembly says (`DisassemblyTrue`), ends (`InstructionEnds`), within the cycle bounds (`CycleBudget`); once a count is shown as "many" it stays so (`ManyForGood`) | each opcode at addresses 320, 510, 511, 65534 and 65535 (inside a page, across the end of a page, across the end of memory), with five accumulator values that give each flag, two operands; endless loops whose counts pass `COUNT_MANY` = 90 |
| `branchpage` | violation: a branch is shown with a target it does not go to, against `apricos.txt:243` | branches in the last bytes of a page |
| `overflow` | violation: a left shift sets O, against `apricos.txt:23` | shifts by 1 to 8 |
| `keys` | breakpoints are honoured, a run ends only at one or by a space, the keys are locked meanwhile | a loop that reads no port or one that waits for keys, both of two instructions, each of which may be marked, all 15 keys the loop acts on and one it does not, three typed |
| `user` | no F1 is swallowed, the flags agree, panels are fresh when idle; liveness: a typed F1 ends the simulator; a typed space pauses the run of a program that does not read the keyboard | five programs that never end: one counts, one sleeps, one polls for keys, one waits for them, one writes to the terminal, which is a fifo of two bytes or not there; four keys typed, of which two are function keys |
| `buffered` | violation: a read waits although a character is buffered, against the comment at `ports.c:103` | the polling program |
| `disk` | the disk ports implement a table of sectors, command by command, crashes and restarts included, and a file is never shortened nor changed beyond the last sector | two disks of 2 tracks of 2 sectors of 2 bytes, one ending inside its first sector, one with a byte behind its last; ids 3 and 9 name no disk |
| `resize` | from the installation of `handle_winch` on no resize is forgotten, each is acted on unless a program stays in `portIO` for ever, no deleted window is drawn in, the register page exists and shows its registers, the panels tile the screen | four sizes: less than the least, the least, both sides of the height where the register layout changes; three resizes at any moment, an interrupt; `char` signed |
| `interrupt` | violation: a window is deleted twice, against the comment at `gui.c:25` and the docstring of `test_resize.py:3` | two sizes, one resize, an interrupt |
| `panel` | after any moves the memory and stack panels show exactly the lines they should, at both ends of memory; the search for marks ends at the nearest | 15 lines of memory in 8 rows of 9 columns and 10 of the stack in 8 rows of 5, moves by 1, 3, 6 and a page, two marks |
| `narrow` | violation: row 0 is not the line at `memdisplay`, against `test_display.py:59` and the least width in `gui.h:73` | the panel of an 80 by 24 terminal; the test has 120 columns, where the line fits, and the least width and `tests/README.md:9` say 75 are enough |
| `start` | memory, symbols and hints are what the files say; blocks are freed once, except by the signals `EachFreedOnce` names; the terminal is given back, unless a broken pipe ends the simulator, and the program ends | every command line of up to three of 14 arguments, among them good, cut off, overlapping and overlong programs, a symbol file with a replaced name, a missing name and an empty line, hints that are whole or cut off; SIGINT at any step |

The bounds. `opcodes`: an instruction depends on the instruction before it only
through the registers; the setup gives these the values that decide flags,
carries, wraps and branches. `COUNT_MANY` is a parameter of the model, so a
small value shows the wrap of the real one; `Instructions` cuts the one-instruction
programs, the counting ones are finite by themselves. `keys`: three keys
reach every pair of actions followed by an end of run; the mode and the marks need
no keys of their own. `user`: four keys give a start, a key for
the program, one for the loop and one to stop. A slice reads its clock every
`CheckInterval` = 2 instructions instead of 1024: less often than each
instruction is all that matters. A pipe of two bytes is full after one that was not
the first. `disk`: two sectors in each direction
distinguish every mistake in an offset; the states are cut where more than
one sector has been given new contents (`MaxChanged`), since a write is compared with
the table before it, which any earlier write may have left, and the proof covers any number. `resize`: one resize to be
handled, one that falls into its handling and one that falls into `handle_winch`
make three; the tiling depends on the size alone, and the proof covers all sizes.
`panel`: the memory has a middle in which neither end is in sight, lines differ in
length as those with a symbol do, a page is shorter than memory and as long as the
longest wheel step. `start`: three arguments give every pair of programs in both
orders, or each kind of file with another; a symbol replaced after one in between is
the longest thing a symbol file needs.

Fairness. In `user`, `WF(Step \/ BrokenPipe)`: the process runs, and each of the
loop's own steps, a turn of the wait in `portIO` included, is finished in finite
time. No fairness is put on the user, nor on the terminal. `SF(SliceEnds)`: a slice
that reaches the clock again and again is over some day, since wall time passes and
`RUN_SLICE_USEC` is fixed; strong because the clock is not read after every
instruction. `F1Quits` holds even for a program blocked in port 2, since the port sees
the F1, puts it back, and its PRT is followed by a look at the clock; it fails only
with a fifo that is full and never read again, and says so (`[]Stuck`).
`SpacePauses` is about programs that do not read the keyboard: a program that does
may take the space itself, by design. In `resize`, weak fairness of the program
except where it is held up in `portIO`, by a user who types nothing or a fifo nobody
reads, of the delivery of a signal and of its handler; in
`panel`, of the search; in `start`, of every step but the wait for the reader of a
fifo and the main loop.

## What is proved

For every program, `COUNT_MANY`, set of keys, marks and ports' answers:

* `TypeCorrect`, `EveryInstructionEnds`, `CountsAgree`, `ManyStaysMany`
  (`AprCPUProofs`). The type invariant is inductive as it stands. The end of an
  instruction is a measure, `CyclesLeft`, that each microprogram function lowers;
  it needs the type invariant and that the latches agree with `ir`. The count
  bounds are inductive when they speak of the unfinished instruction too:
  `CyclesDone` on the low side, `CyclesLeft` on the high side, which is why
  `CycleBudget` mentions them.
* `SimTypeCorrect`, `RunningTold`, `BreakpointsHonoured`, `ScreenFresh`,
  `RunsEndForAReason`, `KeysLocked` (`AprSimProofs`), from one inductive invariant
  `LoopInv`: the types, and what holds at each place of the loop - which of the two
  flags may be set there (`Control`), that at the end of a slice the pc is at an
  unmarked address or the run is over (`Boundary`), and which panels can be stale there
  (`Fresh`). None of the six properties is inductive by itself: each is about the head
  of the loop and is lost and restored on the way round it.
* `F1Kept` (`AprSimProofs`): the F1s in the queue become fewer only at the head of the
  loop. The property counts places in a sequence, so the proof counts them too: they
  are finitely many (`F1sFinite`), taking a key that is no F1 off the front moves them
  all by one, and an F1 that a port takes is the one it puts back.
* `ISAImplemented` (`AprISAProofs`): the microprogram implements the instruction set,
  for every program and any reply of the ports, from the registers as reset leaves them.
  The invariant, `Midway`, says of each of the functions of the microprogram what holds
  when it is about to run: which registers still are as before the instruction
  (`committed`, the history variable of `AprCPURefinement`), and what the others have
  become - the opcode read, the operand, the address an LDI or STI works on, the places
  still to shift, the byte an SPOP has read. Its conjuncts are
  `Frame`, which no function changes before the last one of its instruction, and
  `FetchInv`, `SingleInv`, `ShiftInv`, `LoadInv`, `StoreInv` and `StackInv`, for the
  functions of each kind. A function that does not end an instruction keeps `Midway`
  (`InnerFunction`), one that does makes the change of that instruction and begins the
  next (`LastFunction`). The shift, which the code does place by place and `AprISA` at
  once, takes powers of two for up to eight places.
* `TerminalOnlyDelays` (`AprSimProofs`): the simulator with a terminal implements
  the one without, step by step, so everything above holds of it too; the two
  properties that `user` checks with a terminal are stated again in
  `TerminalKeepsLoop`. `TermTypeCorrect` adds the pipe, for every capacity.
* `DiskTypeCorrect`, `ImagesKept` (`AprDiskProofs`). The type invariant says that
  every file is a sequence of bytes and the selected track and sector lie on the
  disk; what a write leaves of a file (`Written`) and that a sector's last byte lies
  in the disk (`OffsetInDisk`) are lemmas, and `ImagesKept`, an action property,
  follows from them: only a flush changes a file, and a restart changes none.
* `StoreImplemented` (`AprDiskProofs`): the ports implement tables of sectors. A write
  is seen from the sectors (`OwnSector`, `SectorsAfter`, `SectorsBefore`: its own becomes
  the page, those behind it stay, those in front of it are filled up with zeros if
  the file ended there), and two sectors are never in one place and lie in the order
  of their numbers (`InOrder`). With these the table after a flush is the table
  with one entry changed (`TableWritten`), and every step of `AprDisk` is one of
  `SectorStore`.
* `LayoutTiles` (`AprGuiProofs`): for every size of the terminal the panels fill
  the screen, stay inside it, do not cover each other and leave room to scroll.
  From it, and from one inductive invariant `GuiInv`, `ResizesKept`,
  `WindowsThere`, `PagesExist` and `ScreenTiled`, for any number of resizes.
  `GuiInv` says what was laid out belongs to the size curses knows (`LaidOut`),
  that where that size is not the terminal's there is a signal to come, a flag set
  or a place ahead of the program where the size is read, or that it went by before
  `handle_winch` was there (`NoteKept`), and where the windows are (`Shapes`).
  `PagesExist` has the hypothesis that a plain `char` is signed. `ResizeKept` alone is not inductive: it says nothing of
  the places inside `doResize`, where the flag is reset already and the size not
  yet read.
* `GuiTypeCorrect`, `RegistersAllShown` (`AprGuiProofs`): in every size of the terminal
  the pages of the register panel fit it, have each register once and the program
  counter always. `LaidOut` carries the number of pages for this: it is computed in
  one place from the height, and used in another by the keys.
* `PanelsTypeCorrect`, `MemoryPanelShows`, `StackPanelShows`, `SearchFindsNearest`
  (`AprPanelsProofs`, on the lemmas of `AprDisplayProofs`). The invariant is `Shows`:
  the window is the picture of its first line. `RowAfterRow` says what one more row makes of
  a window, `DrawnRowByRow` that the loop does this for its rows in turn, whatever
  window it begins with, and the lemmas on scrolling that the rows the code does not draw
  are the ones the window moved. The two pictures have a hypothesis, that no line is as
  wide as the window (`WideEnough`): the code does not keep to it, and the run `narrow`
  shows what happens then. The types need no such hypothesis. For the search the
  invariant is `Searching`: no other mark is nearer than the place it has come to.
* `StartTypeCorrect`, `TableOwnsItsHeap`, `FreedOnce`, `TerminalGivenBack`,
  `MemoryIsAsGiven`, `SymbolsAreAsGiven`, `HintsAreAsGiven` (`AprStartProofs`), for
  every command line, all files and SIGINT at any step. `TypeInv` adds to the types what
  each place of `main` knows of its file and its counters. `HeapInv` says which blocks
  are live at each place of `loadSymbolsFile` - those of the table, and between `malloc`
  and the assignment one more, or one less - and during the end which are still owed;
  `handling`, the place SIGINT interrupted, tells the one case that is freed twice from
  the one that is lost. `ScreenInv`: curses has the terminal only in the main loop,
  until the windows are destroyed, and after a broken pipe; there the heap is not freed
  either, and the invariant of the blocks says nothing of it (`HeapBroken`). `MemInv`, `SymbolInv` and `HintInv` say what the
  loaders have made of the part of the files they have read; `HintInv` has a second case
  for the entries past the end of the file, which are all the same one, still in the
  buffer. The three properties speak of the end of the loading only.

The assumptions are those named in the modules: the initial memory, the files, the
pages and what ports deliver are bytes, keys are positive codes, `COUNT_MANY` and
`CheckInterval` are at least 1, sizes are pairs of naturals, disks have a track, a sector
and a byte at least, panels have two rows at least and are scrolled by less than their
height (`RoomToScroll` is proved of every layout), lines are not empty, the first
line of a symbol file has a location and a name, and no name of one has more than 255
characters (`LinesAssumption`; without it the code reads buffers it never set, or writes
behind the end of one).

That the loops and folds of a model have the values that the lemmas use
(`DrawnRowByRow`, the finite sets of `AprStart`, the F1s of a queue) is proved by
the least number that would contradict it, or by `FiniteSetTheorems`.

Only model-checked: `DisassemblyTrue`, and everything about liveness - `F1Quits`,
`SpacePauses`, `ResizeHandled`, `SearchEnds`, `Ends`, `Starts` - which TLAPS cannot
treat here.

## What is not modelled

The text of the status line, of the help and of the borders; how a number is spelt and
where a text of the disassembler is cut; the settings of a serial line and the bytes
sent to a terminal, which are pure output. Also left out: failing writes to an open
disk file; symbol files whose behaviour is undefined, because the first line does not
parse, a name has more than 255 characters or a location is outside memory
(`LinesAssumption`); SIGTERM, SIGHUP and the other signals that end the process at once; mouse clicks outside the memory
panel, a key code that only a particular terminal sends, builds without `DISK_EMU` or
`TTY_EMU` (in them ports 3 to 7 do nothing), and `guiLock`, which is written and never
read.

## Plan

Done, in this order: `Words`, `AprCPU`, `AprISA`, `AprCPURefinement`,
`AprCPUProofs`, `AprSim`, `AprSimProofs`, `SectorStore`, `AprDisk`,
`AprDiskProofs`, `AprLayout`, `AprGui`, `AprGuiProofs`, `AprDisplay`, `AprDisasm`,
`AprTerminal`, `AprStart`, `AprPanels`, `AprRegisters`, `AprStartProofs`,
`AprDisplayProofs`, `AprPanelsProofs`, `AprISAProofs`.

Proofs to come: `DisassemblyTrue`, from what `AprISAProofs` says of each instruction and
the text of its opcode; and that the search of `AprPanels` takes at most `Size` steps, the
safe half of `SearchEnds`. Then `AprDisk` composed with `AprCPU` in place of
`SectorImages` and `DiskStatuses`.
