---------------------------- MODULE AprTerminal ----------------------------
(***************************************************************************)
(* The simulator of AprSim with the terminal behind port 7 (ports.c).  A   *)
(* byte written to a fifo waits in a pipe of bounded size for whoever      *)
(* reads the fifo.  write() waits while the pipe is full; when the reader  *)
(* has gone the kernel ends the simulator with SIGPIPE, for which it has   *)
(* no handler.  The bytes themselves are left out.                         *)
(***************************************************************************)
EXTENDS AprSim

CONSTANTS
  Terminals,      \* what initPorts may find, see below
  PipeCapacity    \* bound: bytes a pipe holds, 65536 on Linux

ASSUME TerminalsAssumption == Terminals \subseteq {"none", "fifo", "device", "closed"}
ASSUME PipeAssumption == PipeCapacity \in Nat \ {0}

VARIABLES
  terminal,  \* where port 7 writes go: nowhere; a fifo; a serial line, or the
             \* standard input when it could not be opened; a closed handle
  unread,    \* bytes in the pipe
  reader,    \* somebody has the fifo open for reading
  killed     \* SIGPIPE has ended the simulator

pipevars == <<unread, reader, killed>>
termvars == <<simvars, terminal, pipevars>>

-----------------------------------------------------------------------------

\* initPorts: opening a fifo waits for its reader
initPorts ==
  /\ terminal \in Terminals
  /\ unread = 0 /\ killed = FALSE
  /\ reader = (terminal = "fifo")

\* The processor is at a write to port 7, in a slice or in a step
TtyWrite == at \in {"slice", "step"} /\ cpu.nextState = "x20" /\ f1 /\ cpu.imm3 = 7

ToFifo == TtyWrite /\ terminal = "fifo"

\* A step of the main loop; a byte for the fifo needs a reader and room.
Step ==
  /\ ~killed /\ Loop
  /\ \/ ~ToFifo /\ UNCHANGED unread
     \/ ToFifo /\ reader /\ unread < PipeCapacity /\ unread' = unread + 1
  /\ UNCHANGED <<terminal, reader, killed>>

BrokenPipe ==
  /\ ~killed /\ ToFifo /\ ~reader
  /\ killed' = TRUE
  /\ UNCHANGED <<simvars, terminal, unread, reader>>

TerminalReads ==
  /\ terminal = "fifo" /\ reader /\ unread > 0
  /\ unread' = unread - 1
  /\ UNCHANGED <<simvars, terminal, reader, killed>>

\* What the last reader has not read is lost with it.
TerminalCloses ==
  /\ terminal = "fifo" /\ reader
  /\ reader' = FALSE /\ unread' = 0
  /\ UNCHANGED <<simvars, terminal, killed>>

TerminalOpens ==
  /\ terminal = "fifo" /\ ~reader /\ ~killed
  /\ reader' = TRUE
  /\ UNCHANGED <<simvars, terminal, unread, killed>>

UserTypes == ~killed /\ Type /\ UNCHANGED <<terminal, pipevars>>

Over == (killed \/ at = "done") /\ UNCHANGED termvars

TermInit == SimInit /\ initPorts
TermNext ==
  \/ Step \/ BrokenPipe \/ UserTypes \/ Over
  \/ TerminalReads \/ TerminalCloses \/ TerminalOpens

\* The process keeps running, and wall time passes: a slice whose program keeps
\* reaching the clock is over some day (RUN_SLICE_USEC is 1/60 s).  Nothing is
\* asked of the user and of the terminal.
SliceEnds == ~killed /\ SliceOver /\ UNCHANGED <<terminal, pipevars>>

TermSpec == TermInit /\ [][TermNext]_termvars
TermFairSpec == TermSpec /\ WF_termvars(Step \/ BrokenPipe) /\ SF_termvars(SliceEnds)

-----------------------------------------------------------------------------
(* Properties *)

\* The loop keeps its types with a terminal; the pipe holds no more than it can,
\* and nothing without a reader.
PipeTypeOK ==
  /\ terminal \in Terminals /\ reader \in BOOLEAN /\ killed \in BOOLEAN
  /\ unread \in 0 .. PipeCapacity
  /\ unread > 0 => terminal = "fifo" /\ reader

TermTypeOK == SimTypeOK /\ PipeTypeOK

\* write() waits for a terminal that does not read
Stuck == ToFifo /\ unread = PipeCapacity

Gone == killed \/ at = "done"

\* F1 always gets the user out, while a program runs for ever, sleeps, reads the
\* keyboard itself or writes to a terminal, unless that terminal never reads
\* again with its pipe full (sim.c:179-185, ports.c:107, 184).
F1Quits == Waiting(KEY_F1) ~> (Gone \/ []Stuck)

\* PRTin 1 or PRTin 2 is in memory
ReadsKeyboard == \E a \in DOMAIN memory : memory[a] \in {209, 210}

\* A space typed during a run of a program that never reads the keyboard, and so
\* cannot take it for itself, pauses the run, whatever keys are queued before it
\* and however slowly the terminal reads (sim.c:179-185).
SpacePauses ==
  []~ReadsKeyboard => ((running /\ Waiting(SPACE)) ~> (~running \/ Gone \/ []Stuck))
=============================================================================
