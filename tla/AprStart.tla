----------------------------- MODULE AprStart ------------------------------
(***************************************************************************)
(* The start and the end of the simulator: main of sim.c with the command  *)
(* line (argparser.c), the loaders of programs, symbols and hints, and     *)
(* finish, which is also the handler of SIGINT and so may begin between    *)
(* any two steps.                                                          *)
(*                                                                         *)
(* Options are {"v", "h", "f", "u", "s", "d"}, "bad" is what getopt_long   *)
(* refuses and "file" an argument that is no option.  Files are what the   *)
(* loaders read: programs and hints are sequences of bytes, a symbol file  *)
(* is a sequence of lines [loc, name, chars], NONE where the line has no   *)
(* such part, chars being how long the name is.  A line is what one fgets  *)
(* returns, at most 511 characters: a longer one of the file is several.   *)
(* A file that cannot be opened is not among them.                         *)
(*                                                                         *)
(* symbols maps addresses to blocks of the heap, numbered in the order     *)
(* malloc gives them out; an address outside its domain holds NULL.        *)
(* memory and hints hold 0 outside their domain.                           *)
(***************************************************************************)
EXTENDS Words, Sequences, FiniteSets, SequencesExt

CONSTANTS
  Commands,       \* command lines: sequences of [opt, arg]
  Programs,       \* [file name -> sequence of bytes]
  SymbolFiles,    \* [file name -> sequence of lines]
  HintFiles,      \* [file name -> sequence of bytes]
  Uninitialised,  \* what lengthBuff and hintBuff may hold: sequences of 5 bytes
  NONE

Locations == {"args", "check", "ports", "programs", "line", "malloc", "replace", "assign",
              "hints", "hint", "initgui", "mainloop", "destroygui", "freeSettings",
              "freeSymbols", "exited"}

IsSequence(s) == Len(s) \in Nat /\ DOMAIN s = 1 .. Len(s)

\* What the shell reports of a process that SIGPIPE ended
KILLED == 141

\* The size of symbolNameBuff
NAME_SIZE == 256

ASSUME NoneAssumption == NONE \notin Locations /\ NONE \notin {0, 1, KILLED}
ASSUME CommandsAssumption == \A c \in Commands : IsSequence(c)
ASSUME FilesAssumption ==
  /\ \A f \in DOMAIN Programs : Programs[f] \in Seq(Byte)
  /\ \A f \in DOMAIN SymbolFiles : IsSequence(SymbolFiles[f])
  /\ \A f \in DOMAIN HintFiles : HintFiles[f] \in Seq(Byte)
  /\ Uninitialised # {} /\ Uninitialised \subseteq [1 .. 5 -> Byte]

\* The first line of a symbol file has a location and a name: without it sscanf
\* leaves the buffers unset and the code has no defined behaviour.  Nor has it
\* where a name does not fit in symbolNameBuff, since "%[^\n]" has no width, or
\* a location is no address: the code does not look, and the files are assumed
\* to have neither.
ASSUME LinesAssumption ==
  \A f \in DOMAIN SymbolFiles :
    /\ \A n \in DOMAIN SymbolFiles[f] :
         /\ SymbolFiles[f][n].loc \in Word \cup {NONE}
         /\ SymbolFiles[f][n].loc = NONE => SymbolFiles[f][n].name = NONE
         /\ SymbolFiles[f][n].chars \in 0 .. NAME_SIZE - 1
    /\ SymbolFiles[f] # <<>> => SymbolFiles[f][1].loc # NONE /\ SymbolFiles[f][1].name # NONE

VARIABLES
  at,             \* location in main
  args,           \* the command line
  settings,       \* [fifoFile, serialFile, symbolsFile, hintsFile, binFiles]
  memory, hints, symbols,
  n,              \* loop counter of the present loop
  length,         \* how many entries the hints file claims
  hintBuff,       \* the three bytes of the entry read last
  lineBuff,       \* [loc, name]: symbolLocation and symbolNameBuff
  symbolName,     \* the block malloc gave last
  blocks,         \* names in the blocks: block b holds blocks[b]
  live,           \* blocks not freed
  binFilesLive,   \* of settings.binFiles: "none", "live", "freed"
  doubleFree,     \* free was called on a block that was not live
  screen,         \* curses has the terminal
  handling,       \* NONE, or where the program was when SIGINT came
  exitCode        \* NONE until exit

machine == <<memory, hints, length, hintBuff>>
heap == <<symbols, blocks, live, binFilesLive, doubleFree>>
scratch == <<n, lineBuff, symbolName>>
startvars == <<at, args, settings, machine, scratch, heap, screen, handling, exitCode>>

-----------------------------------------------------------------------------
(* argparser.c *)

LastArg(o) ==
  LET given == {i \in DOMAIN args : args[i].opt = o}
  IN  IF given = {} THEN NONE ELSE args[Max(given)].arg

\* -v, -h and anything refused end the program at once
Ending == {i \in DOMAIN args : args[i].opt \in {"v", "h", "bad"}}

\* The positions of the arguments that are no options, and of the k-th of them
FileArgs == {i \in DOMAIN args : args[i].opt = "file"}
FileArg(k) == CHOOSE i \in FileArgs : Cardinality({j \in FileArgs : j <= i}) = k

getSettings ==
  [fifoFile |-> LastArg("f"), serialFile |-> LastArg("u"),
   symbolsFile |-> LastArg("s"), hintsFile |-> LastArg("d"),
   binFiles |-> [k \in 1 .. Cardinality(FileArgs) |-> args[FileArg(k)].arg]]

exit(code) == at' = "exited" /\ exitCode' = code

getSettingsFromArgs ==
  /\ at = "args"
  /\ \/ /\ Ending # {}
        /\ exit(IF args[Min(Ending)].opt = "bad" THEN 1 ELSE 0)
        /\ UNCHANGED <<settings, binFilesLive>>
     \/ /\ Ending = {}
        /\ settings' = getSettings
        /\ binFilesLive' = IF getSettings.binFiles = <<>> THEN "none" ELSE "live"
        /\ at' = "check" /\ UNCHANGED exitCode
  /\ UNCHANGED <<args, machine, scratch, symbols, blocks, live, doubleFree, screen, handling>>

-----------------------------------------------------------------------------
(* main, up to the loaders *)

Keep == UNCHANGED <<args, settings, handling>>

\* Not both -f and -u; then SIGINT is caught and the machine reset
CheckSettings ==
  /\ at = "check"
  /\ IF settings.fifoFile # NONE /\ settings.serialFile # NONE
       THEN exit(1)
       ELSE at' = "ports" /\ UNCHANGED exitCode
  /\ Keep /\ UNCHANGED <<machine, scratch, heap, screen>>

\* initPorts; with a fifo the opening waits for its reader
initPorts ==
  /\ at = "ports"
  /\ at' = "programs" /\ n' = 1
  /\ Keep /\ UNCHANGED <<machine, lineBuff, symbolName, heap, screen, exitCode>>

-----------------------------------------------------------------------------
(* loadProgram: magic number, size and origin, little endian *)

\* Two bytes of f from position i; what the file does not have stays 0.
Short(f, i) ==
  LET b(k) == IF k \in DOMAIN f THEN f[k] ELSE 0 IN MkWord(b(i + 1), b(i))

Overlay(f, m) == [a \in DOMAIN f \cup DOMAIN m |-> IF a \in DOMAIN f THEN f[a] ELSE m[a]]

\* Wrong variant: the end of memory is not looked at.
BodyUnlimited(f) ==
  LET size == Short(f, 3)
      origin == Short(f, 5)
  IN  [a \in {a \in origin .. origin + size - 1 : 7 + a - origin \in DOMAIN f} |->
         f[7 + a - origin]]

\* Wrong variant: addresses go round the end of memory.
BodyWrapped(f) ==
  LET size == Short(f, 3)
      origin == Short(f, 5)
      Byte7(a) == 7 + ((a - origin) % 65536)
  IN  [a \in {a % 65536 : a \in {a \in origin .. origin + size - 1 : 7 + a - origin \in DOMAIN f}} |->
         f[Byte7(a)]]

\* The bytes a file puts in memory: none past its own end or that of memory
Body(f) ==
  LET size == Short(f, 3)
      origin == Short(f, 5)
  IN  [a \in {a \in origin .. origin + size - 1 : a < 65536 /\ 7 + a - origin \in DOMAIN f} |->
         f[7 + a - origin]]

IsProgram(f) == Short(f, 1) = 16976           \* 0x4250

\* Wrong variant: a file that is no program is tried again.
loadProgramAgain ==
  /\ at = "programs" /\ n \in DOMAIN settings.binFiles
  /\ LET name == settings.binFiles[n]
     IN  IF name \in DOMAIN Programs /\ IsProgram(Programs[name])
         THEN memory' = Overlay(Body(Programs[name]), memory) /\ n' = n + 1
         ELSE UNCHANGED <<memory, n>>
  /\ Keep /\ UNCHANGED <<at, hints, length, hintBuff, lineBuff, symbolName, heap, screen, exitCode>>

\* It also calls refreshMemoryDisplay, which has no window yet (AprGui, "load").
loadProgram ==
  /\ at = "programs" /\ n \in DOMAIN settings.binFiles
  /\ LET name == settings.binFiles[n]
     IN  memory' = IF name \in DOMAIN Programs /\ IsProgram(Programs[name])
                   THEN Overlay(Body(Programs[name]), memory)
                   ELSE memory
  /\ n' = n + 1
  /\ Keep /\ UNCHANGED <<at, hints, length, hintBuff, lineBuff, symbolName, heap, screen, exitCode>>

ProgramsLoaded ==
  /\ at = "programs" /\ n \notin DOMAIN settings.binFiles
  /\ at' = IF settings.symbolsFile \in DOMAIN SymbolFiles THEN "line" ELSE "hints"
  /\ n' = 1
  /\ Keep /\ UNCHANGED <<machine, lineBuff, symbolName, heap, screen, exitCode>>

-----------------------------------------------------------------------------
(* loadSymbolsFile *)

Lines == SymbolFiles[settings.symbolsFile]

\* fgets and sscanf: a part the line does not have keeps its old value, and a
\* name fits by LinesAssumption.
ReadLine ==
  /\ at = "line"
  /\ IF n \in DOMAIN Lines
       THEN /\ lineBuff' = [loc |-> IF Lines[n].loc = NONE THEN lineBuff.loc ELSE Lines[n].loc,
                            name |-> IF Lines[n].name = NONE THEN lineBuff.name ELSE Lines[n].name]
            /\ at' = "malloc" /\ n' = n + 1
       ELSE at' = "hints" /\ UNCHANGED <<n, lineBuff>>
  /\ Keep /\ UNCHANGED <<machine, symbolName, heap, screen, exitCode>>

\* Wrong variant: a line that does not parse gets the block of the line before.
mallocSymbolShared ==
  /\ at = "malloc"
  /\ IF symbolName # 0 /\ blocks[symbolName] = lineBuff.name
       THEN UNCHANGED <<symbolName, blocks, live>>
       ELSE /\ symbolName' = Len(blocks) + 1
            /\ blocks' = Append(blocks, lineBuff.name)
            /\ live' = live \cup {symbolName'}
  /\ at' = "replace"
  /\ Keep
  /\ UNCHANGED <<machine, n, lineBuff, symbols, binFilesLive, doubleFree, screen, exitCode>>

mallocSymbol ==
  /\ at = "malloc"
  /\ symbolName' = Len(blocks) + 1
  /\ blocks' = Append(blocks, lineBuff.name)
  /\ live' = live \cup {symbolName'}
  /\ at' = "replace"
  /\ Keep
  /\ UNCHANGED <<machine, n, lineBuff, symbols, binFilesLive, doubleFree, screen, exitCode>>

free(b) ==
  /\ live' = live \ {b}
  /\ doubleFree' = (doubleFree \/ b \notin live)

\* Wrong variant: the old name is not freed.
freeOldSymbolNot ==
  /\ at = "replace"
  /\ UNCHANGED <<live, doubleFree>>
  /\ at' = "assign"
  /\ Keep /\ UNCHANGED <<machine, scratch, symbols, blocks, binFilesLive, screen, exitCode>>

freeOldSymbol ==
  /\ at = "replace"
  /\ IF lineBuff.loc \in DOMAIN symbols THEN free(symbols[lineBuff.loc])
                                        ELSE UNCHANGED <<live, doubleFree>>
  /\ at' = "assign"
  /\ Keep /\ UNCHANGED <<machine, scratch, symbols, blocks, binFilesLive, screen, exitCode>>

\* Wrong variant: the first name stays.
assignSymbolFirst ==
  /\ at = "assign"
  /\ symbols' = Overlay(symbols, [a \in {lineBuff.loc} |-> symbolName])
  /\ at' = "line"
  /\ Keep
  /\ UNCHANGED <<machine, scratch, blocks, live, binFilesLive, doubleFree, screen, exitCode>>

assignSymbol ==
  /\ at = "assign"
  /\ symbols' = Overlay([a \in {lineBuff.loc} |-> symbolName], symbols)
  /\ at' = "line"
  /\ Keep
  /\ UNCHANGED <<machine, scratch, blocks, live, binFilesLive, doubleFree, screen, exitCode>>

-----------------------------------------------------------------------------
(* loadDisassemblyHintsFile: a count and entries of address and hint, big  *)
(* endian                                                                  *)

\* The buffer after the bytes of f from position i on are read into it; at the
\* end of the file the rest keeps what it had.
Fread(buff, f, i) ==
  [k \in DOMAIN buff |-> IF i + k - 1 \in DOMAIN f THEN f[i + k - 1] ELSE buff[k]]

\* Wrong variant: the entries are taken to be two bytes long.
EntryAtTwo(i) == 2 * i + 1

EntryAt(i) == 3 * i

HintsFile == HintFiles[settings.hintsFile]

\* The count; what the two buffers hold before is not known.
OpenHints ==
  /\ at = "hints"
  /\ IF settings.hintsFile \in DOMAIN HintFiles
       THEN \E u \in Uninitialised :
              LET lengthBuff == Fread(<<u[1], u[2]>>, HintsFile, 1)
              IN  /\ length' = MkWord(lengthBuff[1], lengthBuff[2])
                  /\ hintBuff' = <<u[3], u[4], u[5]>>
                  /\ at' = "hint" /\ n' = 1
       ELSE at' = "initgui" /\ UNCHANGED <<length, hintBuff, n>>
  /\ Keep /\ UNCHANGED <<memory, hints, lineBuff, symbolName, heap, screen, exitCode>>

Hint(b) == [a \in {MkWord(b[1], b[2])} |-> b[3]]

\* The n-th entry, or what the buffer holds when the file has ended
loadHint ==
  /\ at = "hint" /\ n <= length
  /\ hintBuff' = Fread(hintBuff, HintsFile, EntryAt(n))
  /\ hints' = Overlay(Hint(hintBuff'), hints)
  /\ n' = n + 1
  /\ Keep /\ UNCHANGED <<at, memory, length, lineBuff, symbolName, heap, screen, exitCode>>

HintsLoaded ==
  /\ at = "hint" /\ n > length
  /\ at' = "initgui"
  /\ Keep /\ UNCHANGED <<machine, scratch, heap, screen, exitCode>>

initgui ==
  /\ at = "initgui"
  /\ screen' = TRUE
  /\ at' = "mainloop"
  /\ Keep /\ UNCHANGED <<machine, scratch, heap, exitCode>>

-----------------------------------------------------------------------------
(* The end.  finish runs after the main loop, and as the handler of SIGINT  *)
(* from wherever the program is; while the handler runs SIGINT is blocked,  *)
(* and it does not return.  Of the signals that end a process at once only  *)
(* SIGPIPE is modelled, since the program brings it on itself.              *)

Caught == at \notin {"args", "check", "exited"}

mainloopReturns ==
  /\ at = "mainloop"
  /\ at' = "destroygui"
  /\ Keep /\ UNCHANGED <<machine, scratch, heap, screen, exitCode>>

\* The program that is run writes port 7 and the fifo has lost its reader.
\* Nothing catches SIGPIPE, so that nothing is done about the terminal.
BrokenPipe ==
  /\ at = "mainloop" /\ settings.fifoFile # NONE
  /\ exit(KILLED)
  /\ Keep /\ UNCHANGED <<machine, scratch, heap, screen>>

Interrupt ==
  /\ Caught /\ handling = NONE
  /\ handling' = at
  /\ at' = "destroygui"
  /\ UNCHANGED <<args, settings, machine, scratch, heap, screen, exitCode>>

\* Wrong variant: the handler leaves the terminal to the shell as it is.
destroyguiNot ==
  /\ at = "destroygui"
  /\ UNCHANGED screen
  /\ at' = "freeSettings"
  /\ Keep /\ UNCHANGED <<machine, scratch, heap, exitCode>>

destroygui ==
  /\ at = "destroygui"
  /\ screen' = FALSE
  /\ at' = "freeSettings"
  /\ Keep /\ UNCHANGED <<machine, scratch, heap, exitCode>>

freeSettings ==
  /\ at = "freeSettings"
  /\ binFilesLive' = IF binFilesLive = "none" THEN "none" ELSE "freed"
  /\ doubleFree' = (doubleFree \/ binFilesLive = "freed")
  /\ at' = "freeSymbols" /\ n' = 0
  /\ Keep /\ UNCHANGED <<machine, lineBuff, symbolName, symbols, blocks, live, screen, exitCode>>

\* Wrong variant: the address is not counted on.
freeSymbolTableStays ==
  /\ at = "freeSymbols"
  /\ LET left == {a \in DOMAIN symbols : a >= n}
     IN  \/ left # {} /\ free(symbols[Min(left)]) /\ UNCHANGED <<at, exitCode, n>>
         \/ left = {} /\ exit(0) /\ UNCHANGED <<live, doubleFree, n>>
  /\ Keep /\ UNCHANGED <<machine, lineBuff, symbolName, symbols, blocks, binFilesLive, screen>>

\* Entries are freed in the order of addresses, n being the address; the table
\* keeps its pointers.
freeSymbolTable ==
  /\ at = "freeSymbols"
  /\ LET left == {a \in DOMAIN symbols : a >= n}
     IN  \/ /\ left # {}
            /\ free(symbols[Min(left)])
            /\ n' = Min(left) + 1
            /\ UNCHANGED <<at, exitCode>>
         \/ left = {} /\ exit(0) /\ UNCHANGED <<live, doubleFree, n>>
  /\ Keep /\ UNCHANGED <<machine, lineBuff, symbolName, symbols, blocks, binFilesLive, screen>>

Exited == at = "exited" /\ UNCHANGED startvars

-----------------------------------------------------------------------------
Empty == [a \in {} |-> 0]

\* resetMachine clears what is zero already.
StartInit ==
  /\ at = "args" /\ args \in Commands
  /\ settings = [fifoFile |-> NONE, serialFile |-> NONE, symbolsFile |-> NONE,
                 hintsFile |-> NONE, binFiles |-> <<>>]
  /\ memory = Empty /\ hints = Empty /\ symbols = Empty
  /\ length = 0 /\ hintBuff = <<0, 0, 0>>
  /\ n = 0 /\ lineBuff = [loc |-> NONE, name |-> NONE] /\ symbolName = 0
  /\ blocks = <<>> /\ live = {} /\ binFilesLive = "none" /\ doubleFree = FALSE
  /\ screen = FALSE /\ handling = NONE /\ exitCode = NONE

Load ==
  \/ loadProgram \/ ProgramsLoaded
  \/ ReadLine \/ mallocSymbol \/ freeOldSymbol \/ assignSymbol
  \/ OpenHints \/ loadHint \/ HintsLoaded

finish == destroygui \/ freeSettings \/ freeSymbolTable

Main ==
  \/ getSettingsFromArgs \/ CheckSettings \/ initPorts \/ Load \/ initgui
  \/ mainloopReturns \/ BrokenPipe \/ finish

StartNext == Main \/ Interrupt \/ Exited

\* The process keeps running; only a fifo without a reader and the main loop,
\* which the user ends, may keep it for ever.
WaitsForReader == at = "ports" /\ settings.fifoFile # NONE
Proceeds == Main /\ ~WaitsForReader /\ at # "mainloop"
StartSpec == StartInit /\ [][StartNext]_startvars /\ WF_startvars(Proceeds)

-----------------------------------------------------------------------------
(* Properties *)

StartTypeOK ==
  /\ at \in Locations
  /\ \A m \in {memory, hints} : DOMAIN m \subseteq Word /\ \A a \in DOMAIN m : m[a] \in Byte
  /\ DOMAIN symbols \subseteq Word /\ \A a \in DOMAIN symbols : symbols[a] \in DOMAIN blocks
  /\ live \subseteq DOMAIN blocks
  /\ binFilesLive \in {"none", "live", "freed"}
  /\ doubleFree \in BOOLEAN /\ screen \in BOOLEAN
  /\ length \in Word /\ hintBuff \in [1 .. 3 -> Byte]
  /\ exitCode \in {NONE, 0, 1, KILLED} /\ (exitCode # NONE <=> at = "exited")

\* The file, if any, from which memory gets address a: the last one to cover it
Covers(i, a) ==
  LET f == Programs[settings.binFiles[i]]
  IN  /\ settings.binFiles[i] \in DOMAIN Programs /\ IsProgram(f)
      /\ a - Short(f, 5) \in 0 .. Short(f, 3) - 1
      /\ 7 + a - Short(f, 5) \in DOMAIN f

\* The addresses of the bytes behind the header of file i
Reached(i) ==
  LET name == settings.binFiles[i]
  IN  IF name \notin DOMAIN Programs THEN {}
      ELSE {Short(Programs[name], 5) + k - 7 : k \in 7 .. Len(Programs[name])} \cap Word

\* When the main loop starts, memory holds at each address the byte of the last
\* file that has one for it, and nothing else; "bytes past the end of memory are
\* no longer written out of bounds" (versions.txt:10, sim.c:17-43, 329-330).
MemoryAsGiven ==
  at = "mainloop" =>
    /\ \A a \in DOMAIN memory :
         \E i \in DOMAIN settings.binFiles :
           /\ Covers(i, a)
           /\ \A j \in i + 1 .. Len(settings.binFiles) : ~Covers(j, a)
           /\ memory[a] = Programs[settings.binFiles[i]][7 + a - Short(Programs[settings.binFiles[i]], 5)]
    /\ \A i \in DOMAIN settings.binFiles : \A a \in Reached(i) : Covers(i, a) => a \in DOMAIN memory

\* The location and the name line i stands for: its own, or those of the last
\* line before it that had one
LocOf(i) == Lines[Max({k \in 1 .. i : Lines[k].loc # NONE})].loc
NameOf(i) == Lines[Max({k \in 1 .. i : Lines[k].name # NONE})].name

\* Each address shows the name of the last line for it, also when names replaced
\* one another and lines were incomplete, as long as names fit in symbolNameBuff
\* (sim.c:79-95).
SymbolsAsGiven ==
  at = "mainloop" /\ settings.symbolsFile \in DOMAIN SymbolFiles =>
    /\ DOMAIN symbols = {LocOf(i) : i \in DOMAIN Lines}
    /\ \A a \in DOMAIN symbols :
         blocks[symbols[a]] = NameOf(Max({i \in DOMAIN Lines : LocOf(i) = a}))

\* The table of the entries that are complete in the file, its last one for an
\* address counting
Given(f) ==
  LET whole == {i \in 1 .. MkWord(f[1], f[2]) : 3 * i + 2 <= Len(f)}
      address(i) == MkWord(f[3 * i], f[3 * i + 1])
  IN  [a \in {address(i) : i \in whole} |-> f[3 * Max({i \in whole : address(i) = a}) + 2]]

\* A complete hints file is what the table holds.  One that is cut off, after its
\* count, spoils at most one address with a mixture of its last bytes, whatever
\* the buffer held before (sim.c:47-72).
HintsAsGiven ==
  at = "mainloop" /\ settings.hintsFile \in DOMAIN HintFiles =>
    LET f == HintFiles[settings.hintsFile]
        given == Given(f)
        spoilt == {a \in DOMAIN hints \cup DOMAIN given :
                     \/ a \notin DOMAIN given \cap DOMAIN hints
                     \/ hints[a] # given[a]}
    IN  Len(f) >= 2 =>
          /\ Cardinality(spoilt) <= 1
          /\ Len(f) >= 2 + 3 * MkWord(f[1], f[2]) => spoilt = {}

\* Between two symbols, and whenever the main loop runs, the live blocks are
\* those the table points at, each from one address: no name is lost and none
\* is freed that is still shown (sim.c:86-94, gui.c:393).
TableOwnsHeap ==
  at \in {"line", "hints", "hint", "initgui", "mainloop"} =>
    /\ live = {symbols[a] : a \in DOMAIN symbols}
    /\ \A a, b \in DOMAIN symbols : symbols[a] = symbols[b] => a = b

\* finish frees everything, and once, also when a signal comes; except that a
\* signal between the free and the assignment of a symbol finds a pointer to a
\* block that is gone, one during the end itself finds them all, and one between
\* malloc and the assignment leaves the new block (sim.c:86-93, 98-112).
EachFreedOnce ==
  /\ doubleFree => handling \in {"assign", "freeSymbols"}
  /\ exitCode = 0 => /\ binFilesLive # "live"
                     /\ handling \notin {"replace", "assign"} => live = {}
                     /\ Cardinality(live) <= 1

\* When the program ends by itself or by SIGINT, wherever that came, curses has
\* given the terminal back before; only a broken pipe ends it without that
\* (sim.c:106-111, ports.c:183).
TerminalRestored == at = "exited" /\ exitCode # KILLED => ~screen

\* Once a signal is caught or the main loop has returned, the program ends; and
\* it comes as far as the main loop unless a fifo has no reader.
Ends == at = "destroygui" ~> at = "exited"
Starts == at = "args" ~> (at \in {"mainloop", "exited"} \/ []WaitsForReader)
=============================================================================
