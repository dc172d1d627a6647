--------------------------- MODULE AprStartProofs ---------------------------
(***************************************************************************)
(* Theorems about the start and the end of the simulator, for every        *)
(* command line, all files, and a SIGINT between any two steps.            *)
(***************************************************************************)
EXTENDS AprStart, SequenceTheorems, FiniteSetTheorems, TLAPS

-----------------------------------------------------------------------------
(* Numbers and tables *)

\* The least number principle
LEMMA LeastNumber ==
  ASSUME NEW T, T \subseteq Nat, T # {}
  PROVE  \E x \in T : \A y \in T : x <= y
<1>1. PICK x \in T : \A y \in T : ~ (<<y, x>> \in OpToRel(<, Nat))
  BY WFMin, NatLessThanWellFounded
<1>2. \A y \in T : ~ (y < x)
  BY <1>1 DEF OpToRel
<1> QED
  BY <1>2

LEMMA MinIsLeast ==
  ASSUME NEW T, T \subseteq Nat, T # {}
  PROVE  Min(T) \in T /\ \A y \in T : Min(T) <= y
  BY LeastNumber DEF Min

LEMMA MaxIsGreatest ==
  ASSUME NEW k \in Nat, NEW T, T \subseteq 1 .. k, T # {}
  PROVE  Max(T) \in T /\ \A y \in T : y <= Max(T)
<1> DEFINE U == {u \in 0 .. k : k - u \in T}
<1>1. \A y \in T : y \in 1 .. k /\ k - y \in 0 .. k /\ k - (k - y) = y
  OBVIOUS
<1>2. \A y \in T : k - y \in U
  BY <1>1
<1>3. U \subseteq Nat /\ U # {}
  <2>1. PICK t \in T : TRUE
    OBVIOUS
  <2>2. k - t \in U
    BY <1>2, <2>1
  <2>3. \A u \in U : u \in Nat
    OBVIOUS
  <2> HIDE DEF U
  <2> QED
    BY <2>2, <2>3
<1>4. PICK x \in U : \A y \in U : x <= y
  BY <1>3, LeastNumber
<1>5. k - x \in T /\ x \in 0 .. k
  OBVIOUS
<1>6. \A y \in T : x <= k - y
  BY <1>2, <1>4
<1>7. \A y \in T : k - x >= y
  BY <1>1, <1>5, <1>6
<1>8. Max(T) \in T /\ \A y \in T : Max(T) >= y
  BY <1>5, <1>7 DEF Max
<1> QED
  BY <1>1, <1>8

LEMMA WordsCount == Word \subseteq Nat /\ \A a \in Word : a + 1 \in Nat /\ 1 \in 1 .. a + 1
<1>1. Word \subseteq Nat
  BY DEF Word
<1>2. \A a \in Nat : a + 1 \in Nat /\ 1 \in 1 .. a + 1
  OBVIOUS
<1> QED
  BY <1>1, <1>2

LEMMA WordOfBytes == ASSUME NEW h \in Byte, NEW l \in Byte PROVE MkWord(h, l) \in Word
  BY DEF MkWord, Byte, Word

LEMMA ShortIsWord ==
  ASSUME NEW f \in Seq(Byte), NEW i \in Nat
  PROVE  Short(f, i) \in Word
<1>1. ASSUME NEW k \in Nat PROVE (IF k \in DOMAIN f THEN f[k] ELSE 0) \in Byte
  <2>1. CASE k \in DOMAIN f
    BY <2>1, ElementOfSeq
  <2> QED
    BY <2>1 DEF Byte
<1> QED
  BY <1>1, WordOfBytes DEF Short

LEMMA OverlayAt ==
  ASSUME NEW f, NEW m
  PROVE  /\ DOMAIN Overlay(f, m) = DOMAIN f \cup DOMAIN m
         /\ \A a \in DOMAIN f : Overlay(f, m)[a] = f[a]
         /\ \A a \in DOMAIN m \ DOMAIN f : Overlay(f, m)[a] = m[a]
  BY DEF Overlay

\* The address a byte of a program file is for
LEMMA BodyAt ==
  ASSUME NEW f \in Seq(Byte)
  PROVE  /\ DOMAIN Body(f) =
              {a \in Word : /\ a - Short(f, 5) \in 0 .. Short(f, 3) - 1
                            /\ 7 + a - Short(f, 5) \in DOMAIN f}
         /\ \A a \in DOMAIN Body(f) : Body(f)[a] = f[7 + a - Short(f, 5)] /\ Body(f)[a] \in Byte
<1> DEFINE size == Short(f, 3)
           origin == Short(f, 5)
           D == {a \in origin .. origin + size - 1 : a < 65536 /\ 7 + a - origin \in DOMAIN f}
<1>1. size \in Word /\ origin \in Word
  BY ShortIsWord
<1>2. Body(f) = [a \in D |-> f[7 + a - origin]]
  BY DEF Body
<1> HIDE DEF size, origin
<1>3. D = {a \in Word : a - origin \in 0 .. size - 1 /\ 7 + a - origin \in DOMAIN f}
  <2>1. \A a \in Word : a - origin \in 0 .. size - 1 <=> a \in origin .. origin + size - 1
    BY <1>1 DEF Word
  <2>2. \A a \in Int : a \in Word <=> 0 <= a /\ a < 65536
    BY DEF Word
  <2>3. origin .. origin + size - 1 \subseteq Nat
    BY <1>1 DEF Word
  <2>4. \A a \in origin .. origin + size - 1 : a < 65536 => a \in Word
    BY <2>2, <2>3
  <2>5. \A a \in Word : a < 65536
    BY DEF Word
  <2>6. \A a \in D : a \in Word /\ a - origin \in 0 .. size - 1 /\ 7 + a - origin \in DOMAIN f
    BY <2>1, <2>4
  <2>7. \A a \in Word :
          a - origin \in 0 .. size - 1 /\ 7 + a - origin \in DOMAIN f => a \in D
    BY <2>1, <2>5
  <2> QED
    BY <2>6, <2>7
<1>4. \A a \in D : f[7 + a - origin] \in Byte
  OBVIOUS
<1> QED
  BY <1>2, <1>3, <1>4 DEF size, origin

-----------------------------------------------------------------------------
(* Types, with what the loaders rely on at each place *)

Names == UNION {{SymbolFiles[f][i].name : i \in DOMAIN SymbolFiles[f]} : f \in DOMAIN SymbolFiles}

\* Inside loadSymbolsFile, with a line in the buffer
InSymbol == {"malloc", "replace", "assign"}

Shape ==
  /\ args \in Commands /\ IsSequence(settings.binFiles)
  /\ n \in Nat
  /\ blocks \in Seq(Names)
  /\ at \in InSymbol \cup {"line"} => settings.symbolsFile \in DOMAIN SymbolFiles
  /\ at = "programs" => n \in 1 .. Len(settings.binFiles) + 1
  /\ at = "line" => n \in 1 .. Len(Lines) + 1
  /\ at \in InSymbol => n \in 2 .. Len(Lines) + 1
  /\ at \in InSymbol \/ (at = "line" /\ n > 1) => lineBuff.loc \in Word /\ lineBuff.name \in Names
  /\ at \in {"replace", "assign"} => symbolName \in DOMAIN blocks
  /\ at = "hint" => settings.hintsFile \in DOMAIN HintFiles /\ n \in 1 .. length + 1

TypeInv == StartTypeOK /\ Shape

\* The arguments that are no options are finitely many.
LEMMA ArgumentsCounted ==
  ASSUME args \in Commands
  PROVE  Cardinality(FileArgs) \in Nat
<1>1. PICK k \in Nat : DOMAIN args = 1 .. k
  BY CommandsAssumption DEF IsSequence
<1>2. FileArgs \in SUBSET (1 .. k)
  BY <1>1 DEF FileArgs
<1>3. IsFiniteSet(1 .. k)
  BY FS_Interval
<1> QED
  BY <1>2, <1>3, FS_Subset, FS_CardinalityType

LEMMA NotExited == NONE # 0 /\ NONE # 1 /\ NONE # KILLED /\ KILLED # 0 /\ \A l \in Locations : NONE # l
  BY NoneAssumption DEF KILLED

\* A table stays one when a table is laid over it.
LEMMA TableKept ==
  ASSUME NEW f, DOMAIN f \subseteq Word, \A a \in DOMAIN f : f[a] \in Byte,
         NEW m, DOMAIN m \subseteq Word, \A a \in DOMAIN m : m[a] \in Byte
  PROVE  /\ DOMAIN Overlay(f, m) \subseteq Word
         /\ \A a \in DOMAIN Overlay(f, m) : Overlay(f, m)[a] \in Byte
<1>1. ASSUME NEW a \in DOMAIN f \cup DOMAIN m PROVE a \in Word /\ Overlay(f, m)[a] \in Byte
  <2>1. CASE a \in DOMAIN f
    <3>1. Overlay(f, m)[a] = f[a]
      BY <2>1 DEF Overlay
    <3> QED
      BY <2>1, <3>1
  <2>2. CASE a \notin DOMAIN f
    <3>1. Overlay(f, m)[a] = m[a] /\ a \in DOMAIN m
      BY <2>2 DEF Overlay
    <3> QED
      BY <2>2, <3>1
  <2> QED
    BY <2>1, <2>2
<1> QED
  BY <1>1, OverlayAt

\* What fread leaves in a buffer of bytes
LEMMA FreadBytes ==
  ASSUME NEW k \in Nat, NEW buff \in [1 .. k -> Byte], NEW f \in Seq(Byte), NEW i \in Nat
  PROVE  Fread(buff, f, i) \in [1 .. k -> Byte]
<1>1. ASSUME NEW j \in 1 .. k
      PROVE  (IF i + j - 1 \in DOMAIN f THEN f[i + j - 1] ELSE buff[j]) \in Byte
  BY ElementOfSeq
<1> QED
  BY <1>1 DEF Fread

LEMMA BeginningTypes == ASSUME StartInit PROVE TypeInv
<1>1. DOMAIN Empty = {}
  BY DEF Empty
<1>2. length \in Word /\ hintBuff \in [1 .. 3 -> Byte]
  BY DEF StartInit, Byte, Word
<1>3. IsSequence(settings.binFiles) /\ blocks \in Seq(Names) /\ DOMAIN blocks = {}
  BY DEF StartInit, IsSequence
<1>4. StartTypeOK
  BY <1>1, <1>2, NotExited DEF StartInit, StartTypeOK, Locations
<1> QED
  BY <1>3, <1>4 DEF StartInit, TypeInv, Shape, InSymbol

LEMMA CommandLineTypes ==
  ASSUME TypeInv, getSettingsFromArgs \/ CheckSettings \/ initPorts
  PROVE  TypeInv'
<1> USE NotExited DEF TypeInv, StartTypeOK, Shape, Locations, InSymbol, Keep, heap, machine, scratch, exit
<1>1. CASE getSettingsFromArgs
  <2>1. IsSequence(getSettings.binFiles)
    <3> DEFINE k == Cardinality(FileArgs)
    <3>1. k \in Nat
      BY ArgumentsCounted
    <3>2. getSettings.binFiles = [i \in 1 .. k |-> args[FileArg(i)].arg]
      BY DEF getSettings
    <3> HIDE DEF k
    <3> QED
      BY <3>1, <3>2 DEF IsSequence
  <2> QED
    BY <1>1, <2>1 DEF getSettingsFromArgs
<1>2. CASE CheckSettings
  BY <1>2 DEF CheckSettings
<1>3. CASE initPorts
  BY <1>3 DEF initPorts, IsSequence
<1> QED
  BY <1>1, <1>2, <1>3

LEMMA ProgramTypes ==
  ASSUME TypeInv, loadProgram \/ ProgramsLoaded
  PROVE  TypeInv'
<1> USE NotExited DEF TypeInv, StartTypeOK, Shape, Locations, InSymbol, Keep, heap, machine, scratch, IsSequence
<1>1. CASE loadProgram
  <2>1. DOMAIN memory' \subseteq Word /\ \A a \in DOMAIN memory' : memory'[a] \in Byte
    <3> DEFINE f == Programs[settings.binFiles[n]]
    <3>1. CASE settings.binFiles[n] \in DOMAIN Programs /\ IsProgram(f)
      <4>1. DOMAIN Body(f) \subseteq Word /\ \A a \in DOMAIN Body(f) : Body(f)[a] \in Byte
        BY <3>1, BodyAt, FilesAssumption
      <4>2. memory' = Overlay(Body(f), memory)
        BY <1>1, <3>1 DEF loadProgram
      <4> QED
        BY <4>1, <4>2, TableKept
    <3>2. CASE ~(settings.binFiles[n] \in DOMAIN Programs /\ IsProgram(f))
      BY <1>1, <3>2 DEF loadProgram
    <3> QED
      BY <3>1, <3>2
  <2>2. n' \in 1 .. Len(settings.binFiles) + 1
    BY <1>1 DEF loadProgram
  <2> QED
    BY <1>1, <2>1, <2>2 DEF loadProgram
<1>2. CASE ProgramsLoaded
  BY <1>2, FilesAssumption DEF ProgramsLoaded, Lines
<1> QED
  BY <1>1, <1>2

LEMMA SymbolTypes ==
  ASSUME TypeInv, ReadLine \/ mallocSymbol \/ freeOldSymbol \/ assignSymbol
  PROVE  TypeInv'
<1> USE NotExited DEF TypeInv, StartTypeOK, Shape, Locations, InSymbol, Keep, heap, machine, scratch, Lines
<1>1. CASE ReadLine
  <2>1. CASE n \in DOMAIN Lines
    <3>1. n \in 1 .. Len(Lines) /\ Lines = SymbolFiles[settings.symbolsFile]
      BY <1>1, <2>1, FilesAssumption DEF ReadLine, IsSequence
    <3>2. Lines[n].name \in Names
      BY <1>1, <2>1 DEF ReadLine, Names
    <3>3. /\ Lines[n].loc \in Word \cup {NONE}
          /\ Lines[n].loc = NONE => Lines[n].name = NONE
          /\ Lines[1].loc # NONE /\ Lines[1].name # NONE
      BY <1>1, <2>1, <3>1, LinesAssumption DEF ReadLine
    <3>4. n > 1 \/ n = 1
      BY <3>1
    <3>5. lineBuff'.loc \in Word
      BY <1>1, <2>1, <3>3, <3>4 DEF ReadLine
    <3>6. lineBuff'.name \in Names
      BY <1>1, <2>1, <3>2, <3>3, <3>4 DEF ReadLine
    <3> QED
      BY <1>1, <2>1, <3>1, <3>5, <3>6 DEF ReadLine
  <2>2. CASE n \notin DOMAIN Lines
    BY <1>1, <2>2 DEF ReadLine
  <2> QED
    BY <2>1, <2>2
<1>2. CASE mallocSymbol
  <2>1. blocks' \in Seq(Names) /\ DOMAIN blocks' = DOMAIN blocks \cup {Len(blocks) + 1}
    BY <1>2 DEF mallocSymbol
  <2>2. \A b \in DOMAIN blocks : b \in DOMAIN blocks'
    BY <2>1
  <2> QED
    BY <1>2, <2>1, <2>2 DEF mallocSymbol
<1>3. CASE freeOldSymbol
  BY <1>3 DEF freeOldSymbol, free
<1>4. CASE assignSymbol
  <2>1. /\ DOMAIN symbols' = {lineBuff.loc} \cup DOMAIN symbols
        /\ \A a \in DOMAIN symbols' : symbols'[a] \in DOMAIN blocks
    <3> DEFINE f == [a \in {lineBuff.loc} |-> symbolName]
    <3>1. symbols' = Overlay(f, symbols)
      BY <1>4 DEF assignSymbol
    <3>2. DOMAIN f = {lineBuff.loc} /\ \A a \in DOMAIN f : f[a] = symbolName
      OBVIOUS
    <3>3. symbolName \in DOMAIN blocks
      BY <1>4 DEF assignSymbol
    <3> HIDE DEF f
    <3>4. ASSUME NEW a \in DOMAIN f \cup DOMAIN symbols
          PROVE  Overlay(f, symbols)[a] \in DOMAIN blocks
      <4>1. CASE a \in DOMAIN f
        <5>1. Overlay(f, symbols)[a] = f[a]
          BY <4>1 DEF Overlay
        <5> QED
          BY <3>2, <3>3, <4>1, <5>1
      <4>2. CASE a \notin DOMAIN f
        <5>1. Overlay(f, symbols)[a] = symbols[a] /\ a \in DOMAIN symbols
          BY <4>2 DEF Overlay
        <5> QED
          BY <5>1
      <4> QED
        BY <4>1, <4>2
    <3>5. DOMAIN Overlay(f, symbols) = DOMAIN f \cup DOMAIN symbols
      BY DEF Overlay
    <3> QED
      BY <3>1, <3>2, <3>4, <3>5
  <2> QED
    BY <1>4, <2>1 DEF assignSymbol
<1> QED
  BY <1>1, <1>2, <1>3, <1>4

LEMMA HintTypes ==
  ASSUME TypeInv, OpenHints \/ loadHint \/ HintsLoaded \/ initgui
  PROVE  TypeInv'
<1> USE NotExited DEF TypeInv, StartTypeOK, Shape, Locations, InSymbol, Keep, heap, machine, scratch
<1>1. CASE OpenHints
  <2>1. CASE settings.hintsFile \in DOMAIN HintFiles
    <3>1. PICK u \in Uninitialised :
            LET lengthBuff == Fread(<<u[1], u[2]>>, HintsFile, 1)
            IN  /\ length' = MkWord(lengthBuff[1], lengthBuff[2])
                /\ hintBuff' = <<u[3], u[4], u[5]>>
      BY <1>1, <2>1 DEF OpenHints
    <3>2. \A i \in 1 .. 5 : u[i] \in Byte
      BY FilesAssumption
    <3>3. <<u[1], u[2]>> \in [1 .. 2 -> Byte] /\ <<u[3], u[4], u[5]>> \in [1 .. 3 -> Byte]
      BY <3>2
    <3>4. HintsFile \in Seq(Byte)
      BY <2>1, FilesAssumption DEF HintsFile
    <3>5. length' \in Word
      <4> DEFINE b == Fread(<<u[1], u[2]>>, HintsFile, 1)
      <4>1. b \in [1 .. 2 -> Byte]
        BY <3>3, <3>4, FreadBytes
      <4>2. length' = MkWord(b[1], b[2])
        BY <3>1
      <4> HIDE DEF b
      <4>3. b[1] \in Byte /\ b[2] \in Byte
        BY <4>1
      <4> QED
        BY <4>2, <4>3, WordOfBytes
    <3>6. 1 \in 1 .. length' + 1
      BY <3>5, WordsCount
    <3>7. hintBuff' \in [1 .. 3 -> Byte]
      BY <3>1, <3>3
    <3>8. StartTypeOK'
      BY <1>1, <2>1, <3>5, <3>7 DEF OpenHints
    <3>9. n' \in Nat /\ n' \in 1 .. length' + 1 /\ at' = "hint"
      <4>1. n' = 1 /\ at' = "hint"
        BY <1>1, <2>1 DEF OpenHints
      <4> QED
        BY <3>6, <4>1
    <3>10. Shape'
      BY <1>1, <2>1, <3>9 DEF OpenHints
    <3> QED
      BY <3>8, <3>10
  <2>2. CASE settings.hintsFile \notin DOMAIN HintFiles
    BY <1>1, <2>2 DEF OpenHints
  <2> QED
    BY <2>1, <2>2
<1>2. CASE loadHint
  <2>1. HintsFile \in Seq(Byte) /\ EntryAt(n) \in Nat
    BY <1>2, FilesAssumption DEF HintsFile, EntryAt, loadHint
  <2>2. hintBuff' \in [1 .. 3 -> Byte]
    BY <1>2, <2>1, FreadBytes DEF loadHint
  <2> DEFINE b == hintBuff'
  <2>3. MkWord(b[1], b[2]) \in Word /\ b[3] \in Byte
    BY <2>2, WordOfBytes
  <2>4. DOMAIN Hint(b) \subseteq Word /\ \A a \in DOMAIN Hint(b) : Hint(b)[a] \in Byte
    BY <2>3 DEF Hint
  <2>5. DOMAIN hints' \subseteq Word /\ \A a \in DOMAIN hints' : hints'[a] \in Byte
    BY <1>2, <2>4, TableKept DEF loadHint
  <2>6. n' \in 1 .. length + 1
    <3>1. n \in 1 .. length + 1 /\ n <= length /\ n' = n + 1
      BY <1>2 DEF loadHint
    <3>2. length \in Nat
      BY WordsCount
    <3> QED
      BY <3>1, <3>2
  <2> QED
    BY <1>2, <2>2, <2>5, <2>6 DEF loadHint
<1>3. CASE HintsLoaded
  BY <1>3 DEF HintsLoaded
<1>4. CASE initgui
  BY <1>4 DEF initgui
<1> QED
  BY <1>1, <1>2, <1>3, <1>4

\* What of the symbol table is still to be freed
Left == {a \in DOMAIN symbols : a >= n}

LEMMA LeftLeast ==
  ASSUME TypeInv, Left # {}
  PROVE  /\ Min(Left) \in Left /\ Min(Left) \in Word
         /\ {a \in DOMAIN symbols : a >= Min(Left) + 1} = Left \ {Min(Left)}
<1>1. DOMAIN symbols \subseteq Word /\ n \in Nat
  BY DEF TypeInv, StartTypeOK, Shape
<1>2. Word \subseteq Nat
  BY DEF Word
<1>3. Left \subseteq Nat
  BY <1>1, <1>2 DEF Left
<1>4. Min(Left) \in Left /\ \A a \in Left : Min(Left) <= a
  BY <1>3, MinIsLeast
<1> DEFINE m == Min(Left)
<1>5. m \in Word /\ m \in Nat /\ m >= n
  BY <1>1, <1>2, <1>4 DEF Left
<1> HIDE DEF m
<1>6. \A a \in DOMAIN symbols : a \in Nat
  BY <1>1, <1>2
<1>7. \A a \in Nat : a >= m + 1 <=> a >= m /\ a # m
  BY <1>5
<1>8. \A a \in DOMAIN symbols : a \in Left <=> a >= n
  BY DEF Left
<1>9. \A a \in Left : a \in DOMAIN symbols /\ a >= m
  BY <1>4 DEF Left, m
<1>10. \A a \in DOMAIN symbols : a >= m + 1 <=> a \in Left \ {m}
  BY <1>1, <1>5, <1>6, <1>7, <1>8, <1>9
<1>11. {a \in DOMAIN symbols : a >= m + 1} = Left \ {m}
  BY <1>9, <1>10
<1> QED
  BY <1>4, <1>5, <1>11 DEF m

LEMMA EndTypes ==
  ASSUME TypeInv, mainloopReturns \/ BrokenPipe \/ Interrupt \/ finish \/ Exited
  PROVE  TypeInv'
<1> USE NotExited DEF TypeInv, StartTypeOK, Shape, Locations, InSymbol, Keep, heap, machine, scratch, exit, Caught
<1>1. CASE mainloopReturns
  BY <1>1 DEF mainloopReturns
<1>2. CASE Interrupt
  BY <1>2 DEF Interrupt
<1>3. CASE destroygui
  BY <1>3 DEF destroygui
<1>4. CASE freeSettings
  BY <1>4 DEF freeSettings
<1>5. CASE freeSymbolTable
  <2>1. CASE Left # {}
    <3>1. Min(Left) + 1 \in Nat
      <4>1. Min(Left) \in Word
        BY <2>1, LeftLeast
      <4> QED
        BY <4>1, WordsCount
    <3> QED
      BY <1>5, <2>1, <3>1 DEF freeSymbolTable, free, Left
  <2>2. CASE Left = {}
    BY <1>5, <2>2 DEF freeSymbolTable, Left
  <2> QED
    BY <2>1, <2>2
<1>6. CASE Exited
  BY <1>6 DEF Exited, startvars
<1>7. CASE BrokenPipe
  BY <1>7 DEF BrokenPipe
<1> QED
  BY <1>1, <1>2, <1>3, <1>4, <1>5, <1>6, <1>7 DEF finish

LEMMA TypesStep == TypeInv /\ [StartNext]_startvars => TypeInv'
<1>1. ASSUME TypeInv, UNCHANGED startvars PROVE TypeInv'
  BY <1>1 DEF startvars, heap, machine, scratch, TypeInv, StartTypeOK, Shape, InSymbol, Lines
<1> QED
  BY <1>1, CommandLineTypes, ProgramTypes, SymbolTypes, HintTypes, EndTypes
  DEF StartNext, Main, Load

LEMMA TypeInvHolds == StartSpec => []TypeInv
  BY BeginningTypes, TypesStep, PTL DEF StartSpec

\* The tables, the buffers and the heap keep the types and the bounds the C
\* variables give them, whatever the files hold (sim.c:14-105).
THEOREM StartTypeCorrect == StartSpec => []StartTypeOK
<1>1. TypeInv => StartTypeOK
  BY DEF TypeInv
<1> QED
  BY <1>1, TypeInvHolds, PTL

-----------------------------------------------------------------------------
(* The heap *)

Pointed == {symbols[a] : a \in DOMAIN symbols}

\* No block is in the table twice.
OneEach == \A a, b \in DOMAIN symbols : symbols[a] = symbols[b] => a = b

\* The places of the end: what is still to be freed there
Ends3 == {"destroygui", "freeSettings", "freeSymbols"}
From == IF at = "freeSymbols" THEN n ELSE 0
Owed == {symbols[a] : a \in {b \in DOMAIN symbols : b >= From}}

\* The block a signal may have caught outside the table
Loose == IF handling \in {"replace", "assign"} THEN {symbolName} ELSE {}

\* Before the end, at each place of loadSymbolsFile
Owned ==
  /\ OneEach
  /\ at \notin Ends3 \cup {"replace", "assign", "exited"} => live = Pointed
  /\ at \in {"replace", "assign"} => symbolName \notin Pointed
  /\ at = "replace" => live = Pointed \cup {symbolName}
  /\ at = "assign" => live = {symbols[a] : a \in DOMAIN symbols \ {lineBuff.loc}} \cup {symbolName}
  /\ at \notin Ends3 \cup {"exited"} => binFilesLive # "freed" /\ handling = NONE
  /\ at = "args" => symbols = Empty /\ binFilesLive = "none"

\* During the end, which a signal may have begun
Freeing ==
  /\ doubleFree => handling \in {"assign", "freeSymbols"}
  /\ at \in Ends3 =>
       /\ live \subseteq Owed \cup Loose
       /\ handling \notin {"assign", "freeSymbols"} => Owed \subseteq live
       /\ binFilesLive = "freed" => at = "freeSymbols" \/ handling = "freeSymbols"
       /\ binFilesLive = "live" => at # "freeSymbols"
  /\ at = "exited" /\ exitCode = 0 => live \subseteq Loose /\ binFilesLive # "live"

HeapInv == Owned /\ Freeing

\* Curses has the terminal in the main loop, and until the end gives it back.
ScreenInv == screen => at \in {"mainloop", "destroygui"} \/ (at = "exited" /\ exitCode = KILLED)

LEMMA BeginningHeap == ASSUME StartInit PROVE HeapInv /\ ScreenInv
<1>1. DOMAIN symbols = {}
  BY DEF StartInit, Empty
<1>2. Pointed = {} /\ OneEach
  BY <1>1 DEF Pointed, OneEach
<1> QED
  BY <1>2, NotExited DEF StartInit, HeapInv, Owned, Freeing, ScreenInv, Ends3

\* The steps of main up to the main loop that are not of the symbol loader
LEMMA HeapAlone ==
  ASSUME HeapInv,
         getSettingsFromArgs \/ CheckSettings \/ initPorts \/ loadProgram \/ ProgramsLoaded
           \/ OpenHints \/ loadHint \/ HintsLoaded \/ initgui
  PROVE  HeapInv'
<1> USE NotExited DEF HeapInv, Owned, Freeing, Ends3, Pointed, OneEach, Keep, heap, exit
<1>1. CASE getSettingsFromArgs
  <2>1. UNCHANGED <<symbols, blocks, live, doubleFree, symbolName, lineBuff, handling>>
    BY <1>1 DEF getSettingsFromArgs, scratch
  <2>2. at = "args" /\ at' \in {"exited", "check"} /\ binFilesLive' # "freed"
    BY <1>1 DEF getSettingsFromArgs
  <2>3. live = {} /\ (at' = "exited" => binFilesLive' = "none")
    BY <1>1, <2>2 DEF getSettingsFromArgs, Empty
  <2> QED
    BY <2>1, <2>2, <2>3
<1>2. CASE CheckSettings
  BY <1>2 DEF CheckSettings, scratch
<1>3. CASE initPorts \/ loadProgram \/ ProgramsLoaded \/ OpenHints \/ loadHint \/ HintsLoaded \/ initgui
  <2>1. UNCHANGED <<heap, symbolName, lineBuff, handling>>
    BY <1>3 DEF initPorts, loadProgram, ProgramsLoaded, OpenHints, loadHint, HintsLoaded, initgui, scratch
  <2>2. /\ at \in {"ports", "programs", "hints", "hint", "initgui"}
        /\ at' \in {"programs", "line", "hints", "hint", "initgui", "mainloop"}
    BY <1>3 DEF initPorts, loadProgram, ProgramsLoaded, OpenHints, loadHint, HintsLoaded, initgui
  <2> QED
    BY <2>1, <2>2
<1> QED
  BY <1>1, <1>2, <1>3

LEMMA HeapSymbols ==
  ASSUME TypeInv, HeapInv, ReadLine \/ mallocSymbol \/ freeOldSymbol \/ assignSymbol
  PROVE  HeapInv'
<1> USE NotExited DEF HeapInv, Owned, Freeing, Ends3, Keep, heap
<1>1. CASE ReadLine
  <2>1. /\ UNCHANGED <<heap, symbolName, handling>>
        /\ at = "line" /\ at' \in {"malloc", "hints"}
    BY <1>1 DEF ReadLine
  <2> QED
    BY <2>1 DEF Pointed, OneEach
<1>2. CASE mallocSymbol
  <2>1. symbolName' = Len(blocks) + 1 /\ live' = live \cup {symbolName'}
    BY <1>2 DEF mallocSymbol
  <2>2. \A b \in Pointed : b \in 1 .. Len(blocks)
    BY DEF TypeInv, StartTypeOK, Shape, Pointed
  <2>3. symbolName' \notin Pointed /\ Pointed' = Pointed
    BY <1>2, <2>1, <2>2 DEF mallocSymbol, Pointed, TypeInv, Shape
  <2> QED
    BY <1>2, <2>1, <2>3 DEF mallocSymbol, OneEach
<1>3. CASE freeOldSymbol
  <2>1. /\ UNCHANGED <<symbols, blocks, binFilesLive, symbolName, lineBuff, handling>>
        /\ at = "replace" /\ at' = "assign" /\ live = Pointed \cup {symbolName}
        /\ Pointed' = Pointed /\ OneEach' /\ symbolName \notin Pointed
    BY <1>3 DEF freeOldSymbol, scratch, Pointed, OneEach
  <2> DEFINE others == {symbols[a] : a \in DOMAIN symbols \ {lineBuff.loc}}
  <2>2. CASE lineBuff.loc \in DOMAIN symbols
    <3> DEFINE b == symbols[lineBuff.loc]
    <3>1. live' = live \ {b} /\ doubleFree' = (doubleFree \/ b \notin live)
      BY <1>3, <2>2 DEF freeOldSymbol, free
    <3>2. b \in live /\ b # symbolName
      BY <2>1, <2>2 DEF Pointed
    <3>3. Pointed \ {b} = others
      BY <2>2 DEF Pointed, OneEach
    <3>4. live' = others \cup {symbolName}
      BY <2>1, <3>1, <3>2, <3>3
    <3>5. Owned'
      BY <2>1, <3>4
    <3>6. ~doubleFree'
      BY <2>1, <3>1, <3>2 DEF Locations
    <3>7. Freeing'
      BY <2>1, <3>6
    <3> QED
      BY <3>5, <3>7
  <2>3. CASE lineBuff.loc \notin DOMAIN symbols
    <3>1. Pointed = others
      BY <2>3 DEF Pointed
    <3>2. UNCHANGED <<live, doubleFree>>
      BY <1>3, <2>3 DEF freeOldSymbol
    <3> QED
      BY <2>1, <3>1, <3>2
  <2> QED
    BY <2>2, <2>3
<1>4. CASE assignSymbol
  <2>1. /\ UNCHANGED <<live, blocks, binFilesLive, doubleFree, symbolName, lineBuff, handling>>
        /\ at = "assign" /\ at' = "line"
        /\ symbols' = Overlay([a \in {lineBuff.loc} |-> symbolName], symbols)
    BY <1>4 DEF assignSymbol, scratch
  <2>2. /\ DOMAIN symbols' = {lineBuff.loc} \cup DOMAIN symbols
        /\ \A a \in DOMAIN symbols' :
             symbols'[a] = IF a = lineBuff.loc THEN symbolName ELSE symbols[a]
    BY <2>1 DEF Overlay
  <2>3. Pointed' = {symbols[a] : a \in DOMAIN symbols \ {lineBuff.loc}} \cup {symbolName}
    BY <2>2 DEF Pointed
  <2>4. OneEach'
    BY <2>1, <2>2 DEF Pointed, OneEach
  <2>5. live' = Pointed'
    BY <2>1, <2>3
  <2>6. Owned'
    BY <2>1, <2>4, <2>5
  <2>7. ~doubleFree
    BY <2>1 DEF Locations
  <2>8. Freeing'
    BY <2>1, <2>7
  <2> QED
    BY <2>6, <2>8
<1> QED
  BY <1>1, <1>2, <1>3, <1>4

LEMMA AllFromZero == ASSUME TypeInv PROVE {b \in DOMAIN symbols : b >= 0} = DOMAIN symbols
<1>1. DOMAIN symbols \subseteq Word
  BY DEF TypeInv, StartTypeOK
<1>2. \A b \in Nat : b >= 0
  OBVIOUS
<1>3. \A b \in DOMAIN symbols : b >= 0
  BY <1>1, <1>2, WordsCount
<1> QED
  BY <1>3

\* A signal, or the end of the main loop: all that is in the table is owed.
LEMMA HeapEndBegins ==
  ASSUME TypeInv, HeapInv, mainloopReturns \/ Interrupt
  PROVE  HeapInv'
<1>1. /\ UNCHANGED <<symbols, blocks, live, binFilesLive, doubleFree, symbolName, lineBuff>>
      /\ at' = "destroygui" /\ handling = NONE
      /\ at \notin {"args", "check", "exited"}
  BY NotExited DEF HeapInv, Owned, Ends3, mainloopReturns, Interrupt, Keep, heap, scratch, Caught
<1>2. (mainloopReturns /\ at = "mainloop" /\ handling' = NONE) \/ (Interrupt /\ handling' = at)
  BY <1>1 DEF mainloopReturns, Interrupt, Keep
<1>3. Owed' = Pointed /\ Pointed' = Pointed
  <2>1. {b \in DOMAIN symbols : b >= 0} = DOMAIN symbols
    BY AllFromZero
  <2>2. Owed' = {symbols[a] : a \in {b \in DOMAIN symbols : b >= 0}}
    BY <1>1 DEF Owed, From
  <2> QED
    BY <1>1, <2>1, <2>2 DEF Pointed
<1>4. Owed \subseteq Pointed
  BY DEF Owed, Pointed
<1>5. live \subseteq Pointed \cup Loose'
  <2>1. CASE at = "assign"
    BY <1>1, <1>2, <2>1 DEF HeapInv, Owned, Pointed, Loose, mainloopReturns
  <2>2. CASE at = "replace"
    BY <1>1, <1>2, <2>2 DEF HeapInv, Owned, Loose, mainloopReturns
  <2>3. CASE at \in Ends3
    BY <1>1, <1>4, <2>3, NotExited DEF HeapInv, Freeing, Loose, Locations
  <2> QED
    BY <1>1, <2>1, <2>2, <2>3 DEF HeapInv, Owned
<1>6. handling' \notin {"assign", "freeSymbols"} => Pointed \subseteq live
  <2>1. CASE at \in {"destroygui", "freeSettings"}
    <3>1. Owed = Pointed
      <4>1. {b \in DOMAIN symbols : b >= 0} = DOMAIN symbols
        BY AllFromZero
      <4>2. Owed = {symbols[a] : a \in {b \in DOMAIN symbols : b >= 0}}
        BY <2>1 DEF Owed, From
      <4> QED
        BY <4>1, <4>2 DEF Pointed
    <3> QED
      BY <1>1, <2>1, <3>1, NotExited DEF HeapInv, Freeing, Ends3, Locations
  <2>2. CASE at \notin Ends3
    BY <1>1, <1>2, <2>2 DEF HeapInv, Owned, Ends3
  <2>3. CASE at = "freeSymbols"
    BY <1>2, <2>3
  <2> QED
    BY <2>1, <2>2, <2>3 DEF Ends3
<1>7. doubleFree' => handling' \in {"assign", "freeSymbols"}
  BY <1>1, NotExited DEF HeapInv, Freeing, Locations
<1>8. binFilesLive' = "freed" => handling' = "freeSymbols"
  BY <1>1, <1>2, NotExited DEF HeapInv, Owned, Freeing, Ends3, Locations
<1>9. Owned'
  BY <1>1 DEF HeapInv, Owned, OneEach, Ends3
<1> QED
  BY <1>1, <1>3, <1>5, <1>6, <1>7, <1>8, <1>9 DEF HeapInv, Freeing, Ends3

LEMMA HeapFreed ==
  ASSUME TypeInv, HeapInv, finish
  PROVE  HeapInv'
<1>1. UNCHANGED <<symbols, symbolName, handling>> /\ at \in Ends3
  BY DEF finish, destroygui, freeSettings, freeSymbolTable, Keep, heap, scratch, Ends3
<1>2. OneEach' /\ Loose' = Loose
  BY <1>1 DEF HeapInv, Owned, OneEach, Loose
<1>3. CASE destroygui
  <2>1. Owed' = Owed
    BY <1>1, <1>3 DEF destroygui, Owed, From
  <2> QED
    BY <1>1, <1>2, <1>3, <2>1 DEF destroygui, heap, scratch, HeapInv, Owned, Freeing, Ends3
<1>4. CASE freeSettings
  <2>1. Owed' = Owed
    BY <1>1, <1>4 DEF freeSettings, Owed, From
  <2>2. /\ UNCHANGED live /\ at = "freeSettings" /\ at' = "freeSymbols"
        /\ binFilesLive' \in {"none", "freed"}
        /\ doubleFree' = (doubleFree \/ binFilesLive = "freed")
    BY <1>4 DEF freeSettings
  <2>3. doubleFree' => handling \in {"assign", "freeSymbols"}
    BY <2>2 DEF HeapInv, Freeing, Ends3
  <2> QED
    BY <1>1, <1>2, <2>1, <2>2, <2>3 DEF HeapInv, Owned, Freeing, Ends3
<1>5. CASE freeSymbolTable
  <2>1. at = "freeSymbols" /\ From = n /\ UNCHANGED binFilesLive
    BY <1>5 DEF freeSymbolTable, From
  <2>2. Owed = {symbols[a] : a \in Left}
    BY <2>1 DEF Owed, Left
  <2>3. CASE Left = {}
    <3>1. at' = "exited" /\ UNCHANGED <<live, doubleFree>>
      BY <1>5, <2>3 DEF freeSymbolTable, Left, exit
    <3>2. live \subseteq Loose
      BY <2>1, <2>2, <2>3 DEF HeapInv, Freeing, Ends3
    <3> QED
      BY <1>1, <1>2, <2>1, <3>1, <3>2 DEF HeapInv, Owned, Freeing, Ends3
  <2>4. CASE Left # {}
    <3> DEFINE b == symbols[Min(Left)]
    <3>1. /\ live' = live \ {b} /\ doubleFree' = (doubleFree \/ b \notin live)
          /\ n' = Min(Left) + 1 /\ at' = at
      BY <1>5, <2>4 DEF freeSymbolTable, Left, free
    <3>2. Min(Left) \in Left /\ {a \in DOMAIN symbols : a >= Min(Left) + 1} = Left \ {Min(Left)}
      BY <2>4, LeftLeast
    <3>3. Owed' = {symbols[a] : a \in Left \ {Min(Left)}}
      BY <1>1, <2>1, <3>1, <3>2 DEF Owed, From
    <3>4. Left \subseteq DOMAIN symbols
      BY DEF Left
    <3>5. Owed' = Owed \ {b}
      BY <2>2, <3>2, <3>3, <3>4 DEF HeapInv, Owned, OneEach
    <3>6. b \in Owed
      BY <2>2, <3>2
    <3>7. doubleFree' => handling' \in {"assign", "freeSymbols"}
      BY <1>1, <2>1, <3>1, <3>6 DEF HeapInv, Freeing, Ends3
    <3> HIDE DEF b
    <3> QED
      BY <1>1, <1>2, <2>1, <3>1, <3>5, <3>7 DEF HeapInv, Owned, Freeing, Ends3
  <2> QED
    BY <2>3, <2>4
<1> QED
  BY <1>3, <1>4, <1>5 DEF finish

\* After SIGPIPE nothing is freed, and nobody owes it.
LEMMA HeapBroken == ASSUME TypeInv, HeapInv, BrokenPipe PROVE HeapInv'
<1>1. /\ UNCHANGED <<symbols, blocks, live, binFilesLive, doubleFree, symbolName, lineBuff, handling>>
      /\ at = "mainloop" /\ at' = "exited" /\ exitCode' # 0
  BY NotExited DEF BrokenPipe, Keep, heap, scratch, exit
<1>2. OneEach' /\ symbols' = symbols /\ at' \notin {"args", "replace", "assign"}
  BY <1>1 DEF HeapInv, Owned, OneEach
<1>4. Owned'
  BY <1>1, <1>2 DEF Owned
<1>3. Freeing'
  BY <1>1 DEF HeapInv, Freeing, Ends3
<1> QED
  BY <1>3, <1>4 DEF HeapInv

LEMMA HeapInvHolds == StartSpec => []HeapInv
<1>1. ASSUME HeapInv, UNCHANGED startvars PROVE HeapInv'
  BY <1>1 DEF startvars, heap, machine, scratch, HeapInv, Owned, Freeing, OneEach, Pointed, Owed, Loose, From
<1>2. TypeInv /\ HeapInv /\ [StartNext]_startvars => HeapInv'
  BY <1>1, HeapAlone, HeapSymbols, HeapEndBegins, HeapBroken, HeapFreed DEF StartNext, Main, Load, Exited
<1> QED
  BY <1>2, BeginningHeap, TypeInvHolds, PTL DEF StartSpec

\* No name is lost while symbols are loaded and none is freed that the table
\* still shows, also when names replace one another (sim.c:86-94).
THEOREM TableOwnsItsHeap == StartSpec => []TableOwnsHeap
<1>1. HeapInv => TableOwnsHeap
  BY DEF HeapInv, Owned, TableOwnsHeap, Pointed, OneEach, Ends3
<1> QED
  BY <1>1, HeapInvHolds, PTL

\* Whenever SIGINT comes, the end frees every block once, except in the three
\* windows EachFreedOnce names (sim.c:86-93, 98-112).
THEOREM FreedOnce == StartSpec => []EachFreedOnce
<1>1. ASSUME TypeInv, HeapInv PROVE EachFreedOnce
  <2>1. doubleFree => handling \in {"assign", "freeSymbols"}
    BY <1>1 DEF HeapInv, Freeing
  <2>2. ASSUME exitCode = 0
        PROVE  /\ binFilesLive # "live"
               /\ handling \notin {"replace", "assign"} => live = {}
               /\ Cardinality(live) <= 1
    <3>1. at = "exited"
      BY <1>1, <2>2, NotExited DEF TypeInv, StartTypeOK
    <3>2. live \subseteq Loose /\ binFilesLive # "live"
      BY <1>1, <2>2, <3>1 DEF HeapInv, Freeing
    <3>3. Loose \subseteq {symbolName}
      BY DEF Loose
    <3>4. Cardinality(live) <= 1
      <4>1. IsFiniteSet({symbolName}) /\ Cardinality({symbolName}) = 1
        BY FS_Singleton
      <4>2. live \in SUBSET {symbolName}
        BY <3>2, <3>3
      <4> QED
        BY <4>1, <4>2, FS_Subset
    <3> QED
      BY <3>2, <3>4 DEF Loose
  <2> QED
    BY <2>1, <2>2 DEF EachFreedOnce
<1> QED
  BY <1>1, TypeInvHolds, HeapInvHolds, PTL

\* When the program ends by itself or by SIGINT, wherever that came, curses has
\* given the terminal back; only SIGPIPE ends it without (sim.c:106-111, ports.c:183).
THEOREM TerminalGivenBack == StartSpec => []TerminalRestored
<1>1. ScreenInv /\ [StartNext]_startvars => ScreenInv'
  <2> SUFFICES ASSUME ScreenInv, [StartNext]_startvars PROVE ScreenInv'
    OBVIOUS
  <2>1. CASE UNCHANGED startvars
    BY <2>1 DEF ScreenInv, startvars
  <2>2. CASE getSettingsFromArgs \/ CheckSettings \/ initPorts \/ Load
    BY <2>2 DEF ScreenInv, getSettingsFromArgs, CheckSettings, initPorts, Load, loadProgram,
       ProgramsLoaded, ReadLine, mallocSymbol, freeOldSymbol, assignSymbol, OpenHints, loadHint,
       HintsLoaded, exit
  <2>3. CASE initgui \/ mainloopReturns \/ Interrupt \/ finish
    BY <2>3 DEF ScreenInv, initgui, mainloopReturns, Interrupt, finish, destroygui, freeSettings,
       freeSymbolTable, exit, Caught
  <2>4. CASE BrokenPipe
    BY <2>4 DEF ScreenInv, BrokenPipe, exit
  <2> QED
    BY <2>1, <2>2, <2>3, <2>4 DEF StartNext, Main, Exited
<1>2. ScreenInv => TerminalRestored
  BY DEF ScreenInv, TerminalRestored
<1> QED
  BY <1>1, <1>2, BeginningHeap, PTL DEF StartSpec

-----------------------------------------------------------------------------
(* What the loaders have made of the files so far *)

Loading == {"line", "malloc", "replace", "assign", "hints", "hint", "initgui", "mainloop"}

\* Memory is what the files in F say.
MemoryHolds(F) ==
  /\ \A a \in DOMAIN memory :
       \E i \in F :
         /\ Covers(i, a)
         /\ \A j \in F : j > i => ~Covers(j, a)
         /\ memory[a] = Programs[settings.binFiles[i]][7 + a - Short(Programs[settings.binFiles[i]], 5)]
  /\ \A i \in F : \A a \in Word : Covers(i, a) => a \in DOMAIN memory

MemInv ==
  /\ at \in {"args", "check", "ports"} => memory = Empty
  /\ at = "programs" => MemoryHolds(1 .. n - 1)
  /\ at \in Loading => MemoryHolds(DOMAIN settings.binFiles)

\* The bytes a program puts in memory are those at the addresses it covers.
LEMMA CoversBody ==
  ASSUME NEW i, NEW a \in Word
  PROVE  LET f == Programs[settings.binFiles[i]]
         IN  /\ settings.binFiles[i] \in DOMAIN Programs /\ IsProgram(f) =>
                  /\ Covers(i, a) <=> a \in DOMAIN Body(f)
                  /\ a \in DOMAIN Body(f) => Body(f)[a] = f[7 + a - Short(f, 5)]
             /\ ~(settings.binFiles[i] \in DOMAIN Programs /\ IsProgram(f)) => ~Covers(i, a)
<1> DEFINE f == Programs[settings.binFiles[i]]
<1>1. ASSUME settings.binFiles[i] \in DOMAIN Programs, IsProgram(f)
      PROVE  /\ Covers(i, a) <=> a \in DOMAIN Body(f)
             /\ a \in DOMAIN Body(f) => Body(f)[a] = f[7 + a - Short(f, 5)]
  <2>1. f \in Seq(Byte)
    BY <1>1, FilesAssumption
  <2>2. Covers(i, a) <=> /\ a - Short(f, 5) \in 0 .. Short(f, 3) - 1
                         /\ 7 + a - Short(f, 5) \in DOMAIN f
    BY <1>1 DEF Covers
  <2> HIDE DEF f
  <2> QED
    BY <2>1, <2>2, BodyAt
<1>2. ~(settings.binFiles[i] \in DOMAIN Programs /\ IsProgram(f)) => ~Covers(i, a)
  BY DEF Covers
<1> QED
  BY <1>1, <1>2

LEMMA MemoryNext ==
  ASSUME TypeInv, loadProgram, MemoryHolds(1 .. n - 1)
  PROVE  MemoryHolds(1 .. n - 1)'
<1> DEFINE name == settings.binFiles[n]
           f == Programs[name]
           byte(i, a) == Programs[settings.binFiles[i]][7 + a - Short(Programs[settings.binFiles[i]], 5)]
           good == name \in DOMAIN Programs /\ IsProgram(f)
<1>1. /\ n \in Nat /\ n >= 1 /\ n' = n + 1 /\ UNCHANGED settings
      /\ DOMAIN memory \subseteq Word
  BY DEF TypeInv, StartTypeOK, Shape, loadProgram, Keep
<1>2. memory' = IF good THEN Overlay(Body(f), memory) ELSE memory
  BY DEF loadProgram
<1>3. \A a \in Word : /\ good => /\ Covers(n, a) <=> a \in DOMAIN Body(f)
                                 /\ a \in DOMAIN Body(f) => Body(f)[a] = byte(n, a)
                      /\ ~good => ~Covers(n, a)
  BY CoversBody
<1>4. DOMAIN memory' \subseteq Word
  BY TypesStep DEF TypeInv, StartTypeOK, StartNext, Main, Load
<1>5. \A a \in Word : /\ Covers(n, a) => a \in DOMAIN memory' /\ memory'[a] = byte(n, a)
                      /\ ~Covers(n, a) => /\ a \in DOMAIN memory' <=> a \in DOMAIN memory
                                          /\ a \in DOMAIN memory => memory'[a] = memory[a]
  <2> HIDE DEF good, f, byte
  <2>1. CASE good
    <3>1. memory' = Overlay(Body(f), memory)
      BY <1>2, <2>1
    <3>2. DOMAIN memory' = DOMAIN Body(f) \cup DOMAIN memory
      BY <3>1 DEF Overlay
    <3>3. \A a \in DOMAIN memory' :
            memory'[a] = IF a \in DOMAIN Body(f) THEN Body(f)[a] ELSE memory[a]
      BY <3>1, <3>2 DEF Overlay
    <3> QED
      BY <1>3, <2>1, <3>2, <3>3
  <2>2. CASE ~good
    BY <1>2, <1>3, <2>2
  <2> QED
    BY <2>1, <2>2
<1>6. \A i, a : Covers(i, a)' <=> Covers(i, a)
  BY <1>1 DEF Covers
<1> HIDE DEF good, f, name
<1>7. ASSUME NEW a \in DOMAIN memory'
      PROVE  \E i \in 1 .. n : /\ Covers(i, a)
                               /\ \A j \in 1 .. n : j > i => ~Covers(j, a)
                               /\ memory'[a] = byte(i, a)
  <2>1. CASE Covers(n, a)
    <3>1. memory'[a] = byte(n, a) /\ n \in 1 .. n /\ \A j \in 1 .. n : ~(j > n)
      BY <1>1, <1>4, <1>5, <2>1
    <3> HIDE DEF byte
    <3> QED
      BY <2>1, <3>1
  <2>2. CASE ~Covers(n, a)
    <3>1. a \in DOMAIN memory /\ memory'[a] = memory[a]
      BY <1>4, <1>5, <2>2
    <3>2. PICK i \in 1 .. n - 1 : /\ Covers(i, a)
                                  /\ \A j \in 1 .. n - 1 : j > i => ~Covers(j, a)
                                  /\ memory[a] = byte(i, a)
      BY <3>1 DEF MemoryHolds
    <3>3. \A j \in 1 .. n : j \in 1 .. n - 1 \/ j = n
      BY <1>1
    <3>4. i \in 1 .. n
      BY <1>1
    <3> HIDE DEF byte
    <3> QED
      BY <2>2, <3>1, <3>2, <3>3, <3>4
  <2> QED
    BY <2>1, <2>2
<1>8. ASSUME NEW i \in 1 .. n, NEW a \in Word, Covers(i, a)
      PROVE  a \in DOMAIN memory'
  <2>1. CASE Covers(n, a)
    BY <1>5, <2>1
  <2>2. CASE ~Covers(n, a)
    <3>1. i \in 1 .. n - 1
      BY <1>1, <1>8, <2>2
    <3>2. a \in DOMAIN memory
      BY <1>8, <3>1 DEF MemoryHolds
    <3> QED
      BY <1>5, <2>2, <3>2
  <2> QED
    BY <2>1, <2>2
<1>9. 1 .. n' - 1 = 1 .. n
  BY <1>1
<1> QED
  BY <1>1, <1>6, <1>7, <1>8, <1>9 DEF MemoryHolds

\* Steps that leave memory and the settings alone
LEMMA MemoryStays ==
  ASSUME NEW F, MemoryHolds(F), UNCHANGED <<memory, settings>>
  PROVE  MemoryHolds(F)'
<1>1. \A i, a : Covers(i, a)' <=> Covers(i, a)
  BY DEF Covers
<1> QED
  BY <1>1 DEF MemoryHolds

LEMMA MemInvHolds == StartSpec => []MemInv
<1> USE NotExited DEF MemInv, Loading
<1>1. StartInit => MemInv
  BY DEF StartInit
<1>2. ASSUME TypeInv, MemInv, StartNext, ~loadProgram
      PROVE  MemInv'
  <2>1. UNCHANGED memory
    BY <1>2 DEF StartNext, Main, Load, finish, Exited, getSettingsFromArgs, CheckSettings, initPorts,
       ProgramsLoaded, ReadLine, mallocSymbol, freeOldSymbol, assignSymbol, OpenHints, loadHint,
       HintsLoaded, initgui, mainloopReturns, BrokenPipe, Interrupt, destroygui, freeSettings, freeSymbolTable,
       startvars, machine
  <2>2. at' \in {"args", "check", "ports"} => at \in {"args", "check"} \/ at' = at
    BY <1>2 DEF StartNext, Main, Load, finish, Exited, getSettingsFromArgs, CheckSettings, initPorts,
       ProgramsLoaded, ReadLine, mallocSymbol, freeOldSymbol, assignSymbol, OpenHints, loadHint,
       HintsLoaded, initgui, mainloopReturns, BrokenPipe, Interrupt, destroygui, freeSettings, freeSymbolTable,
       startvars, exit
  <2>3. CASE initPorts
    <3>1. memory' = Empty /\ n' = 1 /\ at' = "programs"
      BY <1>2, <2>1, <2>3 DEF initPorts
    <3>2. DOMAIN memory' = {} /\ 1 .. n' - 1 = {}
      BY <3>1 DEF Empty
    <3>3. MemoryHolds(1 .. n - 1)'
      BY <3>2 DEF MemoryHolds
    <3> QED
      BY <3>1, <3>3
  <2>4. CASE ProgramsLoaded
    <3>1. at = "programs" /\ UNCHANGED settings /\ at' \in {"line", "hints"}
      BY <2>4 DEF ProgramsLoaded, Keep
    <3>2. DOMAIN settings.binFiles = 1 .. n - 1
      <4>1. /\ n \in 1 .. Len(settings.binFiles) + 1 /\ n \notin DOMAIN settings.binFiles
            /\ DOMAIN settings.binFiles = 1 .. Len(settings.binFiles)
            /\ Len(settings.binFiles) \in Nat
        BY <1>2, <2>4, <3>1 DEF TypeInv, Shape, IsSequence, ProgramsLoaded
      <4>2. n = Len(settings.binFiles) + 1
        BY <4>1
      <4> QED
        BY <4>1, <4>2
    <3>3. MemoryHolds(DOMAIN settings.binFiles)
      BY <1>2, <3>1, <3>2
    <3>4. MemoryHolds(DOMAIN settings.binFiles)'
      BY <2>1, <3>1, <3>3, MemoryStays
    <3> QED
      BY <3>1, <3>4
  <2>5. CASE ~initPorts /\ ~ProgramsLoaded
    <3>1. at' \in {"programs"} \cup Loading => at \in Loading /\ at' \in Loading /\ UNCHANGED settings
      BY <1>2, <2>5 DEF StartNext, Main, Load, finish, Exited, getSettingsFromArgs, CheckSettings,
         ReadLine, mallocSymbol, freeOldSymbol, assignSymbol, OpenHints, loadHint,
         HintsLoaded, initgui, mainloopReturns, BrokenPipe, Interrupt, destroygui, freeSettings, freeSymbolTable,
         startvars, exit, Keep
    <3>2. CASE at' \in Loading
      <4>1. MemoryHolds(DOMAIN settings.binFiles)
        BY <1>2, <3>1, <3>2
      <4>2. MemoryHolds(DOMAIN settings.binFiles)'
        BY <2>1, <3>1, <3>2, <4>1, MemoryStays
      <4> QED
        BY <3>2, <4>2
    <3> QED
      BY <1>2, <2>1, <2>2, <3>1, <3>2
  <2> QED
    BY <2>3, <2>4, <2>5
<1>3. ASSUME TypeInv, MemInv, loadProgram
      PROVE  MemInv'
  <2>1. at = "programs" /\ at' = at
    BY <1>3 DEF loadProgram
  <2> QED
    BY <1>3, <2>1, MemoryNext
<1>4. ASSUME MemInv, UNCHANGED startvars PROVE MemInv'
  BY <1>4, MemoryStays DEF startvars, machine, scratch
<1>5. TypeInv /\ MemInv /\ [StartNext]_startvars => MemInv'
  BY <1>2, <1>3, <1>4
<1> QED
  BY <1>1, <1>5, TypeInvHolds, PTL DEF StartSpec

\* When the main loop starts memory is what the programs say, the last one to
\* cover an address counting, and nothing is written past its end
\* (sim.c:17-43, 329-330).
THEOREM MemoryIsAsGiven == StartSpec => []MemoryAsGiven
<1>1. ASSUME TypeInv, MemInv PROVE MemoryAsGiven
  <2> SUFFICES ASSUME at = "mainloop"
               PROVE  /\ \A a \in DOMAIN memory :
                           \E i \in DOMAIN settings.binFiles :
                             /\ Covers(i, a)
                             /\ \A j \in i + 1 .. Len(settings.binFiles) : ~Covers(j, a)
                             /\ memory[a] = Programs[settings.binFiles[i]]
                                             [7 + a - Short(Programs[settings.binFiles[i]], 5)]
                      /\ \A i \in DOMAIN settings.binFiles :
                           \A a \in Reached(i) : Covers(i, a) => a \in DOMAIN memory
    BY DEF MemoryAsGiven
  <2>1. MemoryHolds(DOMAIN settings.binFiles)
    BY <1>1 DEF MemInv, Loading
  <2>2. DOMAIN settings.binFiles = 1 .. Len(settings.binFiles) /\ Len(settings.binFiles) \in Nat
    BY <1>1 DEF TypeInv, Shape, IsSequence
  <2>3. \A i \in DOMAIN settings.binFiles : \A j \in i + 1 .. Len(settings.binFiles) :
          j \in DOMAIN settings.binFiles /\ j > i
    BY <2>2
  <2>4. \A i : Reached(i) \subseteq Word
    BY DEF Reached
  <2>5. ASSUME NEW a \in DOMAIN memory
        PROVE  \E i \in DOMAIN settings.binFiles :
                 /\ Covers(i, a)
                 /\ \A j \in i + 1 .. Len(settings.binFiles) : ~Covers(j, a)
                 /\ memory[a] = Programs[settings.binFiles[i]]
                                 [7 + a - Short(Programs[settings.binFiles[i]], 5)]
    BY <2>1, <2>3 DEF MemoryHolds
  <2> QED
    BY <2>1, <2>4, <2>5 DEF MemoryHolds
<1> QED
  BY <1>1, TypeInvHolds, MemInvHolds, PTL

\* The table holds what the first k lines say.
TableHolds(k) ==
  /\ DOMAIN symbols = {LocOf(i) : i \in 1 .. k}
  /\ \A a \in DOMAIN symbols : blocks[symbols[a]] = NameOf(Max({i \in 1 .. k : LocOf(i) = a}))

SymbolInv ==
  /\ at \in {"args", "check", "ports", "programs"} => symbols = Empty
  /\ at = "line" => TableHolds(n - 1)
  /\ at \in InSymbol => TableHolds(n - 2)
  /\ at \in InSymbol \/ (at = "line" /\ n > 1) =>
       lineBuff.loc = LocOf(n - 1) /\ lineBuff.name = NameOf(n - 1)
  /\ at \in {"replace", "assign"} => blocks[symbolName] = lineBuff.name
  /\ at \in {"hints", "hint", "initgui", "mainloop"} /\ settings.symbolsFile \in DOMAIN SymbolFiles =>
       TableHolds(Len(Lines))

LEMMA MaxIsLast ==
  ASSUME NEW k \in Nat, NEW T, T \subseteq 1 .. k, k \in T
  PROVE  Max(T) = k
<1>1. Max(T) \in 1 .. k /\ k <= Max(T)
  BY MaxIsGreatest
<1> QED
  BY <1>1

\* The location and the name of a line are its own or those of the line before.
LEMMA LineAfterLine ==
  ASSUME TypeInv, settings.symbolsFile \in DOMAIN SymbolFiles, NEW k \in 1 .. Len(Lines)
  PROVE  /\ LocOf(k) = IF Lines[k].loc # NONE THEN Lines[k].loc ELSE LocOf(k - 1)
         /\ NameOf(k) = IF Lines[k].name # NONE THEN Lines[k].name ELSE NameOf(k - 1)
<1>1. k \in Nat /\ k \in 1 .. k /\ \A j : j \in 1 .. k <=> j \in 1 .. k - 1 \/ j = k
  BY FilesAssumption DEF Lines, IsSequence
<1> DEFINE L(m) == {j \in 1 .. m : Lines[j].loc # NONE}
           N(m) == {j \in 1 .. m : Lines[j].name # NONE}
<1>2. ASSUME Lines[k].loc # NONE PROVE LocOf(k) = Lines[k].loc
  <2>1. k \in L(k) /\ L(k) \subseteq 1 .. k
    BY <1>1, <1>2
  <2>2. Max(L(k)) = k
    BY <1>1, <2>1, MaxIsLast
  <2> QED
    BY <1>2, <2>2 DEF LocOf
<1>3. ASSUME Lines[k].loc = NONE PROVE LocOf(k) = LocOf(k - 1)
  <2>1. L(k) = L(k - 1)
    BY <1>1, <1>3
  <2> QED
    BY <1>3, <2>1 DEF LocOf
<1>4. ASSUME Lines[k].name # NONE PROVE NameOf(k) = Lines[k].name
  <2>1. k \in N(k) /\ N(k) \subseteq 1 .. k
    BY <1>1, <1>4
  <2>2. Max(N(k)) = k
    BY <1>1, <2>1, MaxIsLast
  <2> QED
    BY <1>4, <2>2 DEF NameOf
<1>5. ASSUME Lines[k].name = NONE PROVE NameOf(k) = NameOf(k - 1)
  <2>1. N(k) = N(k - 1)
    BY <1>1, <1>5
  <2> QED
    BY <1>5, <2>1 DEF NameOf
<1> QED
  BY <1>2, <1>3, <1>4, <1>5

\* Steps that leave the table, its names and the settings alone
LEMMA TableStays ==
  ASSUME NEW k, TableHolds(k), UNCHANGED <<symbols, settings>>,
         \A a \in DOMAIN symbols : blocks'[symbols[a]] = blocks[symbols[a]]
  PROVE  TableHolds(k)'
<1>1. UNCHANGED Lines
  BY DEF Lines
<1>2. \A i : LocOf(i)' = LocOf(i) /\ NameOf(i)' = NameOf(i)
  BY <1>1 DEF LocOf, NameOf
<1> QED
  BY <1>2 DEF TableHolds

\* One more line in the table
LEMMA TableGrows ==
  ASSUME NEW k \in Nat, TableHolds(k), assignSymbol,
         lineBuff.loc = LocOf(k + 1), blocks[symbolName] = NameOf(k + 1)
  PROVE  \A m : m = k + 1 => TableHolds(m)'
<1> DEFINE m == k + 1
           l == lineBuff.loc
           Of(j, a) == {i \in 1 .. j : LocOf(i) = a}
<1>1. /\ m \in Nat /\ m \in 1 .. m
      /\ \A i : i \in 1 .. m <=> i \in 1 .. k \/ i = m
  OBVIOUS
<1>2. /\ UNCHANGED <<blocks, settings>>
      /\ symbols' = Overlay([a \in {l} |-> symbolName], symbols)
  BY DEF assignSymbol, Keep
<1>3. /\ DOMAIN symbols' = {l} \cup DOMAIN symbols
      /\ \A a \in DOMAIN symbols' : symbols'[a] = IF a = l THEN symbolName ELSE symbols[a]
  BY <1>2 DEF Overlay
<1>4. UNCHANGED Lines
  BY <1>2 DEF Lines
<1>5. \A i : LocOf(i)' = LocOf(i) /\ NameOf(i)' = NameOf(i)
  BY <1>4 DEF LocOf, NameOf
<1>6. l = LocOf(m)
  OBVIOUS
<1> HIDE DEF m, l
<1>7. DOMAIN symbols' = {LocOf(i) : i \in 1 .. m}
  BY <1>1, <1>3, <1>6 DEF TableHolds
<1>8. ASSUME NEW a \in DOMAIN symbols'
      PROVE  blocks[symbols'[a]] = NameOf(Max(Of(m, a)))
  <2>1. CASE a = l
    <3>1. m \in Of(m, a) /\ Of(m, a) \subseteq 1 .. m
      BY <1>1, <1>6, <2>1
    <3>2. Max(Of(m, a)) = m
      BY <1>1, <3>1, MaxIsLast
    <3>3. symbols'[a] = symbolName
      BY <1>3, <2>1
    <3> QED
      BY <3>2, <3>3 DEF m
  <2>2. CASE a # l
    <3>1. Of(m, a) = Of(k, a)
      BY <1>1, <1>6, <2>2
    <3>2. a \in DOMAIN symbols /\ symbols'[a] = symbols[a]
      BY <1>3, <2>2
    <3> QED
      BY <3>1, <3>2 DEF TableHolds
  <2> QED
    BY <2>1, <2>2
<1>9. TableHolds(m)'
  BY <1>2, <1>5, <1>7, <1>8 DEF TableHolds
<1> QED
  BY <1>9 DEF m

LEMMA SymbolStep ==
  ASSUME TypeInv, SymbolInv, ReadLine \/ mallocSymbol \/ freeOldSymbol \/ assignSymbol
  PROVE  SymbolInv'
<1> USE NotExited DEF SymbolInv, InSymbol, Keep
<1>1. UNCHANGED settings /\ UNCHANGED Lines /\ settings.symbolsFile \in DOMAIN SymbolFiles
  BY DEF ReadLine, mallocSymbol, freeOldSymbol, assignSymbol, TypeInv, Shape, Lines
<1>2. \A i : LocOf(i)' = LocOf(i) /\ NameOf(i)' = NameOf(i)
  BY <1>1 DEF LocOf, NameOf
<1>3. DOMAIN Lines = 1 .. Len(Lines) /\ Len(Lines) \in Nat /\ n \in Nat
  BY <1>1, FilesAssumption DEF IsSequence, Lines, TypeInv, Shape
<1>4. CASE ReadLine /\ n \in DOMAIN Lines
  <2>1. /\ at = "line" /\ at' = "malloc" /\ n' = n + 1 /\ UNCHANGED <<symbols, blocks>>
        /\ lineBuff'.loc = IF Lines[n].loc # NONE THEN Lines[n].loc ELSE lineBuff.loc
        /\ lineBuff'.name = IF Lines[n].name # NONE THEN Lines[n].name ELSE lineBuff.name
    BY <1>4 DEF ReadLine, heap
  <2>2. n = 1 => Lines[n].loc # NONE /\ Lines[n].name # NONE
    BY <1>1, <1>3, <1>4, LinesAssumption DEF Lines
  <2>3. n > 1 \/ n = 1
    BY <1>3, <1>4
  <2>4. n > 1 => lineBuff.loc = LocOf(n - 1) /\ lineBuff.name = NameOf(n - 1)
    BY <2>1
  <2>5. n' - 1 = n /\ n' - 2 = n - 1
    BY <1>3, <2>1
  <2>6. lineBuff'.loc = LocOf(n) /\ lineBuff'.name = NameOf(n)
    BY <1>1, <1>3, <1>4, <2>1, <2>2, <2>3, <2>4, LineAfterLine
  <2>7. TableHolds(n - 1)
    BY <2>1
  <2>8. \A k : k = n - 1 => TableHolds(k)'
    BY <1>1, <2>1, <2>7, TableStays
  <2> QED
    BY <1>2, <2>1, <2>5, <2>6, <2>8
<1>5. CASE ReadLine /\ n \notin DOMAIN Lines
  <2>1. at = "line" /\ at' = "hints" /\ UNCHANGED <<symbols, blocks>>
    BY <1>5 DEF ReadLine, heap
  <2>2. n \in 1 .. Len(Lines) + 1
    BY <2>1 DEF TypeInv, Shape
  <2>3. n - 1 = Len(Lines)
    BY <1>3, <1>5, <2>2
  <2>4. TableHolds(Len(Lines))
    BY <2>1, <2>3
  <2>5. \A k : k = Len(Lines) => TableHolds(k)'
    BY <1>1, <2>1, <2>4, TableStays
  <2> QED
    BY <1>1, <2>1, <2>5
<1>6. CASE mallocSymbol
  <2>1. /\ at = "malloc" /\ at' = "replace" /\ UNCHANGED <<symbols, n, lineBuff>>
        /\ symbolName' = Len(blocks) + 1 /\ blocks' = Append(blocks, lineBuff.name)
    BY <1>6 DEF mallocSymbol
  <2>2. blocks \in Seq(Names) /\ lineBuff.name \in Names
    BY <2>1 DEF TypeInv, Shape
  <2>3. blocks'[symbolName'] = lineBuff.name /\ \A b \in DOMAIN blocks : blocks'[b] = blocks[b]
    BY <2>1, <2>2
  <2>4. \A a \in DOMAIN symbols : symbols[a] \in DOMAIN blocks
    BY DEF TypeInv, StartTypeOK
  <2>5. \A k : k = n - 2 => TableHolds(k)'
    BY <1>1, <2>1, <2>3, <2>4, TableStays
  <2> QED
    BY <1>2, <2>1, <2>3, <2>5
<1>7. CASE freeOldSymbol
  <2>1. at = "replace" /\ at' = "assign" /\ UNCHANGED <<symbols, n, lineBuff, symbolName, blocks>>
    BY <1>7 DEF freeOldSymbol, scratch
  <2>2. \A k : k = n - 2 => TableHolds(k)'
    BY <1>1, <2>1, TableStays
  <2> QED
    BY <1>2, <2>1, <2>2
<1>8. CASE assignSymbol
  <2>1. at = "assign" /\ at' = "line" /\ UNCHANGED <<n, lineBuff, symbolName, blocks>>
    BY <1>8 DEF assignSymbol, scratch
  <2>2. n \in 2 .. Len(Lines) + 1
    BY <2>1 DEF TypeInv, Shape
  <2>3. n - 2 \in Nat /\ (n - 2) + 1 = n - 1
    BY <2>2
  <2>4. /\ TableHolds(n - 2) /\ lineBuff.loc = LocOf(n - 1) /\ lineBuff.name = NameOf(n - 1)
        /\ blocks[symbolName] = lineBuff.name
    BY <2>1
  <2>5. \A k : k = n - 1 => TableHolds(k)'
    BY <1>8, <2>3, <2>4, TableGrows
  <2> QED
    BY <1>2, <2>1, <2>4, <2>5
<1> QED
  BY <1>4, <1>5, <1>6, <1>7, <1>8

LEMMA SymbolInvHolds == StartSpec => []SymbolInv
<1> USE NotExited DEF SymbolInv, InSymbol
<1>1. StartInit => SymbolInv
  BY DEF StartInit
<1>2. ASSUME TypeInv, SymbolInv, StartNext, UNCHANGED <<symbols, blocks>>,
             ~ReadLine, ~mallocSymbol, ~freeOldSymbol, ~assignSymbol
      PROVE  SymbolInv'
  <2> USE DEF TypeInv, Shape
  <2>1. CASE ProgramsLoaded
    <3>1. symbols' = Empty /\ n' = 1 /\ UNCHANGED settings /\ at' \in {"line", "hints"}
          /\ (at' = "hints" => settings.symbolsFile \notin DOMAIN SymbolFiles)
      BY <1>2, <2>1 DEF ProgramsLoaded, Keep
    <3>2. DOMAIN symbols' = {} /\ 1 .. n' - 1 = {}
      BY <3>1 DEF Empty
    <3>3. TableHolds(n - 1)'
      BY <3>2 DEF TableHolds
    <3> QED
      BY <3>1, <3>3
  <2>2. CASE ~ProgramsLoaded
    <3> DEFINE Late == {"hints", "hint", "initgui", "mainloop"}
    <3>1. /\ at' \in {"args", "check", "ports", "programs"} =>
               at \in {"args", "check", "ports", "programs"}
          /\ at' \notin {"line"} \cup InSymbol
          /\ at' \in Late => at \in Late /\ UNCHANGED settings
      BY <1>2, <2>2 DEF StartNext, Main, Load, finish, Exited, getSettingsFromArgs, CheckSettings, initPorts,
         loadProgram, OpenHints, loadHint, HintsLoaded, initgui,
         mainloopReturns, BrokenPipe, Interrupt, destroygui, freeSettings, freeSymbolTable, startvars, exit, Keep
    <3>2. ASSUME at' \in Late, settings.symbolsFile' \in DOMAIN SymbolFiles
          PROVE  TableHolds(Len(Lines))'
      <4>1. TableHolds(Len(Lines)) /\ UNCHANGED Lines
        BY <1>2, <3>1, <3>2 DEF Lines
      <4> QED
        BY <1>2, <3>1, <3>2, <4>1, TableStays
    <3> QED
      BY <1>2, <3>1, <3>2
  <2> QED
    BY <2>1, <2>2
<1>3. StartNext => \/ ReadLine \/ mallocSymbol \/ freeOldSymbol \/ assignSymbol
                   \/ UNCHANGED <<symbols, blocks>>
  BY DEF StartNext, Main, Load, finish, Exited, getSettingsFromArgs, CheckSettings, initPorts,
     loadProgram, ProgramsLoaded, OpenHints, loadHint, HintsLoaded, initgui, mainloopReturns,
     BrokenPipe, Interrupt, destroygui, freeSettings, freeSymbolTable, startvars, heap
<1>4. ASSUME SymbolInv, UNCHANGED startvars PROVE SymbolInv'
  <2>1. UNCHANGED <<at, n, symbols, blocks, settings, lineBuff, symbolName, Lines>>
    BY <1>4 DEF startvars, heap, scratch, Lines
  <2>2. \A i : LocOf(i)' = LocOf(i) /\ NameOf(i)' = NameOf(i)
    BY <2>1 DEF LocOf, NameOf
  <2>3. \A k : TableHolds(k) => TableHolds(k)'
    BY <2>1, TableStays
  <2> QED
    BY <1>4, <2>1, <2>2, <2>3
<1>5. TypeInv /\ SymbolInv /\ [StartNext]_startvars => SymbolInv'
  BY <1>2, <1>3, <1>4, SymbolStep
<1> QED
  BY <1>1, <1>5, TypeInvHolds, PTL DEF StartSpec

\* When the main loop starts each address shows the name of the last line for
\* it, whatever lines are incomplete or replace one another, if every name fits in
\* symbolNameBuff (LinesAssumption; sim.c:79-95).
THEOREM SymbolsAreAsGiven == StartSpec => []SymbolsAsGiven
<1>1. ASSUME SymbolInv PROVE SymbolsAsGiven
  <2> SUFFICES ASSUME at = "mainloop", settings.symbolsFile \in DOMAIN SymbolFiles
               PROVE  /\ DOMAIN symbols = {LocOf(i) : i \in DOMAIN Lines}
                      /\ \A a \in DOMAIN symbols :
                           blocks[symbols[a]] = NameOf(Max({i \in DOMAIN Lines : LocOf(i) = a}))
    BY DEF SymbolsAsGiven
  <2>1. TableHolds(Len(Lines))
    BY <1>1 DEF SymbolInv
  <2>2. DOMAIN Lines = 1 .. Len(Lines)
    BY FilesAssumption DEF IsSequence, Lines
  <2> QED
    BY <2>1, <2>2 DEF TableHolds
<1> QED
  BY <1>1, SymbolInvHolds, PTL

\* The first k entries of a hints file, as far as they are complete
Whole(f, k) == {i \in 1 .. k : 3 * i + 2 <= Len(f)}
Address(f, i) == MkWord(f[3 * i], f[3 * i + 1])
GivenTo(f, k) ==
  [a \in {Address(f, i) : i \in Whole(f, k)} |-> f[3 * Max({i \in Whole(f, k) : Address(f, i) = a}) + 2]]

\* Past the end of the file every entry is the same one, still in the buffer.
HintsHold(f, k) ==
  \/ (k > 0 => 3 * k + 2 <= Len(f)) /\ hints = GivenTo(f, k)
  \/ k > 0 /\ 3 * k + 2 > Len(f) /\ hints = Overlay(Hint(hintBuff), GivenTo(f, k))

HintInv ==
  /\ at \in {"args", "check", "ports", "programs", "line", "malloc", "replace", "assign", "hints"} =>
       hints = Empty
  /\ at = "hint" /\ Len(HintsFile) >= 2 =>
       length = MkWord(HintsFile[1], HintsFile[2]) /\ HintsHold(HintsFile, n - 1)
  /\ at \in {"initgui", "mainloop"} /\ settings.hintsFile \in DOMAIN HintFiles /\ Len(HintsFile) >= 2 =>
       HintsHold(HintsFile, MkWord(HintsFile[1], HintsFile[2]))

\* A complete entry is laid over those before it, an incomplete one changes nothing.
LEMMA GivenNext ==
  ASSUME NEW f, NEW k \in Nat, k > 0
  PROVE  /\ 3 * k + 2 <= Len(f) =>
              GivenTo(f, k) = Overlay([a \in {Address(f, k)} |-> f[3 * k + 2]], GivenTo(f, k - 1))
         /\ ~(3 * k + 2 <= Len(f)) => GivenTo(f, k) = GivenTo(f, k - 1)
<1> DEFINE At(j, a) == {i \in Whole(f, j) : Address(f, i) = a}
           G(j) == {Address(f, i) : i \in Whole(f, j)}
<1>1. /\ k \in 1 .. k /\ k - 1 \in Nat
      /\ \A i : i \in 1 .. k <=> i \in 1 .. k - 1 \/ i = k
  OBVIOUS
<1>2. ASSUME ~(3 * k + 2 <= Len(f)) PROVE GivenTo(f, k) = GivenTo(f, k - 1)
  <2>1. Whole(f, k) = Whole(f, k - 1)
    BY <1>1, <1>2 DEF Whole
  <2> QED
    BY <2>1 DEF GivenTo
<1>3. ASSUME 3 * k + 2 <= Len(f)
      PROVE  GivenTo(f, k) = Overlay([a \in {Address(f, k)} |-> f[3 * k + 2]], GivenTo(f, k - 1))
  <2> DEFINE e == [a \in {Address(f, k)} |-> f[3 * k + 2]]
  <2>1. Whole(f, k) = Whole(f, k - 1) \cup {k}
    BY <1>1, <1>3 DEF Whole
  <2>2. G(k) = {Address(f, k)} \cup G(k - 1)
    BY <2>1
  <2>3. /\ DOMAIN GivenTo(f, k - 1) = G(k - 1)
        /\ \A a \in G(k - 1) : GivenTo(f, k - 1)[a] = f[3 * Max(At(k - 1, a)) + 2]
    BY DEF GivenTo
  <2>4. Overlay(e, GivenTo(f, k - 1)) =
          [a \in G(k) |-> IF a = Address(f, k) THEN f[3 * k + 2] ELSE GivenTo(f, k - 1)[a]]
    BY <2>2, <2>3 DEF Overlay
  <2>5. ASSUME NEW a \in G(k)
        PROVE  f[3 * Max(At(k, a)) + 2] =
                 IF a = Address(f, k) THEN f[3 * k + 2] ELSE GivenTo(f, k - 1)[a]
    <3>1. CASE a = Address(f, k)
      <4>1. k \in At(k, a) /\ At(k, a) \subseteq 1 .. k
        BY <2>1, <3>1 DEF Whole
      <4>2. Max(At(k, a)) = k
        BY <4>1, MaxIsLast
      <4> QED
        BY <3>1, <4>2
    <3>2. CASE a # Address(f, k)
      <4>1. At(k, a) = At(k - 1, a)
        BY <2>1, <3>2
      <4>2. a \in G(k - 1)
        BY <2>2, <3>2
      <4> QED
        BY <2>3, <3>2, <4>1, <4>2
    <3> QED
      BY <3>1, <3>2
  <2>6. GivenTo(f, k) = [a \in G(k) |-> f[3 * Max(At(k, a)) + 2]]
    BY DEF GivenTo
  <2> HIDE DEF G, At
  <2>7. [a \in G(k) |-> f[3 * Max(At(k, a)) + 2]] =
          [a \in G(k) |-> IF a = Address(f, k) THEN f[3 * k + 2] ELSE GivenTo(f, k - 1)[a]]
    BY <2>5
  <2> QED
    BY <2>4, <2>6, <2>7
<1> QED
  BY <1>2, <1>3

LEMMA LaidTwice ==
  ASSUME NEW f, NEW m
  PROVE  Overlay(f, Overlay(f, m)) = Overlay(f, m)
  BY DEF Overlay

LEMMA HintNext ==
  ASSUME TypeInv, loadHint, HintsHold(HintsFile, n - 1)
  PROVE  HintsHold(HintsFile, n - 1)'
<1> DEFINE f == HintsFile
           G(k) == GivenTo(f, k)
<1>1. /\ n \in Nat /\ n > 0 /\ n' = n + 1 /\ n' - 1 = n /\ f \in Seq(Byte) /\ UNCHANGED HintsFile
      /\ hintBuff \in [1 .. 3 -> Byte] /\ hints' = Overlay(Hint(hintBuff'), hints)
  BY FilesAssumption DEF TypeInv, StartTypeOK, Shape, loadHint, Keep, HintsFile
<1>2. /\ Len(f) \in Nat /\ DOMAIN f = 1 .. Len(f)
      /\ hintBuff' = [k \in 1 .. 3 |-> IF 3 * n + k - 1 \in DOMAIN f THEN f[3 * n + k - 1] ELSE hintBuff[k]]
  BY <1>1 DEF loadHint, Fread, EntryAt
<1> HIDE DEF f
<1>3. CASE 3 * n + 2 <= Len(f)
  <2>1. n - 1 > 0 => 3 * (n - 1) + 2 <= Len(f)
    BY <1>1, <1>2, <1>3
  <2>2. hints = G(n - 1)
    BY <2>1, <1>1, <1>2 DEF HintsHold, f
  <2>3. 3 * n \in DOMAIN f /\ 3 * n + 1 \in DOMAIN f /\ 3 * n + 2 \in DOMAIN f
    BY <1>1, <1>2, <1>3
  <2>4. /\ 3 * n + 1 - 1 = 3 * n /\ 3 * n + 2 - 1 = 3 * n + 1 /\ 3 * n + 3 - 1 = 3 * n + 2
    BY <1>1
  <2>5. hintBuff'[1] = f[3 * n] /\ hintBuff'[2] = f[3 * n + 1] /\ hintBuff'[3] = f[3 * n + 2]
    BY <1>2, <2>3, <2>4
  <2>6. Hint(hintBuff') = [a \in {Address(f, n)} |-> f[3 * n + 2]]
    BY <2>5 DEF Hint, Address
  <2>7. hints' = G(n)
    BY <1>1, <1>3, <2>2, <2>6, GivenNext
  <2> QED
    BY <1>1, <1>3, <2>7 DEF HintsHold, f
<1>4. CASE ~(3 * n + 2 <= Len(f))
  <2>1. G(n) = G(n - 1)
    BY <1>1, <1>4, GivenNext
  <2>2. hints' = Overlay(Hint(hintBuff'), G(n))
    <3>1. CASE hints = G(n - 1)
      BY <1>1, <2>1, <3>1
    <3>2. CASE hints # G(n - 1)
      <4>1. n - 1 > 0 /\ 3 * (n - 1) + 2 > Len(f) /\ hints = Overlay(Hint(hintBuff), G(n - 1))
        BY <3>2 DEF HintsHold, f
      <4>2. \A k \in 1 .. 3 : 3 * n + k - 1 \notin DOMAIN f
        BY <1>1, <1>2, <4>1
      <4>3. hintBuff' = hintBuff
        BY <1>1, <1>2, <4>2
      <4> QED
        BY <1>1, <2>1, <4>1, <4>3, LaidTwice
    <3> QED
      BY <3>1, <3>2
  <2>3. n > 0 /\ 3 * n + 2 > Len(f)
    BY <1>1, <1>2, <1>4
  <2> QED
    BY <1>1, <2>2, <2>3 DEF HintsHold, f
<1> QED
  BY <1>3, <1>4

LEMMA HintInvHolds == StartSpec => []HintInv
<1> USE NotExited DEF HintInv
<1>1. StartInit => HintInv
  BY DEF StartInit
<1>2. ASSUME TypeInv, HintInv, OpenHints PROVE HintInv'
  <2>1. CASE settings.hintsFile \in DOMAIN HintFiles
    <3> DEFINE f == HintsFile
    <3>1. /\ UNCHANGED <<hints, HintsFile>> /\ hints = Empty /\ at' = "hint" /\ n' = 1
          /\ f \in Seq(Byte)
      BY <1>2, <2>1, FilesAssumption DEF OpenHints, Keep, HintsFile
    <3>2. PICK u : length' = MkWord(Fread(<<u[1], u[2]>>, f, 1)[1], Fread(<<u[1], u[2]>>, f, 1)[2])
      BY <1>2, <2>1 DEF OpenHints
    <3>3. ASSUME Len(f) >= 2 PROVE length' = MkWord(f[1], f[2])
      <4>1. DOMAIN <<u[1], u[2]>> = 1 .. 2 /\ 1 + 1 - 1 \in DOMAIN f /\ 1 + 2 - 1 \in DOMAIN f
        BY <3>1, <3>3
      <4>2. Fread(<<u[1], u[2]>>, f, 1)[1] = f[1] /\ Fread(<<u[1], u[2]>>, f, 1)[2] = f[2]
        BY <4>1 DEF Fread
      <4> QED
        BY <3>2, <4>2
    <3>4. GivenTo(f, 0) = Empty
      <4>1. Whole(f, 0) = {}
        BY DEF Whole
      <4> QED
        BY <4>1 DEF GivenTo, Empty
    <3>5. HintsHold(HintsFile, n - 1)'
      BY <3>1, <3>4 DEF HintsHold
    <3> QED
      BY <3>1, <3>3, <3>5
  <2>2. CASE settings.hintsFile \notin DOMAIN HintFiles
    BY <1>2, <2>2 DEF OpenHints, Keep
  <2> QED
    BY <2>1, <2>2
<1>3. ASSUME TypeInv, HintInv, loadHint PROVE HintInv'
  <2>1. at = "hint" /\ at' = "hint" /\ UNCHANGED <<HintsFile, length>>
    BY <1>3 DEF loadHint, Keep, HintsFile
  <2> QED
    BY <1>3, <2>1, HintNext
<1>4. ASSUME TypeInv, HintInv, HintsLoaded PROVE HintInv'
  <2>1. at = "hint" /\ at' = "initgui" /\ UNCHANGED <<HintsFile, hints, hintBuff>>
    BY <1>4 DEF HintsLoaded, Keep, HintsFile, machine
  <2>2. n - 1 = length
    <3>1. length \in Nat /\ n \in 1 .. length + 1 /\ n > length
      BY <1>4, WordsCount DEF TypeInv, StartTypeOK, Shape, HintsLoaded
    <3> QED
      BY <3>1
  <2>3. \A k : HintsHold(HintsFile, k) => HintsHold(HintsFile, k)'
    BY <2>1 DEF HintsHold
  <2> QED
    BY <1>4, <2>1, <2>2, <2>3
<1>5. ASSUME HintInv, StartNext, ~OpenHints, ~loadHint, ~HintsLoaded PROVE HintInv'
  <2> DEFINE Early == {"args", "check", "ports", "programs", "line", "malloc", "replace", "assign", "hints"}
  <2>1. /\ UNCHANGED <<hints, hintBuff>>
        /\ at' \in Early => at \in Early
        /\ at' # "hint"
        /\ at' \in {"initgui", "mainloop"} =>
             \/ at = "initgui" /\ UNCHANGED settings
             \/ at' = at /\ UNCHANGED settings
    BY <1>5 DEF StartNext, Main, Load, finish, Exited, getSettingsFromArgs, CheckSettings, initPorts,
       loadProgram, ProgramsLoaded, ReadLine, mallocSymbol, freeOldSymbol, assignSymbol, initgui,
       mainloopReturns, BrokenPipe, Interrupt, destroygui, freeSettings, freeSymbolTable, startvars, machine, exit,
       Keep
  <2>2. \A k : UNCHANGED settings /\ HintsHold(HintsFile, k) => HintsHold(HintsFile, k)'
    BY <2>1 DEF HintsHold, HintsFile
  <2> QED
    BY <1>5, <2>1, <2>2 DEF HintsFile
<1>6. ASSUME HintInv, UNCHANGED startvars PROVE HintInv'
  <2>1. UNCHANGED <<at, n, length, hints, hintBuff, settings, HintsFile>>
    BY <1>6 DEF startvars, machine, scratch, HintsFile
  <2>2. \A k : HintsHold(HintsFile, k) => HintsHold(HintsFile, k)'
    BY <2>1 DEF HintsHold
  <2> QED
    BY <1>6, <2>1, <2>2
<1>7. TypeInv /\ HintInv /\ [StartNext]_startvars => HintInv'
  BY <1>2, <1>3, <1>4, <1>5, <1>6
<1> QED
  BY <1>1, <1>7, TypeInvHolds, PTL DEF StartSpec

\* When the main loop starts the hints are those of the file; one that ends
\* before its last entry spoils at most one address (sim.c:43-72).
THEOREM HintsAreAsGiven == StartSpec => []HintsAsGiven
<1>1. ASSUME TypeInv, HintInv PROVE HintsAsGiven
  <2> DEFINE f == HintFiles[settings.hintsFile]
             given == Given(f)
             k == MkWord(f[1], f[2])
             spoilt == {a \in DOMAIN hints \cup DOMAIN given :
                          \/ a \notin DOMAIN given \cap DOMAIN hints
                          \/ hints[a] # given[a]}
  <2> SUFFICES ASSUME at = "mainloop", settings.hintsFile \in DOMAIN HintFiles, Len(f) >= 2
               PROVE  Cardinality(spoilt) <= 1 /\ (Len(f) >= 2 + 3 * k => spoilt = {})
    BY DEF HintsAsGiven
  <2>1. HintsHold(f, k)
    BY <1>1 DEF HintInv, HintsFile
  <2>2. given = GivenTo(f, k)
    BY DEF Given, GivenTo, Whole, Address
  <2>3. f \in Seq(Byte) /\ k \in Nat /\ Len(f) \in Nat
    <3>1. f \in Seq(Byte)
      BY FilesAssumption
    <3>2. Len(f) \in Nat /\ 1 \in DOMAIN f /\ 2 \in DOMAIN f
      BY <3>1
    <3>3. f[1] \in Byte /\ f[2] \in Byte
      BY <3>1, <3>2, ElementOfSeq
    <3> QED
      BY <3>1, <3>2, <3>3, WordOfBytes, WordsCount
  <2> HIDE DEF f, given, k
  <2>4. CASE hints = given
    <3>1. spoilt = {}
      BY <2>4
    <3> QED
      BY <3>1, FS_EmptySet
  <2>5. CASE hints # given
    <3>1. 3 * k + 2 > Len(f) /\ hints = Overlay(Hint(hintBuff), given)
      BY <2>1, <2>2, <2>5 DEF HintsHold
    <3> DEFINE b == MkWord(hintBuff[1], hintBuff[2])
    <3>2. DOMAIN Hint(hintBuff) = {b}
      BY DEF Hint
    <3> HIDE DEF b
    <3>3. /\ DOMAIN hints = {b} \cup DOMAIN given
          /\ \A a \in DOMAIN given : a # b => hints[a] = given[a]
      BY <3>1, <3>2 DEF Overlay
    <3>4. spoilt \in SUBSET {b}
      BY <3>3
    <3>5. Cardinality(spoilt) <= 1
      <4>1. IsFiniteSet({b}) /\ Cardinality({b}) = 1
        BY FS_Singleton
      <4> HIDE DEF spoilt
      <4> QED
        BY <3>4, <4>1, FS_Subset
    <3>6. ~(Len(f) >= 2 + 3 * k)
      BY <2>3, <3>1
    <3> QED
      BY <3>5, <3>6
  <2> QED
    BY <2>4, <2>5
<1> QED
  BY <1>1, TypeInvHolds, HintInvHolds, PTL
=============================================================================
