------------------------------ MODULE AprDisk ------------------------------
(***************************************************************************)
(* The disks (diskio.c) behind ports 3 to 6 of ports.c, compiled with      *)
(* DISK_EMU.  A disk is a file "0.dsk" .. "8.dsk" in the current directory; *)
(* its sectors are read into and written from one page of the memory.      *)
(*                                                                         *)
(* A file is the sequence of its bytes, byte 0 first, as another process   *)
(* would read it.  A write is handed to the stream first and reaches the   *)
(* file when the stream is flushed, just after; the simulator may be killed *)
(* between the two, or anywhere, and be started again over the same files. *)
(* A file the simulator cannot open for update counts as absent, and the   *)
(* set of files does not change.  SECTORS_PER_TRACK, SECTOR_SIZE and the   *)
(* number of tracks are parameters; the code has 64, 256 and 32.           *)
(***************************************************************************)
EXTENDS Integers, Sequences

CONSTANTS
  TRACKS, SECTORS_PER_TRACK, SECTOR_SIZE,
  Images,     \* [disk ids that have a file -> the bytes of the file]
  Accs,       \* accumulator values a program writes to the ports
  Pages       \* what a program stores in the disk page

TRACK_SIZE == SECTORS_PER_TRACK * SECTOR_SIZE
NULL == -1            \* driveFile when no disk was ever opened; no sector
NO_DISK == 65535      \* diskID then

NoCommand == <<0, 0>> \* of a program that has not used the disks yet

\* Ids portIO passes on
DiskIds == 0 .. 8

ASSUME SizesAssumption ==
  TRACKS \in Nat \ {0} /\ SECTORS_PER_TRACK \in Nat \ {0} /\ SECTOR_SIZE \in Nat \ {0}
ASSUME ImagesAssumption ==
  DOMAIN Images \subseteq DiskIds /\ \A d \in DOMAIN Images : Images[d] \in Seq(0 .. 255)
ASSUME PagesAssumption == Pages \subseteq [1 .. SECTOR_SIZE -> 0 .. 255]
ASSUME AccsAssumption == Accs \subseteq 0 .. 255

VARIABLES
  files,       \* [disk ids -> contents], the directory
  driveFile,   \* the id whose file is open, or NULL
  diskID, track,
  page,        \* memory[DISK_PAGE_SECTOR * BLOCK_SIZE ..], a sector long
  status,      \* the accumulator after the last read of port 3
  unflushed,   \* the sector written to the stream and not flushed yet, or NULL
  command      \* what the program last wrote to ports 3 to 6: <<port, accumulator>>

drive == <<driveFile, diskID, track>>
diskvars == <<files, drive, page, status, unflushed, command>>

-----------------------------------------------------------------------------
(* The file system: fseek to offset o, then fgetc or fwrite *)

\* byte i after o, counted from 0; 0 in a hole
ByteAt(file, o, i) == IF o + i < Len(file) THEN file[o + i + 1] ELSE 0

fwrite(file, o, data) ==
  [j \in 1 .. (IF Len(file) > o + Len(data) THEN Len(file) ELSE o + Len(data)) |->
     IF j \in o + 1 .. o + Len(data) THEN data[j - o] ELSE ByteAt(file, 0, j - 1)]

-----------------------------------------------------------------------------
(* diskio.c *)

\* t & TRACK_ID_MASK, sector & SECTOR_ID_MASK: the masks are one less than the
\* numbers of tracks and sectors, which are powers of two.
TrackId(t) == t % TRACKS

Offset(sector) == (track * TRACK_SIZE) + ((sector % SECTORS_PER_TRACK) * SECTOR_SIZE)

\* Wrong variant: the id is noted before the file is known to open.
selectDiskFileNoted(id) ==
  /\ diskID' = id
  /\ IF id \in DOMAIN files THEN driveFile' = id /\ track' = 0
                            ELSE UNCHANGED <<driveFile, track>>

\* Wrong variant: the heads go to track 0 before the file is known to open.
selectDiskFileRewound(id) ==
  /\ track' = 0
  /\ IF id \in DOMAIN files THEN driveFile' = id /\ diskID' = id
                            ELSE UNCHANGED <<driveFile, diskID>>

selectDiskFile(id) ==
  IF id \in DOMAIN files THEN driveFile' = id /\ track' = 0 /\ diskID' = id
                         ELSE UNCHANGED drive

\* Wrong variant: no mask.
selectDiskTrackWide(t) == track' = t /\ UNCHANGED <<driveFile, diskID>>

selectDiskTrack(t) == track' = TrackId(t) /\ UNCHANGED <<driveFile, diskID>>

\* up to fflush
writeToSector(sector) ==
  IF driveFile = NULL THEN UNCHANGED unflushed ELSE unflushed' = sector

fflush ==
  /\ files' = [files EXCEPT ![driveFile] = fwrite(@, Offset(unflushed), page)]
  /\ unflushed' = NULL

\* fgetc up to the end of the file: the rest of the page is left as it was
readFromSector(sector) ==
  IF driveFile = NULL THEN UNCHANGED page
  ELSE page' = [i \in 1 .. SECTOR_SIZE |->
                  IF Offset(sector) + i <= Len(files[driveFile])
                  THEN files[driveFile][Offset(sector) + i] ELSE page[i]]

getDiskStatus == IF driveFile # NULL THEN diskID ELSE NO_DISK

-----------------------------------------------------------------------------
(* The ports, with the accumulator a.  writeToSector returns to the program *)
(* only when it has flushed.                                               *)

\* The program runs PRTout: no write is under way.
PRTout(port, a) == unflushed = NULL /\ command' = <<port, a>>

\* PRTin 3; the accumulator is a byte
ReadStatus ==
  /\ unflushed = NULL /\ status' = getDiskStatus % 256
  /\ UNCHANGED <<files, drive, page, unflushed, command>>

SelectDisk(a) ==
  /\ PRTout(3, a)
  /\ IF a \in DiskIds THEN selectDiskFile(a) ELSE UNCHANGED drive
  /\ UNCHANGED <<files, page, status, unflushed>>

SelectTrack(a) ==
  /\ PRTout(4, a) /\ selectDiskTrack(a)
  /\ UNCHANGED <<files, page, status, unflushed>>

ReadSector(a) ==
  /\ PRTout(5, a) /\ readFromSector(a)
  /\ UNCHANGED <<files, drive, status, unflushed>>

\* In two parts
WriteSector(a) ==
  /\ PRTout(6, a) /\ writeToSector(a)
  /\ UNCHANGED <<files, drive, page, status>>

FlushSector == unflushed # NULL /\ fflush /\ UNCHANGED <<drive, page, status, command>>

\* ST, STI or STK, until the program has the page it wants
StorePage ==
  /\ unflushed = NULL /\ page' \in Pages
  /\ UNCHANGED <<files, drive, status, unflushed, command>>

-----------------------------------------------------------------------------
(* The simulator starts, with resetMachine.  Whatever ends it, the quitting *)
(* of the user or SIGKILL, takes nothing from the files but the stream with *)
(* it; exit() flushes the stream, which is FlushSector and then Restart.    *)

Zeros == [i \in 1 .. SECTOR_SIZE |-> 0]

Restart ==
  /\ driveFile' = NULL /\ diskID' = NO_DISK /\ track' = 0
  /\ page' = Zeros /\ status' = 0 /\ unflushed' = NULL /\ command' = NoCommand
  /\ UNCHANGED files

DiskInit ==
  /\ files = Images
  /\ driveFile = NULL /\ diskID = NO_DISK /\ track = 0
  /\ page = Zeros /\ status = 0 /\ unflushed = NULL /\ command = NoCommand

DiskNext ==
  \/ \E a \in Accs : SelectDisk(a) \/ SelectTrack(a) \/ ReadSector(a) \/ WriteSector(a)
  \/ FlushSector \/ ReadStatus \/ StorePage \/ Restart

DiskSpec == DiskInit /\ [][DiskNext]_diskvars

-----------------------------------------------------------------------------
(* Properties *)

DiskTypeOK ==
  /\ DOMAIN files = DOMAIN Images /\ \A d \in DOMAIN files : files[d] \in Seq(0 .. 255)
  /\ driveFile \in DOMAIN files \cup {NULL}
  /\ diskID = IF driveFile = NULL THEN NO_DISK ELSE driveFile
  /\ track \in 0 .. TRACKS - 1
  /\ page \in [1 .. SECTOR_SIZE -> 0 .. 255]
  /\ status \in DOMAIN files \cup {255, 0}
  /\ unflushed \in Accs \cup {NULL} /\ (unflushed # NULL => driveFile # NULL)
  /\ command \in {NoCommand} \cup ((3 .. 6) \X Accs)

\* A disk file only grows, never beyond the last sector of the last track by a
\* write, and what lies behind that sector is never touched (diskio.c:9, 48).
ImageKept ==
  [][\A d \in DOMAIN files :
       LET size == TRACKS * TRACK_SIZE
       IN  /\ Len(files[d]) <= Len(files'[d])
           /\ Len(files'[d]) > size => Len(files'[d]) = Len(files[d])
           /\ \A j \in size + 1 .. Len(files'[d]) : files'[d][j] = files[d][j]]_diskvars

\* The bytes of a sector that the file is long enough to hold
SectorBytes(file, t, s) ==
  LET start == t * TRACK_SIZE + s * SECTOR_SIZE
  IN  SubSeq(file, start + 1, IF start + SECTOR_SIZE < Len(file) THEN start + SECTOR_SIZE
                                                               ELSE Len(file))

Store == INSTANCE SectorStore WITH
  Disks <- DOMAIN Images, Tracks <- TRACKS, Sectors <- SECTORS_PER_TRACK,
  SectorSize <- SECTOR_SIZE, Buffers <- Pages,
  table <- [d \in DOMAIN files |->
              [x \in (0 .. TRACKS - 1) \X (0 .. SECTORS_PER_TRACK - 1) |->
                 SectorBytes(files[d], x[1], x[2])]],
  selected <- IF driveFile = NULL THEN 255 ELSE driveFile,
  onTrack <- track, buffer <- page, told <- status,
  asked <- unflushed

\* A program that only uses the ports sees tables of sectors, each command doing
\* what its port and accumulator say: a write changes the sector it names and
\* nothing else that was written, a read finds what was last written there, a
\* disk that does not exist leaves the selection and the track alone, and the
\* status port names the disk that reads and writes go to.  A sector is there
\* whole before the program goes on, and is found after the simulator was ended,
\* by a crash too, and started again (diskio.c:15-53, ports.c:139-163).
ImplementsStore == Store!StoreSpec
=============================================================================
