--------------------------- MODULE AprDiskProofs ---------------------------
(***************************************************************************)
(* Theorems about the disk driver, for every number of tracks, sectors and *)
(* bytes in a sector, every set of disks and every program.                *)
(***************************************************************************)
EXTENDS AprDisk, SequenceTheorems, TLAPS

LEMMA Monotone ==
  ASSUME NEW a \in Nat, NEW b \in Nat, NEW k \in Nat, a <= b
  PROVE  a * k <= b * k
  OBVIOUS

LEMMA ProductNat ==
  ASSUME NEW a \in Nat, NEW b \in Nat
  PROVE  a * b \in Nat
  OBVIOUS

\* A number reduced by one of the masks
LEMMA Masked ==
  ASSUME NEW a \in Nat, NEW n \in Nat \ {0}
  PROVE  a % n \in 0 .. n - 1
  OBVIOUS

\* The sector that an accumulator names lies inside the disk.
LEMMA OffsetInDisk ==
  ASSUME track \in 0 .. TRACKS - 1, NEW sector \in Nat
  PROVE  /\ Offset(sector) \in Nat
         /\ TRACKS * TRACK_SIZE \in Nat
         /\ Offset(sector) + SECTOR_SIZE <= TRACKS * TRACK_SIZE
<1> DEFINE s == sector % SECTORS_PER_TRACK
<1>1. s \in Nat /\ s + 1 <= SECTORS_PER_TRACK
  BY Masked, SizesAssumption
<1>2. TRACK_SIZE \in Nat /\ TRACK_SIZE = SECTORS_PER_TRACK * SECTOR_SIZE
  BY ProductNat, SizesAssumption DEF TRACK_SIZE
<1> HIDE DEF s
<1>3. (s + 1) * SECTOR_SIZE <= TRACK_SIZE
  BY <1>1, <1>2, Monotone, SizesAssumption
<1>4. (track + 1) * TRACK_SIZE <= TRACKS * TRACK_SIZE
  <2>1. track + 1 \in Nat /\ track + 1 <= TRACKS /\ TRACKS \in Nat
    BY SizesAssumption
  <2> QED
    BY <1>2, <2>1, Monotone
<1>5. /\ s * SECTOR_SIZE \in Nat /\ track * TRACK_SIZE \in Nat
      /\ TRACKS * TRACK_SIZE \in Nat
  BY <1>1, <1>2, ProductNat, SizesAssumption
<1>6. /\ (s + 1) * SECTOR_SIZE = s * SECTOR_SIZE + SECTOR_SIZE
      /\ (track + 1) * TRACK_SIZE = track * TRACK_SIZE + TRACK_SIZE
  BY <1>1, <1>2, SizesAssumption
<1>7. Offset(sector) = track * TRACK_SIZE + s * SECTOR_SIZE
  BY DEF Offset, s
<1> DEFINE p == track * TRACK_SIZE
           q == s * SECTOR_SIZE
           size == TRACKS * TRACK_SIZE
<1>8. p \in Nat /\ q \in Nat /\ size \in Nat /\ SECTOR_SIZE \in Nat
  BY <1>5, SizesAssumption
<1>9. q + SECTOR_SIZE <= TRACK_SIZE /\ p + TRACK_SIZE <= size /\ Offset(sector) = p + q
  BY <1>3, <1>4, <1>6, <1>7
<1> HIDE DEF p, q
<1>10. Offset(sector) \in Nat /\ Offset(sector) + SECTOR_SIZE <= size
  <2> HIDE DEF size
  <2> QED
    BY <1>2, <1>8, <1>9
<1> QED
  BY <1>8, <1>10

\* A write makes a file no shorter, reaches no further than its data, and leaves
\* the rest of the file alone.
LEMMA Written ==
  ASSUME NEW file \in Seq(0 .. 255), NEW o \in Nat, NEW data \in Seq(0 .. 255)
  PROVE  LET new == fwrite(file, o, data)
         IN  /\ new \in Seq(0 .. 255)
             /\ Len(file) <= Len(new)
             /\ Len(new) > o + Len(data) => Len(new) = Len(file)
             /\ \A j \in 1 .. Len(new) : j > o + Len(data) => new[j] = file[j]
<1> DEFINE n == IF Len(file) > o + Len(data) THEN Len(file) ELSE o + Len(data)
           new == fwrite(file, o, data)
<1>1. n \in Nat /\ Len(file) <= n /\ (n > o + Len(data) => n = Len(file))
  OBVIOUS
<1>2. new = [j \in 1 .. n |-> IF j \in o + 1 .. o + Len(data) THEN data[j - o]
                                                       ELSE ByteAt(file, 0, j - 1)]
  BY DEF fwrite
<1> HIDE DEF n
<1>0. ASSUME NEW text \in Seq(0 .. 255), NEW i \in 1 .. Len(text) PROVE text[i] \in 0 .. 255
  BY <1>0, ElementOfSeq
<1>3. ASSUME NEW j \in 1 .. n PROVE ByteAt(file, 0, j - 1) \in 0 .. 255
  <2>1. CASE j <= Len(file)
    <3>1. j \in 1 .. Len(file) /\ 0 + (j - 1) < Len(file) /\ 0 + (j - 1) + 1 = j
      BY <1>1, <2>1
    <3> QED
      BY <1>0, <3>1 DEF ByteAt
  <2>2. CASE j > Len(file)
    <3>1. ~(0 + (j - 1) < Len(file)) /\ 0 \in 0 .. 255
      BY <1>1, <2>2
    <3> QED
      BY <3>1 DEF ByteAt
  <2> QED
    BY <1>1, <2>1, <2>2
<1>4. ASSUME NEW j \in 1 .. n, j \in o + 1 .. o + Len(data) PROVE data[j - o] \in 0 .. 255
  <2>1. j - o \in 1 .. Len(data)
    BY <1>1, <1>4
  <2> QED
    BY <1>0, <2>1
<1>5. \A j \in 1 .. n : new[j] \in 0 .. 255
  BY <1>2, <1>3, <1>4
<1>6. new \in [1 .. n -> 0 .. 255]
  BY <1>2, <1>5
<1>7. new \in Seq(0 .. 255) /\ Len(new) = n
  BY <1>1, <1>6
<1>8. \A j \in 1 .. n : j > o + Len(data) => new[j] = file[j]
  <2> SUFFICES ASSUME NEW j \in 1 .. n, j > o + Len(data)
               PROVE  new[j] = file[j]
    OBVIOUS
  <2>1. new[j] = ByteAt(file, 0, j - 1)
    BY <1>1, <1>2
  <2>2. n = Len(file)
    BY <1>1
  <2> QED
    BY <1>1, <2>1, <2>2 DEF ByteAt
<1> HIDE DEF new
<1> QED
  BY <1>1, <1>7, <1>8 DEF new

-----------------------------------------------------------------------------
(* The types of the driver *)

LEMMA Remainders == 65535 % 256 = 255 /\ \A d \in 0 .. 8 : d % 256 = d
  OBVIOUS

\* The page is a sector of bytes.
LEMMA PageSeq ==
  ASSUME page \in [1 .. SECTOR_SIZE -> 0 .. 255]
  PROVE  page \in Seq(0 .. 255) /\ Len(page) = SECTOR_SIZE
<1>1. SECTOR_SIZE \in Nat
  BY SizesAssumption
<1> QED
  BY <1>1

LEMMA AccNat == ASSUME NEW a \in Accs PROVE a \in Nat
  BY AccsAssumption

LEMMA NotNull == ASSUME DiskTypeOK, NEW d \in DOMAIN files PROVE d \in 0 .. 8 /\ d # NULL
<1>1. d \in DiskIds
  BY ImagesAssumption DEF DiskTypeOK
<1> QED
  BY <1>1 DEF DiskIds, NULL

\* What a flush leaves of the files
LEMMA FlushKeeps ==
  ASSUME DiskTypeOK, FlushSector
  PROVE  /\ DOMAIN files' = DOMAIN files
         /\ \A d \in DOMAIN files :
              LET size == TRACKS * TRACK_SIZE
              IN  /\ files'[d] \in Seq(0 .. 255)
                  /\ Len(files[d]) <= Len(files'[d])
                  /\ Len(files'[d]) > size => Len(files'[d]) = Len(files[d])
                  /\ \A j \in size + 1 .. Len(files'[d]) : files'[d][j] = files[d][j]
<1> DEFINE size == TRACKS * TRACK_SIZE
<1> DEFINE a == unflushed
<1>0. a \in Accs /\ driveFile # NULL
  BY DEF FlushSector, DiskTypeOK
<1>1. /\ a \in Nat /\ page \in Seq(0 .. 255) /\ Len(page) = SECTOR_SIZE
      /\ \A d \in DOMAIN files : files[d] \in Seq(0 .. 255)
  <2>1. page \in [1 .. SECTOR_SIZE -> 0 .. 255] /\ \A d \in DOMAIN files : files[d] \in Seq(0 .. 255)
    BY DEF DiskTypeOK
  <2> QED
    BY <1>0, <2>1, AccNat, PageSeq
<1>2. Offset(a) \in Nat /\ size \in Nat /\ Offset(a) + SECTOR_SIZE <= size
  BY <1>1, OffsetInDisk DEF DiskTypeOK
<1>3. files' = [files EXCEPT ![driveFile] = fwrite(files[driveFile], Offset(a), page)]
  BY DEF FlushSector, fflush
<1>4. driveFile \in DOMAIN files
  BY <1>0 DEF DiskTypeOK
<1> HIDE DEF a
<1> DEFINE new == fwrite(files[driveFile], Offset(a), page)
<1>5. /\ new \in Seq(0 .. 255)
      /\ Len(files[driveFile]) <= Len(new)
      /\ Len(new) > Offset(a) + SECTOR_SIZE => Len(new) = Len(files[driveFile])
      /\ \A j \in 1 .. Len(new) : j > Offset(a) + SECTOR_SIZE => new[j] = files[driveFile][j]
  BY <1>1, <1>2, <1>4, Written
<1> HIDE DEF new
<1>6. DOMAIN files' = DOMAIN files
  BY <1>3
<1>7. ASSUME NEW d \in DOMAIN files
      PROVE  /\ files'[d] \in Seq(0 .. 255)
             /\ Len(files[d]) <= Len(files'[d])
             /\ Len(files'[d]) > size => Len(files'[d]) = Len(files[d])
             /\ \A j \in size + 1 .. Len(files'[d]) : files'[d][j] = files[d][j]
  <2>1. CASE d # driveFile
    <3>1. files'[d] = files[d]
      BY <1>3, <2>1
    <3> QED
      BY <1>1, <3>1
  <2>2. CASE d = driveFile
    <3>1. files'[d] = new
      BY <1>3, <1>4, <2>2 DEF new
    <3>2. Len(new) \in Nat /\ SECTOR_SIZE \in Nat
      BY <1>5, SizesAssumption
    <3>3. Len(new) > size => Len(new) = Len(files[d])
      <4> HIDE DEF size
      <4> QED
        BY <1>2, <1>5, <2>2, <3>2
    <3>4. ASSUME NEW j \in size + 1 .. Len(new) PROVE new[j] = files[d][j]
      <4> HIDE DEF size
      <4>1. j \in 1 .. Len(new) /\ j > Offset(a) + SECTOR_SIZE
        BY <1>2, <3>2, <3>4
      <4> QED
        BY <1>5, <2>2, <4>1
    <3> HIDE DEF size
    <3> QED
      BY <1>5, <2>2, <3>1, <3>3, <3>4
  <2> QED
    BY <2>1, <2>2
<1> QED
  BY <1>6, <1>7

\* A read fills the page with bytes of the file, as far as there are any.
LEMMA ReadKeeps ==
  ASSUME DiskTypeOK, NEW a \in Accs, ReadSector(a)
  PROVE  page' \in [1 .. SECTOR_SIZE -> 0 .. 255]
<1>1. CASE driveFile = NULL
  BY <1>1 DEF ReadSector, readFromSector, DiskTypeOK
<1>2. CASE driveFile # NULL
  <2> DEFINE file == files[driveFile]
  <2>1. file \in Seq(0 .. 255)
    BY <1>2 DEF DiskTypeOK
  <2>2. Offset(a) \in Nat /\ SECTOR_SIZE \in Nat
    <3>1. track \in 0 .. TRACKS - 1 /\ a \in Nat
      BY AccNat DEF DiskTypeOK
    <3> QED
      BY <3>1, OffsetInDisk, SizesAssumption
  <2>3. page' = [i \in 1 .. SECTOR_SIZE |-> IF Offset(a) + i <= Len(file)
                                           THEN file[Offset(a) + i] ELSE page[i]]
    BY <1>2 DEF ReadSector, readFromSector
  <2> HIDE DEF file
  <2>4. ASSUME NEW i \in 1 .. SECTOR_SIZE, Offset(a) + i <= Len(file)
        PROVE  file[Offset(a) + i] \in 0 .. 255
    <3>1. Offset(a) + i \in 1 .. Len(file)
      BY <2>1, <2>2, <2>4
    <3> QED
      BY <2>1, <3>1, ElementOfSeq
  <2>5. \A i \in 1 .. SECTOR_SIZE : page[i] \in 0 .. 255
    BY DEF DiskTypeOK
  <2> QED
    BY <2>3, <2>4, <2>5
<1> QED
  BY <1>1, <1>2

LEMMA TypesStep == ASSUME DiskTypeOK, [DiskNext]_diskvars PROVE DiskTypeOK'
<1> USE DEF drive
<1>0. DiskTypeOK
  OBVIOUS
<1>10. ASSUME NEW a \in Accs, NEW port \in 3 .. 6
       PROVE  <<port, a>> \in {NoCommand} \cup ((3 .. 6) \X Accs)
  OBVIOUS
<1>11. 3 \in 3 .. 6 /\ 4 \in 3 .. 6 /\ 5 \in 3 .. 6 /\ 6 \in 3 .. 6
  OBVIOUS
<1> DEFINE Commands == {NoCommand} \cup ((3 .. 6) \X Accs)
<1>12. \A a \in Accs, port \in 3 .. 6 : PRTout(port, a) => command' \in Commands
  BY <1>10 DEF PRTout
<1> HIDE DEF Commands
<1>1. ASSUME NEW a \in Accs, SelectDisk(a) PROVE DiskTypeOK'
  <2>1. 0 \in 0 .. TRACKS - 1
    BY SizesAssumption
  <2>2. \A d \in DOMAIN files : d # NULL
    BY <1>0, NotNull
  <2> QED
    BY <1>1, <1>11, <1>12, <2>1, <2>2 DEF SelectDisk, selectDiskFile, DiskTypeOK, Commands
<1>2. ASSUME NEW a \in Accs, SelectTrack(a) PROVE DiskTypeOK'
  <2>1. track' \in 0 .. TRACKS - 1
    BY <1>2, Masked, AccsAssumption, SizesAssumption DEF SelectTrack, selectDiskTrack, TrackId
  <2> QED
    BY <1>2, <1>11, <1>12, <2>1 DEF SelectTrack, selectDiskTrack, DiskTypeOK, Commands
<1>3. ASSUME NEW a \in Accs, ReadSector(a) PROVE DiskTypeOK'
  BY <1>3, <1>11, <1>12, ReadKeeps DEF ReadSector, DiskTypeOK, Commands
<1>4. ASSUME NEW a \in Accs, WriteSector(a) PROVE DiskTypeOK'
  BY <1>4, <1>11, <1>12 DEF WriteSector, writeToSector, DiskTypeOK, Commands, PRTout
<1>8. CASE FlushSector
  <2>1. DOMAIN files' = DOMAIN files /\ \A d \in DOMAIN files' : files'[d] \in Seq(0 .. 255)
    BY <1>8, FlushKeeps
  <2> QED
    BY <1>8, <2>1 DEF FlushSector, fflush, DiskTypeOK
<1>9. CASE Restart
  <2>1. 0 \in 0 .. TRACKS - 1 /\ Zeros \in [1 .. SECTOR_SIZE -> 0 .. 255]
    BY SizesAssumption DEF Zeros
  <2> QED
    BY <1>9, <2>1 DEF Restart, DiskTypeOK
<1>5. CASE ReadStatus
  <2>1. status' \in DOMAIN files \cup {255, 0}
    <3>1. CASE driveFile = NULL
      BY <1>5, <3>1, Remainders DEF ReadStatus, getDiskStatus, NO_DISK
    <3>2. CASE driveFile # NULL
      <4>1. driveFile \in DOMAIN files /\ diskID = driveFile
        BY <3>2 DEF DiskTypeOK
      <4>2. driveFile % 256 = driveFile
        BY <4>1, NotNull, Remainders
      <4> QED
        BY <1>5, <3>2, <4>1, <4>2 DEF ReadStatus, getDiskStatus
    <3> QED
      BY <3>1, <3>2
  <2> QED
    BY <1>5, <2>1 DEF ReadStatus, DiskTypeOK
<1>6. CASE StorePage
  BY <1>6, PagesAssumption DEF StorePage, DiskTypeOK
<1>7. CASE UNCHANGED diskvars
  BY <1>7 DEF diskvars, DiskTypeOK
<1> QED
  BY <1>1, <1>2, <1>3, <1>4, <1>5, <1>6, <1>7, <1>8, <1>9 DEF DiskNext

\* The driver's variables agree with each other and with the files: the id that
\* the status port tells is that of the file that is read and written, the track
\* is on the disk (diskio.c:5-41, 73-79).
THEOREM DiskTypeCorrect == DiskSpec => []DiskTypeOK
<1>1. DiskInit => DiskTypeOK
  <2>1. 0 \in 0 .. TRACKS - 1 /\ Zeros \in [1 .. SECTOR_SIZE -> 0 .. 255]
    BY SizesAssumption DEF Zeros
  <2> QED
    BY <2>1, ImagesAssumption DEF DiskInit, DiskTypeOK
<1> QED
  BY <1>1, TypesStep, PTL DEF DiskSpec

\* No program can shorten a disk file or reach beyond its last sector, whatever
\* it writes to the ports (diskio.c:9, 48).
THEOREM ImagesKept == DiskSpec => ImageKept
<1> DEFINE Kept ==
      \A d \in DOMAIN files :
        LET size == TRACKS * TRACK_SIZE
        IN  /\ Len(files[d]) <= Len(files'[d])
            /\ Len(files'[d]) > size => Len(files'[d]) = Len(files[d])
            /\ \A j \in size + 1 .. Len(files'[d]) : files'[d][j] = files[d][j]
<1>1. ASSUME DiskTypeOK, [DiskNext]_diskvars PROVE [Kept]_diskvars
  <2>1. ASSUME FlushSector PROVE Kept
    BY <1>1, <2>1, FlushKeeps
  <2>2. ASSUME UNCHANGED files PROVE Kept
    <3>1. ASSUME NEW d \in DOMAIN files PROVE Len(files[d]) <= Len(files[d])
      <4>1. Len(files[d]) \in Nat
        BY <1>1, LenProperties DEF DiskTypeOK
      <4> QED
        BY <4>1
    <3> QED
      BY <2>2, <3>1
  <2>3. CASE DiskNext
    <3>1. UNCHANGED files \/ FlushSector
      BY <2>3 DEF DiskNext, SelectDisk, SelectTrack, ReadSector, WriteSector, ReadStatus,
                  StorePage, Restart
    <3> QED
      BY <2>1, <2>2, <3>1
  <2> QED
    BY <1>1, <2>3
<1> QED
  BY <1>1, DiskTypeCorrect, PTL DEF DiskSpec, ImageKept
-----------------------------------------------------------------------------
(* The sectors of a file *)

\* The bytes of the sector that begins at place p, as far as the file goes
Bytes(file, p) ==
  SubSeq(file, p + 1, IF p + SECTOR_SIZE < Len(file) THEN p + SECTOR_SIZE ELSE Len(file))

\* How many they are
Held(file, p) ==
  IF p + SECTOR_SIZE <= Len(file) THEN SECTOR_SIZE
  ELSE IF p <= Len(file) THEN Len(file) - p ELSE 0

Place(x) == x[1] * TRACK_SIZE + x[2] * SECTOR_SIZE

LEMMA BytesAre ==
  ASSUME NEW file \in Seq(0 .. 255), NEW p \in Nat
  PROVE  /\ Held(file, p) \in 0 .. SECTOR_SIZE
         /\ Bytes(file, p) = [i \in 1 .. Held(file, p) |-> file[p + i]]
         /\ Bytes(file, p) \in Seq(0 .. 255)
         /\ Len(Bytes(file, p)) = Held(file, p)
         /\ \A i \in 1 .. SECTOR_SIZE : i <= Held(file, p) <=> p + i <= Len(file)
<1> DEFINE k == Held(file, p)
           e == IF p + SECTOR_SIZE < Len(file) THEN p + SECTOR_SIZE ELSE Len(file)
<1>1. SECTOR_SIZE \in Nat /\ Len(file) \in Nat
  BY SizesAssumption, LenProperties
<1>2. k \in 0 .. SECTOR_SIZE /\ e \in Nat
  BY <1>1 DEF Held
<1>3. \A i \in 1 .. SECTOR_SIZE : i <= k <=> p + i <= Len(file)
  BY <1>1 DEF Held
<1>4. \A i \in 1 .. k : p + i \in 1 .. Len(file)
  <2> SUFFICES ASSUME NEW i \in 1 .. k PROVE p + i \in 1 .. Len(file)
    OBVIOUS
  <2>1. i \in 1 .. SECTOR_SIZE /\ i <= k
    BY <1>1, <1>2
  <2> QED
    BY <1>1, <1>3, <2>1
<1>5. \A i \in p + 1 .. e : file[i] \in 0 .. 255
  <2>1. \A i \in p + 1 .. e : i \in 1 .. Len(file)
    BY <1>1
  <2> QED
    BY <2>1, ElementOfSeq
<1>6. /\ SubSeq(file, p + 1, e) \in Seq(0 .. 255)
      /\ Len(SubSeq(file, p + 1, e)) = IF p + 1 <= e THEN e - (p + 1) + 1 ELSE 0
      /\ \A i \in 1 .. e - (p + 1) + 1 : SubSeq(file, p + 1, e)[i] = file[p + 1 + i - 1]
  <2> DEFINE m == p + 1
  <2>1. m \in Int /\ e \in Int /\ \A i \in m .. e : file[i] \in 0 .. 255
    BY <1>2, <1>5
  <2> HIDE DEF e, m
  <2>2. /\ SubSeq(file, m, e) \in Seq(0 .. 255)
        /\ Len(SubSeq(file, m, e)) = IF m <= e THEN e - m + 1 ELSE 0
        /\ \A i \in 1 .. e - m + 1 : SubSeq(file, m, e)[i] = file[m + i - 1]
    BY <2>1, SMT
  <2> QED
    BY <2>2 DEF m
<1>7. (IF p + 1 <= e THEN e - (p + 1) + 1 ELSE 0) = k
  BY <1>1 DEF Held
<1>8. \A i \in 1 .. k : i \in 1 .. e - (p + 1) + 1 /\ p + 1 + i - 1 = p + i
  BY <1>1, <1>2, <1>7
<1>9. Bytes(file, p) = SubSeq(file, p + 1, e)
  BY DEF Bytes
<1> HIDE DEF k, e
<1>10. /\ Bytes(file, p) \in Seq(0 .. 255) /\ Len(Bytes(file, p)) = k
       /\ \A i \in 1 .. k : Bytes(file, p)[i] = file[p + i]
  BY <1>6, <1>7, <1>8, <1>9
<1> DEFINE f == [i \in 1 .. k |-> file[p + i]]
<1>11. f \in Seq(0 .. 255) /\ Len(f) = k /\ \A i \in 1 .. k : f[i] = file[p + i]
  <2>1. \A i \in 1 .. k : file[p + i] \in 0 .. 255
    BY <1>4, ElementOfSeq
  <2>2. k \in Nat
    BY <1>1, <1>2
  <2> QED
    BY <2>1, <2>2
<1> HIDE DEF f
<1>12. Bytes(file, p) = f
  BY <1>10, <1>11, SeqEqual
<1> QED
  BY <1>2, <1>3, <1>10, <1>12 DEF k, f

\* The bytes after a write
LEMMA BytesWritten ==
  ASSUME NEW file \in Seq(0 .. 255), NEW o \in Nat, NEW data \in [1 .. SECTOR_SIZE -> 0 .. 255]
  PROVE  LET new == fwrite(file, o, data)
         IN  /\ new \in Seq(0 .. 255)
             /\ Len(new) = IF Len(file) > o + SECTOR_SIZE THEN Len(file) ELSE o + SECTOR_SIZE
             /\ \A j \in 1 .. Len(new) :
                  new[j] = IF j \in o + 1 .. o + SECTOR_SIZE THEN data[j - o]
                           ELSE IF j <= Len(file) THEN file[j] ELSE 0
<1>1. SECTOR_SIZE \in Nat /\ Len(file) \in Nat
  BY SizesAssumption, LenProperties
<1>2. data \in Seq(0 .. 255) /\ Len(data) = SECTOR_SIZE
  BY <1>1
<1> DEFINE n == IF Len(file) > o + SECTOR_SIZE THEN Len(file) ELSE o + SECTOR_SIZE
           new == fwrite(file, o, data)
<1>3. n \in Nat
  BY <1>1
<1>4. new = [j \in 1 .. n |-> IF j \in o + 1 .. o + SECTOR_SIZE THEN data[j - o]
                              ELSE ByteAt(file, 0, j - 1)]
  BY <1>2 DEF fwrite
<1>5. new \in Seq(0 .. 255)
  BY <1>2, Written
<1> HIDE DEF n
<1>6. Len(new) = n
  <2>1. DOMAIN new = 1 .. n
    BY <1>4
  <2> HIDE DEF new
  <2> QED
    BY <1>3, <1>5, <2>1, LenProperties
<1>7. ASSUME NEW j \in 1 .. n
      PROVE  ByteAt(file, 0, j - 1) = IF j <= Len(file) THEN file[j] ELSE 0
  <2>1. 0 + (j - 1) < Len(file) <=> j <= Len(file)
    BY <1>1, <1>3
  <2>2. 0 + (j - 1) + 1 = j
    BY <1>3
  <2> QED
    BY <2>1, <2>2 DEF ByteAt
<1>8. \A j \in 1 .. n : new[j] = IF j \in o + 1 .. o + SECTOR_SIZE THEN data[j - o]
                                 ELSE IF j <= Len(file) THEN file[j] ELSE 0
  BY <1>4, <1>7
<1> HIDE DEF new
<1> QED
  BY <1>5, <1>6, <1>8 DEF n, new

\* What a write of a sector's length makes of its own sector, of those behind it
\* and of those in front of it.
LEMMA OwnSector ==
  ASSUME NEW file \in Seq(0 .. 255), NEW o \in Nat, NEW data \in [1 .. SECTOR_SIZE -> 0 .. 255]
  PROVE  Bytes(fwrite(file, o, data), o) = data
<1> DEFINE new == fwrite(file, o, data)
<1>1. SECTOR_SIZE \in Nat /\ Len(file) \in Nat
  BY SizesAssumption, LenProperties
<1>2. /\ new \in Seq(0 .. 255)
      /\ Len(new) = IF Len(file) > o + SECTOR_SIZE THEN Len(file) ELSE o + SECTOR_SIZE
      /\ \A j \in 1 .. Len(new) :
           new[j] = IF j \in o + 1 .. o + SECTOR_SIZE THEN data[j - o]
                    ELSE IF j <= Len(file) THEN file[j] ELSE 0
  BY BytesWritten
<1> HIDE DEF new
<1>3. Held(new, o) = SECTOR_SIZE
  BY <1>1, <1>2 DEF Held
<1>4. Bytes(new, o) = [i \in 1 .. SECTOR_SIZE |-> new[o + i]]
  BY <1>2, <1>3, BytesAre
<1>5. ASSUME NEW i \in 1 .. SECTOR_SIZE PROVE new[o + i] = data[i]
  <2>1. o + i \in 1 .. Len(new) /\ o + i \in o + 1 .. o + SECTOR_SIZE /\ (o + i) - o = i
    BY <1>1, <1>2
  <2> QED
    BY <1>2, <2>1
<1>6. data = [i \in 1 .. SECTOR_SIZE |-> data[i]]
  OBVIOUS
<1> QED
  BY <1>4, <1>5, <1>6 DEF new

LEMMA SectorsAfter ==
  ASSUME NEW file \in Seq(0 .. 255), NEW o \in Nat, NEW data \in [1 .. SECTOR_SIZE -> 0 .. 255],
         NEW p \in Nat, p >= o + SECTOR_SIZE
  PROVE  Bytes(fwrite(file, o, data), p) = Bytes(file, p)
<1> DEFINE new == fwrite(file, o, data)
<1>1. SECTOR_SIZE \in Nat /\ Len(file) \in Nat
  BY SizesAssumption, LenProperties
<1>2. /\ new \in Seq(0 .. 255)
      /\ Len(new) = IF Len(file) > o + SECTOR_SIZE THEN Len(file) ELSE o + SECTOR_SIZE
      /\ \A j \in 1 .. Len(new) :
           new[j] = IF j \in o + 1 .. o + SECTOR_SIZE THEN data[j - o]
                    ELSE IF j <= Len(file) THEN file[j] ELSE 0
  BY BytesWritten
<1> HIDE DEF new
<1>3. Held(new, p) = Held(file, p)
  BY <1>1, <1>2 DEF Held
<1>4. /\ Bytes(new, p) = [i \in 1 .. Held(file, p) |-> new[p + i]]
      /\ Bytes(file, p) = [i \in 1 .. Held(file, p) |-> file[p + i]]
      /\ Held(file, p) \in 0 .. SECTOR_SIZE
      /\ \A i \in 1 .. SECTOR_SIZE : i <= Held(file, p) <=> p + i <= Len(file)
  BY <1>2, <1>3, BytesAre
<1>5. ASSUME NEW i \in 1 .. Held(file, p) PROVE new[p + i] = file[p + i]
  <2>1. p + i <= Len(file) /\ i \in Nat /\ i > 0
    BY <1>1, <1>4
  <2>2. p + i \in 1 .. Len(new) /\ p + i \notin o + 1 .. o + SECTOR_SIZE
    BY <1>1, <1>2, <2>1
  <2> QED
    BY <1>2, <2>1, <2>2
<1> QED
  BY <1>4, <1>5 DEF new

LEMMA SectorsBefore ==
  ASSUME NEW file \in Seq(0 .. 255), NEW o \in Nat, NEW data \in [1 .. SECTOR_SIZE -> 0 .. 255],
         NEW p \in Nat, p + SECTOR_SIZE <= o
  PROVE  Bytes(fwrite(file, o, data), p) = Store!Filled(Bytes(file, p))
<1> DEFINE new == fwrite(file, o, data)
<1>1. SECTOR_SIZE \in Nat /\ Len(file) \in Nat
  BY SizesAssumption, LenProperties
<1>2. /\ new \in Seq(0 .. 255)
      /\ Len(new) = IF Len(file) > o + SECTOR_SIZE THEN Len(file) ELSE o + SECTOR_SIZE
      /\ \A j \in 1 .. Len(new) :
           new[j] = IF j \in o + 1 .. o + SECTOR_SIZE THEN data[j - o]
                    ELSE IF j <= Len(file) THEN file[j] ELSE 0
  BY BytesWritten
<1> HIDE DEF new
<1>3. Held(new, p) = SECTOR_SIZE
  BY <1>1, <1>2 DEF Held
<1>4. Bytes(new, p) = [i \in 1 .. SECTOR_SIZE |-> new[p + i]]
  BY <1>2, <1>3, BytesAre
<1>5. /\ Bytes(file, p) = [i \in 1 .. Held(file, p) |-> file[p + i]]
      /\ Len(Bytes(file, p)) = Held(file, p)
      /\ Held(file, p) \in 0 .. SECTOR_SIZE
      /\ \A i \in 1 .. SECTOR_SIZE : i <= Held(file, p) <=> p + i <= Len(file)
  BY BytesAre
<1>6. ASSUME NEW i \in 1 .. SECTOR_SIZE
      PROVE  new[p + i] = IF i <= Len(Bytes(file, p)) THEN Bytes(file, p)[i] ELSE 0
  <2>1. p + i \in 1 .. Len(new) /\ p + i \notin o + 1 .. o + SECTOR_SIZE
    BY <1>1, <1>2
  <2>2. new[p + i] = IF p + i <= Len(file) THEN file[p + i] ELSE 0
    BY <1>2, <2>1
  <2>3. i <= Held(file, p) <=> p + i <= Len(file)
    BY <1>5
  <2>4. i <= Held(file, p) => Bytes(file, p)[i] = file[p + i]
    <3>1. i <= Held(file, p) => i \in 1 .. Held(file, p)
      BY <1>1, <1>5
    <3> QED
      BY <1>5, <3>1
  <2> QED
    BY <1>5, <2>2, <2>3, <2>4
<1>7. Store!Filled(Bytes(file, p)) =
        [i \in 1 .. SECTOR_SIZE |-> IF i <= Len(Bytes(file, p)) THEN Bytes(file, p)[i] ELSE 0]
  BY DEF Store!Filled
<1> QED
  BY <1>4, <1>6, <1>7 DEF new

-----------------------------------------------------------------------------
(* The driver keeps the promise *)

\* A sector lies behind all those that come before it, and does not meet them.
LEMMA InOrder ==
  ASSUME NEW x \in Store!Addresses, NEW y \in Store!Addresses
  PROVE  /\ Place(x) \in Nat
         /\ Store!Before(x, y) => Place(x) + SECTOR_SIZE <= Place(y)
         /\ x # y => Store!Before(x, y) \/ Store!Before(y, x)
<1> DEFINE t == x[1]
           s == x[2]
           u == y[1]
           v == y[2]
<1>1. /\ t \in 0 .. TRACKS - 1 /\ s \in 0 .. SECTORS_PER_TRACK - 1 /\ x = <<t, s>>
      /\ u \in 0 .. TRACKS - 1 /\ v \in 0 .. SECTORS_PER_TRACK - 1 /\ y = <<u, v>>
  BY DEF Store!Addresses
<1>2. Place(x) = t * TRACK_SIZE + s * SECTOR_SIZE /\ Place(y) = u * TRACK_SIZE + v * SECTOR_SIZE
  BY DEF Place
<1>3. Store!Before(x, y) <=> (t < u \/ (t = u /\ s < v))
  BY DEF Store!Before
<1>4. Store!Before(y, x) <=> (u < t \/ (u = t /\ v < s))
  BY DEF Store!Before
<1> HIDE DEF t, s, u, v
<1>5. /\ t \in Nat /\ s \in Nat /\ u \in Nat /\ v \in Nat
      /\ s + 1 <= SECTORS_PER_TRACK /\ SECTORS_PER_TRACK \in Nat /\ SECTOR_SIZE \in Nat
  BY <1>1, SizesAssumption
<1>6. TRACK_SIZE \in Nat /\ TRACK_SIZE = SECTORS_PER_TRACK * SECTOR_SIZE
  BY <1>5, ProductNat DEF TRACK_SIZE
<1> DEFINE tp == t * TRACK_SIZE
           up == u * TRACK_SIZE
           sp == s * SECTOR_SIZE
           vp == v * SECTOR_SIZE
<1>7. tp \in Nat /\ up \in Nat /\ sp \in Nat /\ vp \in Nat
  BY <1>5, <1>6, ProductNat
<1>8. s < v => sp + SECTOR_SIZE <= vp
  <2> SUFFICES ASSUME s < v PROVE sp + SECTOR_SIZE <= vp
    OBVIOUS
  <2>1. s + 1 \in Nat /\ s + 1 <= v
    BY <1>5
  <2>2. (s + 1) * SECTOR_SIZE <= v * SECTOR_SIZE
    BY <1>5, <2>1, Monotone
  <2>3. (s + 1) * SECTOR_SIZE = s * SECTOR_SIZE + SECTOR_SIZE
    BY <1>5
  <2> QED
    BY <2>2, <2>3
<1>9. t < u => tp + TRACK_SIZE <= up
  <2> SUFFICES ASSUME t < u PROVE tp + TRACK_SIZE <= up
    OBVIOUS
  <2>1. t + 1 \in Nat /\ t + 1 <= u
    BY <1>5
  <2>2. (t + 1) * TRACK_SIZE <= u * TRACK_SIZE
    BY <1>5, <1>6, <2>1, Monotone
  <2>3. (t + 1) * TRACK_SIZE = t * TRACK_SIZE + TRACK_SIZE
    BY <1>5, <1>6
  <2> QED
    BY <2>2, <2>3
<1>10. sp + SECTOR_SIZE <= TRACK_SIZE
  <2>1. (s + 1) * SECTOR_SIZE <= SECTORS_PER_TRACK * SECTOR_SIZE
    <3>1. s + 1 \in Nat
      BY <1>5
    <3> QED
      BY <1>5, <3>1, Monotone
  <2>2. (s + 1) * SECTOR_SIZE = s * SECTOR_SIZE + SECTOR_SIZE
    BY <1>5
  <2> QED
    BY <1>6, <2>1, <2>2
<1>11. t = u => tp = up
  OBVIOUS
<1>12. Place(x) = tp + sp /\ Place(y) = up + vp
  BY <1>2
<1> HIDE DEF tp, up, sp, vp
<1>13. Store!Before(x, y) => Place(x) + SECTOR_SIZE <= Place(y)
  <2>1. CASE t < u
    BY <1>5, <1>6, <1>7, <1>9, <1>10, <1>12, <2>1
  <2>2. CASE t = u /\ s < v
    BY <1>5, <1>7, <1>8, <1>11, <1>12, <2>2
  <2> QED
    BY <1>3, <2>1, <2>2
<1>14. x # y => Store!Before(x, y) \/ Store!Before(y, x)
  <2>1. x # y => t # u \/ s # v
    BY <1>1
  <2> QED
    BY <1>3, <1>4, <1>5, <2>1
<1> QED
  BY <1>7, <1>12, <1>13, <1>14

\* The sector that an accumulator names
Target(a) == <<track, a % SECTORS_PER_TRACK>>

LEMMA TargetPlace ==
  ASSUME DiskTypeOK, NEW a \in Accs
  PROVE  Target(a) \in Store!Addresses /\ Offset(a) = Place(Target(a)) /\ Offset(a) \in Nat
<1>1. track \in 0 .. TRACKS - 1
  BY DEF DiskTypeOK
<1>2. a \in Nat
  BY AccNat
<1>3. a % SECTORS_PER_TRACK \in 0 .. SECTORS_PER_TRACK - 1
  BY <1>2, Masked, SizesAssumption
<1>4. Target(a) \in Store!Addresses
  BY <1>1, <1>3 DEF Target, Store!Addresses
<1>5. Offset(a) = Place(Target(a))
  BY DEF Offset, Place, Target
<1> QED
  BY <1>1, <1>2, <1>4, <1>5, OffsetInDisk

\* What the program sees of the files
Table(contents) ==
  [d \in DOMAIN contents |->
     [x \in (0 .. TRACKS - 1) \X (0 .. SECTORS_PER_TRACK - 1) |->
        SectorBytes(contents[d], x[1], x[2])]]

LEMMA TableAt ==
  ASSUME NEW contents, NEW d \in DOMAIN contents, NEW x \in Store!Addresses
  PROVE  Table(contents)[d][x] = Bytes(contents[d], Place(x))
<1>1. Table(contents)[d][x] = SectorBytes(contents[d], x[1], x[2])
  BY DEF Table, Store!Addresses
<1> QED
  BY <1>1 DEF SectorBytes, Bytes, Place

\* A write puts the page into the sector it names, fills up what is in front of
\* it and leaves the sectors behind it alone.
LEMMA TableWritten ==
  ASSUME DiskTypeOK, FlushSector
  PROVE  LET target == Target(unflushed)
             Entry(x) == IF x = target THEN page
                           ELSE IF Store!Before(x, target)
                                THEN Store!Filled(Table(files)[driveFile][x])
                                ELSE Table(files)[driveFile][x]
         IN  Table(files') = [Table(files) EXCEPT ![driveFile] = [x \in Store!Addresses |-> Entry(x)]]
<1> DEFINE target == Target(unflushed)
           Entry(x) == IF x = target THEN page
                         ELSE IF Store!Before(x, target)
                              THEN Store!Filled(Table(files)[driveFile][x])
                              ELSE Table(files)[driveFile][x]
           file == files[driveFile]
           new == fwrite(file, Offset(unflushed), page)
<1>1. unflushed \in Accs /\ driveFile \in DOMAIN files /\ file \in Seq(0 .. 255)
  BY DEF FlushSector, DiskTypeOK
<1>2. page \in [1 .. SECTOR_SIZE -> 0 .. 255]
  BY DEF DiskTypeOK
<1>3. target \in Store!Addresses /\ Offset(unflushed) = Place(target) /\ Place(target) \in Nat
  BY <1>1, TargetPlace
<1>4. files' = [files EXCEPT ![driveFile] = new]
  BY DEF FlushSector, fflush
<1> HIDE DEF target, Entry
<1>5. ASSUME NEW x \in Store!Addresses
      PROVE  Bytes(new, Place(x)) = Entry(x)
  <2>1. Table(files)[driveFile][x] = Bytes(file, Place(x))
    BY <1>1, TableAt
  <2>2. Place(x) \in Nat
    BY InOrder
  <2>3. CASE x = target
    <3>1. Bytes(new, Place(x)) = page
      BY <1>1, <1>2, <1>3, <2>3, OwnSector
    <3> QED
      BY <2>3, <3>1 DEF Entry
  <2>4. CASE x # target /\ Store!Before(x, target)
    <3>1. Place(x) + SECTOR_SIZE <= Place(target)
      BY <1>3, <2>4, InOrder
    <3>2. Bytes(new, Place(x)) = Store!Filled(Bytes(file, Place(x)))
      BY <1>1, <1>2, <1>3, <2>2, <3>1, SectorsBefore
    <3> QED
      BY <2>1, <2>4, <3>2 DEF Entry
  <2>5. CASE x # target /\ ~Store!Before(x, target)
    <3>1. Place(target) + SECTOR_SIZE <= Place(x) /\ SECTOR_SIZE \in Nat
      BY <1>3, <2>5, InOrder, SizesAssumption
    <3>2. Place(x) >= Place(target) + SECTOR_SIZE
      BY <1>3, <2>2, <3>1
    <3>3. Bytes(new, Place(x)) = Bytes(file, Place(x))
      BY <1>1, <1>2, <1>3, <2>2, <3>2, SectorsAfter
    <3> QED
      BY <2>1, <2>5, <3>3 DEF Entry
  <2> QED
    BY <2>3, <2>4, <2>5
<1> HIDE DEF file, new
<1>6. DOMAIN files' = DOMAIN files /\ files'[driveFile] = new
  BY <1>1, <1>4
<1>7. ASSUME NEW d \in DOMAIN files, d # driveFile
      PROVE  Table(files')[d] = Table(files)[d]
  <2>1. files'[d] = files[d]
    BY <1>4, <1>7
  <2> QED
    BY <1>6, <2>1 DEF Table
<1>8. Table(files')[driveFile] = [x \in Store!Addresses |-> Entry(x)]
  <2>1. \A x \in Store!Addresses : Table(files')[driveFile][x] = Entry(x)
    BY <1>1, <1>5, <1>6, TableAt
  <2>2. Table(files')[driveFile] = [x \in Store!Addresses |-> Table(files')[driveFile][x]]
    BY <1>1, <1>6 DEF Table, Store!Addresses
  <2> QED
    BY <2>1, <2>2
<1>9. /\ DOMAIN Table(files') = DOMAIN Table(files)
      /\ DOMAIN Table(files) = DOMAIN files
      /\ Table(files) = [d \in DOMAIN files |-> Table(files)[d]]
      /\ Table(files') = [d \in DOMAIN files |-> Table(files')[d]]
  BY <1>6 DEF Table
<1>10. Table(files') = [Table(files) EXCEPT ![driveFile] = [x \in Store!Addresses |-> Entry(x)]]
  <2> DEFINE entry == [x \in Store!Addresses |-> Entry(x)]
             T == Table(files)
             U == Table(files')
  <2>1. /\ T = [d \in DOMAIN files |-> T[d]] /\ U = [d \in DOMAIN files |-> U[d]]
        /\ U[driveFile] = entry /\ \A d \in DOMAIN files : d # driveFile => U[d] = T[d]
    BY <1>7, <1>8, <1>9
  <2> HIDE DEF entry, T, U
  <2>2. U = [T EXCEPT ![driveFile] = entry]
    BY <1>1, <2>1
  <2> QED
    BY <2>2 DEF entry, T, U
<1> QED
  BY <1>10 DEF target, Entry

\* A read brings the bytes that the sector has.
LEMMA SectorRead ==
  ASSUME DiskTypeOK, driveFile # NULL, NEW a \in Accs, ReadSector(a)
  PROVE  page' = [i \in 1 .. SECTOR_SIZE |->
                    IF i <= Len(Table(files)[driveFile][Target(a)])
                    THEN Table(files)[driveFile][Target(a)][i] ELSE page[i]]
<1> DEFINE file == files[driveFile]
           bytes == Table(files)[driveFile][Target(a)]
           p == Offset(a)
<1>1. driveFile \in DOMAIN files /\ file \in Seq(0 .. 255)
  BY DEF DiskTypeOK
<1>2. Target(a) \in Store!Addresses /\ p = Place(Target(a)) /\ p \in Nat
  BY TargetPlace
<1>3. bytes = Bytes(file, p)
  BY <1>1, <1>2, TableAt
<1>4. page' = [i \in 1 .. SECTOR_SIZE |-> IF p + i <= Len(file) THEN file[p + i] ELSE page[i]]
  BY DEF ReadSector, readFromSector
<1> HIDE DEF file, bytes, p
<1>5. /\ bytes = [i \in 1 .. Held(file, p) |-> file[p + i]]
      /\ Len(bytes) = Held(file, p)
      /\ Held(file, p) \in 0 .. SECTOR_SIZE
      /\ \A i \in 1 .. SECTOR_SIZE : i <= Held(file, p) <=> p + i <= Len(file)
  BY <1>1, <1>2, <1>3, BytesAre
<1>6. ASSUME NEW i \in 1 .. SECTOR_SIZE
      PROVE  (IF p + i <= Len(file) THEN file[p + i] ELSE page[i]) =
             (IF i <= Len(bytes) THEN bytes[i] ELSE page[i])
  <2>1. i <= Len(bytes) <=> p + i <= Len(file)
    BY <1>5
  <2>2. i <= Len(bytes) => bytes[i] = file[p + i]
    <3>1. i <= Len(bytes) => i \in 1 .. Held(file, p)
      BY <1>5, SizesAssumption
    <3> QED
      BY <1>5, <3>1
  <2> QED
    BY <2>1, <2>2
<1>7. page' = [i \in 1 .. SECTOR_SIZE |-> IF i <= Len(bytes) THEN bytes[i] ELSE page[i]]
  BY <1>4, <1>6
<1> QED
  BY <1>7 DEF bytes

\* The disk that the status port names
Selected == IF driveFile = NULL THEN 255 ELSE driveFile

LEMMA SelectedIs ==
  ASSUME DiskTypeOK
  PROVE  /\ Selected # 255 <=> driveFile # NULL
         /\ Selected # 255 => Selected = driveFile /\ driveFile \in DOMAIN files
         /\ getDiskStatus % 256 = Selected
<1>1. CASE driveFile = NULL
  BY <1>1, Remainders DEF Selected, getDiskStatus, NO_DISK
<1>2. CASE driveFile # NULL
  <2>1. driveFile \in DOMAIN files /\ diskID = driveFile
    BY <1>2 DEF DiskTypeOK
  <2>2. driveFile \in 0 .. 8
    BY <2>1, NotNull
  <2>3. driveFile % 256 = driveFile /\ driveFile # 255
    BY <2>2, Remainders
  <2> QED
    BY <1>2, <2>1, <2>3 DEF Selected, getDiskStatus
<1> QED
  BY <1>1, <1>2

StoreVars == <<Table(files), Selected, track, page, status, unflushed, command>>

\* Each of the driver's steps is one the program was promised, or nothing to it.
LEMMA StoreStep ==
  ASSUME DiskTypeOK, [DiskNext]_diskvars
  PROVE  [Store!StoreNext]_Store!storevars
<1>0. /\ Store!storevars = StoreVars
      /\ Store!storevars' = StoreVars'
  BY DEF Store!storevars, StoreVars, Table, Selected
<1> USE DEF drive
<1>1. ASSUME NEW a \in Accs, SelectDisk(a) PROVE Store!Select(a)
  <2>0. /\ UNCHANGED <<files, page, status>> /\ unflushed = -1 /\ unflushed' = unflushed
        /\ command' = <<3, a>>
    BY <1>1 DEF SelectDisk, PRTout, NULL
  <2>1. CASE a \in DOMAIN Images
    <3>1. a \in DiskIds /\ a \in DOMAIN files /\ a # NULL
      BY <2>1, ImagesAssumption, NotNull DEF DiskTypeOK
    <3>2. driveFile' = a /\ track' = 0
      BY <1>1, <3>1 DEF SelectDisk, selectDiskFile
    <3> QED
      BY <2>0, <2>1, <3>1, <3>2 DEF Store!Select, Store!Runs, Store!Nothing
  <2>2. CASE a \notin DOMAIN Images
    <3>1. UNCHANGED <<driveFile, track>>
      BY <1>1, <2>2 DEF SelectDisk, selectDiskFile, DiskTypeOK
    <3> QED
      BY <2>0, <2>2, <3>1 DEF Store!Select, Store!Runs, Store!Nothing
  <2> QED
    BY <2>1, <2>2
<1>2. ASSUME NEW a \in Accs, SelectTrack(a) PROVE Store!Seek(a)
  BY <1>2 DEF SelectTrack, selectDiskTrack, TrackId, PRTout, Store!Seek, Store!Runs, Store!Nothing,
              Store!TrackOf, NULL
<1>3. ASSUME NEW a \in Accs, ReadSector(a) PROVE Store!Fetch(a)
  <2>1. /\ UNCHANGED <<files, driveFile, track, status>> /\ unflushed = -1 /\ unflushed' = unflushed
        /\ command' = <<5, a>>
    BY <1>3 DEF ReadSector, PRTout, NULL
  <2>2. UNCHANGED <<Table(files), Selected>>
    BY <2>1 DEF Table, Selected
  <2>3. CASE driveFile = NULL
    <3>1. page' = page /\ Selected = 255
      BY <1>3, <2>3, SelectedIs DEF ReadSector, readFromSector
    <3> QED
      BY <2>1, <2>2, <3>1, Zenon DEF Store!Fetch, Store!Runs, Store!Nothing, Store!None,
         Table, Selected
  <2>4. CASE driveFile # NULL
    <3>1. Selected # 255 /\ Selected = driveFile
      BY <2>4, SelectedIs
    <3>2. page' = [i \in 1 .. SECTOR_SIZE |->
                     IF i <= Len(Table(files)[Selected][Target(a)])
                     THEN Table(files)[Selected][Target(a)][i] ELSE page[i]]
      BY <1>3, <2>4, <3>1, SectorRead
    <3>3. Target(a) = <<track, Store!SectorOf(a)>>
      BY DEF Target, Store!SectorOf
    <3>4. page' = Store!Over(Table(files)[Selected][<<track, Store!SectorOf(a)>>])
      BY <3>2, <3>3 DEF Store!Over
    <3> QED
      BY <2>1, <2>2, <3>1, <3>4, Zenon DEF Store!Fetch, Store!Runs, Store!Nothing, Store!None,
         Table, Selected
  <2> QED
    BY <2>3, <2>4
<1>4. ASSUME NEW a \in Accs, WriteSector(a) PROVE Store!Ask(a)
  <2>1. UNCHANGED <<files, driveFile, track, page, status>> /\ unflushed = -1 /\ command' = <<6, a>>
    BY <1>4 DEF WriteSector, PRTout, NULL
  <2>2. unflushed' = IF Selected = 255 THEN unflushed ELSE a
    BY <1>4, SelectedIs DEF WriteSector, writeToSector
  <2> QED
    BY <2>1, <2>2 DEF Store!Ask, Store!Nothing, Store!None, Selected
<1>5. CASE FlushSector
  <2>1. UNCHANGED <<driveFile, track, page, status, command>> /\ unflushed # NULL /\ unflushed' = NULL
    BY <1>5 DEF FlushSector, fflush
  <2>2. driveFile # NULL /\ Selected = driveFile
    BY <2>1, SelectedIs DEF DiskTypeOK
  <2>3. Target(unflushed) = <<track, Store!SectorOf(unflushed)>>
    BY DEF Target, Store!SectorOf
  <2> DEFINE target == Target(unflushed)
             Entry(x) == IF x = target THEN page
                           ELSE IF Store!Before(x, target)
                                THEN Store!Filled(Table(files)[driveFile][x])
                                ELSE Table(files)[driveFile][x]
  <2>4. Table(files') = [Table(files) EXCEPT ![driveFile] = [x \in Store!Addresses |-> Entry(x)]]
    BY <1>5, TableWritten
  <2>5. Store!Put
    BY <2>1, <2>2, <2>3, <2>4 DEF Store!Put, Store!Nothing, NULL, Table, Selected
  <2> QED
    BY <2>5 DEF Store!StoreNext
<1>6. CASE ReadStatus
  <2>1. status' = Selected
    BY <1>6, SelectedIs DEF ReadStatus
  <2>2. Store!Tell
    BY <1>6, <2>1 DEF ReadStatus, Store!Tell, Store!Runs, Store!Nothing, NULL, Selected
  <2> QED
    BY <2>2 DEF Store!StoreNext
<1>7. CASE StorePage
  <2>1. Store!Fill
    BY <1>7 DEF StorePage, Store!Fill, Store!Runs, Store!Nothing, NULL
  <2> QED
    BY <2>1 DEF Store!StoreNext
<1>8. CASE Restart
  <2>1. Store!Filled(<<>>) = Zeros
    <3>1. ASSUME NEW i \in 1 .. SECTOR_SIZE PROVE ~(i <= Len(<<>>))
      BY SizesAssumption
    <3> QED
      BY <3>1 DEF Store!Filled, Zeros
  <2>2. Store!Crash
    BY <1>8, <2>1 DEF Restart, Store!Crash, Store!Nothing, Store!None, NULL, NoCommand
  <2> QED
    BY <2>2 DEF Store!StoreNext
<1>9. CASE UNCHANGED diskvars
  BY <1>0, <1>9 DEF diskvars, StoreVars, Table, Selected
<1> QED
  BY <1>0, <1>1, <1>2, <1>3, <1>4, <1>5, <1>6, <1>7, <1>8, <1>9 DEF DiskNext, Store!StoreNext

\* The ports implement tables of sectors, whatever the numbers and the sizes of
\* tracks and sectors, whatever the program and wherever the simulator is ended:
\* each command does what its port and accumulator ask for, a read finds what was
\* last written to its sector, a write touches no other sector that has bytes, a
\* selection that fails changes nothing, and the status port names the disk in
\* use (diskio.c:5-79, ports.c:122-124, 139-163).
THEOREM StoreImplemented == DiskSpec => ImplementsStore
<1>1. DiskInit => Store!StoreInit
  BY DEF DiskInit, Store!StoreInit, Store!None, Store!Nothing, NULL, NoCommand
<1>2. DiskTypeOK /\ [DiskNext]_diskvars => [Store!StoreNext]_Store!storevars
  BY StoreStep
<1> QED
  BY <1>1, <1>2, DiskTypeCorrect, PTL DEF DiskSpec, ImplementsStore, Store!StoreSpec
=============================================================================
