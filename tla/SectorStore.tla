---------------------------- MODULE SectorStore ----------------------------
(***************************************************************************)
(* What the disk ports promise to a program: a set of disks, each a table  *)
(* of sectors addressed by track and sector number, one disk and one track *)
(* of which are selected, and a buffer that sectors are read into and      *)
(* written from.  Nothing of files, offsets or file names appears here.    *)
(*                                                                         *)
(* A sector of a disk holds SectorSize bytes, or fewer when the disk has   *)
(* not been written that far: bytes that are not there leave the buffer    *)
(* alone, and a write fills everything in front of it up with zeros.       *)
(*                                                                         *)
(* A command is a port and an accumulator; the last one is in view, so that *)
(* what a step does is tied to what the program asked for.                 *)
(***************************************************************************)
EXTENDS Integers, Sequences

CONSTANTS Disks, Tracks, Sectors, SectorSize, Accs, Buffers

None == 255   \* what the status port tells when no disk is selected
Nothing == -1

VARIABLES
  table,      \* [disk -> [<<track, sector>> -> its bytes]]
  selected,   \* a disk, or None
  onTrack,
  buffer,
  told,       \* what the status port last delivered
  asked,      \* the sector the program waits to have written, or Nothing
  command     \* the last command, <<port, accumulator>>

storevars == <<table, selected, onTrack, buffer, told, asked, command>>

Addresses == (0 .. Tracks - 1) \X (0 .. Sectors - 1)
Before(x, y) == x[1] < y[1] \/ (x[1] = y[1] /\ x[2] < y[2])

\* An accumulator names a track or a sector by its low bits
TrackOf(a) == a % Tracks
SectorOf(a) == a % Sectors

Filled(bytes) ==
  [i \in 1 .. SectorSize |-> IF i <= Len(bytes) THEN bytes[i] ELSE 0]

\* The program runs: no write is under way
Runs == asked = Nothing /\ UNCHANGED asked

\* A disk that exists is selected, at track 0; asking for another changes nothing.
Select(a) ==
  /\ Runs /\ command' = <<3, a>>
  /\ IF a \in Disks THEN selected' = a /\ onTrack' = 0 ELSE UNCHANGED <<selected, onTrack>>
  /\ UNCHANGED <<table, buffer, told>>

\* The track is kept until the next disk is selected, for the disk there is or
\* for none at all.
Seek(a) ==
  /\ Runs /\ command' = <<4, a>>
  /\ onTrack' = TrackOf(a)
  /\ UNCHANGED <<table, selected, buffer, told>>

\* The buffer when bytes have been read over it
Over(bytes) == [i \in 1 .. SectorSize |-> IF i <= Len(bytes) THEN bytes[i] ELSE buffer[i]]

Fetch(a) ==
  /\ Runs /\ command' = <<5, a>>
  /\ IF selected = None THEN UNCHANGED buffer
                        ELSE buffer' = Over(table[selected][<<onTrack, SectorOf(a)>>])
  /\ UNCHANGED <<table, selected, onTrack, told>>

\* The program asks for a write, and goes on only when the sector is there, or at
\* once where no disk is selected.
Ask(a) ==
  /\ asked = Nothing /\ command' = <<6, a>>
  /\ IF selected = None THEN UNCHANGED asked ELSE asked' = a
  /\ UNCHANGED <<table, selected, onTrack, buffer, told>>

Put ==
  /\ asked # Nothing
  /\ LET target == <<onTrack, SectorOf(asked)>>
         Written(x) == IF x = target THEN buffer
                       ELSE IF Before(x, target) THEN Filled(table[selected][x])
                       ELSE table[selected][x]
     IN  table' = [table EXCEPT ![selected] = [x \in Addresses |-> Written(x)]]
  /\ asked' = Nothing
  /\ UNCHANGED <<selected, onTrack, buffer, told, command>>

Tell == Runs /\ told' = selected /\ UNCHANGED <<table, selected, onTrack, buffer, command>>

\* The program stores into the buffer
Fill == Runs /\ buffer' \in Buffers /\ UNCHANGED <<table, selected, onTrack, told, command>>

\* The machine may stop anywhere and start again: the disks keep what was put
\* there, and only a write that is under way may be lost.
Crash ==
  /\ selected' = None /\ onTrack' = 0 /\ told' = 0 /\ asked' = Nothing
  /\ buffer' = Filled(<<>>) /\ command' = <<0, 0>>
  /\ UNCHANGED table

StoreInit ==
  selected = None /\ onTrack = 0 /\ told = 0 /\ asked = Nothing /\ command = <<0, 0>>
StoreNext ==
  \/ \E a \in Accs : Select(a) \/ Seek(a) \/ Fetch(a) \/ Ask(a)
  \/ Put \/ Tell \/ Fill \/ Crash
StoreSpec == StoreInit /\ [][StoreNext]_storevars
=============================================================================
