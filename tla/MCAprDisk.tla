----------------------------- MODULE MCAprDisk -----------------------------
(***************************************************************************)
(* Disks of 2 tracks of 2 sectors of 2 bytes: one whole, one with a byte   *)
(* behind the last sector, and one that ends inside its first sector.       *)
(***************************************************************************)
EXTENDS AprDisk, FiniteSets, TLC

TwoImages == 0 :> <<1, 1, 1, 1, 1, 1, 1, 1, 7>> @@ 8 :> <<1>>
OnePage == {<<2, 3>>}

\* Bound: how many sectors, of both disks, hold something new other than zeros
\* where the search goes on; one more is written and looked at.
MaxChanged == 1
Changed ==
  {x \in (DOMAIN files) \X (0 .. TRACKS - 1) \X (0 .. SECTORS_PER_TRACK - 1) :
     /\ SectorBytes(files[x[1]], x[2], x[3]) # SectorBytes(Images[x[1]], x[2], x[3])
     /\ SectorBytes(files[x[1]], x[2], x[3]) # <<0, 0>>}
WithinBound == Cardinality(Changed) <= MaxChanged
=============================================================================
