------------------------------ MODULE MCAprSim ------------------------------
(***************************************************************************)
(* Small programs for the simulator to run while the user types.           *)
(***************************************************************************)
EXTENDS AprSim, TLC

\* XOR 1; BRnzp 0: a loop that reads no port
Busy == 0 :> 49 @@ 1 :> 207 @@ 2 :> 0

\* XOR 1; PRTout 0; BRnzp 0: the same with a sleep in it
Sleeper == 0 :> 49 @@ 1 :> 216 @@ 2 :> 207 @@ 3 :> 0

\* PRTin 1; BRz 0; PRTin 2; BRnzp 0: polls for a key before it reads it
Echo == 0 :> 209 @@ 1 :> 197 @@ 2 :> 0 @@ 3 :> 210 @@ 4 :> 207 @@ 5 :> 0

\* PRTin 2; BRnzp 0: waits for a key, again and again
Reader == 0 :> 210 @@ 1 :> 207 @@ 2 :> 0

KeyboardPrograms == {Echo, Reader}
BusyOrReader == {Busy, Reader}

\* nothing marked, the first instruction, the second of Busy
NoneOrOneMark == {{}, {0}, {1}}
NoMarks == {{}}

NoSectors == {}
=============================================================================
