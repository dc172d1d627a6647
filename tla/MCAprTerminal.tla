---------------------------- MODULE MCAprTerminal -----------------------------
(***************************************************************************)
(* The small programs of MCAprSim, and one that writes to the terminal.    *)
(***************************************************************************)
EXTENDS AprTerminal, MCAprSim

\* XOR 1; PRTout 7; BRnzp 0: writes to the terminal for ever
Writer == 0 :> 49 @@ 1 :> 223 @@ 2 :> 207 @@ 3 :> 0

AllPrograms == KeyboardPrograms \cup {Busy, Sleeper, Writer}
OneMark == {{}, {3}}
=============================================================================
