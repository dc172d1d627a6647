-------------------------- MODULE AprCPURefinement --------------------------
(***************************************************************************)
(* The microprogram of AprCPU implements the instruction set of AprISA.    *)
(*                                                                         *)
(* In the middle of an instruction the registers are half way (pc has      *)
(* moved on, a shift is not finished), so the program's view of the        *)
(* machine is what it was when nextState last was x00.  The history        *)
(* variable `committed' holds that view; the AprCPU actions do not read it *)
(***************************************************************************)
EXTENDS AprCPU

VARIABLE committed

Visible == [reg |-> [ip |-> cpu.pc, mr |-> cpu.mar, sp |-> cpu.stackpt, fr |-> cpu.flags,
                     ar |-> cpu.amux, a |-> cpu.accumulator],
            mem |-> memory]

Commit == committed' = IF cpu'.nextState = "x00" THEN Visible' ELSE committed

RInit == Init /\ committed = Visible
RNext == Next /\ Commit
RSpec == RInit /\ [][RNext]_<<vars, committed>>

ISA == INSTANCE AprISA WITH reg <- committed.reg, mem <- committed.mem

\* Every cycle leaves what the program can see alone or is the last of an
\* instruction and makes the change apricos.txt describes, with $ip, $mr, $sp and
\* page addresses wrapping at the widths of cpu.h; except that a left SHF sets O,
\* as AprISA has it and OverflowByAdd shows (cpu.c:76-497).
ImplementsISA == ISA!ISASpec
=============================================================================
