------------------------------ MODULE MCAprGui ------------------------------
(***************************************************************************)
(* Terminals below the least size, at it, and on both sides of the height  *)
(* where the register layout changes.                                      *)
(***************************************************************************)
EXTENDS AprGui

FourSizes == {<<40, 10>>, <<75, 20>>, <<80, 30>>, <<83, 31>>}
TwoSizes == {<<75, 20>>, <<83, 31>>}
=============================================================================
