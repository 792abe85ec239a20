------------------------------ MODULE MCErrand ------------------------------
(***************************************************************************)
(* Errand for TLC: two drivers of one errand, as when it is resumed while  *)
(* its first process is still at work.                                     *)
(***************************************************************************)
EXTENDS Errand, TLC

CONSTANTS d1, d2, q1

\* No definition tells the drivers apart.
DriverSymmetry == Permutations(Drivers)

=============================================================================
