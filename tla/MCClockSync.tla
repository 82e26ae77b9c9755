---------------------------- MODULE MCClockSync -----------------------------
(***************************************************************************)
(* Instances of ClockSync for TLC: cycle counts on both sides of the limit *)
(* of the counting loop, 0 as for the opcodes without a function, and      *)
(* tunings that reach 1 and the bound.                                     *)
(***************************************************************************)
EXTENDS ClockSync

MCCycles == {0, 2, 3, 4, 7}
=============================================================================
