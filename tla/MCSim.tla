------------------------------- MODULE MCSim --------------------------------
(***************************************************************************)
(* An instance of Sim for TLC: a 6551 with its data register at address 2  *)
(* and another register at 3.  The timer thread counts in the lap it makes *)
(* before anyone asks, and waits for the timer for each instruction.       *)
(***************************************************************************)
EXTENDS Sim

MCAddr == {0, 2, 3}
MCZeroPage == {0}
MCCircuit == << [address |-> 2, regsize |-> 2] >>
MCValues == {7, 9}
MCCycles == {4}
=============================================================================
