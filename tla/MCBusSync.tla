----------------------------- MODULE MCBusSync ------------------------------
(***************************************************************************)
(* Instances of BusSync for TLC.  The circuit follows system1.json: two    *)
(* chips with registers, mapped apart and above the zero page, and one     *)
(* that has none (AY-3-8910: regsize 0, address never assigned).           *)
(***************************************************************************)
EXTENDS BusSync

MCAddr == 0..5
MCZeroPage == {0, 1}
MCCircuit == << [address |-> 4, regsize |-> 2],
                [address |-> 2, regsize |-> 1],
                [address |-> 0, regsize |-> 0] >>
=============================================================================
