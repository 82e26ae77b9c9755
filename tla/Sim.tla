-------------------------------- MODULE Sim ----------------------------------
(***************************************************************************)
(* The running simulator: the main loop of sim.c with its three threads,   *)
(* from the first instruction to exit(0).  BusSync (with the 6551 on it)   *)
(* and ClockSync each see the main thread from one side; here it is one    *)
(* thread again.  Its steps are joint steps of both where a statement      *)
(* concerns both, and in the order of the main loop otherwise: inst_cycles *)
(* and sync_clock before the instruction function, mem_sync awaited before *)
(* sync_clock, the threads joined one after the other.                     *)
(*                                                                         *)
(* cpu is where the main thread is for the bus, clk for the pacing.        *)
(***************************************************************************)
EXTENDS Acia6551

CONSTANTS Cycles, ClockLoop, MaxClockLoop   \* see ClockSync

\* What ClockSync assumes of them.
ASSUME PacingAssumption == /\ Cycles \subseteq 0..255
                           /\ ClockLoop \in Nat \ {0}
                           /\ MaxClockLoop \in Nat
                           /\ ClockLoop <= MaxClockLoop

VARIABLES syncClock, instCycles, clockLoop, clockLoopTimes,
          clk, timer, count, armed, gui, held, first, failed

Clock == INSTANCE ClockSync WITH cpu <- clk

\* What of the pacing the bus does not share.
clock == <<syncClock, instCycles, clockLoop, clockLoopTimes,
           clk, timer, count, armed, gui, held, first, failed>>

simVars == <<vars, acia, clock>>

SimInit == Init /\ AciaInit /\ Clock!Init

-----------------------------------------------------------------------------
\* The main thread.

SimBegin == BeginCycle /\ Clock!BeginCycle /\ UNCHANGED acia

SimPulse == Pulse /\ UNCHANGED <<acia, clock>>

SimFetch == \E i \in Instruction, c \in Cycles : AciaFetch(i) /\ Clock!Fetch(c)

\* clock_loop_times = ..., sync_clock = true: before the instruction function.
SimPace == (Clock!SetTimes \/ Clock!Signal) /\ UNCHANGED <<vars, acia>>

SimExecute == clk = "execute" /\ AciaExecute /\ UNCHANGED clock

\* Seeded fault: the wait for the chips is taken for that for the timer.
SimSyncedOnce == /\ Retire
                 /\ clk = "execute" /\ clk' = "top" /\ first' = FALSE
                 /\ UNCHANGED <<acia, syncClock, instCycles, clockLoop,
                                clockLoopTimes, timer, count, armed, gui, held,
                                failed>>

\* while (mem_sync);
SimSynced == Retire /\ Clock!Execute /\ UNCHANGED acia

\* while (sim.sync_clock);
SimRetire == Clock!Retire /\ UNCHANGED <<vars, acia>>

SimStop == Stop /\ Clock!Stop /\ UNCHANGED acia

\* The timer thread, the GUI thread
SimJoin == (Clock!JoinTimer \/ Clock!JoinGui) /\ UNCHANGED <<vars, acia>>

\* Seeded fault: the timer thread is joined again.
SimJoinNobody == /\ clk = "exit" /\ cpu = "join"
                 /\ cpu' = "exit"
                 /\ UNCHANGED <<bus, op, cell, pulseAt, syncVars, history, acia, clock>>

\* The sync thread is joined last; then exit(0).
SimJoinSync == clk = "exit" /\ Join /\ UNCHANGED <<acia, clock>>

Main == \/ SimBegin \/ SimPulse \/ SimFetch \/ SimPace \/ SimExecute
        \/ SimSynced \/ SimRetire
        \/ SimStop \/ SimJoin \/ SimJoinSync

\* The other threads.
SimSync == AciaSync /\ UNCHANGED clock
SimTimer == Clock!Timer /\ UNCHANGED <<vars, acia>>
SimGui == Clock!GuiExit /\ UNCHANGED <<vars, acia>>

SimTerminated == cpu = "exit" /\ UNCHANGED simVars

SimNext == Main \/ SimSync \/ SimTimer \/ SimGui \/ SimTerminated

\* Four threads of one process, each scheduled again and again.
SimSpec == /\ SimInit /\ [][SimNext]_simVars
           /\ WF_simVars(Main) /\ WF_simVars(SimSync)
           /\ WF_simVars(SimTimer) /\ WF_simVars(SimGui)

-----------------------------------------------------------------------------
(***************************************************************************)
(* Properties.  Each component was specified on its own, with a main       *)
(* thread that only waits for that component.  The simulator implements    *)
(* both: the main thread goes through the same steps for each, though it   *)
(* is held up by the other, and neither is kept waiting for good.  What    *)
(* BusSync and ClockSync promise so holds of the whole, that instructions  *)
(* retire and that all threads end included.                               *)
(***************************************************************************)

\* For the bus: every step of the four threads is a step of BusSync or none,
\* and its two threads get on.
ImplementsBus == Spec

\* For the pacing, likewise.
ImplementsClock == Clock!Spec
=============================================================================
