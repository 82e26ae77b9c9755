-------------------------- MODULE ClockSyncProofs ---------------------------
(***************************************************************************)
(* Proofs about ClockSync, for every opcode table and every calibration.   *)
(*                                                                         *)
(* The invariant hangs on one fact: once an instruction has retired, the   *)
(* timer thread is at its wait whenever sync_clock is low, so that it      *)
(* starts from there for every later instruction, and what it loads is     *)
(* what the main thread stored before it raised sync_clock.                *)
(***************************************************************************)
EXTENDS ClockSync, TLAPS

-----------------------------------------------------------------------------
\* Who may move, by the flags.
Flags ==
    /\ running <=> cpu \notin {"joinTimer", "joinGui", "exit"}
    /\ syncClock => cpu \in {"execute", "wait"}
    /\ timer = "exit" => ~running

\* The timer thread has come back to its wait.
AtWait ==
    /\ cpu \in {"execute", "wait"} /\ ~syncClock => timer = "await"
    /\ ~first /\ running /\ ~syncClock => timer = "await"

Times == cpu \in {"signal", "execute", "wait"} =>
             clockLoopTimes = clockLoop * instCycles

\* How far the delay has come.
Delay ==
    /\ ~first /\ syncClock =>
         /\ timer = "count" => instCycles <= 3 /\ count <= clockLoopTimes
         /\ timer = "arm" => instCycles > 3
         /\ timer = "read" => instCycles > 3 /\ armed = instCycles
         /\ timer = "clear" /\ ~failed => held = HoldFor(instCycles)
    /\ ~first /\ cpu \in {"execute", "wait"} /\ ~syncClock /\ ~failed =>
         held = HoldFor(instCycles)

IInv == TypeOK /\ LoopNeverDies /\ Flags /\ AtWait /\ Times /\ Delay

-----------------------------------------------------------------------------
\* Halving rounds up: a tuned loop count is positive and within the bound.
LEMMA TuningsPositive ==
    ASSUME NEW k \in 1..MaxClockLoop, NEW n \in Tunings(k) \cup {k}
    PROVE  n \in 1..MaxClockLoop
  BY ClockLoopAssumption DEF Tunings

\* The loop count is a number.
LEMMA ProductNat == ASSUME NEW a \in Nat, NEW b \in Nat PROVE a * b \in Nat
  OBVIOUS

\* The invariant holds at the start.
LEMMA InitIInv == Init => IInv
  <1> SUFFICES ASSUME Init PROVE IInv
    OBVIOUS
  <1>1. TypeOK
    <2>1. held \in [by : {"none", "loop", "timer"}, for : Nat]
      BY DEF Init, NoHold
    <2>2. clockLoop \in 0..MaxClockLoop
      BY ClockLoopAssumption DEF Init
    <2>3. /\ instCycles \in 0..255 /\ armed \in 0..255
          /\ count \in Nat /\ clockLoopTimes \in Nat
      BY DEF Init
    <2> QED
      BY <2>1, <2>2, <2>3 DEF Init, TypeOK
  <1> QED
    BY <1>1, ClockLoopAssumption
    DEF Init, IInv, LoopNeverDies, Flags, AtWait, Times, Delay

\* Each step keeps it.
LEMMA NextIInv == IInv /\ [Next]_vars => IInv'
  <1> SUFFICES ASSUME IInv, [Next]_vars PROVE IInv'
    OBVIOUS
  <1> USE DEF IInv, TypeOK, LoopNeverDies, Flags, AtWait, Times, Delay
  <1>1. CASE BeginCycle
    <2>1. clockLoop' \in 1..MaxClockLoop
      <3>1. clockLoop \in 1..MaxClockLoop
        BY ClockLoopAssumption
      <3>2. clockLoop' \in Tunings(clockLoop) \cup {clockLoop}
        BY <1>1 DEF BeginCycle
      <3> QED
        BY <3>1, <3>2, TuningsPositive
    <2> QED
      BY <1>1, <2>1, ClockLoopAssumption DEF BeginCycle, timerVars, history
  <1>2. ASSUME NEW c \in Cycles, Fetch(c) PROVE IInv'
    BY <1>2, CyclesAssumption DEF Fetch, timerVars, history
  <1>3. CASE SetTimes
    <2>1. clockLoopTimes' \in Nat
      BY <1>3, ProductNat DEF SetTimes
    <2> QED
      BY <1>3, <2>1 DEF SetTimes, timerVars, history
  <1>4. CASE Signal
    BY <1>4 DEF Signal, timerVars, NoHold
  <1>5. CASE Execute
    BY <1>5 DEF Execute, sim, timerVars, history, HoldFor
  <1>6. CASE Retire
    BY <1>6 DEF Retire, sim, timerVars
  <1>7. CASE Stop
    BY <1>7 DEF Stop, timerVars, history
  <1>8. CASE JoinTimer
    BY <1>8 DEF JoinTimer, sim, timerVars, history
  <1>9. CASE JoinGui
    BY <1>9 DEF JoinGui, sim, timerVars, history
  <1>10. CASE Loop
    BY <1>10 DEF Loop, sim, history, HoldFor
  <1>11. CASE Choose
    BY <1>11 DEF Choose, sim, history, HoldFor
  <1>12. CASE Count
    BY <1>12 DEF Count, sim, history, HoldFor
  <1>13. CASE CountEnds
    <2>1. ~first /\ syncClock => count = clockLoop * instCycles
      BY <1>13 DEF CountEnds
    <2> QED
      BY <1>13, <2>1 DEF CountEnds, sim, HoldFor
  <1>14. CASE Arm
    BY <1>14 DEF Arm, sim, history, HoldFor
  <1>15. CASE Expire
    BY <1>15 DEF Expire, sim, HoldFor
  <1>16. CASE DelayFails
    BY <1>16 DEF DelayFails, sim, HoldFor
  <1>17. CASE Clear
    BY <1>17, ZenonT(30) DEF Clear, history, HoldFor
  <1>18. CASE Await
    BY <1>18 DEF Await, sim, history, HoldFor
  <1>19. CASE GuiExit
    BY <1>19 DEF GuiExit, sim, timerVars, history, HoldFor
  <1>20. CASE UNCHANGED vars
    BY <1>20 DEF vars, sim, timerVars, history, HoldFor
  <1> QED
    BY <1>1, <1>2, <1>3, <1>4, <1>5, <1>6, <1>7, <1>8, <1>9, <1>10, <1>11,
       <1>12, <1>13, <1>14, <1>15, <1>16, <1>17, <1>18, <1>19, <1>20
    DEF Next, Cpu, Timer, Terminated

\* The inductive invariant.
THEOREM Invariance == Spec => []IInv
  BY InitIInv, NextIInv, PTL DEF Spec

\* Every variable keeps its type.
THEOREM TypeCorrect == Spec => []TypeOK
  <1>1. IInv => TypeOK
    BY DEF IInv
  <1> QED
    BY <1>1, Invariance, PTL

\* Every instruction but the first is held for its own cycles.
THEOREM PacingCorrect == Spec => []HeldForOwnCycles
  <1>1. IInv => HeldForOwnCycles
    BY DEF IInv, Delay, HeldForOwnCycles
  <1> QED
    BY <1>1, Invariance, PTL

\* Tuning never takes the loop count to 0.
THEOREM CalibrationCorrect == Spec => []LoopNeverDies
  <1>1. IInv => LoopNeverDies
    BY DEF IInv
  <1> QED
    BY <1>1, Invariance, PTL

\* A step that stores an input of the delay is not made during one.
LEMMA InputsKeep ==
    IInv /\ [Next]_vars =>
      [~first /\ timer \in {"choose", "count", "arm", "read"}
         => UNCHANGED <<instCycles, clockLoopTimes, clockLoop>>]_vars
  <1> SUFFICES ASSUME IInv, [Next]_vars, ~first,
                      timer \in {"choose", "count", "arm", "read"}
               PROVE  UNCHANGED <<instCycles, clockLoopTimes, clockLoop>>
    OBVIOUS
  <1>1. cpu \notin {"top", "fetch", "times"} \/ ~running
    BY DEF IInv, Flags, AtWait
  <1>2. ~BeginCycle /\ ~SetTimes /\ \A c \in Cycles : ~Fetch(c)
    BY <1>1 DEF IInv, Flags, BeginCycle, SetTimes, Fetch
  <1> QED
    BY <1>2 DEF Next, Cpu, Timer, Terminated, vars, sim, Signal, Execute,
       Retire, Stop, JoinTimer, JoinGui, Loop, Choose, Count, CountEnds, Arm,
       Expire, DelayFails, Clear, Await, GuiExit

\* The main thread stores nothing that the timer thread is using.
THEOREM InputsCorrect == Spec => DelayInputsStable
  BY InputsKeep, Invariance, PTL DEF DelayInputsStable, Spec

-----------------------------------------------------------------------------
\* Pacing is a rendezvous of one pass per instruction.
THEOREM Refinement == Spec => Pacing!Init /\ [][Pacing!Next]_(Pacing!vars)
  <1>1. Init => Pacing!Init
    BY DEF Init, Pacing!Init
  <1>2. IInv /\ [Next]_vars => [Pacing!Next]_(Pacing!vars)
    <2> SUFFICES ASSUME IInv, [Next]_vars PROVE [Pacing!Next]_(Pacing!vars)
      OBVIOUS
    <2> USE DEF IInv, TypeOK, Flags, Pacing!vars
    <2>1. CASE Stop
      <3>1. Pacing!Close
        BY <2>1 DEF Stop, Pacing!Close
      <3> QED
        BY <3>1 DEF Pacing!Next
    <2>2. ASSUME NEW c \in Cycles, Fetch(c) PROVE [Pacing!Next]_(Pacing!vars)
      <3>1. Pacing!Issue(1)
        BY <2>2 DEF Fetch, Pacing!Issue
      <3> QED
        BY <3>1 DEF Pacing!Next
    <2>3. CASE Signal
      <3>1. Pacing!Ask
        BY <2>3 DEF Signal, Pacing!Ask
      <3> QED
        BY <3>1 DEF Pacing!Next
    <2>4. CASE Clear
      <3>1. CASE syncClock
        <4>1. Pacing!Serve
          BY <2>4, <3>1 DEF Clear, Pacing!Serve
        <4> QED
          BY <4>1 DEF Pacing!Next
      <3>2. CASE ~syncClock
        BY <2>4, <3>2 DEF Clear
      <3> QED
        BY <3>1, <3>2
    <2>5. CASE \/ BeginCycle \/ SetTimes \/ Execute \/ Retire \/ JoinTimer
               \/ JoinGui
      BY <2>5 DEF BeginCycle, SetTimes, Execute, Retire, JoinTimer, JoinGui, sim
    <2>6. CASE \/ Loop \/ Choose \/ Count \/ CountEnds \/ Arm \/ Expire
               \/ DelayFails \/ Await \/ GuiExit
      BY <2>6 DEF Loop, Choose, Count, CountEnds, Arm, Expire, DelayFails,
         Await, GuiExit, sim
    <2>7. CASE UNCHANGED vars
      BY <2>7 DEF vars, sim
    <2> QED
      BY <2>1, <2>2, <2>3, <2>4, <2>5, <2>6, <2>7
      DEF Next, Cpu, Timer, Terminated
  <1> QED
    BY <1>1, <1>2, Invariance, PTL DEF Spec
=============================================================================
