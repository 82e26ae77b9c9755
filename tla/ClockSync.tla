----------------------------- MODULE ClockSync ------------------------------
(***************************************************************************)
(* The pacing of instructions: the main loop of sim.c raises sync_clock    *)
(* for each instruction and may not begin the next one before the timer    *)
(* thread (timer_func, with the two delays of clock_sync.c) has lowered it *)
(* again.  The threads share sync_clock, inst_cycles, clock_loop_times and *)
(* running, without a lock; loads and stores of them are separate steps.   *)
(*                                                                         *)
(* Real time is left out.  A delay is represented by what it waits for:    *)
(* the bound of the counting loop, or the cycles the timer is armed with.  *)
(***************************************************************************)
EXTENDS Integers

CONSTANTS Cycles,        \* the cycle counts in the opcode table
          ClockLoop,     \* clock_loop as delay_sync_cycle_init measured it
          MaxClockLoop   \* bound of the model: clock_loop is not tuned above it

ASSUME CyclesAssumption == Cycles \subseteq 0..255

\* The calibration found a processor that runs at least one loop in the time
\* of a cycle.
ASSUME ClockLoopAssumption == /\ ClockLoop \in Nat \ {0}
                              /\ MaxClockLoop \in Nat
                              /\ ClockLoop <= MaxClockLoop

VARIABLES running, syncClock, instCycles, clockLoop, clockLoopTimes,  \* sim65_t
          cpu,      \* where the main thread is
          timer,    \* where the timer thread is
          count,    \* the counter of delay_sync_cycle_loop
          armed,    \* the cycles that timer_fd is armed with
          gui,      \* where the GUI thread is
          held,     \* history: the delay made since sync_clock was raised
          first,    \* history: no instruction has retired yet
          failed    \* history: timer_fd has failed

sim == <<running, syncClock, instCycles, clockLoop, clockLoopTimes>>
timerVars == <<timer, count, armed>>
history == <<held, first, failed>>
vars == <<sim, cpu, timerVars, gui, history>>

NoHold == [by |-> "none", for |-> 0]

\* The delay an instruction of c cycles is to be held for.
HoldFor(c) == IF c <= 3 THEN [by |-> "loop", for |-> clockLoop * c]
                        ELSE [by |-> "timer", for |-> c]

Init == /\ running = TRUE /\ syncClock = FALSE
        /\ instCycles = 0 /\ clockLoop = ClockLoop /\ clockLoopTimes = 0
        /\ cpu = "top"
        /\ timer = "loop" /\ count = 0 /\ armed = 0
        /\ gui = "draw"
        /\ held = NoHold /\ first = TRUE /\ failed = FALSE

-----------------------------------------------------------------------------
(***************************************************************************)
(* The main thread.                                                        *)
(***************************************************************************)

\* Seeded fault: the product is truncated instead of rounded.
TuningsTruncated(k) == { n \in (k \div 2)..(2 * k) : n <= MaxClockLoop }

\* round(clock_loop * factor) for the factors between 0.5 and 2, exclusive,
\* that are applied; round() takes halves away from zero.
Tunings(k) == { n \in ((k + 1) \div 2)..(2 * k) : n <= MaxClockLoop }

\* One more cycle.  The time that the last instruction took, which is any,
\* decides whether clock_loop is tuned: only after the fastest instructions,
\* and not where the time expected is 0, as before the first one.
BeginCycle == /\ cpu = "top"
              /\ \E n \in Tunings(clockLoop) \cup {clockLoop} :
                    /\ n # clockLoop => instCycles \in 1..3
                    /\ clockLoop' = n
              /\ cpu' = "fetch"
              /\ UNCHANGED <<running, syncClock, instCycles, clockLoopTimes,
                             timerVars, gui, history>>

\* Seeded fault: the loop count is not computed anew.
FetchWithoutTimes(c) ==
    /\ cpu = "fetch"
    /\ instCycles' = c
    /\ cpu' = "signal"
    /\ UNCHANGED <<running, syncClock, clockLoop, clockLoopTimes,
                   timerVars, gui, history>>

\* sim.inst_cycles = opcodes[idx].cycles[op & 7]
Fetch(c) == /\ cpu = "fetch"
            /\ instCycles' = c
            /\ cpu' = "times"
            /\ UNCHANGED <<running, syncClock, clockLoop, clockLoopTimes,
                           timerVars, gui, history>>

\* sim.clock_loop_times = sim.clock_loop * sim.inst_cycles
SetTimes == /\ cpu = "times"
            /\ clockLoopTimes' = clockLoop * instCycles
            /\ cpu' = "signal"
            /\ UNCHANGED <<running, syncClock, instCycles, clockLoop, timerVars,
                           gui, history>>

\* sim.sync_clock = true
Signal == /\ cpu = "signal"
          /\ syncClock' = TRUE
          /\ held' = NoHold
          /\ cpu' = "execute"
          /\ UNCHANGED <<running, instCycles, clockLoop, clockLoopTimes,
                         timerVars, gui, first, failed>>

\* The instruction function, and the wait for the chips (see BusSync).
Execute == /\ cpu = "execute"
           /\ cpu' = "wait"
           /\ UNCHANGED <<sim, timerVars, gui, history>>

\* Seeded fault: the main loop does not wait for the timer thread.
RetireUnheld == /\ cpu = "wait"
                /\ cpu' = "top"
                /\ first' = FALSE
                /\ UNCHANGED <<sim, timerVars, gui, held, failed>>

\* while (sim.sync_clock);
Retire == /\ cpu = "wait"
          /\ ~syncClock
          /\ cpu' = "top"
          /\ first' = FALSE
          /\ UNCHANGED <<sim, timerVars, gui, held, failed>>

\* The program counter has reached 0xFFFF: running = false.
Stop == /\ cpu = "top"
        /\ running' = FALSE
        /\ cpu' = "joinTimer"
        /\ UNCHANGED <<syncClock, instCycles, clockLoop, clockLoopTimes,
                       timerVars, gui, history>>

JoinTimer == /\ cpu = "joinTimer"
             /\ timer = "exit"
             /\ cpu' = "joinGui"
             /\ UNCHANGED <<sim, timerVars, gui, history>>

JoinGui == /\ cpu = "joinGui"
           /\ gui = "exit"
           /\ cpu' = "exit"
           /\ UNCHANGED <<sim, timerVars, gui, history>>

Cpu == \/ BeginCycle \/ \E c \in Cycles : Fetch(c)
       \/ SetTimes \/ Signal \/ Execute \/ Retire
       \/ Stop \/ JoinTimer \/ JoinGui

-----------------------------------------------------------------------------
(***************************************************************************)
(* The timer thread.                                                       *)
(***************************************************************************)

\* while (state->running)
Loop == /\ timer = "loop"
        /\ timer' = IF running THEN "choose" ELSE "exit"
        /\ UNCHANGED <<sim, cpu, count, armed, gui, history>>

\* if (state->inst_cycles <= 3)
Choose == /\ timer = "choose"
          /\ timer' = IF instCycles <= 3 THEN "count" ELSE "arm"
          /\ count' = 0
          /\ UNCHANGED <<sim, cpu, armed, gui, history>>

\* One round of the counting loop: its bound is loaded each time.
Count == /\ timer = "count"
         /\ count < clockLoopTimes
         /\ count' = count + 1
         /\ UNCHANGED <<sim, cpu, timer, armed, gui, history>>

CountEnds == /\ timer = "count"
             /\ count >= clockLoopTimes
             /\ held' = [by |-> "loop", for |-> count]
             /\ timer' = "clear"
             /\ UNCHANGED <<sim, cpu, count, armed, gui, first, failed>>

\* Seeded fault: microseconds where cycles are expected.
ArmInMicroseconds == /\ timer = "arm"
                     /\ armed' = 1000 * instCycles
                     /\ timer' = "read"
                     /\ UNCHANGED <<sim, cpu, count, gui, history>>

\* timerfd_settime, which also forgets the expirations of earlier settings
Arm == /\ timer = "arm"
       /\ armed' = instCycles
       /\ timer' = "read"
       /\ UNCHANGED <<sim, cpu, count, gui, history>>

\* read(timer_fd) until it no longer says EAGAIN
Expire == /\ timer = "read"
          /\ held' = [by |-> "timer", for |-> armed]
          /\ timer' = "clear"
          /\ UNCHANGED <<sim, cpu, count, armed, gui, first, failed>>

\* timerfd_settime failing, or read with another error, ends the delay at once.
DelayFails == /\ timer \in {"arm", "read"}
              /\ failed' = TRUE
              /\ timer' = "clear"
              /\ UNCHANGED <<sim, cpu, count, armed, gui, held, first>>

\* state->sync_clock = false
Clear == /\ timer = "clear"
         /\ syncClock' = FALSE
         /\ timer' = "await"
         /\ UNCHANGED <<running, instCycles, clockLoop, clockLoopTimes, cpu,
                        count, armed, gui, history>>

\* Seeded fault: the wait does not look at running.
AwaitDeaf == /\ timer = "await"
             /\ syncClock
             /\ timer' = "loop"
             /\ UNCHANGED <<sim, cpu, count, armed, gui, history>>

\* while (!state->sync_clock & state->running);
Await == /\ timer = "await"
         /\ syncClock \/ ~running
         /\ timer' = "loop"
         /\ UNCHANGED <<sim, cpu, count, armed, gui, history>>

\* What the timer thread does once it is past its wait.
Timer == \/ Loop \/ Choose \/ Count \/ CountEnds
         \/ Arm \/ Expire \/ DelayFails
         \/ Clear \/ Await

\* The GUI thread draws as long as running is set.
GuiExit == /\ gui = "draw"
           /\ ~running
           /\ gui' = "exit"
           /\ UNCHANGED <<sim, cpu, timerVars, history>>

Terminated == cpu = "exit" /\ UNCHANGED vars

Next == Cpu \/ Timer \/ GuiExit \/ Terminated

\* The three threads are scheduled again and again, and the timer expires.
Spec == /\ Init /\ [][Next]_vars
        /\ WF_vars(Cpu) /\ WF_vars(Timer) /\ WF_vars(GuiExit)

-----------------------------------------------------------------------------
(***************************************************************************)
(* Properties.                                                             *)
(***************************************************************************)

\* The variables hold values of their types.
TypeOK ==
    /\ running \in BOOLEAN /\ syncClock \in BOOLEAN
    /\ instCycles \in 0..255
    /\ clockLoop \in 0..MaxClockLoop
    /\ clockLoopTimes \in Nat
    /\ cpu \in {"top", "fetch", "times", "signal", "execute", "wait",
                "joinTimer", "joinGui", "exit"}
    /\ timer \in {"loop", "choose", "count", "arm", "read", "clear", "await",
                  "exit"}
    /\ count \in Nat
    /\ armed \in 0..255
    /\ gui \in {"draw", "exit"}
    /\ held \in [by : {"none", "loop", "timer"}, for : Nat]
    /\ first \in BOOLEAN /\ failed \in BOOLEAN

\* Every instruction but the first is held for its own cycles, by the delay
\* meant for its length, however the threads interleave.  (The first one may
\* be released by the lap that timer_func makes before it is asked.)
HeldForOwnCycles ==
    cpu = "wait" /\ ~syncClock /\ ~first /\ ~failed => held = HoldFor(instCycles)

\* The timer thread computes a delay from values that stay put, although it
\* loads them one by one: from the second instruction on the main thread
\* stores none of them until the delay is over.
DelayInputsStable ==
    [][~first /\ timer \in {"choose", "count", "arm", "read"}
         => UNCHANGED <<instCycles, clockLoopTimes, clockLoop>>]_vars

\* Tuning never takes clock_loop to 0, from where no factor brings it back:
\* halving it again and again stops at 1.
LoopNeverDies == clockLoop > 0

\* Once running is false all threads come to their end.
ShutdownCompletes == ~running ~> (cpu = "exit" /\ timer = "exit" /\ gui = "exit")

\* Pacing is a rendezvous too: each instruction raises sync_clock once, is
\* released once, and cannot begin the next one before that.
Pacing == INSTANCE Rendezvous WITH
            MaxPasses <- 1,
            open <- running,
            turn <- IF syncClock THEN "server" ELSE "client",
            due <- IF cpu \in {"times", "signal"} \/ syncClock THEN 1 ELSE 0

ImplementsRendezvous == Pacing!Spec
=============================================================================
