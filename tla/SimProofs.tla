------------------------------ MODULE SimProofs ------------------------------
(***************************************************************************)
(* Proofs about Sim: its steps are steps of BusSync and of ClockSync, so   *)
(* that what holds of the bus in every state holds of the simulator; and   *)
(* the bytes sent are those stored.                                        *)
(***************************************************************************)
EXTENDS Sim, BusSyncProofs

Pace == INSTANCE ClockSyncProofs WITH cpu <- clk

-----------------------------------------------------------------------------
(***************************************************************************)
(* The components.                                                         *)
(***************************************************************************)

\* A step of the simulator is a step of the bus, or none.
LEMMA BusStep == [SimNext]_simVars => [Next]_vars
  <1> SUFFICES ASSUME [SimNext]_simVars PROVE [Next]_vars
    OBVIOUS
  <1>1. CASE Main
    <2>1. CASE SimBegin \/ SimPulse \/ SimSynced \/ SimStop \/ SimJoinSync
      BY <2>1 DEF SimBegin, SimPulse, SimSynced, SimStop, SimJoinSync, Next, Cpu
    <2>2. CASE SimFetch
      BY <2>2 DEF SimFetch, AciaFetch, Next, Cpu
    <2>3. CASE SimPace \/ SimRetire \/ SimJoin
      BY <2>3 DEF SimPace, SimRetire, SimJoin
    <2>4. CASE SimExecute
      BY <2>4 DEF SimExecute, AciaExecute, Store, Tell, Next, Cpu
    <2> QED
      BY <1>1, <2>1, <2>2, <2>3, <2>4 DEF Main
  <1>2. CASE SimSync
    BY <1>2 DEF SimSync, AciaSync, AciaWritePass, Next, Sync
  <1>3. CASE SimTimer \/ SimGui \/ SimTerminated \/ UNCHANGED simVars
    BY <1>3 DEF SimTimer, SimGui, SimTerminated, simVars
  <1> QED
    BY <1>1, <1>2, <1>3 DEF SimNext

\* A step of the simulator is a step of the pacing, or none.
LEMMA ClockStep == [SimNext]_simVars => [Clock!Next]_(Clock!vars)
  <1> SUFFICES ASSUME [SimNext]_simVars PROVE [Clock!Next]_(Clock!vars)
    OBVIOUS
  <1>k. UNCHANGED <<running, clock>> => UNCHANGED Clock!vars
    BY DEF clock, Clock!vars, Clock!sim, Clock!timerVars, Clock!history
  <1>1. CASE Main
    <2>1. CASE SimBegin \/ SimPace \/ SimSynced \/ SimRetire \/ SimStop \/ SimJoin
      BY <2>1 DEF SimBegin, SimPace, SimSynced, SimRetire, SimStop, SimJoin,
                  Clock!Next, Clock!Cpu
    <2>2. CASE SimFetch
      BY <2>2 DEF SimFetch, Clock!Next, Clock!Cpu
    <2>3. CASE SimPulse \/ SimJoinSync
      BY <2>3, <1>k DEF SimPulse, SimJoinSync, Pulse, Join, bus
    <2>4. CASE SimExecute
      BY <2>4, <1>k DEF SimExecute, AciaExecute, Store, Tell, Decode, OperandCell,
         SetRwb, Signal, AwaitRead, SignalWrite, vars, bus
    <2> QED
      BY <1>1, <2>1, <2>2, <2>3, <2>4 DEF Main
  <1>2. CASE SimSync
    BY <1>2, <1>k DEF SimSync, AciaSync, AciaWritePass, Loop, Await, Switch,
       ReadPass, Release, Recheck, AwaitW, WritePass, ReleaseW, Clear, bus
  <1>3. CASE SimTimer \/ SimGui
    BY <1>3 DEF SimTimer, SimGui, Clock!Next
  <1>4. CASE SimTerminated \/ UNCHANGED simVars
    BY <1>4, <1>k DEF SimTerminated, simVars, vars, bus
  <1> QED
    BY <1>1, <1>2, <1>3, <1>4 DEF SimNext

\* The simulator implements the initial states and the steps of the bus.
THEOREM BusRefinement == SimSpec => Init /\ [][Next]_vars
  BY BusStep, PTL DEF SimSpec, SimInit

\* The simulator implements the initial states and the steps of the pacing.
THEOREM ClockRefinement == SimSpec => Clock!Init /\ [][Clock!Next]_(Clock!vars)
  BY ClockStep, PTL DEF SimSpec, SimInit

-----------------------------------------------------------------------------
(***************************************************************************)
(* The bus in the simulator.                                               *)
(***************************************************************************)

\* The invariant of the bus holds in the simulator.
LEMMA BusInvariance == SimSpec => []IInv
  <1>1. SimInit => IInv
    BY IInvInit DEF SimInit
  <1>2. IInv /\ [SimNext]_simVars => IInv'
    BY IInvNext, BusStep
  <1> QED
    BY <1>1, <1>2, PTL DEF SimSpec

\* What a chip may rely on holds of the simulator as a whole: the two threads
\* are never in chips together, and every request gets one pass.
THEOREM ExclusionInSim == SimSpec => [](ChipExclusion /\ OnePassPerRequest)
  <1>1. IInv => ChipExclusion /\ OnePassPerRequest
    BY HandshakeExcludes, HandshakeCounts DEF IInv
  <1> QED
    BY <1>1, BusInvariance, PTL

\* A program on the simulator gets from the chips what it asked for: as long
\* as the main thread has not overtaken the sync thread, each instruction
\* retires with its own calls made and on its own cell.
THEOREM ServiceInSim == SimSpec => [](ServedExactly /\ OwnCell /\ QuietShutdown)
  <1>1. IInv => ServedExactly
    BY DEF IInv, Prompt, Told, ServedExactly
  <1>2. IInv => OwnCell
    BY DEF IInv, Prompt, BusHolds, OwnCell
  <1>3. IInv => QuietShutdown
    BY DEF IInv, Prompt, Told, QuietShutdown
  <1> QED
    BY <1>1, <1>2, <1>3, BusInvariance, PTL

-----------------------------------------------------------------------------
(***************************************************************************)
(* The pacing in the simulator.                                            *)
(***************************************************************************)

\* ClockSyncProofs speaks of the same steps.
LEMMA SameClock == [Clock!Next]_(Clock!vars) => [Pace!Next]_(Pace!vars)
  <1>1. UNCHANGED Clock!vars => UNCHANGED Pace!vars
    BY DEF Clock!sim, Pace!sim, Clock!timerVars, Pace!timerVars,
           Clock!history, Pace!history, Clock!vars, Pace!vars
  <1>2. Clock!Cpu => Pace!Cpu
    BY DEF Clock!Cpu, Pace!Cpu, Clock!Tunings, Pace!Tunings,
           Clock!NoHold, Pace!NoHold, Clock!BeginCycle,
           Pace!BeginCycle, Clock!Fetch, Pace!Fetch, Clock!SetTimes,
           Pace!SetTimes, Clock!Signal, Pace!Signal, Clock!Execute,
           Pace!Execute, Clock!Retire, Pace!Retire, Clock!Stop,
           Pace!Stop, Clock!JoinTimer, Pace!JoinTimer, Clock!JoinGui,
           Pace!JoinGui, Clock!sim, Pace!sim, Clock!timerVars,
           Pace!timerVars, Clock!history, Pace!history
  <1>3. Clock!Timer => Pace!Timer
    BY DEF Clock!Timer, Pace!Timer, Clock!Loop, Pace!Loop,
           Clock!Choose, Pace!Choose, Clock!Count, Pace!Count,
           Clock!CountEnds, Pace!CountEnds, Clock!Arm, Pace!Arm,
           Clock!Expire, Pace!Expire, Clock!DelayFails,
           Pace!DelayFails, Clock!Clear, Pace!Clear, Clock!Await,
           Pace!Await, Clock!sim, Pace!sim, Clock!timerVars,
           Pace!timerVars, Clock!history, Pace!history
  <1>4. Clock!GuiExit \/ Clock!Terminated => Pace!GuiExit \/ Pace!Terminated
    BY <1>1 DEF Clock!GuiExit, Pace!GuiExit, Clock!Terminated,
                Pace!Terminated, Clock!sim, Pace!sim, Clock!timerVars,
                Pace!timerVars, Clock!history, Pace!history
  <1> QED
    BY <1>1, <1>2, <1>3, <1>4 DEF Clock!Next, Pace!Next

\* The invariant of the pacing holds in the simulator.
LEMMA PacingInvariance == SimSpec => []Pace!IInv
  <1>1. SimInit => Pace!IInv
    <2>1. Pace!Init => Pace!IInv
      BY Pace!InitIInv, PacingAssumption DEF Pace!InitIInv
    <2>2. Clock!Init => Pace!Init
      BY DEF Clock!Init, Pace!Init, Clock!NoHold, Pace!NoHold
    <2> QED
      BY <2>1, <2>2 DEF SimInit
  <1>2. Pace!IInv /\ [SimNext]_simVars => Pace!IInv'
    <2>1. Pace!IInv /\ [Pace!Next]_(Pace!vars) => Pace!IInv'
      BY Pace!NextIInv, PacingAssumption DEF Pace!NextIInv
    <2> QED
      BY <2>1, SameClock, ClockStep
  <1> QED
    BY <1>1, <1>2, PTL DEF SimSpec

\* Also with the chips to wait for, every instruction after the first is held
\* for its own cycles, and the delay loop is never switched off.
THEOREM PacingInSim == SimSpec => [](Clock!HeldForOwnCycles /\ Clock!LoopNeverDies)
  <1>1. Pace!IInv => Clock!HeldForOwnCycles /\ Clock!LoopNeverDies
    BY DEF Pace!IInv, Pace!Delay, Pace!HoldFor, Clock!HoldFor,
           Clock!HeldForOwnCycles, Pace!LoopNeverDies, Clock!LoopNeverDies
  <1> QED
    BY <1>1, PacingInvariance, PTL

\* With two servers, too, nothing moves under the thread that uses it: the
\* access under a pass over the chips, the inputs of a delay under the delay.
THEOREM StableInSim == SimSpec => PassSeesOneAccess /\ Clock!DelayInputsStable
  <1>1. IInv /\ [SimNext]_simVars
          => [InPass => UNCHANGED <<memAddr, memRwb>>]_vars
    BY BusStep, PassesKeep DEF IInv
  <1>2. Pace!IInv /\ [SimNext]_simVars =>
          [~first /\ timer \in {"choose", "count", "arm", "read"}
             => UNCHANGED <<instCycles, clockLoopTimes, clockLoop>>]_(Clock!vars)
    <2>1. Pace!IInv /\ [Pace!Next]_(Pace!vars) =>
            [~first /\ timer \in {"choose", "count", "arm", "read"}
               => UNCHANGED <<instCycles, clockLoopTimes, clockLoop>>]_(Pace!vars)
      BY Pace!InputsKeep, PacingAssumption DEF Pace!InputsKeep
    <2>2. Clock!vars' # Clock!vars => Pace!vars' # Pace!vars
      BY DEF Clock!vars, Pace!vars, Clock!sim, Pace!sim, Clock!timerVars,
             Pace!timerVars, Clock!history, Pace!history
    <2> QED
      BY <2>1, <2>2, SameClock, ClockStep
  <1> QED
    BY <1>1, <1>2, BusInvariance, PacingInvariance, PTL
    DEF SimSpec, PassSeesOneAccess, Clock!DelayInputsStable

-----------------------------------------------------------------------------
(***************************************************************************)
(* The 6551.                                                               *)
(***************************************************************************)

Storing == op.kind \in {"write", "rmw"}

\* When the instruction's result has been stored, and what is then stored.
WrittenBy ==
    /\ cpu \in {"decode", "cell"} => ~written
    /\ cpu \in {"rwb", "signal", "waitR"} /\ written => op.kind = "write"
    /\ cpu = "signal" /\ op.kind = "write" => written
    /\ cpu = "wait" => (written <=> Storing)

StoredByte == stored = IF written /\ cell = DataRegister THEN <<data>> ELSE <<>>

\* The write pass has been at the 6551.
PastAcia == sync = "releaseW" \/ (sync = "writePass" /\ passAt > Acia)

\* What has been sent, unless the sync thread was overtaken or a byte refused.
SentSoFar ==
    /\ cpu \in {"decode", "cell", "rwb", "signal", "waitR", "signalW"} => sent = <<>>
    /\ cpu = "wait" => cell = op.at \/ ~Storing
    /\ cpu = "wait" /\ memSync =>
         sent = IF Storing /\ PastAcia THEN stored ELSE <<>>
    /\ cpu = "wait" /\ ~memSync => sent = stored

SentInv == ~raced /\ ~refused => SentSoFar

AciaInv == AciaTypeOK /\ WrittenBy /\ StoredByte /\ SentInv

\* The steps that concern the bus and the 6551.
AciaKeeps == \/ BeginCycle \/ Stop \/ Pulse \/ Decode \/ OperandCell
             \/ Signal \/ AwaitRead \/ Retire \/ Join
             \/ Loop \/ Await \/ Switch \/ ReadPass \/ Release \/ Recheck
             \/ AwaitW \/ ReleaseW \/ Clear

AciaNext == \/ \E i \in Instruction : AciaFetch(i)
            \/ \E v \in Values : Store(v)
            \/ Tell
            \/ AciaWritePass
            \/ AciaKeeps /\ UNCHANGED acia

\* A step of the simulator is one of the 6551 on the bus, or none that it sees.
LEMMA AciaStep == [SimNext]_simVars => [AciaNext]_<<vars, acia>>
  <1> SUFFICES ASSUME [SimNext]_simVars PROVE AciaNext \/ UNCHANGED <<vars, acia>>
    OBVIOUS
  <1> USE DEF AciaNext, AciaKeeps
  <1>1. CASE Main
    <2>1. CASE SimBegin \/ SimPulse \/ SimSynced \/ SimStop \/ SimJoinSync
      BY <2>1 DEF SimBegin, SimPulse, SimSynced, SimStop, SimJoinSync
    <2>2. CASE SimFetch
      BY <2>2 DEF SimFetch
    <2>3. CASE SimPace \/ SimRetire \/ SimJoin
      BY <2>3 DEF SimPace, SimRetire, SimJoin
    <2>4. CASE SimExecute
      BY <2>4 DEF SimExecute, AciaExecute
    <2> QED
      BY <1>1, <2>1, <2>2, <2>3, <2>4 DEF Main
  <1>2. CASE SimSync
    BY <1>2 DEF SimSync, AciaSync
  <1>3. CASE SimTimer \/ SimGui \/ SimTerminated \/ UNCHANGED simVars
    BY <1>3 DEF SimTimer, SimGui, SimTerminated, simVars
  <1> QED
    BY <1>1, <1>2, <1>3 DEF SimNext

\* Sequences of one byte.
LEMMA OneByte ==
    ASSUME NEW v \in Values
    PROVE  Append(<<>>, v) = <<v>> /\ <<v>> \in Seq(Values) /\ Len(<<v>>) = 1
  OBVIOUS

\* The invariant of the 6551 holds at the start.
LEMMA AciaInvInit == SimInit => AciaInv
  <1>1. <<>> \in Seq(Values) /\ Len(<<>>) = 0
    BY EmptyType
  <1>2. SimInit => AciaTypeOK
    <2> SUFFICES ASSUME AciaInit PROVE AciaTypeOK
      BY DEF SimInit
    <2>1. Len(stored) <= 1 /\ stored \in Seq(Values) /\ sent \in Seq(Values)
      BY <1>1 DEF AciaInit
    <2> QED
      BY <2>1 DEF AciaInit, AciaTypeOK
  <1>3. SimInit => WrittenBy /\ StoredByte /\ SentInv
    BY DEF SimInit, Init, AciaInit, WrittenBy, StoredByte, SentInv, SentSoFar
  <1> QED
    BY <1>2, <1>3 DEF AciaInv

\* Each step keeps what says whether the result of the instruction is stored.
LEMMA WrittenNext ==
    ASSUME TypeOK, Handshake, WrittenBy, [AciaNext]_<<vars, acia>>
    PROVE  WrittenBy'
  <1> USE DEF Handshake, OpFits, WrittenBy, Storing, Access
  <1>1. ASSUME NEW i \in Instruction, AciaFetch(i) PROVE WrittenBy'
    BY <1>1 DEF AciaFetch, Fetch
  <1>2. ASSUME NEW v \in Values, Store(v) PROVE WrittenBy'
    BY <1>2 DEF Store, StoreDue, vars, cpuVars
  <1>3. CASE Tell
    BY <1>3 DEF Tell, StoreDue, SetRwb, SignalWrite, acia
  <1>4. CASE AciaWritePass
    BY <1>4 DEF AciaWritePass, WritePass, cpuVars
  <1>5. CASE AciaKeeps /\ UNCHANGED acia
    <2>1. CASE BeginCycle \/ Stop \/ Pulse \/ Decode \/ Retire \/ Join
      BY <1>5, <2>1 DEF BeginCycle, Stop, Pulse, Decode, Retire, Join, acia
    <2>2. CASE OperandCell
      BY <1>5, <2>2 DEF OperandCell, acia
    <2>3. CASE Signal \/ AwaitRead
      BY <1>5, <2>3 DEF Signal, AwaitRead, acia
    <2>4. CASE \/ Loop \/ Await \/ Switch \/ ReadPass \/ Release \/ Recheck
               \/ AwaitW \/ ReleaseW \/ Clear
      BY <1>5, <2>4 DEF Loop, Await, Switch, ReadPass, Release, Recheck, AwaitW,
         ReleaseW, Clear, cpuVars, acia
    <2> QED
      BY <1>5, <2>1, <2>2, <2>3, <2>4 DEF AciaKeeps
  <1>6. CASE UNCHANGED <<vars, acia>>
    BY <1>6 DEF vars, cpuVars, acia
  <1> QED
    BY <1>1, <1>2, <1>3, <1>4, <1>5, <1>6 DEF AciaNext

\* Each step keeps what is remembered of the byte stored.
LEMMA StoredNext ==
    ASSUME WrittenBy, StoredByte, [AciaNext]_<<vars, acia>>
    PROVE  StoredByte'
  <1> USE DEF WrittenBy, StoredByte
  <1>1. ASSUME NEW i \in Instruction, AciaFetch(i) PROVE StoredByte'
    BY <1>1 DEF AciaFetch
  <1>2. ASSUME NEW v \in Values, Store(v) PROVE StoredByte'
    BY <1>2, OneByte DEF Store, StoreDue, vars, cpuVars, DataRegister
  <1>3. CASE Tell
    BY <1>3 DEF Tell, SetRwb, SignalWrite, acia, DataRegister
  <1>4. CASE AciaWritePass
    BY <1>4 DEF AciaWritePass, WritePass, cpuVars, DataRegister
  <1>5. CASE AciaKeeps /\ UNCHANGED acia
    BY <1>5 DEF AciaKeeps, BeginCycle, Stop, Pulse, Decode, OperandCell, Signal,
       AwaitRead, Retire, Join, Loop, Await, Switch, ReadPass, Release, Recheck,
       AwaitW, ReleaseW, Clear, cpuVars, acia, DataRegister
  <1>6. CASE UNCHANGED <<vars, acia>>
    BY <1>6 DEF vars, cpuVars, acia, DataRegister
  <1> QED
    BY <1>1, <1>2, <1>3, <1>4, <1>5, <1>6 DEF AciaNext

\* data, written, refused and sent keep their types; stored is StoredByte.
LEMMA AciaTypeNext ==
    ASSUME AciaTypeOK, StoredByte', [AciaNext]_<<vars, acia>>
    PROVE  AciaTypeOK'
  <1> DEFINE Kept == /\ data' \in Values /\ written' \in BOOLEAN
                     /\ refused' \in BOOLEAN /\ sent' \in Seq(Values)
  <1>1. Kept
    <2> USE EmptyType DEF AciaTypeOK
    <2>1. ASSUME NEW i \in Instruction, AciaFetch(i) PROVE Kept
      BY <2>1 DEF AciaFetch
    <2>2. ASSUME NEW v \in Values, Store(v) PROVE Kept
      BY <2>2 DEF Store
    <2>3. CASE AciaWritePass
      BY <2>3, AppendType DEF AciaWritePass, Send
    <2>4. CASE UNCHANGED acia
      BY <2>4 DEF acia
    <2> QED
      BY <2>1, <2>2, <2>3, <2>4 DEF AciaNext, Tell
  <1>2. stored' \in Seq(Values) /\ Len(stored') <= 1
    BY <1>1, OneByte, EmptyType DEF StoredByte
  <1> QED
    BY <1>1, <1>2 DEF AciaTypeOK

\* A register of the 6551 is not what a pass without an operand is about.
LEMMA DataRegisterFacts ==
    /\ DataRegister \in Addr /\ DataRegister \notin ZeroPage /\ DataRegister # Imm
    /\ Acia \in 1..Len(Circuit)
  <1>1. Circuit[Acia] \in [address : Nat, regsize : Nat]
    BY CircuitFacts, AciaAssumption
  <1>2. InMemRange(Circuit[Acia], DataRegister)
    BY <1>1, AciaAssumption DEF InMemRange, DataRegister
  <1> QED
    BY <1>2, AciaAssumption, AddrAssumption, ZeroPageAssumption, CircuitFacts
    DEF DataRegister

\* The write pass at the 6551: the byte is on its way exactly if it is the
\* instruction's own.
LEMMA SendNext ==
    ASSUME IInv, WrittenBy, StoredByte, SentInv, AciaTypeOK, AciaWritePass,
           ~raced', ~refused'
    PROVE  SentSoFar'
  <1>1. ~raced /\ ~refused /\ SentSoFar
    BY DEF AciaWritePass, WritePass, Send, SentInv, AciaTypeOK
  <1>2. SyncPlace /\ BusHolds /\ Handshake /\ passAt \in 1..Len(Circuit)
    BY <1>1, CircuitFacts DEF IInv, Prompt, TypeOK
  <1>3. sync = "writePass" /\ memSync \in BOOLEAN
    BY DEF AciaWritePass, WritePass, IInv, TypeOK
  <1>4. /\ UNCHANGED <<cpu, op, cell, memSync, stored, written>>
        /\ sync' \in {"writePass", "releaseW"}
        /\ sync' = "releaseW" => passAt = Len(Circuit)
        /\ sync' = "writePass" => passAt' = passAt + 1
    BY DEF AciaWritePass, WritePass, NextChip, bus, cpuVars
  <1>5. CASE cpu = "wait" /\ memSync
    <2>1. Storing /\ (written <=> Storing) /\ cell = op.at /\ OnBus
      BY <1>1, <1>2, <1>3, <1>5
      DEF SyncPlace, BusHolds, SyncIdle, SentSoFar, WrittenBy, Storing
    <2>2. stored = IF memAddr = DataRegister THEN <<data>> ELSE <<>>
      BY <2>1, DataRegisterFacts DEF StoredByte, OnBus
    <2>3. sent = IF passAt > Acia THEN stored ELSE <<>>
      BY <1>1, <1>3, <1>5, <2>1 DEF SentSoFar, PastAcia
    <2>4. CASE passAt = Acia
      <3>1. sent' = stored
        BY <2>2, <2>3, <2>4, OneByte, DataRegisterFacts
        DEF AciaWritePass, Send, AciaTypeOK
      <3>2. PastAcia'
        BY <1>2, <1>4, <2>4, DataRegisterFacts DEF PastAcia
      <3> QED
        BY <1>4, <1>5, <2>1, <3>1, <3>2 DEF SentSoFar, Storing
    <2>5. CASE passAt # Acia
      <3>1. sent' = sent
        BY <2>5 DEF AciaWritePass
      <3>2. PastAcia' <=> passAt > Acia
        BY <1>2, <1>4, <2>5, DataRegisterFacts DEF PastAcia
      <3> QED
        BY <1>4, <1>5, <2>1, <2>3, <3>1, <3>2 DEF SentSoFar, Storing
    <2> QED
      BY <2>4, <2>5
  <1>6. CASE cpu \in {"waitR", "wait", "join"} /\ ~(cpu = "wait" /\ memSync)
    <2>1. cpu = "join"
      BY <1>2, <1>3, <1>6 DEF SyncPlace, SyncIdle, Handshake, Between, Returning, Serving
    <2> QED
      BY <1>4, <2>1 DEF SentSoFar
  <1>7. cpu \in {"waitR", "wait", "join"}
    BY <1>3, HandshakeExcludes DEF IInv, ChipExclusion, InPass
  <1> QED
    BY <1>5, <1>6, <1>7

\* Each step keeps what has been sent, and when.
LEMMA SentNext ==
    ASSUME IInv, WrittenBy, StoredByte, SentInv, AciaTypeOK,
           [AciaNext]_<<vars, acia>>
    PROVE  SentInv'
  <1> SUFFICES ASSUME ~raced', ~refused' PROVE SentSoFar'
    BY DEF SentInv
  <1>1. ASSUME NEW i \in Instruction, AciaFetch(i) PROVE SentSoFar'
    BY <1>1 DEF AciaFetch, Fetch, SentSoFar, Storing, IInv, Handshake, bus
  <1>2. CASE AciaWritePass
    BY <1>2, SendNext
  <1>3. ASSUME NEW v \in Values, Store(v) PROVE SentSoFar'
    BY <1>3 DEF Store, StoreDue, vars, bus, cpuVars, history, SentInv, SentSoFar, Storing
  <1>4. CASE Tell
    <2>1. /\ ~raced /\ ~refused /\ SentSoFar
          /\ UNCHANGED <<sent, stored, cell, op, sync, passAt>>
      <3>1. ~raced
        BY <1>4 DEF Tell, SetRwb, SignalWrite, history
      <3>2. ~refused /\ UNCHANGED <<sent, stored>>
        BY <1>4 DEF Tell, acia
      <3>3. UNCHANGED <<cell, op, sync, passAt>>
        BY <1>4 DEF Tell, SetRwb, SignalWrite, syncVars
      <3> QED
        BY <3>1, <3>2, <3>3 DEF SentInv
    <2>2. SyncPlace /\ BusHolds /\ Handshake
      BY <2>1 DEF IInv, Prompt
    <2>3. CASE SetRwb
      <3>1. sent = <<>> /\ ~memSync /\ ~memSync'
        BY <2>1, <2>2, <2>3 DEF SetRwb, SentSoFar, Handshake
      <3>2. op.kind = "acc" => ~Storing /\ stored = <<>>
        BY <2>3 DEF SetRwb, Storing, WrittenBy, StoredByte
      <3> QED
        BY <2>1, <2>3, <3>1, <3>2 DEF SetRwb, SentSoFar, Storing
    <2>4. CASE SignalWrite
      <3>1. sent = <<>> /\ cell = op.at /\ ~PastAcia /\ memSync' /\ cpu' = "wait"
        BY <2>1, <2>2, <2>4 DEF SignalWrite, SentSoFar, SyncPlace, BusHolds, PastAcia
      <3> QED
        BY <2>1, <3>1 DEF SentSoFar, Storing, PastAcia
    <2> QED
      BY <1>4, <2>3, <2>4 DEF Tell
  <1>5. CASE AciaKeeps /\ UNCHANGED acia
    <2>1. ~raced /\ ~refused /\ SentSoFar /\ UNCHANGED <<sent, stored, written, data>>
      <3>1. ~raced
        BY <1>5 DEF AciaKeeps, BeginCycle, Stop, Pulse, Decode, OperandCell,
           Signal, AwaitRead, Retire, Join, Loop, Await, Switch, ReadPass, Release,
           Recheck, AwaitW, ReleaseW, Clear, history
      <3>2. ~refused /\ UNCHANGED <<sent, stored, written, data>>
        BY <1>5 DEF acia
      <3> QED
        BY <3>1, <3>2 DEF SentInv
    <2>2. SyncPlace /\ BusHolds /\ Handshake
      BY <2>1 DEF IInv, Prompt
    <2> USE <2>1, <2>2
    <2>3. CASE BeginCycle \/ Stop \/ Pulse \/ Decode \/ Retire \/ Join
      BY <2>3 DEF BeginCycle, Stop, Pulse, Decode, Retire, Join, SentSoFar, Storing, bus
    <2>4. CASE OperandCell
      <3>1. ~memSync /\ sent = <<>> /\ stored = <<>>
        BY <2>4 DEF OperandCell, Handshake, SentSoFar, WrittenBy, StoredByte
      <3> QED
        BY <2>4, <3>1 DEF OperandCell, SentSoFar, Storing, bus
    <2>5. CASE Signal
      <3>1. sent = <<>> /\ cell = op.at /\ ~PastAcia
        BY <2>5 DEF Signal, SentSoFar, SyncPlace, BusHolds, SyncIdle, PastAcia
      <3> QED
        BY <2>5, <3>1 DEF Signal, SentSoFar, Storing, PastAcia, syncVars
    <2>6. CASE AwaitRead
      BY <2>6 DEF AwaitRead, SentSoFar
    <2>7. CASE Loop \/ Await \/ Switch \/ ReadPass \/ Recheck \/ AwaitW \/ Clear
      <3>1. UNCHANGED <<cpu, op, cell, memSync>>
        BY <2>7 DEF Loop, Await, Switch, ReadPass, Recheck, AwaitW, Clear, bus, cpuVars
      <3>2. ~PastAcia /\ ~PastAcia'
        <4>1. sync \notin {"writePass", "releaseW"} /\ sync' # "releaseW"
          BY <2>7 DEF Loop, Await, Switch, ReadPass, Recheck, AwaitW, Clear, NextChip
        <4>2. sync' = "writePass" => passAt' = 1
          BY <2>7 DEF Loop, Await, Switch, ReadPass, Recheck, AwaitW, Clear, NextChip,
                      Handshake
        <4> QED
          BY <4>1, <4>2, DataRegisterFacts, CircuitFacts DEF PastAcia
      <3> QED
        BY <3>1, <3>2 DEF SentSoFar, Storing
    <2>8. CASE Release
      <3>1. cpu = "wait" /\ memSync => ~Storing /\ stored = <<>>
        BY <2>8 DEF Release, SyncPlace, SyncIdle, Storing, WrittenBy, StoredByte
      <3>2. cpu = "wait" => memSync
        BY <2>8 DEF Release, Handshake, Serving
      <3> QED
        BY <2>8, <3>1, <3>2 DEF Release, SentSoFar, Storing, cpuVars
    <2>9. CASE ReleaseW
      <3>1. cpu = "wait" => memSync /\ Storing
        BY <2>9 DEF ReleaseW, Handshake, Serving, SyncPlace, SyncIdle, Storing
      <3> QED
        BY <2>9, <3>1 DEF ReleaseW, SentSoFar, Storing, PastAcia, cpuVars
    <2> QED
      BY <1>5, <2>3, <2>4, <2>5, <2>6, <2>7, <2>8, <2>9 DEF AciaKeeps
  <1>6. CASE UNCHANGED <<vars, acia>>
    BY <1>6 DEF vars, bus, cpuVars, syncVars, history, acia, SentInv, SentSoFar, Storing,
                PastAcia
  <1> QED
    BY <1>1, <1>2, <1>3, <1>4, <1>5, <1>6 DEF AciaNext

\* The invariant of the 6551, over that of the bus.
LEMMA AciaInvariance == SimSpec => [](IInv /\ AciaInv)
  <1>1. SimInit => AciaInv
    BY AciaInvInit
  <1>2. IInv /\ AciaInv /\ [SimNext]_simVars => AciaInv'
    BY AciaStep, WrittenNext, StoredNext, SentNext, AciaTypeNext DEF AciaInv, IInv
  <1> QED
    BY <1>1, <1>2, BusInvariance, PTL DEF SimSpec

\* What the 6551 adds keeps its types; an instruction stores one byte.
THEOREM AciaTypeCorrect == SimSpec => []AciaTypeOK
  <1>1. AciaInv => AciaTypeOK
    BY DEF AciaInv
  <1> QED
    BY <1>1, AciaInvariance, PTL

\* Unless the sync thread has been overtaken or the terminal has refused a
\* byte, an instruction retires with the byte it stored sent, once.
THEOREM SendingCorrect == SimSpec => []SentAsStored
  <1>1. AciaInv => SentAsStored
    BY DEF AciaInv, SentInv, SentSoFar, SentAsStored
  <1> QED
    BY <1>1, AciaInvariance, PTL
=============================================================================
