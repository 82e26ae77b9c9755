--------------------------- MODULE BusSyncProofs ----------------------------
(***************************************************************************)
(* Proofs about BusSync, for every address set and every circuit.          *)
(*                                                                         *)
(* The invariant has three layers.  TypeOK.  Handshake says who may move:  *)
(* it holds whatever the threads do and yields ChipExclusion,              *)
(* PassSeesOneAccess and OnePassPerRequest, and the refinement.  Prompt    *)
(* says where both threads are, and what the bus and the chips hold, as    *)
(* long as the CPU thread has not overtaken the sync thread; it yields     *)
(* ServedExactly, OwnCell and QuietShutdown.                               *)
(***************************************************************************)
EXTENDS BusSync, SequenceTheorems, TLAPS

-----------------------------------------------------------------------------
\* Inside an instruction, with a request outstanding.
Asking == memSync /\ cpu \in {"waitR", "wait"}

\* States in which the sync thread acts on a request.
Serving == {"switch", "readPass", "release", "writePass", "releaseW"}

\* What the operand has to do with the bus, by where the CPU thread is.
OpFits ==
    /\ cpu \in {"decode", "cell"} => op.mode # "imm"
    /\ cpu = "rwb" => op.kind \in Access \cup {"acc"}
    /\ cpu = "signal" => op.kind \in Access
    /\ cpu \in {"waitR", "signalW"} => op.kind = "rmw"

PassCount ==
    /\ cpu \in {"decode", "cell", "rwb", "signal"} => passes = <<>>
    /\ cpu = "waitR" => Len(passes) = IF memSync THEN 0 ELSE 1
    /\ cpu = "signalW" => Len(passes) = 1
    /\ cpu = "wait" => Len(passes) = Len(Passes(op)) - IF memSync THEN 1 ELSE 0

Handshake ==
    /\ OpFits
    /\ PassCount
    /\ memSync => cpu \in {"waitR", "wait"}
    /\ running <=> cpu \notin {"join", "exit"}
    /\ cpu = "exit" => sync = "exit"
    /\ running => sync # "exit"
    /\ running /\ sync \in Serving => memSync
    /\ sync \notin {"readPass", "writePass"} => passAt = 1

-----------------------------------------------------------------------------
\* The chip calls of kind k that the instruction asks of the chips in S.
OpCalls(k, S) == IF op.at = Imm THEN {} ELSE Calls(k, op.at, S)

\* What the read pass, and the write pass, have called so far.
ReadCalls == IF sync = "readPass" THEN OpCalls("read", 1..(passAt - 1))
             ELSE IF sync = "release" THEN OpCalls("read", Chips)
             ELSE {}

WriteCalls == IF sync = "writePass" THEN OpCalls("write", 1..(passAt - 1))
              ELSE IF sync = "releaseW" THEN OpCalls("write", Chips)
              ELSE {}

\* The bus holds the operand's address, or one that no chip answers to.
OnBus == IF op.at = Imm THEN memAddr \in ZeroPage ELSE memAddr = op.at

\* Between two accesses, as the CPU thread sees it.
Between == \/ cpu \in {"top", "pulse", "fetch", "decode", "join", "exit"}
           \/ cpu = "wait" /\ ~memSync

\* On the way back from a read, with nothing left to do but to clear.
Returning == sync = "clear" \/ (sync = "recheck" /\ memRwb = 1)

\* Where the sync thread is.
SyncPlace ==
    /\ cpu \in {"cell", "signal"} => SyncIdle
    /\ cpu = "rwb" /\ op.at # Imm => SyncIdle
    /\ (Between \/ cpu = "rwb") /\ running => SyncIdle \/ Returning
    /\ cpu = "waitR" /\ memSync =>
         SyncIdle \/ sync \in {"switch", "readPass", "release"}
    /\ cpu = "waitR" /\ ~memSync => sync \in {"recheck", "awaitW"}
    /\ cpu = "signalW" => sync \in {"recheck", "awaitW"}
    /\ cpu = "wait" /\ memSync =>
         \/ /\ op.kind = "read"
            /\ SyncIdle \/ sync \in {"switch", "readPass", "release"}
         \/ /\ op.kind = "write"
            /\ SyncIdle \/ sync \in {"switch", "awaitW", "writePass", "releaseW"}
         \/ /\ op.kind = "rmw"
            /\ sync \in {"recheck", "awaitW", "writePass", "releaseW"}

\* What the bus holds.
BusHolds ==
    /\ cpu \in {"rwb", "signal", "waitR", "signalW"} => cell = op.at
    /\ cpu = "cell" => memAddr = op.at
    /\ cpu = "rwb" /\ SyncIdle => OnBus
    /\ cpu \in {"signal", "waitR", "signalW"} => OnBus /\ memRwb = Rwb(op)
    /\ cpu = "wait" /\ memSync => OnBus /\ memRwb = Rwb(op)
    /\ Between => memAddr \in ZeroPage \/ Returning

\* What the chips have been told since the fetch.
Told ==
    /\ cpu \in {"decode", "cell", "rwb", "signal"} => calls = {}
    /\ cpu = "waitR" /\ memSync => calls = ReadCalls
    /\ cpu = "waitR" /\ ~memSync =>
         passes = <<"read">> /\ calls = OpCalls("read", Chips)
    /\ cpu = "signalW" =>
         passes = <<"read">> /\ calls = OpCalls("read", Chips)
    /\ cpu = "wait" /\ memSync =>
         \/ op.kind = "read" /\ calls = ReadCalls
         \/ op.kind = "write" /\ calls = WriteCalls
         \/ /\ op.kind = "rmw" /\ passes = <<"read">>
            /\ calls = OpCalls("read", Chips) \cup WriteCalls
    /\ cpu = "wait" /\ ~memSync => passes = Passes(op) /\ calls = CallsOf(op)
    /\ ~running => calls = {}

Prompt == ~raced => SyncPlace /\ BusHolds /\ Told

IInv == TypeOK /\ Handshake /\ Prompt

-----------------------------------------------------------------------------
(***************************************************************************)
(* The operators of the model.                                             *)
(***************************************************************************)

\* Kind, mode and address of an instruction go together.
LEMMA InstructionFields ==
    ASSUME NEW i \in Instruction
    PROVE  /\ i.kind \in {"read", "write", "rmw", "acc", "jmp", "none"}
           /\ i.at \in Addr \cup {Imm}
           /\ i.mode = "imm" <=> i.at = Imm
           /\ i.kind = "jmp" => i.at \in ZeroPage
           /\ i.kind \in {"acc", "none"} => i.at = Imm
           /\ i.mode # "imm" => i.kind \in Access \cup {"jmp"}
  BY AddrAssumption DEF Instruction, Access

\* What is in op before the first instruction is one.
LEMMA NoOpType == NoOp \in Instruction
  <1> DEFINE K == Access \cup {"acc", "none"}
  <1>1. NoOp \in [kind : K, mode : {"imm"}, at : {Imm}]
    BY DEF NoOp
  <1> QED
    BY <1>1 DEF Instruction

\* The empty sequence has its type.
LEMMA EmptyType == ASSUME NEW S PROVE <<>> \in Seq(S) /\ Len(<<>>) = 0
  OBVIOUS

\* So has a sequence with one more element.
LEMMA AppendType ==
    ASSUME NEW S, NEW s \in Seq(S), NEW e \in S
    PROVE  /\ Append(s, e) \in Seq(S)
           /\ Len(Append(s, e)) = Len(s) + 1
           /\ Len(s) \in Nat
  OBVIOUS

\* The circuit has a first chip, and its chips have a range.
LEMMA CircuitFacts ==
    /\ Len(Circuit) \in Nat \ {0}
    /\ Chips = 1..Len(Circuit)
    /\ 1 \in Chips
    /\ \A c \in Chips : Circuit[c] \in [address : Nat, regsize : Nat]
  <1> DEFINE ChipRecord == [address : Nat, regsize : Nat]
  <1>1. Circuit \in Seq(ChipRecord) /\ Len(Circuit) > 0
    BY CircuitAssumption
  <1> HIDE DEF ChipRecord
  <1>2. /\ Len(Circuit) \in Nat \ {0}
        /\ Chips = 1..Len(Circuit)
        /\ 1 \in Chips
        /\ \A c \in Chips : Circuit[c] \in ChipRecord
    BY <1>1 DEF Chips
  <1> QED
    BY <1>2 DEF ChipRecord

\* A chip is called with the number of one of its registers.
LEMMA CallsType ==
    ASSUME NEW k \in {"read", "write"}, NEW a \in Addr, NEW S \in SUBSET Chips
    PROVE  Calls(k, a, S) \subseteq ({"read", "write"} \X Chips \X Nat)
  <1> SUFFICES ASSUME NEW c \in S, InMemRange(Circuit[c], a)
               PROVE  a - Circuit[c].address \in Nat
    BY DEF Calls
  <1> QED
    BY CircuitFacts, AddrAssumption DEF InMemRange

\* No chip answers to the zero page.
LEMMA ZeroPageCalls ==
    ASSUME NEW k, NEW a \in ZeroPage, NEW S \in SUBSET Chips
    PROVE  Calls(k, a, S) = {}
  BY ZeroPageAssumption DEF Calls

\* A pass goes over the chips one at a time, and over all of them.
LEMMA CallsGrow ==
    ASSUME NEW k, NEW a, NEW n \in Chips
    PROVE  /\ Calls(k, a, 1..(n - 1)) \cup Calls(k, a, {n}) = Calls(k, a, 1..n)
           /\ Calls(k, a, 1..0) = {}
  <1>1. (1..(n - 1)) \cup {n} = 1..n
    BY CircuitFacts
  <1>2. ASSUME NEW S, NEW T
        PROVE  Calls(k, a, S) \cup Calls(k, a, T) = Calls(k, a, S \cup T)
    BY DEF Calls
  <1>3. 1..0 = {}
    OBVIOUS
  <1> QED
    BY <1>1, <1>2, <1>3 DEF Calls

-----------------------------------------------------------------------------
(***************************************************************************)
(* Types.                                                                  *)
(***************************************************************************)

\* The types hold at the start.
LEMMA TypeInit == Init => TypeOK
  <1> SUFFICES ASSUME Init PROVE TypeOK
    OBVIOUS
  <1>1. op \in Instruction
    BY NoOpType DEF Init
  <1>2. passes \in Seq({"read", "write"})
    BY EmptyType DEF Init
  <1>3. memAddr \in Addr
    BY AddrAssumption DEF Init
  <1>4. memRwb \in 0..2 /\ pulseAt \in Chips /\ passAt \in Chips
    BY CircuitFacts DEF Init
  <1>5. calls \subseteq ({"read", "write"} \X Chips \X Nat)
    BY DEF Init
  <1> QED
    BY <1>1, <1>2, <1>3, <1>4, <1>5 DEF Init, TypeOK

\* Each step keeps them.
LEMMA TypeNext == TypeOK /\ OpFits /\ [Next]_vars => TypeOK'
  <1> SUFFICES ASSUME TypeOK, OpFits, [Next]_vars PROVE TypeOK'
    OBVIOUS
  <1> USE CircuitFacts DEF TypeOK
  <1>1. CASE Cpu
    <2>1. CASE BeginCycle
      BY <2>1 DEF BeginCycle, bus, syncVars, history
    <2>2. CASE Stop
      BY <2>2, NoOpType, EmptyType DEF Stop, syncVars
    <2>3. CASE Pulse
      BY <2>3 DEF Pulse, bus, syncVars, history
    <2>4. ASSUME NEW i \in Instruction, Fetch(i) PROVE TypeOK'
      BY <2>4 DEF Fetch, bus, syncVars
    <2>5. CASE Decode
      BY <2>5, InstructionFields DEF Decode, OpFits, syncVars
    <2>6. CASE OperandCell
      BY <2>6, InstructionFields DEF OperandCell, bus, syncVars, history
    <2>7. CASE SetRwb
      BY <2>7 DEF SetRwb, syncVars, Rwb
    <2>8. CASE Signal
      BY <2>8 DEF Signal, syncVars, history
    <2>9. CASE AwaitRead
      BY <2>9 DEF AwaitRead, bus, syncVars, history
    <2>10. CASE SignalWrite
      BY <2>10 DEF SignalWrite, syncVars, history
    <2>11. CASE Retire
      BY <2>11 DEF Retire, bus, syncVars, history
    <2>12. CASE Join
      BY <2>12 DEF Join, bus, syncVars, history
    <2> QED
      BY <1>1, <2>1, <2>2, <2>3, <2>4, <2>5, <2>6, <2>7, <2>8, <2>9, <2>10,
         <2>11, <2>12 DEF Cpu
  <1>2. CASE Sync
    <2>1. CASE Loop
      BY <2>1 DEF Loop, bus, cpuVars, history
    <2>2. CASE Await
      BY <2>2 DEF Await, bus, cpuVars, history
    <2>3. CASE Switch
      BY <2>3 DEF Switch, bus, cpuVars, history
    <2>4. ASSUME NEW k \in {"read", "write"} PROVE
          ChipSync(k) => calls' \subseteq ({"read", "write"} \X Chips \X Nat)
      BY CallsType DEF ChipSync
    <2>5. CASE ReadPass
      BY <2>5, <2>4 DEF ReadPass, NextChip, bus, cpuVars
    <2>6. CASE Release
      BY <2>6, AppendType DEF Release, cpuVars
    <2>7. CASE Recheck
      BY <2>7 DEF Recheck, bus, cpuVars, history
    <2>8. CASE AwaitW
      BY <2>8 DEF AwaitW, bus, cpuVars, history
    <2>9. CASE WritePass
      BY <2>9, <2>4 DEF WritePass, NextChip, bus, cpuVars
    <2>10. CASE ReleaseW
      BY <2>10, AppendType DEF ReleaseW, cpuVars
    <2>11. CASE Clear
      BY <2>11, AddrAssumption DEF Clear, cpuVars, history
    <2> QED
      BY <1>2, <2>1, <2>2, <2>3, <2>5, <2>6, <2>7, <2>8, <2>9, <2>10, <2>11
      DEF Sync
  <1>3. CASE UNCHANGED vars
    BY <1>3 DEF vars, bus, cpuVars, syncVars, history
  <1> QED
    BY <1>1, <1>2, <1>3 DEF Next, Terminated

-----------------------------------------------------------------------------
(***************************************************************************)
(* The handshake.                                                          *)
(***************************************************************************)

\* How many passes an instruction asks for.
LEMMA PassesLength ==
    ASSUME NEW i \in Instruction
    PROVE  /\ i.kind \in {"read", "write"} => Len(Passes(i)) = 1
           /\ i.kind = "rmw" => Len(Passes(i)) = 2
           /\ i.kind \in {"acc", "jmp", "none"} => Len(Passes(i)) = 0
  BY DEF Passes

\* The handshake holds at the start.
LEMMA HandshakeInit == Init => Handshake
  BY DEF Init, Handshake, OpFits, PassCount, Serving

\* Each step keeps it, whether the CPU overtakes or not.
LEMMA HandshakeNext == TypeOK /\ Handshake /\ [Next]_vars => Handshake'
  <1> SUFFICES ASSUME TypeOK, Handshake, [Next]_vars PROVE Handshake'
    OBVIOUS
  <1>p. /\ Len(passes) \in Nat
        /\ passes = <<>> => Len(passes) = 0
        /\ \A k \in {"read", "write"} : Len(Append(passes, k)) = Len(passes) + 1
    BY AppendType, EmptyType DEF TypeOK
  <1>o. /\ op.kind \in {"read", "write"} => Len(Passes(op)) = 1
        /\ op.kind = "rmw" => Len(Passes(op)) = 2
        /\ op.kind \in {"acc", "jmp", "none"} => Len(Passes(op)) = 0
        /\ op.kind \in {"read", "write", "rmw", "acc", "jmp", "none"}
        /\ op.mode # "imm" => op.kind \in Access \cup {"jmp"}
    BY PassesLength, InstructionFields DEF TypeOK
  <1> USE DEF Handshake, OpFits, PassCount
  <1>1. CASE Cpu
    <2>1. CASE BeginCycle
      BY <2>1 DEF BeginCycle, bus, syncVars, history
    <2>2. CASE Stop
      BY <2>2 DEF Stop, syncVars
    <2>3. CASE Pulse
      BY <2>3 DEF Pulse, bus, syncVars, history
    <2>4. ASSUME NEW i \in Instruction, Fetch(i) PROVE Handshake'
      <3>1. /\ i.kind \in {"read", "write", "rmw", "acc", "jmp", "none"}
            /\ i.mode = "imm" => i.kind # "jmp"
            /\ i.kind = "none" => Len(Passes(i)) = 0
        BY InstructionFields, PassesLength, AddrAssumption
      <3> QED
        BY <2>4, <3>1, EmptyType DEF Fetch, bus, syncVars, Access
    <2>5. CASE Decode
      BY <2>5 DEF Decode, syncVars
    <2>6. CASE OperandCell
      BY <2>6, <1>p, <1>o DEF OperandCell, bus, syncVars, history
    <2>7. CASE SetRwb
      BY <2>7, <1>p, <1>o DEF SetRwb, syncVars
    <2>8. CASE Signal
      BY <2>8, <1>p, <1>o DEF Signal, syncVars, history, Access
    <2>9. CASE AwaitRead
      BY <2>9 DEF AwaitRead, bus, syncVars, history
    <2>10. CASE SignalWrite
      <3>1. Len(passes) = 1 /\ Len(Passes(op)) = 2
        BY <2>10, <1>o DEF SignalWrite
      <3> QED
        BY <2>10, <3>1 DEF SignalWrite, syncVars, history
    <2>11. CASE Retire
      BY <2>11 DEF Retire, bus, syncVars, history
    <2>12. CASE Join
      BY <2>12 DEF Join, bus, syncVars, history
    <2> QED
      BY <1>1, <2>1, <2>2, <2>3, <2>4, <2>5, <2>6, <2>7, <2>8, <2>9, <2>10,
         <2>11, <2>12 DEF Cpu
  <1>2. CASE Sync
    <2> USE DEF Serving
    <2>1. CASE Loop
      BY <2>1 DEF Loop, bus, cpuVars, history
    <2>2. CASE Await
      BY <2>2 DEF Await, bus, cpuVars, history
    <2>3. CASE Switch
      BY <2>3 DEF Switch, bus, cpuVars, history
    <2>4. CASE ReadPass
      BY <2>4 DEF ReadPass, NextChip, bus, cpuVars
    <2>5. CASE Release
      BY <2>5, <1>p, <1>o DEF Release, cpuVars
    <2>6. CASE Recheck
      BY <2>6 DEF Recheck, bus, cpuVars, history
    <2>7. CASE AwaitW
      BY <2>7 DEF AwaitW, bus, cpuVars, history
    <2>8. CASE WritePass
      BY <2>8 DEF WritePass, NextChip, bus, cpuVars
    <2>9. CASE ReleaseW
      BY <2>9, <1>p, <1>o DEF ReleaseW, cpuVars
    <2>10. CASE Clear
      BY <2>10 DEF Clear, cpuVars, history
    <2> QED
      BY <1>2, <2>1, <2>2, <2>3, <2>4, <2>5, <2>6, <2>7, <2>8, <2>9, <2>10
      DEF Sync
  <1>3. CASE UNCHANGED vars
    BY <1>3 DEF vars, bus, cpuVars, syncVars, history
  <1> QED
    BY <1>1, <1>2, <1>3 DEF Next, Terminated

\* Every variable keeps its type, and the handshake its order, for all
\* addresses and circuits.
LEMMA BaseInvariant == Spec => [](TypeOK /\ Handshake)
  <1>1. Init => TypeOK /\ Handshake
    BY TypeInit, HandshakeInit
  <1>2. TypeOK /\ Handshake /\ [Next]_vars => (TypeOK /\ Handshake)'
    BY TypeNext, HandshakeNext DEF Handshake
  <1> QED
    BY <1>1, <1>2, PTL DEF Spec

\* Every variable keeps its type, for all addresses and circuits.
THEOREM TypeCorrect == Spec => []TypeOK
  BY BaseInvariant, PTL

\* What the handshake implies of a state.
LEMMA HandshakeExcludes == TypeOK /\ Handshake => ChipExclusion
  BY DEF TypeOK, Handshake, ChipExclusion, InPass, Serving

\* It gives each instruction as many passes as it asked for.
LEMMA HandshakeCounts == TypeOK /\ Handshake => OnePassPerRequest
  <1> SUFFICES ASSUME TypeOK, Handshake, cpu = "wait", ~memSync
               PROVE  Len(passes) = Len(Passes(op))
    BY DEF OnePassPerRequest
  <1>1. Len(Passes(op)) \in Nat
    BY PassesLength, InstructionFields DEF TypeOK
  <1> QED
    BY <1>1 DEF Handshake, PassCount

\* The threads are never inside chip functions together.
THEOREM ExclusionCorrect == Spec => []ChipExclusion
  BY HandshakeExcludes, BaseInvariant, PTL

\* No request is dropped or served twice, whatever the interleaving.
THEOREM RequestsCorrect == Spec => []OnePassPerRequest
  BY HandshakeCounts, BaseInvariant, PTL

\* A step that moves mem_addr or mem_rwb is not made during a pass.
LEMMA PassesKeep ==
    TypeOK /\ Handshake /\ [Next]_vars
      => [InPass => UNCHANGED <<memAddr, memRwb>>]_vars
  <1> SUFFICES ASSUME TypeOK, Handshake, [Next]_vars, InPass
               PROVE  UNCHANGED <<memAddr, memRwb>>
    OBVIOUS
  <1>1. cpu \in {"waitR", "wait", "join"}
    BY DEF TypeOK, Handshake, InPass, Serving
  <1>2. ~Decode /\ ~SetRwb /\ ~Clear
    BY <1>1 DEF Decode, SetRwb, Clear, InPass
  <1> QED
    BY <1>2 DEF Next, Cpu, Sync, Terminated, vars, bus, BeginCycle, Stop,
       Pulse, Fetch, OperandCell, Signal, AwaitRead, SignalWrite, Retire,
       Join, Loop, Await, Switch, ReadPass, Release, Recheck, AwaitW,
       WritePass, ReleaseW

\* mem_addr and mem_rwb do not move under a pass over the chips.
THEOREM PassesStable == Spec => PassSeesOneAccess
  BY PassesKeep, BaseInvariant, PTL DEF PassSeesOneAccess, Spec

-----------------------------------------------------------------------------
(***************************************************************************)
(* Steps of a run in which the CPU thread has not overtaken the sync       *)
(* thread.                                                                 *)
(***************************************************************************)

\* What holds unless the sync thread is overtaken holds at the start.
LEMMA PromptInit == Init => Prompt
  BY AddrAssumption DEF Init, Prompt, SyncPlace, BusHolds, Told, Between,
     Returning, SyncIdle

\* Once overtaken, it counts as overtaken for good.
LEMMA RacedStays == [Next]_vars /\ ~raced' => ~raced
  BY DEF Next, Cpu, Sync, Terminated, vars, history, BeginCycle, Stop, Pulse,
     Fetch, Decode, OperandCell, SetRwb, Signal, AwaitRead, SignalWrite,
     Retire, Join, Loop, Await, Switch, ReadPass, Release, Recheck, AwaitW,
     WritePass, ReleaseW, Clear

\* Each thread is where the other one expects it.
LEMMA SyncPlaceNext ==
    ASSUME TypeOK, Handshake, SyncPlace, BusHolds, Told, [Next]_vars, ~raced'
    PROVE  SyncPlace'
  <1>o. /\ op.kind \in {"read", "write", "rmw", "acc", "jmp", "none"}
        /\ op.mode = "imm" <=> op.at = Imm
        /\ op.kind = "write" => Rwb(op) = 0
        /\ op.kind = "read" => Rwb(op) = 1
        /\ op.kind = "rmw" => Rwb(op) = 2
    BY InstructionFields DEF TypeOK, Rwb
  <1> USE <1>o DEF TypeOK, Handshake, OpFits, Serving, SyncPlace, BusHolds, Told,
                   SyncIdle, Returning, Between, Access
  <1>1. CASE Cpu
    <2>1. CASE BeginCycle
      BY <2>1 DEF BeginCycle, bus, syncVars, history
    <2>2. CASE Stop
      BY <2>2 DEF Stop, syncVars
    <2>3. CASE Pulse
      BY <2>3 DEF Pulse, bus, syncVars, history
    <2>4. ASSUME NEW i \in Instruction, Fetch(i) PROVE SyncPlace'
      BY <2>4, InstructionFields DEF Fetch, bus, syncVars
    <2>5. CASE Decode
      BY <2>5 DEF Decode, syncVars
    <2>6. CASE OperandCell
      BY <2>6 DEF OperandCell, bus, syncVars, history
    <2>7. CASE SetRwb
      BY <2>7 DEF SetRwb, syncVars
    <2>8. CASE Signal
      BY <2>8 DEF Signal, syncVars, history
    <2>9. CASE AwaitRead
      BY <2>9 DEF AwaitRead, bus, syncVars, history
    <2>10. CASE SignalWrite
      BY <2>10 DEF SignalWrite, syncVars, history
    <2>11. CASE Retire
      BY <2>11 DEF Retire, bus, syncVars, history
    <2>12. CASE Join
      BY <2>12 DEF Join, bus, syncVars, history
    <2> QED
      BY <1>1, <2>1, <2>2, <2>3, <2>4, <2>5, <2>6, <2>7, <2>8,
         <2>9, <2>10, <2>11, <2>12 DEF Cpu
  <1>2. CASE Sync
    <2>1. CASE Loop
      BY <2>1 DEF Loop, bus, cpuVars, history
    <2>2. CASE Await
      BY <2>2 DEF Await, bus, cpuVars, history
    <2>3. CASE Switch
      BY <2>3 DEF Switch, bus, cpuVars, history
    <2>4. CASE ReadPass
      BY <2>4 DEF ReadPass, NextChip, bus, cpuVars
    <2>5. CASE Release
      BY <2>5 DEF Release, cpuVars
    <2>6. CASE Recheck
      BY <2>6 DEF Recheck, bus, cpuVars, history
    <2>7. CASE AwaitW
      BY <2>7 DEF AwaitW, bus, cpuVars, history
    <2>8. CASE WritePass
      BY <2>8 DEF WritePass, NextChip, bus, cpuVars
    <2>9. CASE ReleaseW
      BY <2>9 DEF ReleaseW, cpuVars
    <2>10. CASE Clear
      BY <2>10 DEF Clear, cpuVars, history
    <2> QED
      BY <1>2, <2>1, <2>2, <2>3, <2>4, <2>5, <2>6, <2>7, <2>8, <2>9, <2>10
      DEF Sync
  <1>3. CASE UNCHANGED vars
    BY <1>3 DEF vars, bus, cpuVars, syncVars, history
  <1> QED
    BY <1>1, <1>2, <1>3 DEF Next, Terminated

\* The bus holds what the instruction put there until it is served.
LEMMA BusHoldsNext ==
    ASSUME TypeOK, Handshake, SyncPlace, BusHolds, Told, [Next]_vars, ~raced'
    PROVE  BusHolds'
  <1>o. /\ op.kind \in {"read", "write", "rmw", "acc", "jmp", "none"}
        /\ op.mode = "imm" <=> op.at = Imm
        /\ op.kind = "jmp" => op.at \in ZeroPage
        /\ op.kind = "acc" => op.at = Imm
        /\ op.kind = "write" => Rwb(op) = 0
        /\ op.kind = "read" => Rwb(op) = 1
        /\ op.kind = "rmw" => Rwb(op) = 2
    BY InstructionFields DEF TypeOK, Rwb
  <1> USE <1>o DEF TypeOK, Handshake, OpFits, Serving, SyncPlace, BusHolds, Told,
                   SyncIdle, Returning, Between, Access, OnBus
  <1>1. CASE Cpu
    <2>1. CASE BeginCycle
      BY <2>1 DEF BeginCycle, bus, syncVars, history
    <2>2. CASE Stop
      BY <2>2, AddrAssumption DEF Stop, syncVars
    <2>3. CASE Pulse
      BY <2>3 DEF Pulse, bus, syncVars, history
    <2>4. ASSUME NEW i \in Instruction, Fetch(i) PROVE BusHolds'
      BY <2>4, InstructionFields DEF Fetch, bus, syncVars
    <2>5. CASE Decode
      BY <2>5 DEF Decode, syncVars
    <2>6. CASE OperandCell
      BY <2>6 DEF OperandCell, bus, syncVars, history
    <2>7. CASE SetRwb
      BY <2>7 DEF SetRwb, syncVars
    <2>8. CASE Signal
      BY <2>8 DEF Signal, syncVars, history
    <2>9. CASE AwaitRead
      BY <2>9 DEF AwaitRead, bus, syncVars, history
    <2>10. CASE SignalWrite
      BY <2>10 DEF SignalWrite, syncVars, history
    <2>11. CASE Retire
      BY <2>11 DEF Retire, bus, syncVars, history
    <2>12. CASE Join
      BY <2>12 DEF Join, bus, syncVars, history
    <2> QED
      BY <1>1, <2>1, <2>2, <2>3, <2>4, <2>5, <2>6, <2>7, <2>8,
         <2>9, <2>10, <2>11, <2>12 DEF Cpu
  <1>2. CASE Sync
    <2>1. CASE Loop
      BY <2>1 DEF Loop, bus, cpuVars, history
    <2>2. CASE Await
      BY <2>2 DEF Await, bus, cpuVars, history
    <2>3. CASE Switch
      BY <2>3 DEF Switch, bus, cpuVars, history
    <2>4. CASE ReadPass
      BY <2>4 DEF ReadPass, NextChip, bus, cpuVars
    <2>5. CASE Release
      BY <2>5 DEF Release, cpuVars
    <2>6. CASE Recheck
      BY <2>6 DEF Recheck, bus, cpuVars, history
    <2>7. CASE AwaitW
      BY <2>7 DEF AwaitW, bus, cpuVars, history
    <2>8. CASE WritePass
      BY <2>8 DEF WritePass, NextChip, bus, cpuVars
    <2>9. CASE ReleaseW
      BY <2>9 DEF ReleaseW, cpuVars
    <2>10. CASE Clear
      BY <2>10, AddrAssumption DEF Clear, cpuVars, history
    <2> QED
      BY <1>2, <2>1, <2>2, <2>3, <2>4, <2>5, <2>6, <2>7, <2>8, <2>9, <2>10
      DEF Sync
  <1>3. CASE UNCHANGED vars
    BY <1>3 DEF vars, bus, cpuVars, syncVars, history
  <1> QED
    BY <1>1, <1>2, <1>3 DEF Next, Terminated

\* With the operand on the bus, a pass calls what the operand asks for.
LEMMA BusCalls ==
    ASSUME TypeOK, OnBus, NEW k, NEW S \in SUBSET Chips
    PROVE  Calls(k, memAddr, S) = OpCalls(k, S)
  BY ZeroPageCalls DEF OnBus, OpCalls

\* The calls of a pass grow chip by chip to those of the whole circuit.
LEMMA PassGrows ==
    ASSUME TypeOK, OnBus, NEW k
    PROVE  /\ OpCalls(k, 1..(passAt - 1)) \cup Calls(k, memAddr, {passAt})
                = OpCalls(k, 1..passAt)
           /\ OpCalls(k, 1..0) = {}
           /\ OpCalls(k, 1..Len(Circuit)) = OpCalls(k, Chips)
  <1>1. passAt \in Chips
    BY DEF TypeOK
  <1>2. Calls(k, memAddr, {passAt}) = OpCalls(k, {passAt})
    BY <1>1, BusCalls
  <1>3. OpCalls(k, 1..(passAt - 1)) \cup OpCalls(k, {passAt})
          = OpCalls(k, 1..passAt)
    BY <1>1, CallsGrow DEF OpCalls
  <1>4. OpCalls(k, 1..0) = {}
    BY <1>1, CallsGrow DEF OpCalls
  <1> QED
    BY <1>2, <1>3, <1>4 DEF Chips

\* The calls of an instruction are those of its passes.
LEMMA CallsOfOp ==
    ASSUME TypeOK
    PROVE  /\ op.kind = "read" => CallsOf(op) = OpCalls("read", Chips)
           /\ op.kind = "write" => CallsOf(op) = OpCalls("write", Chips)
           /\ op.kind = "rmw" =>
                CallsOf(op) = OpCalls("read", Chips) \cup OpCalls("write", Chips)
           /\ op.kind \in {"acc", "jmp", "none"} => CallsOf(op) = {}
  BY DEF CallsOf, OpCalls

\* The passes of an instruction, by its kind.
LEMMA PassesOfOp ==
    ASSUME TypeOK
    PROVE  /\ op.kind = "read" => Passes(op) = <<"read">>
           /\ op.kind = "write" => Passes(op) = <<"write">>
           /\ op.kind = "rmw" => Passes(op) = <<"read", "write">>
           /\ op.kind \in {"acc", "jmp", "none"} => Passes(op) = <<>>
  BY DEF Passes

\* Passes, one after the other.
LEMMA AppendPass ==
    ASSUME NEW S, NEW a \in S, NEW k \in S
    PROVE  /\ Append(<<>>, k) = <<k>>
           /\ Append(<<a>>, k) = <<a, k>>
  <1>1. /\ <<>> \in Seq(S) /\ Len(<<>>) = 0
        /\ <<a>> \in Seq(S) /\ Len(<<a>>) = 1 /\ <<a>>[1] = a
        /\ <<k>> \in Seq(S) /\ Len(<<k>>) = 1 /\ <<k>>[1] = k
        /\ <<a, k>> \in Seq(S) /\ Len(<<a, k>>) = 2
        /\ <<a, k>>[1] = a /\ <<a, k>>[2] = k
    OBVIOUS
  <1>2. /\ Append(<<>>, k) \in Seq(S) /\ Len(Append(<<>>, k)) = 1
        /\ Append(<<>>, k)[1] = k
    BY <1>1, AppendProperties
  <1>3. /\ Append(<<a>>, k) \in Seq(S) /\ Len(Append(<<a>>, k)) = 2
        /\ Append(<<a>>, k)[1] = a /\ Append(<<a>>, k)[2] = k
    BY <1>1, AppendProperties
  <1>4. Append(<<>>, k) = <<k>>
    <2>1. \A i \in 1..1 : Append(<<>>, k)[i] = <<k>>[i]
      BY <1>1, <1>2
    <2> QED
      BY <1>1, <1>2, <2>1, SeqEqual, Zenon
  <1>5. Append(<<a>>, k) = <<a, k>>
    <2>1. \A i \in 1..2 : Append(<<a>>, k)[i] = <<a, k>>[i]
      BY <1>1, <1>3
    <2> QED
      BY <1>1, <1>3, <2>1, SeqEqual, Zenon
  <1> QED
    BY <1>4, <1>5

\* The chips are told what the instruction asks for, and nothing else.
LEMMA ToldNext ==
    ASSUME TypeOK, Handshake, SyncPlace, BusHolds, Told, [Next]_vars, ~raced'
    PROVE  Told'
  <1>o. /\ op.kind \in {"read", "write", "rmw", "acc", "jmp", "none"}
        /\ op.kind \in {"acc", "none"} => op.at = Imm
        /\ op.mode = "imm" => op.kind # "jmp"
    BY InstructionFields, AddrAssumption DEF TypeOK
  <1>c. /\ op.kind = "read" => CallsOf(op) = OpCalls("read", Chips)
        /\ op.kind = "write" => CallsOf(op) = OpCalls("write", Chips)
        /\ op.kind = "rmw" =>
              CallsOf(op) = OpCalls("read", Chips) \cup OpCalls("write", Chips)
        /\ op.kind \in {"acc", "jmp", "none"} => CallsOf(op) = {}
    BY CallsOfOp
  <1>s. /\ op.kind = "read" => Passes(op) = <<"read">>
        /\ op.kind = "write" => Passes(op) = <<"write">>
        /\ op.kind = "rmw" => Passes(op) = <<"read", "write">>
        /\ op.kind \in {"acc", "jmp", "none"} => Passes(op) = <<>>
    BY PassesOfOp
  <1>g. memSync =>
        \A k \in {"read", "write"} :
           /\ OpCalls(k, 1..(passAt - 1)) \cup Calls(k, memAddr, {passAt})
                = OpCalls(k, 1..passAt)
           /\ OpCalls(k, 1..0) = {}
           /\ OpCalls(k, 1..Len(Circuit)) = OpCalls(k, Chips)
    BY PassGrows DEF Handshake, BusHolds
  <1>p. passAt \in Nat /\ (passAt + 1) - 1 = passAt /\ 1 - 1 = 0
    BY CircuitFacts DEF TypeOK
  <1>a. /\ Append(<<>>, "read") = <<"read">>
        /\ Append(<<>>, "write") = <<"write">>
        /\ Append(<<"read">>, "write") = <<"read", "write">>
    <2>1. "read" \in {"read", "write"} /\ "write" \in {"read", "write"}
      OBVIOUS
    <2> QED
      BY <2>1, AppendPass
  <1>e. passes = <<>> \/ Len(passes) # 0
    BY EmptySeq DEF TypeOK
  <1>w. cpu = "wait" /\ memSync /\ op.kind = "write" => passes = <<>>
    <2> SUFFICES ASSUME cpu = "wait", memSync, op.kind = "write"
                 PROVE  Len(passes) = 0
      BY <1>e
    <2>1. Len(Passes(op)) = 1
      BY PassesLength DEF TypeOK
    <2>2. Len(passes) = Len(Passes(op)) - 1
      BY DEF Handshake, PassCount
    <2> QED
      BY <2>1, <2>2
  <1> USE <1>o DEF Handshake, OpFits, PassCount, Serving, SyncPlace, Told,
                   SyncIdle, Returning, Between, Access, ReadCalls, WriteCalls,
                   OpCalls
  <1>1. CASE Cpu
    <2>1. CASE BeginCycle
      BY <2>1 DEF BeginCycle, bus, syncVars, history
    <2>2. CASE Stop
      BY <2>2 DEF Stop, syncVars
    <2>3. CASE Pulse
      BY <2>3 DEF Pulse, bus, syncVars, history
    <2>4. ASSUME NEW i \in Instruction, Fetch(i) PROVE Told'
      <3>1. /\ i.kind \in {"read", "write", "rmw", "acc", "jmp", "none"}
            /\ i.mode = "imm" => i.kind # "jmp"
            /\ i.kind = "none" => Passes(i) = <<>> /\ CallsOf(i) = {}
        BY InstructionFields, AddrAssumption DEF Passes, CallsOf
      <3> QED
        BY <2>4, <3>1 DEF Fetch, bus, syncVars
    <2>5. CASE Decode
      BY <2>5 DEF Decode, syncVars
    <2>6. CASE OperandCell
      BY <2>6, <1>c, <1>s DEF OperandCell, bus, syncVars, history
    <2>7. CASE SetRwb
      BY <2>7, <1>c, <1>s DEF SetRwb, syncVars
    <2>8. CASE Signal
      BY <2>8 DEF Signal, syncVars, history
    <2>9. CASE AwaitRead
      BY <2>9 DEF AwaitRead, bus, syncVars, history
    <2>10. CASE SignalWrite
      BY <2>10 DEF SignalWrite, syncVars, history
    <2>11. CASE Retire
      BY <2>11 DEF Retire, bus, syncVars, history
    <2>12. CASE Join
      BY <2>12 DEF Join, bus, syncVars, history
    <2> QED
      BY <1>1, <2>1, <2>2, <2>3, <2>4, <2>5, <2>6, <2>7, <2>8,
         <2>9, <2>10, <2>11, <2>12 DEF Cpu
  <1>2. CASE Sync
    <2>1. CASE Loop
      BY <2>1 DEF Loop, bus, cpuVars, history
    <2>2. CASE Await
      BY <2>2 DEF Await, bus, cpuVars, history
    <2>3. CASE Switch
      BY <2>3, <1>g, <1>p DEF Switch, bus, cpuVars, history
    <2>4. CASE ReadPass
      <3>1. CASE running
        <4>1. memSync /\ calls' = calls \cup Calls("read", memAddr, {passAt})
          BY <2>4, <3>1 DEF ReadPass, ChipSync
        <4> QED
          BY <2>4, <3>1, <4>1, <1>g, <1>p DEF ReadPass, NextChip, bus, cpuVars
      <3>2. CASE ~running
        <4>1. calls' = {}
          <5>1. memAddr \in ZeroPage
            BY <2>4, <3>2 DEF ReadPass, BusHolds
          <5>2. {passAt} \in SUBSET Chips
            BY DEF TypeOK
          <5> QED
            BY <2>4, <3>2, <5>1, <5>2, ZeroPageCalls DEF ReadPass, ChipSync
        <4> QED
          BY <2>4, <3>2, <4>1 DEF ReadPass, NextChip, bus, cpuVars
      <3> QED
        BY <3>1, <3>2 DEF TypeOK
    <2>5. CASE Release
      <3>1. CASE running
        <4>1. /\ cpu \in {"waitR", "wait"} /\ calls = OpCalls("read", Chips)
              /\ op.kind \in {"read", "rmw"} /\ passes = <<>>
              /\ cpu = "wait" => op.kind = "read"
          BY <2>5, <3>1, <1>e, PassesLength DEF Release, TypeOK
        <4>2. passes' = <<"read">>
          BY <2>5, <4>1, <1>a DEF Release
        <4> QED
          BY <2>5, <3>1, <4>1, <4>2, <1>c, <1>s DEF Release, cpuVars
      <3>2. CASE ~running
        BY <2>5, <3>2 DEF Release, cpuVars
      <3> QED
        BY <3>1, <3>2 DEF TypeOK
    <2>6. CASE Recheck
      BY <2>6 DEF Recheck, bus, cpuVars, history
    <2>7. CASE AwaitW
      BY <2>7, <1>g, <1>p DEF AwaitW, bus, cpuVars, history
    <2>8. CASE WritePass
      <3>1. CASE running
        <4>1. memSync /\ calls' = calls \cup Calls("write", memAddr, {passAt})
          BY <2>8, <3>1 DEF WritePass, ChipSync
        <4> QED
          BY <2>8, <3>1, <4>1, <1>g, <1>p DEF WritePass, NextChip, bus, cpuVars
      <3>2. CASE ~running
        <4>1. calls' = {}
          <5>1. memAddr \in ZeroPage
            BY <2>8, <3>2 DEF WritePass, BusHolds
          <5>2. {passAt} \in SUBSET Chips
            BY DEF TypeOK
          <5> QED
            BY <2>8, <3>2, <5>1, <5>2, ZeroPageCalls DEF WritePass, ChipSync
        <4> QED
          BY <2>8, <3>2, <4>1 DEF WritePass, NextChip, bus, cpuVars
      <3> QED
        BY <3>1, <3>2 DEF TypeOK
    <2>9. CASE ReleaseW
      <3>1. CASE running
        <4>1. /\ cpu = "wait" /\ op.kind \in {"write", "rmw"}
              /\ op.kind = "write" => passes = <<>>
              /\ op.kind = "rmw" => passes = <<"read">>
              /\ calls = CallsOf(op)
          <5>1. cpu = "wait" /\ memSync /\ op.kind \in {"write", "rmw"}
            BY <2>9, <3>1 DEF ReleaseW
          <5>2. op.kind = "write" => passes = <<>>
            BY <5>1, <1>w
          <5>3. WriteCalls = OpCalls("write", Chips)
            BY <2>9 DEF ReleaseW
          <5> QED
            BY <5>1, <5>2, <5>3, <1>c
        <4>2. passes' = Passes(op)
          BY <2>9, <4>1, <1>a, <1>s DEF ReleaseW
        <4> QED
          BY <2>9, <3>1, <4>1, <4>2 DEF ReleaseW, cpuVars
      <3>2. CASE ~running
        BY <2>9, <3>2 DEF ReleaseW, cpuVars
      <3> QED
        BY <3>1, <3>2 DEF TypeOK
    <2>10. CASE Clear
      BY <2>10 DEF Clear, cpuVars, history
    <2> QED
      BY <1>2, <2>1, <2>2, <2>3, <2>4, <2>5, <2>6, <2>7, <2>8, <2>9, <2>10
      DEF Sync
  <1>3. CASE UNCHANGED vars
    BY <1>3 DEF vars, bus, cpuVars, syncVars, history
  <1> QED
    BY <1>1, <1>2, <1>3 DEF Next, Terminated

\* Each step keeps what holds unless the sync thread is overtaken.
LEMMA PromptNext == TypeOK /\ Handshake /\ Prompt /\ [Next]_vars => Prompt'
  BY RacedStays, SyncPlaceNext, BusHoldsNext, ToldNext DEF Prompt

\* The invariant holds at first, and every step preserves it.
LEMMA IInvInit == Init => IInv
  BY TypeInit, HandshakeInit, PromptInit DEF IInv

\* Each step keeps the invariant.
LEMMA IInvNext == IInv /\ [Next]_vars => IInv'
  BY TypeNext, HandshakeNext, PromptNext DEF IInv, Handshake

\* The inductive invariant.
THEOREM Invariance == Spec => []IInv
  BY IInvInit, IInvNext, PTL DEF Spec

\* Unless the CPU thread has overtaken the sync thread, an instruction
\* retires with its own chip calls made and no others.
THEOREM ServiceCorrect == Spec => []ServedExactly
  <1>1. IInv => ServedExactly
    BY DEF IInv, Prompt, Told, ServedExactly
  <1> QED
    BY <1>1, Invariance, PTL

\* Unless overtaken, the operand pointer is that of the decoded address.
THEOREM OperandCorrect == Spec => []OwnCell
  <1>1. IInv => OwnCell
    BY DEF IInv, Prompt, BusHolds, OwnCell
  <1> QED
    BY <1>1, Invariance, PTL

\* Unless overtaken, the unasked pass at shutdown calls no chip.
THEOREM ShutdownCorrect == Spec => []QuietShutdown
  <1>1. IInv => QuietShutdown
    BY DEF IInv, Prompt, Told, QuietShutdown
  <1> QED
    BY <1>1, Invariance, PTL

-----------------------------------------------------------------------------
(***************************************************************************)
(* The bus implements the rendezvous, as far as safety goes: in every      *)
(* interleaving, raced or not, requests and passes alternate and an        *)
(* instruction gets the number of passes it is due.                        *)
(***************************************************************************)

\* The number of passes that the instruction still waits for.
Due == IF cpu \in {"top", "pulse", "fetch", "join", "exit"} THEN 0
       ELSE Len(Passes(op)) - Len(passes)

\* Each step of the bus is one of the rendezvous, or none.
LEMMA StepRefines ==
    ASSUME TypeOK, Handshake, [Next]_vars
    PROVE  [Bus!Next]_(Bus!vars)
  <1>p. /\ Len(passes) \in Nat
        /\ passes = <<>> => Len(passes) = 0
        /\ \A k \in {"read", "write"} : Len(Append(passes, k)) = Len(passes) + 1
    BY AppendType, EmptyType DEF TypeOK
  <1>o. /\ op.kind \in {"read", "write"} => Len(Passes(op)) = 1
        /\ op.kind = "rmw" => Len(Passes(op)) = 2
        /\ op.kind \in {"acc", "jmp", "none"} => Len(Passes(op)) = 0
        /\ op.kind \in {"read", "write", "rmw", "acc", "jmp", "none"}
    BY PassesLength, InstructionFields DEF TypeOK
  <1> USE DEF Handshake, OpFits, PassCount, Bus!vars
  <1>1. CASE Stop
    <2>1. Bus!Close
      BY <1>1 DEF Stop, Bus!Close
    <2> QED
      BY <2>1 DEF Bus!Next
  <1>2. ASSUME NEW i \in Instruction, Fetch(i) PROVE [Bus!Next]_(Bus!vars)
    <2>2. Len(Passes(i)) \in 0..2
      BY PassesLength, InstructionFields
    <2>3. ~memSync /\ ~memSync' /\ running /\ running'
      BY <1>2 DEF Fetch, bus
    <2>4. Due = 0 /\ Due' = Len(Passes(i))
      BY <1>2, <2>2, EmptyType DEF Fetch, Due
    <2>5. CASE Len(Passes(i)) = 0
      BY <2>3, <2>4, <2>5 DEF Due
    <2>6. CASE Len(Passes(i)) # 0
      <3>1. Bus!Issue(Len(Passes(i)))
        BY <2>3, <2>4 DEF Due, Bus!Issue
      <3>2. Len(Passes(i)) \in 1..2
        BY <2>2, <2>6
      <3> QED
        BY <3>1, <3>2 DEF Bus!Next
    <2> QED
      BY <2>5, <2>6
  <1>3. CASE Signal
    <2>1. Bus!Ask
      BY <1>3, <1>p, <1>o DEF Signal, syncVars, history, Access, Bus!Ask
    <2> QED
      BY <2>1 DEF Bus!Next
  <1>4. CASE SignalWrite
    <2>1. Bus!Ask
      <3>1. Len(passes) = 1 /\ Len(Passes(op)) = 2
        BY <1>4, <1>o DEF SignalWrite
      <3> QED
        BY <1>4, <3>1 DEF SignalWrite, syncVars, history, Bus!Ask
    <2> QED
      BY <2>1 DEF Bus!Next
  <1>5. CASE Release
    <2>1. CASE running
      <3>1. Bus!Serve
        BY <1>5, <2>1, <1>p, <1>o DEF Release, cpuVars, Serving, Bus!Serve
      <3> QED
        BY <3>1 DEF Bus!Next
    <2>2. CASE ~running
      BY <1>5, <2>2 DEF Release, cpuVars, TypeOK
    <2> QED
      BY <2>1, <2>2 DEF TypeOK
  <1>6. CASE ReleaseW
    <2>1. CASE running
      <3>1. Bus!Serve
        BY <1>6, <2>1, <1>p, <1>o DEF ReleaseW, cpuVars, Serving, Bus!Serve
      <3> QED
        BY <3>1 DEF Bus!Next
    <2>2. CASE ~running
      BY <1>6, <2>2 DEF ReleaseW, cpuVars, TypeOK
    <2> QED
      BY <2>1, <2>2 DEF TypeOK
  <1>7. CASE \/ BeginCycle \/ Pulse \/ Decode \/ OperandCell \/ SetRwb
             \/ AwaitRead \/ Retire \/ Join
    BY <1>7, <1>p, <1>o DEF BeginCycle, Pulse, Decode, OperandCell, SetRwb,
       AwaitRead, Retire, Join, bus, history
  <1>8. CASE \/ Loop \/ Await \/ Switch \/ ReadPass \/ Recheck \/ AwaitW
             \/ WritePass \/ Clear
    BY <1>8 DEF Loop, Await, Switch, ReadPass, Recheck, AwaitW, WritePass,
       Clear, bus, cpuVars, history
  <1>9. CASE UNCHANGED vars
    BY <1>9 DEF vars, bus, cpuVars, syncVars, history
  <1> QED
    BY <1>1, <1>2, <1>3, <1>4, <1>5, <1>6, <1>7, <1>8, <1>9
    DEF Next, Cpu, Sync, Terminated

\* Every behaviour of the bus is one of the rendezvous.
THEOREM Refinement == Spec => Bus!Init /\ [][Bus!Next]_(Bus!vars)
  <1>1. Init => Bus!Init
    BY DEF Init, Bus!Init
  <1>2. TypeOK /\ Handshake /\ [Next]_vars => [Bus!Next]_(Bus!vars)
    BY StepRefines
  <1> QED
    BY <1>1, <1>2, BaseInvariant, PTL DEF Spec
=============================================================================
