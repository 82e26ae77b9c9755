------------------------------ MODULE BusSync -------------------------------
(***************************************************************************)
(* The chip bus of the simulator: the handshake between the CPU thread     *)
(* (main loop of sim.c and the instruction functions of funcs.c) and the   *)
(* thread that delivers register accesses to the chips (sync_mem_access,   *)
(* mem.c).  They share three volatile variables and no lock: mem_addr,     *)
(* mem_rwb and mem_sync.  Every load and store of them is a step.          *)
(*                                                                         *)
(* An instruction is reduced to what it does to the bus.  What it does to  *)
(* registers and memory is left out, except for the operand pointer that   *)
(* addrDecode computes, because it reads mem_addr back.                    *)
(***************************************************************************)
EXTENDS Integers, Sequences

CONSTANTS Addr,       \* the addresses instructions use
          ZeroPage,   \* those below 256
          Circuit,    \* the chips, in the order add_chip linked them
          Imm         \* "no address": immediate, register or implied operand

InMemRange(chip, a) == a >= chip.address /\ a < chip.address + chip.regsize

Chips == 1..Len(Circuit)

ASSUME AddrAssumption == /\ ZeroPage \subseteq Addr
                         /\ Addr \subseteq Nat
                         /\ 0 \in ZeroPage
                         /\ Imm \notin Addr

\* foreach_chip dereferences the list head before it tests it, so that the
\* program needs at least one chip.
ASSUME CircuitAssumption == /\ Circuit \in Seq([address : Nat, regsize : Nat])
                            /\ Len(Circuit) > 0

\* Chips are mapped above the zero page, as system1.json does.
ASSUME ZeroPageAssumption ==
    \A i \in Chips, a \in ZeroPage : ~InMemRange(Circuit[i], a)

(***************************************************************************)
(* Instructions, by what they do to the bus.                               *)
(*   read, write, rmw  an access: mem_rwb is set to 1, 0, 2 and mem_sync   *)
(*                     raised once, or twice for rmw                       *)
(*   acc               ASL A, DEX, ...: mem_rwb is set to 2, nothing asked *)
(*   jmp               JMP (ind): addrDecode stores mem_addr, nothing else *)
(*   none              branches, stack, flags, transfers                   *)
(* Modes: "zp" returns &memory[idx_lo], "abs" stands for the modes that    *)
(* return &memory[mem_addr], "ind" stores the one byte it has read.        *)
(***************************************************************************)
Access == {"read", "write", "rmw"}

Instruction ==
         [kind : Access, mode : {"abs"}, at : Addr]
    \cup [kind : Access, mode : {"zp"}, at : ZeroPage]
    \cup [kind : {"jmp"}, mode : {"ind"}, at : ZeroPage]
    \cup [kind : Access \cup {"acc", "none"}, mode : {"imm"}, at : {Imm}]

\* The passes over the chips that an instruction asks for, in order.
Passes(i) == CASE i.kind = "read"  -> <<"read">>
               [] i.kind = "write" -> <<"write">>
               [] i.kind = "rmw"   -> <<"read", "write">>
               [] OTHER            -> <<>>

\* Seeded fault: the encodings of read and write exchanged.
RwbExchanged(i) == CASE i.kind = "write" -> 1
                     [] i.kind = "read"  -> 0
                     [] OTHER            -> 2

\* mem.h: 0 = sync write, 1 = sync read, 2 = sync read, then write
Rwb(i) == CASE i.kind = "write" -> 0
            [] i.kind = "read"  -> 1
            [] OTHER            -> 2

\* The calls of chips in S that a pass of kind k makes for address a.
Calls(k, a, S) == { <<k, c, a - Circuit[c].address>> :
                        c \in { d \in S : InMemRange(Circuit[d], a) } }

\* The chip calls that the instruction's own accesses amount to.
CallsOf(i) ==
    IF i.at = Imm THEN {}
    ELSE UNION { Calls(k, i.at, Chips) :
                    k \in CASE i.kind = "read"  -> {"read"}
                            [] i.kind = "write" -> {"write"}
                            [] i.kind = "rmw"   -> {"read", "write"}
                            [] OTHER            -> {} }

VARIABLES memAddr, memRwb, memSync,   \* the shared variables of mem.c
          running,                    \* sim.running
          cpu,       \* where the CPU thread is
          op,        \* the instruction it executes
          cell,      \* the operand address that addrDecode returned
          pulseAt,   \* the next chip whose clock the CPU thread pulses
          sync,      \* where the sync thread is
          passAt,    \* the next chip of the sync thread's pass
          passes,    \* history: passes made since the fetch
          calls,     \* history: chip calls made since the fetch
          raced      \* history: the CPU stored mem_addr or mem_rwb before the
                     \* sync thread was back at its first wait

bus == <<memAddr, memRwb, memSync, running>>
cpuVars == <<cpu, op, cell, pulseAt>>
syncVars == <<sync, passAt>>
history == <<passes, calls, raced>>
vars == <<bus, cpuVars, syncVars, history>>

NoOp == [kind |-> "none", mode |-> "imm", at |-> Imm]

Init == /\ memAddr = 0 /\ memRwb = 0 /\ memSync = FALSE
        /\ running = TRUE
        /\ cpu = "top" /\ op = NoOp /\ cell = Imm /\ pulseAt = 1
        /\ sync = "loop" /\ passAt = 1
        /\ passes = <<>> /\ calls = {} /\ raced = FALSE

-----------------------------------------------------------------------------
(***************************************************************************)
(* The CPU thread.                                                         *)
(***************************************************************************)

\* while (cpu.PC != 0xFFFF): one more cycle.
BeginCycle == /\ cpu = "top"
              /\ cpu' = "pulse"
              /\ pulseAt' = 1
              /\ UNCHANGED <<bus, op, cell, syncVars, history>>

\* The program counter has reached 0xFFFF: running = false.
Stop == /\ cpu = "top"
        /\ running' = FALSE
        /\ cpu' = "join"
        /\ op' = NoOp
        /\ passes' = <<>> /\ calls' = {}
        /\ UNCHANGED <<memAddr, memRwb, memSync, cell, pulseAt, syncVars, raced>>

\* foreach_chip(chip_pulse_clock), one chip.
Pulse == /\ cpu = "pulse"
         /\ IF pulseAt = Len(Circuit)
              THEN cpu' = "fetch" /\ pulseAt' = 1
              ELSE cpu' = cpu /\ pulseAt' = pulseAt + 1
         /\ UNCHANGED <<bus, op, cell, syncVars, history>>

Fetch(i) == /\ cpu = "fetch"
            /\ op' = i
            /\ cell' = Imm
            /\ passes' = <<>> /\ calls' = {}
            /\ cpu' = IF i.mode # "imm" THEN "decode"
                      ELSE IF i.kind = "none" THEN "wait"
                      ELSE "rwb"
            /\ UNCHANGED <<bus, pulseAt, syncVars, raced>>

\* The sync thread waits for a request, so that a store cannot meet it.
SyncIdle == sync \in {"loop", "await"}

\* Seeded fault: addrDecode forgets to store mem_addr.
DecodeUnstored == /\ cpu = "decode"
                  /\ raced' = (raced \/ ~SyncIdle)
                  /\ cpu' = "cell"
                  /\ UNCHANGED <<bus, op, cell, pulseAt, syncVars, passes, calls>>

\* addrDecode stores mem_addr.
Decode == /\ cpu = "decode"
          /\ memAddr' = op.at
          /\ raced' = (raced \/ ~SyncIdle)
          /\ cpu' = "cell"
          /\ UNCHANGED <<memRwb, memSync, running, op, cell, pulseAt, syncVars,
                         passes, calls>>

\* addrDecode returns &memory[mem_addr] (or &memory[idx_lo], &memory[addr]).
OperandCell == /\ cpu = "cell"
               /\ cell' = IF op.mode = "abs" THEN memAddr ELSE op.at
               /\ cpu' = IF op.kind = "jmp" THEN "wait" ELSE "rwb"
               /\ UNCHANGED <<bus, op, pulseAt, syncVars, history>>

\* mem_rwb = ...
SetRwb == /\ cpu = "rwb"
          /\ memRwb' = Rwb(op)
          /\ raced' = (raced \/ ~SyncIdle)
          /\ cpu' = IF op.kind = "acc" THEN "wait" ELSE "signal"
          /\ UNCHANGED <<memAddr, memSync, running, op, cell, pulseAt, syncVars,
                         passes, calls>>

\* mem_sync = true
Signal == /\ cpu = "signal"
          /\ memSync' = TRUE
          /\ cpu' = IF op.kind = "rmw" THEN "waitR" ELSE "wait"
          /\ UNCHANGED <<memAddr, memRwb, running, op, cell, pulseAt, syncVars,
                         history>>

\* Seeded fault: the modified value is stored and signalled without waiting.
AwaitReadSkipped == /\ cpu = "waitR"
                    /\ cpu' = "signalW"
                    /\ UNCHANGED <<bus, op, cell, pulseAt, syncVars, history>>

\* while (mem_sync); in the middle of a read-modify-write
AwaitRead == /\ cpu = "waitR"
             /\ ~memSync
             /\ cpu' = "signalW"
             /\ UNCHANGED <<bus, op, cell, pulseAt, syncVars, history>>

\* mem_sync = true after the modified value has been stored
SignalWrite == /\ cpu = "signalW"
               /\ memSync' = TRUE
               /\ cpu' = "wait"
               /\ UNCHANGED <<memAddr, memRwb, running, op, cell, pulseAt,
                              syncVars, history>>

\* Seeded fault: the main loop does not wait for the chips.
RetireUnsynced == /\ cpu = "wait"
                  /\ cpu' = "top"
                  /\ UNCHANGED <<bus, op, cell, pulseAt, syncVars, history>>

\* while (mem_sync); at the end of the main loop
Retire == /\ cpu = "wait"
          /\ ~memSync
          /\ cpu' = "top"
          /\ UNCHANGED <<bus, op, cell, pulseAt, syncVars, history>>

\* pthread_join(sync_chip_access_thread), then exit(0)
Join == /\ cpu = "join"
        /\ sync = "exit"
        /\ cpu' = "exit"
        /\ UNCHANGED <<bus, op, cell, pulseAt, syncVars, history>>

Cpu == \/ BeginCycle \/ Stop \/ Pulse
       \/ \E i \in Instruction : Fetch(i)
       \/ Decode \/ OperandCell \/ SetRwb
       \/ Signal \/ AwaitRead \/ SignalWrite \/ Retire
       \/ Join

-----------------------------------------------------------------------------
(***************************************************************************)
(* The sync thread.  `while (!mem_sync && sim->running);' reads two        *)
(* variables.  One step suffices: running falls only after the CPU thread  *)
(* has raised mem_sync for the last time and seen it fall.                 *)
(***************************************************************************)

Loop == /\ sync = "loop"
        /\ sync' = IF running THEN "await" ELSE "exit"
        /\ UNCHANGED <<bus, cpuVars, passAt, history>>

\* Seeded fault: the wait does not look at running.
AwaitDeaf == /\ sync = "await"
             /\ memSync
             /\ sync' = "switch"
             /\ UNCHANGED <<bus, cpuVars, passAt, history>>

Await == /\ sync = "await"
         /\ memSync \/ ~running
         /\ sync' = "switch"
         /\ UNCHANGED <<bus, cpuVars, passAt, history>>

\* Seeded fault: no case 2.
SwitchWithoutRmw ==
    /\ sync = "switch"
    /\ sync' = CASE memRwb = 0 -> "awaitW"
                 [] memRwb = 1 -> "readPass"
                 [] memRwb = 2 -> "clear"
    /\ passAt' = 1
    /\ UNCHANGED <<bus, cpuVars, history>>

\* switch (mem_rwb)
Switch == /\ sync = "switch"
          /\ sync' = IF memRwb = 0 THEN "awaitW" ELSE "readPass"
          /\ passAt' = 1
          /\ UNCHANGED <<bus, cpuVars, history>>

\* chip_sync_read / chip_sync_write for one chip: the chip is called with
\* the register that mem_addr selects, when mem_addr is one of its own.
ChipSync(kind) == calls' = calls \cup Calls(kind, memAddr, {passAt})

\* Seeded fault: one chip too many.
NextChipPastEnd(here, out) == IF passAt > Len(Circuit)
                                THEN sync' = out /\ passAt' = 1
                                ELSE sync' = here /\ passAt' = passAt + 1

\* foreach_chip: to the next chip, or out of the loop.
NextChip(here, out) == IF passAt = Len(Circuit)
                         THEN sync' = out /\ passAt' = 1
                         ELSE sync' = here /\ passAt' = passAt + 1

ReadPass == /\ sync = "readPass"
            /\ ChipSync("read")
            /\ NextChip("readPass", "release")
            /\ UNCHANGED <<bus, cpuVars, passes, raced>>

\* mem_sync = false after the read pass
Release == /\ sync = "release"
           /\ memSync' = FALSE
           /\ passes' = Append(passes, "read")
           /\ sync' = "recheck"
           /\ UNCHANGED <<memAddr, memRwb, running, cpuVars, passAt, calls, raced>>

\* if (mem_rwb == 1) break;   mem_rwb is loaded again
Recheck == /\ sync = "recheck"
           /\ sync' = IF memRwb = 1 THEN "clear" ELSE "awaitW"
           /\ UNCHANGED <<bus, cpuVars, passAt, history>>

AwaitW == /\ sync = "awaitW"
          /\ memSync \/ ~running
          /\ sync' = "writePass"
          /\ UNCHANGED <<bus, cpuVars, passAt, history>>

WritePass == /\ sync = "writePass"
             /\ ChipSync("write")
             /\ NextChip("writePass", "releaseW")
             /\ UNCHANGED <<bus, cpuVars, passes, raced>>

\* mem_sync = false after the write pass
ReleaseW == /\ sync = "releaseW"
            /\ memSync' = FALSE
            /\ passes' = Append(passes, "write")
            /\ sync' = "clear"
            /\ UNCHANGED <<memAddr, memRwb, running, cpuVars, passAt, calls, raced>>

\* Seeded fault: mem_addr keeps the address of the access.
ClearForgotten == /\ sync = "clear"
                  /\ sync' = "loop"
                  /\ UNCHANGED <<bus, cpuVars, passAt, history>>

\* mem_addr = 0
Clear == /\ sync = "clear"
         /\ memAddr' = 0
         /\ sync' = "loop"
         /\ UNCHANGED <<memRwb, memSync, running, cpuVars, passAt, history>>

Sync == \/ Loop \/ Await \/ Switch
        \/ ReadPass \/ Release \/ Recheck
        \/ AwaitW \/ WritePass \/ ReleaseW
        \/ Clear

-----------------------------------------------------------------------------
\* exit(0) has been reached and the sync thread has gone.
Terminated == cpu = "exit" /\ UNCHANGED vars

Next == Cpu \/ Sync \/ Terminated

\* Both are threads of one process, so that the operating system schedules
\* each of them again and again.  Nothing is assumed of when the program
\* being simulated stops, or of the instructions it consists of.
Spec == Init /\ [][Next]_vars /\ WF_vars(Cpu) /\ WF_vars(Sync)

-----------------------------------------------------------------------------
(***************************************************************************)
(* Properties.                                                             *)
(***************************************************************************)

\* The variables hold values of their types.
TypeOK ==
    /\ memAddr \in Addr
    /\ memRwb \in 0..2
    /\ memSync \in BOOLEAN
    /\ running \in BOOLEAN
    /\ cpu \in {"top", "pulse", "fetch", "decode", "cell", "rwb", "signal",
                "waitR", "signalW", "wait", "join", "exit"}
    /\ op \in Instruction
    /\ cell \in Addr \cup {Imm}
    /\ pulseAt \in Chips
    /\ sync \in {"loop", "await", "switch", "readPass", "release", "recheck",
                 "awaitW", "writePass", "releaseW", "clear", "exit"}
    /\ passAt \in Chips
    /\ passes \in Seq({"read", "write"})
    /\ calls \subseteq ({"read", "write"} \X Chips \X Nat)
    /\ raced \in BOOLEAN

InPass == sync \in {"readPass", "writePass"}

\* The two threads are never inside chip functions at the same time: the
\* sync thread calls chips only while the CPU thread is held, although
\* nothing but mem_sync keeps chip_pulse_clock apart from chip_sync_read.
ChipExclusion == InPass => cpu \in {"waitR", "wait", "join"}

\* All chips of a pass see the same access: mem_addr and mem_rwb do not
\* change from the first to the last chip of foreach_chip.
PassSeesOneAccess == [][InPass => UNCHANGED <<memAddr, memRwb>>]_vars

\* No request is dropped or served twice, in any interleaving: when an
\* instruction retires, the sync thread has made as many passes as the
\* instruction raised mem_sync.
OnePassPerRequest ==
    cpu = "wait" /\ ~memSync => Len(passes) = Len(Passes(op))

\* As long as the CPU thread has never overtaken the sync thread, each
\* instruction retires with exactly its own chip calls made, read before
\* write, and nothing called for operands that are not on the bus.
ServedExactly ==
    cpu = "wait" /\ ~memSync /\ ~raced => /\ passes = Passes(op)
                                          /\ calls = CallsOf(op)

\* As long as the CPU thread has never overtaken the sync thread, the
\* instruction works on the memory cell that its operand names.
OwnCell == cpu \in {"rwb", "signal", "waitR", "signalW"} /\ ~raced => cell = op.at

\* The pass that sync_mem_access makes on its way out, when running has
\* fallen and nobody asked, calls no chip.
QuietShutdown == ~running /\ ~raced => calls = {}

\* Every instruction that has been fetched retires.
InstructionsRetire == (cpu = "decode" \/ cpu = "rwb") ~> (cpu = "top")

\* Once running is false both threads come to their end.
ShutdownCompletes == ~running ~> (cpu = "exit" /\ sync = "exit")

\* The bus implements the rendezvous: the client is the CPU thread, the
\* server the sync thread, a transaction an instruction that accesses memory.
Bus == INSTANCE Rendezvous WITH
         MaxPasses <- 2,
         open <- running,
         turn <- IF memSync THEN "server" ELSE "client",
         due <- IF cpu \in {"top", "pulse", "fetch", "join", "exit"} THEN 0
                ELSE Len(Passes(op)) - Len(passes)

ImplementsRendezvous == Bus!Spec

\* What a reader of mem.c expects of every access, raced or not.  Not
\* invariants of this specification.
\*   mem.c: read sync is required, so that a chip may toggle internal states
ReadReachesChip ==
    cpu = "wait" /\ ~memSync /\ op.kind = "read" => CallsOf(op) \subseteq calls

\*   funcs.c: Return address of this memory cell
CellAsDecoded == cpu \in {"rwb", "signal", "waitR", "signalW"} => cell = op.at
=============================================================================
