# 65simc in TLA+

65simc simulates a computer with a 6502 processor: `sim.c` fetches and executes
instructions in its main loop, three more threads pace them, deliver register
accesses to the chips on the bus, and draw a window. This directory holds the
TLA+ modules that model it, the TLC configurations that check them on small
instances, and the TLAPS proofs about them.

## Inventory

| Component | State | Operations | Correct when |
|---|---|---|---|
| **CPU** (`6502.c`, `funcs.c`, main loop of `sim.c`) | `cpu.A X Y S PC P`, `memory[65536]` | fetch, table lookup, 32 instruction functions (8 without a body), `addrDecode` with 15 modes, `STACK_STORE/LOAD` | documented instructions have their documented length, operand, accesses and flags; the stack gives back what was pushed |
| **Arithmetic** (`funcs.c`) | none (values and flags) | ADC, SBC in both modes, CMP, BIT, shifts, rotations, counters | results and flags are those of the arithmetic they stand for |
| **Chip bus** (`mem.c`, `mem.h`) | `mem_addr`, `mem_rwb`, `mem_sync`, all volatile, no lock | the CPU stores address and kind and raises `mem_sync`; `sync_mem_access` calls `sync_read`/`sync_write` of each chip in range and lowers it; the CPU calls each chip's `pulse_clock` | one pass per request, of the right kind, for the right register; the two threads are never inside chips together |
| **Pacing** (`sim.c`, `clock_sync.c`) | `sync_clock`, `inst_cycles`, `clock_loop`, `clock_loop_times`, `timer_fd` | `timer_func` with a counting loop (up to 3 cycles) or a timer (more); the main loop tunes `clock_loop` | every instruction is held for its own cycles; tuning cannot disable the loop |
| **Start and end** (`main`) | `running`, thread handles | ROM, reset vector, configuration, reset of the chips, calibration, prompt, threads, `PC = $FFFF`, joins | no thread meets a simulator that is not ready; every thread ends |
| **Circuit** (`sim.c`) | linked list of chips | `add_chip`, `foreach_chip` | each chip visited once, in the order of the document |
| **Configuration** (`cfg.c`) | one token pointer, the chip being read, the calls that are active | `config_parse`, `config_parse_cpu`, `config_parse_chip` call each other, each counting down the children of a token | the circuit is the one the document declares; a wrong document is turned down |
| **Tokenizer** (`jsmn.c`) | position, token array, `toksuper` | `jsmn_parse` over braces, colons, commas, strings, primitives | the size of each token is the number of its children in the document |
| **6551** (`6551.c`) | terminal file | `sync_write` sends the byte in memory; `stepclock` reads one and drops it | bytes sent are those the program stored, once each |
| **6522, AY-3-8910** | none | hooks that print | nothing to promise |
| **GUI** (`gui.c`) | window | draws until `running` falls | ends |
| **`opcodes.py`, `testrom/`** | | a listing script, 6502 programs | not part of the running program |

How they interact. The main thread is the only one that executes instructions.
It raises `sync_clock` before the instruction function and `mem_sync` inside
it, and spins on both (first `mem_sync`, then `sync_clock`) before it begins
the next one. The timer thread lowers `sync_clock`, the sync thread `mem_sync`.
Everything else that the threads share (`mem_addr`, `mem_rwb`, the delay
inputs, `memory[]`, the chips) is guarded by these two flags or by nothing.
`running` falls when PC reaches `$FFFF`, and main joins the threads.

What is hard here, and where the properties are aimed (`hazards` in
PROJECT.json, one entry per line of code; what no property covers has a note that says why): loads and stores of shared
variables that are made after the other thread has been released (`mem.c:56`,
`mem.c:77`, `funcs.c:57`); a pass that visits chip after chip while the CPU
might move on; a timer thread that makes a lap before anyone asks; spins that
must end at shutdown; a rounding that must not reach 0; sequences of pushes and
pulls while S wraps; PC that is advanced in three places; two-way corrections of
decimal arithmetic; flags that stay as they were until some later branch; a main
thread that waits for two servers one after the other; a byte that is sent from
where it was stored, later and by another thread; a tree of which only counts are
left, walked by three functions with one pointer.

## Modules

| Module | Stands for | State and actions |
|---|---|---|
| `Rendezvous` | the promise of both handshakes, abstract | `turn`, `due`, `open`; Issue, Ask, Serve, Close |
| `BusSync` | `mem.c` and the CPU's side of it | the three shared variables, `running`, a program counter per thread; one action per load or store of a shared variable and one per chip of a `foreach_chip` |
| `MCBusSync` | its instance | six addresses, three chips |
| `BusSyncProofs` | theorems about `BusSync` | |
| `ClockSync` | main loop, `timer_func`, `clock_sync.c`, joins | the shared variables of `sim65_t`, program counters of main, timer and GUI thread; one action per load or store, the counting loop counts |
| `MCClockSync`, `ClockSyncProofs` | its instance and theorems | |
| `Alu` | the computations of `funcs.c` | operators: (status, operands) to (value, status) |
| `MCAlu` | their meaning, and a walk through all operands | |
| `AluLemmas`, `AluProofs` | what the operators of `Alu` return, and theorems about their meaning | |
| `Cpu6502` | fetch, table, `addrDecode`, the instruction functions | registers, memory, `bus` (accesses signalled by the last instruction); one action per function |
| `CpuDocs` | the matrix of `docs/6502.proc.info`, as properties of `Cpu6502` | |
| `Calls` | what stack and calls are for | adds the history `pushed`: the bytes that were pushed and not yet pulled |
| `MCCpu` | programs and bounds | |
| `CpuProofs`, `CallsProofs` | theorems about `Cpu6502` and `CpuDocs`, and about `Calls` | |
| `Acia6551` | `6551.c` on the bus | extends `BusSync` with the cell of the data register, the store in the middle of an instruction, and the bytes sent |
| `Sim` | the running simulator: `sim.c` from its loop to `exit(0)` | `BusSync`, `Acia6551` and `ClockSync` with one main thread; one action per statement of the main loop |
| `MCSim`, `SimProofs` | its instance and theorems | |
| `Jsmn` | `jsmn/jsmn.c` | text, position, tokens, `toksuper`; one action per kind of lexeme |
| `Nesting` | what a text nests in what | the tree of a text, from the positions of its lexemes alone, without recursion |
| `Config` | `cfg.c`, `add_chip`, what the constructors leave | the token pointer, the active calls, the circuit; one action per case of each function's loop |
| `Startup` | `main` up to its loop, `read_config_json` | where main is, and the actions of `Jsmn` and `Config`, for any text |
| `Documents` | what a document means, and what of that the start must keep | operators over its tree |
| `MCStartup`, `StartupProofs` | documents, and theorems about `Startup` | |

Composition. `BusSync` and `ClockSync` each see the main thread from one side
and implement the same `Rendezvous`; `Cpu6502` uses `Alu` and says what each
instruction asks of the bus, `BusSync` takes any such sequence of requests and
`ClockSync` any sequence of cycle counts. `Fetch(i)` of `BusSync` ranges over
the shapes that the instruction functions have (read, write, read-modify-write,
accumulator, JMP (ind), none), so its results hold for every program.

`Sim` puts the sides together. The main thread is at `cpu` for the bus and at
`clk` for the pacing; a statement that concerns both is a joint step (the top of
the loop, the fetch, the end of the wait for `mem_sync`, the end of the program),
the others are steps of one in the order of the loop. `ImplementsBus` and
`ImplementsClock` are the specifications of the two components, as properties of
the whole: each step of the four threads is a step of either or none, and what
was assumed as fairness of a main thread that waits for one server only is
justified for one that waits for two. The bytes of registers and memory stay out
of it but for the data register of the 6551, so that `Cpu6502` is composed with
it by the shapes above.

`Startup` leads up to the state in which `Sim` begins: `running` set, the chips
reset, `clock_loop` calibrated. `Config` and `Jsmn` are parts of it, not
components that run beside it: their actions are steps of main.

Abstractions, with the reason for each:

* `BusSync` leaves out registers and memory, which no other thread's control
  depends on. `while (!mem_sync && running);` loads two variables; one step
  stands for it because `running` falls only after the last request was served.
  Loads and stores are taken in program order, as the variables are volatile:
  address, operand pointer, kind, request.
* `ClockSync` leaves out real time: a delay is what it waits for (a bound for
  the counting loop, cycles for the timer). The measured factor is any that the
  code accepts (between 0.5 and 2), the calibration a constant.
* `Alu` writes a status register as the set of its flags; masks and `|=` become
  set difference and union. Integers have the widths of the code (bytes are
  taken modulo 256, the 16-bit temporary of SBC modulo 65536).
* `Cpu6502` executes one instruction per step, with all the calls it makes. Only
  the CPU thread changes registers and memory, so no other thread can see the
  middle of it; what it shows of itself on the bus is the subject of `BusSync`.
  The fetch at the reset vector, the null pointer of an opcode without a mode
  (the simulator crashes) and the empty functions of `cc = 3` (PC stays) are
  modelled. Opcode and operand bytes that run beyond `$FFFF` index `memory[]`
  out of its bounds: programs in the instances stay below.
* `Jsmn` reads lexemes, not characters: whitespace is skipped, a string or a
  primitive is one of them; a string without an end and a byte that is not
  printable are lexemes of their own, for the two kinds of error. A token has
  its text and the place of its first lexeme in place of its boundaries. Escapes
  matter only where they break off.
* `Config` has one step for a turn of a loop with all that it does until the next
  one or until a call; the frames are the C stack. Texts are equal or not, and an
  address is the number that `strtol` makes of it, for the texts the instance
  has. They are taken to be shorter than the buffers of 256 bytes that each token
  is copied to, objects included, and nothing is said of longer ones. A token that
  `jsmn_parse` has not filled ends the behaviour as `undefined`. The address of a
  chip without `addr` is a value of its own (`Unassigned`); `BusSync` has such a
  chip with `regsize` 0 only, as AY-3-8910 in `system1.json`, to which no address
  matches. Another one would answer wherever that memory says.
* `Startup`: failing calls (no ROM, no configuration file, no terminal, no timer,
  no thread) are choices. What stands in `jbuffer` behind the text is part of the
  input. The window is left out.
* `Acia6551`: which byte an instruction stores is a choice. The store is a step
  before the bus is told, as in the source; `write()` may fail.

Operators marked "Seeded fault" are variants of the definition that follows
them, each with a mistake that could have been made in that code (a wait left
out, a case forgotten, a half-carry at the wrong bound). No specification uses
them. They serve to confirm that each property can fail: putting one in the
place of its original makes TLC find the property listed with it in
PROJECT.json (`mutants`) violated.

## Runs

Each cfg is checked with `tlc -config X.cfg M`.

| Run | Question | Instance and why it is enough |
|---|---|---|
| `bus` | Does the handshake serve each access once and exactly, keep the threads apart, and end? | Circuit as `system1.json`: two chips with registers at different places in the list and one without, an address in the range of each register, one between (zero page and above) and 0; every instruction shape; every interleaving. 9525 states. |
| `clock` | Is each instruction held for its own cycles? | Cycle counts 0, 2, 3, 4, 7: both sides of the limit 3, and 0 as the table has for opcodes without a function. `clock_loop` from 2, tuned down to 1 (where rounding matters) and up to 3. 6556 states. |
| `alu` | Are the results and flags right? | All 256 x 256 operands, both carries, both modes: exhaustive. N, V and Z are up before, so that a flag that is not lowered shows. 262144 states. |
| `cpu` | Do the instructions decode, address, signal and set flags as documented, and does the stack work? | All 256 opcodes on 18 settings of registers, flags and operands chosen at the boundaries (index over an even and an odd page, over the zero page, over the end of memory; operands 0, 35, 235), and all 1331 programs of three slots from PHA PLA PHP PLP RTS RTI BRK NOP JSR TXS. 67633 states. |
| `startup` | Is the circuit the one the document declares, and does nothing start before it is ready? | 2362 inputs: a chip with up to three members out of twelve, right and wrong, in any order, alone; up to two, in front of another chip; all pairs of fourteen members that a document may have; a document like `system1.json` cut behind every lexeme, with a bracket too many at the cut, and with something behind it. Two members show the order of `type` and `addr`, the third one what a container does to the count. `MaxTokens` is 24 in place of 128: the largest document has 29. 81257 states. |
| `sim` | Do four threads together do what bus and pacing do apart, and is each stored byte sent? | A 6551 with its data register and one more, and the zero page; two bytes, so that an old one shows; every instruction shape, every interleaving. Instructions wait for the timer; the counting loop runs in the first lap, and both in `clock`. 269534 states. |
| `bus_lost_access`, `bus_wrong_cell`, `alu_zero`, `cpu_bit_five`, `cpu_index`, `cpu_load_flags` | Findings, below | The same instances. |

Bounds, all named in the modules: `Addr`, `ZeroPage`, `Circuit` (bus);
`Cycles`, `MaxClockLoop` (clock; tuning above it is cut off); `Values` (sim);
`MaxTokens`, `Inputs` (startup); `CodeSpace`,
`StackSpace`, `MaxPushed`, `Roms` (cpu: recursion ends when S leaves
`StackSpace`, on both sides of its wrap; nine bytes are remembered, as much as
three breaks push).
`alu` and `cpu` switch deadlock checking off because their behaviours end: with
the last operand, and where a program stops, crashes or leaves its bounds.

What the passing runs show:

* `bus`: `ChipExclusion` and `PassSeesOneAccess` hold in every interleaving.
  `OnePassPerRequest` too: no request is dropped or served twice. What is served
  can be wrong, but only when the CPU has overtaken the sync thread (history
  variable `raced`: it stored `mem_addr` or `mem_rwb` while that thread was not
  back at its wait): otherwise `ServedExactly`, `OwnCell` and `QuietShutdown`
  hold. The CPU normally takes longer to begin an instruction than the sync
  thread needs for its last three statements, which is why the program works;
  nothing in the code makes it so. `InstructionsRetire` and `ShutdownCompletes`
  are the liveness side; `ImplementsRendezvous` states that all of it implements
  `Rendezvous`, its fairness included, so that each request is served.
* `clock`: `HeldForOwnCycles` and `DelayInputsStable` hold from the second
  instruction on. The first may be released by the lap that `timer_func` makes
  before it is asked. `LoopNeverDies`: halving with `round` stops at 1.
* `alu`: results, carries, borrows and overflows, in both modes. Of the other flags
  only what the code and `docs/6502.proc.info` have in common: N of SBC where the
  signed difference does not overflow, N of a comparison where the difference fits a
  signed byte, Z of SBC where there is no borrow, LSR without its N, and not Z of
  ADC. The rest is a finding (Z of ADC) or a departure of the code (below).
* `cpu`: `Advances`, `BusFollowsDocs`, `WritesReachBus`, `FlagsKept` and
  `FlagsFollowRegisters` compare each documented opcode with the documentation.
  `Advances` has the place where each instruction goes on: behind itself, at the
  target of a branch if the flag in its name is as its name says, at the operand of
  JMP and JSR, at the vector of BRK, at what RTS and RTI pull. JMP () is not among
  them, nor a JSR in page 1 that pushes over its own operand: the code
  loads the target after the push. What the code does otherwise than documented is
  named in the properties, and below: a carry into an odd page, `$EC`, counting to 0,
  LDX, PLA, N after LSR, I after BRK. The accesses are those of this bus, one request for each
  register access and two for a read-modify-write; the wasted cycles that the
  documentation has (a second write, a read at a wrong page) are no requests here.
  `PushedOnStack` and `ReturnsToCaller` are about sequences: a
  program gets back what it pushed, however calls, breaks and single pushes nest,
  until it sets S or stores into page 1. The bytes are those that the code pushes.
  They are not the documented ones: JSR and BRK push one more, RTS does
  not add one, and a status on the stack has no B (below).
* `startup`: `TokensAreTree` says of any text that is accepted, document or not, that
  its brackets pair, that its values are the tokens in order and, if something stands
  between any two values (`Separated`; jsmn does not ask for it), that each token
  counts the values that belong to it. `TokensOfTree` compares the tokens with the
  tree that a document was written from, `ChipsAsDeclared` the circuit and the
  verdict with what the tree means. The latter names two exceptions, both of which the code has: a value that reads `cpu` or `chip`
  is taken for a key (`NoReservedValue`), and a chip with a container in front
  of its last member is read to the wrong end (`FlatChips`). `StaysInTokens` holds
  with such containers too; its exceptions are the text that is empty, the text that is
  no document (two values with nothing between, an element in an object) and the
  string that reads as a keyword and has no value. `ThreadsMeetReadySim` relates
  the threads to all that was to be done before them, also for the circuit without
  chips, which ends the program in `foreach_chip`. `StartupEnds`: the recursion ends for every
  text, at the prompt or with the program.
* `sim`: `SentAsStored` is what a program that prints relies on. Its condition
  `~raced` is the same as for the bus, and it excepts a terminal that does not
  take the byte, which the code does not look at.

Fairness. Each thread is weakly fair, because the operating system keeps
scheduling runnable threads and none waits for a lock. For the timer thread that
includes that the timer expires. It is fairness of the thread, never of a single
action, except for the GUI thread, which has one. In `Sim` the main thread is one
fair thread, whatever it waits for. In `Startup` main is fair but for the key that
somebody has to press. Nothing is assumed about when
the simulated program ends: liveness properties do not say that it does.

## Findings

Each has a run that checks a statement of the repository and finds it violated.

1. `mem.c:77` clears `mem_addr` after the CPU has been released, possibly
   wiping the address of the next access: no chip is called (`bus_lost_access`).
2. `addrDecode` forms its pointer from a second load of `mem_addr`
   (`funcs.c:57` and others): after that clear, the instruction works on
   `memory[0]` (`bus_wrong_cell`).
3. ADC leaves Z clear for a sum of exactly 256; `dectest2.s` expects it set
   (`alu_zero`).
4. INX, INY and DEY that reach 0 run `cpu.P &= F_Z`, clearing bit 5, which
   `sim.c` says is always 1, and every other flag (`cpu_bit_five`).
5. An index that carries out of an odd page is merged by OR and the carry lost
   (`cpu_index`).
6. LDX does not set N and Z, which the documentation says of loads
   (`cpu_load_flags`).

Departures from the documentation. In the following the code does not do what
`docs/6502.proc.info` says either. There is no run for them; each is excepted by name
in the property that it would break, or, where a property has the bytes of the code,
named in its comment.

| Code | Documentation | Excepted in |
|---|---|---|
| `funcs.c:640`: N of SBC is the sign of the exact signed difference; 127 - 255 is $80 with N clear | 172, 716: N is bit 7 of the result | `SbcSubtracts`, where V is set |
| `funcs.c:649`: Z of SBC is that of the 16-bit difference; 0 - 255 with a borrow is 0 in A, with Z clear | 260: set if a register is loaded with zero | `SbcSubtracts`, where there is a borrow |
| `funcs.c:593`, `395`, `445`: N of CMP, CPY and CPX is the borrow; 200 with 10 sets no N | 273 to 276, 716: a subtraction, N is bit 7 | `CompareIsSbc`, where the difference does not fit a signed byte |
| `funcs.c:722`: LSR leaves N | 1469, 1528: LSR to clear N | `RotationsInvert`, `FlagsFollowRegisters` (`LSRA`) |
| `funcs.c:258`: PLA sets no flags | 170 to 173: set by every load of a register | `FlagsFollowRegisters` (`PLA`) |
| `funcs.c:148`: BRK leaves I | 888: BRK sets I | `FlagsKept`: BRK may change I |
| `funcs.c:178`, `143`: JSR and BRK push opcode + 3 (the comment at 139 says PC+2) | 998 to 1002, 941 to 945: opcode + 2 | `PushedBytes`, and so `PushedOnStack` and `ReturnsToCaller` |
| `funcs.c:254`: RTS goes to the address it pulls. As JSR pushes one more, the pair returns to the right place; a program that pushes a target for RTS itself arrives one byte early | 972: PC is incremented | `Target` of `Advances`, `ReturnsToCaller` |
| `funcs.c:143`: RTI, which neither adds nor takes anything, returns from BRK to opcode + 3 | 941 to 945: to opcode + 2 | `ReturnsToCaller` |
| `funcs.c:145`, `151`: BRK and PHP push the status as it is | 226, 786, 944: with B set | `PushedBytes` |
| `funcs.c:97`: JMP () loads one byte for its pointer and jumps through a cell of the zero page (the comment above has a pointer) | 793 to 797: a word, whose high byte is in the page of the low one | `Advances` (`JMPind`) |
| `6502.c:26`: `$EC`, CPX absolute, is indexed by X | 80: absolute | `BusFollowsDocs` (`CPXabs`) |

Also seen, and named as exceptions in the properties: values and elements `cpu` and
`chip` are read as keys and chips with containers to the wrong end; a chip without
`addr` has an address that nobody set. Not in any property: BIT sets Z and never
clears it (`funcs.c:188`), STY sets N and Z like TYA (`funcs.c:312`), and so does
TXS (`funcs.c:771`);
the nanosecond wrap at `sim.c:260` adds 9999999999 (the factor is any in the
model); LDY raises `mem_sync` before it loads its operand (`funcs.c:346`; no chip
writes memory); opcodes with `cc = 3` have no body, and PC stays for good.

## Proofs

TLAPS checks the following for every value of the constants that satisfies the
assumptions: any addresses, any nonempty circuit, any set of cycle counts below
256, any calibration of at least 1; any chip with registers for the 6551; any
contents of the ROM; any text of the configuration and any length of the array of
tokens.

Assumptions. `AddrAssumption` (zero page below the other addresses, 0 among
them), `CircuitAssumption` (a nonempty list of chips: `foreach_chip`
dereferences its head), `ZeroPageAssumption` (no chip in the zero page, as in
`system1.json`: a pass for address 0 must call nobody), `CyclesAssumption`,
`ClockLoopAssumption`, repeated in `Sim` as `PacingAssumption`, and
`AciaAssumption` (the 6551 is one of the chips and its data register one of the
addresses). `RomAssumption`: memory holds bytes and the vectors, as main refuses a
file that does not reach the end of memory; `CodeSpace`, where instructions are
executed from, may be all addresses but the last two, behind which an instruction
would read beyond `memory[]`; `StackSpace` may be all bytes.
`MaxPushedAssumption`: at most 256 bytes are remembered, as the stack has no more
cells. `InputsAssumption` (a text is a sequence of lexemes) and
`MaxTokensAssumption` are types.

`BusSyncProofs`. The properties are not inductive: they say nothing of where the
two threads are in between. `IInv == TypeOK /\ Handshake /\ Prompt`.
`Handshake` relates the two program counters to `mem_sync` and to the number of
passes made (when the flag is up, the CPU is at a wait and the sync thread owes
a pass; when it is down the sync thread cannot be inside one, except on its way
out). It holds whether or not the CPU overtakes, and is preserved on its own:
`ChipExclusion`, `OnePassPerRequest` and `PassSeesOneAccess` follow. `Prompt`
says, as long as `raced` is false, where the sync thread may be for each place
of the CPU, what `mem_addr` and `mem_rwb` hold there, and which calls of the
current pass have been made; `ServedExactly`, `OwnCell` and `QuietShutdown`
follow from it. `Refinement` shows that initial states and steps are those of
`Rendezvous` under the mapping of `BusSync!Bus`.

`ClockSyncProofs`. `IInv == TypeOK /\ LoopNeverDies /\ Flags /\ AtWait /\ Times
/\ Delay`. `Flags` relates the program counters to `sync_clock` from the second
instruction on; `AtWait` says what has happened when the timer thread is back at
its wait; `Times` that the loop count belongs to the instruction; `Delay` that
the counter and the timer setting do. `PacingCorrect`, `CalibrationCorrect`,
`InputsCorrect` and `Refinement` follow.

`SimProofs`. `BusStep` and `ClockStep` show that a step of the simulator is a
step of the bus and of the pacing, or none: with the initial states this is
`BusRefinement` and `ClockRefinement`, and it carries both inductive invariants
over (`BusInvariance`, `PacingInvariance`), from which `ExclusionInSim` and
`PacingInSim` follow, and so do `ServiceInSim` and `StableInSim`, the rest of what
was shown of the components: it was proved for a main thread that waits for one
server, and holds for the one that waits for two. For the 6551 the invariant of the
bus is strengthened by `AciaInv == AciaTypeOK /\ WrittenBy /\ StoredByte /\ SentInv`: for each place of
the instruction, whether its result is stored; that what is stored is what the cell
holds; and, as long as nothing was overtaken or refused, that the byte has been
sent when, and only when, the write pass has gone past the 6551. It needs the
invariant of the bus, `Prompt` above all: that is what says that the address in the
pass is the one of this instruction. `SendingCorrect` follows.

`AluProofs`. `a`, `m` and `p` of `MCAlu` are bytes and a status register
(`AluTypeOK`), which is all that the theorems need: the lemma behind each of them
holds of every status register, of which `alu` runs through those that the
arithmetic looks at. Binary ADC and SBC are linear arithmetic once the masks of
flags are out of the way (`AdcParts`, `SbcParts` of `AluLemmas`). Decimal mode is
shown digit by digit (`Nibbles`): what the correction of the low digit leaves and
carries, then the high digit with it. `RotationsOfNineBits` is the ninth bit of ROL
and ROR; that they invert each other and that ASL and LSR, but for its N, are
rotations of a zero follow from it. N of SBC is the sign of the signed
difference, which is the unsigned one up to 256: bit 7 of the result as long as it fits
a byte.

`CpuProofs`. `TypeOK` of `Cpu6502` is inductive as it stands. Its parts are shown of
the operators that the instructions are made of (`DecodedOK`, `StoreOK`,
`SignalOK`, `PushedOK`, ...), then of one group of opcodes after the other.
`IndexedInMemory` is why an index that is merged by OR cannot lead out of
`memory[]`. For the properties of `CpuDocs` the rows of the documented matrix are
placed: a documented opcode is decoded by the code in one of its groups, with the
mode of its row but for those that the properties name (`Placed`, `ModeAgrees`).
Each group is reduced to the shapes that its instructions have - they read, write,
write back, branch, push, or touch a register only (`OperandStep`, `ImpliedStep`,
`ControlStep`) - and the properties are shown once of each shape. `AdvancesAlways`
needs more of two of them: a branch tests the flag in its name (`RelativeStep`), and a
control instruction goes to its target (`ControlTarget`). BRK and JSR load theirs from
memory after they have pushed: a push leaves the vectors as they were, being in page 1
(`PushedAt`), and the operand of a JSR that is not one of the two cells
(`PushedElsewhere`), which is why `OverwritesOperand` is an exception.
They are action properties; `TypeOK` is the only invariant that they need.
`RequestsFitBus` is the link to `BusSync`: whatever the opcode, also one that no
documentation has, the requests of a step are one of `Kinds` at one address (`OfBus`),
the bus is told of every cell that changes outside the stack unless its operand is
immediate, and an instruction that pushes asks for nothing. The set `Instruction` of
`BusSync` has just these kinds (and `acc` and `jmp`, which store `mem_rwb` or `mem_addr`
and ask for nothing).

`CallsProofs`. `PushedOnStack` is inductive together with `TypeOK` and the length of
the history (`StackOK`). An instruction that pushes writes the cells below
the ones that are remembered; these are other cells although S wraps, as no more than
256 are remembered (`CellDistinct`, `StackAfterPush`). One that pulls moves S
behind what it forgets. All the others leave S and, unless they are seen to disturb
it, page 1 as they were (`Undisturbed`): a store, documented or not, goes to the cell
whose address the bus is told, if it is told one at all (`AddressIsLoc`).
`ReturnsToCaller` follows from the invariant for each instruction that pulls.

`StartupProofs`, types and order. `IInv == TokensOK /\ ReaderOK /\ MainOK`. `TokensOK`: the size of a
token is at most the number of tokens behind it, which holds although `toksuper`
jumps back, because the token that is counted is added at the end. `ReaderOK`: an
active call has a token to look back at, and the chip of every call on the stack is
in the list. From both follows `ValuesCorrect`: `cfg.c` checks that a key counts one
child and then reads the token behind it unseen. `MainOK` says what
main has done for each place that it may be at, from which `ReadyCorrect` follows.

`StartupProofs`, the tree (`TreeCorrect`). jsmn keeps no tree, only the tokens whose
end is still -1 and the token to count in. `Nesting` says what the tree is without
the tokenizer: the depth of a lexeme is the number of brackets opened in front of it
less those closed, and a value belongs to the key in front of its colon or to the
innermost bracket that it is within. `TreeOK` relates the two for the part of the text
that has been read: the open tokens are the brackets that the position is within,
`toksuper` is the token of what a value at the position would belong to, and each size
counts the children read so far. Its hard step is a closing bracket and the comma
behind it, where the parent is looked up again from the innermost open token. `EndOK`
says what is left of it when `jsmn_parse` has returned. What is the nearest or the
first of a set is chosen as a least element (`WellFoundedInduction`), counts are
cardinalities.

`StartupProofs`, the pointer (`PointerCorrect`). Three functions count down children
with one pointer, and none looks whether there is a token left. The tokens that are
*ready* are those behind the pointer that belong to one that it has passed (`Ready`).
`PointerOK` says that there are at least as many as the active calls have children
left to visit (`Pending`, a sum over the stack of calls). A call that
visits a token makes one ready token fewer and its children ready ones, which all
stand behind it because the tokens are a tree (`KidsAre`, from `TreeOK`). A chip is
different: it takes two tokens for a member, whatever the member is, and after a
container the count says nothing of where it is. There the invariant says that the
chip's object reaches far enough (two tokens for each member that is left, as members
are strings with a value), and that what the callers have left to visit
stands behind it (`Ahead`, `Outer`). So the pointer may lag, but does not run ahead, which is why
this property survives containers in a chip although `ChipsAsDeclared` does not. The
texts excluded are those for which the code can read behind the last token.

`StartupProofs`, the end (`StartupCountsDown`). `Place` orders the places of main,
`ToDo` is what is left at each: lexemes, chips to reset, and for the reader three times
the tokens ahead and the active calls, since a turn passes a token and opens two calls
at most. Every step lowers the place or, at the same place, `ToDo`; the recursion of
`cfg.c` has no other bound.

Only model-checked: liveness (`InstructionsRetire`, `ShutdownCompletes`,
`StartupEnds`) and the fairness part of the refinements (`ImplementsRendezvous`,
`ImplementsBus`, `ImplementsClock`): the prover does neither fairness nor ENABLED.
The theorems named `Refinement`, `BusRefinement` and `ClockRefinement` have their
initial states and steps; `StartupCountsDown` has what makes the start end, up to
the fact that some step is always possible. `TokensOfTree` and `ChipsAsDeclared`
compare with the tree of a document, which is defined by recursion and so out of the
prover's reach; `Documents` is a module apart so that `Startup` can be reasoned
about. What `TokensOfTree` says of the tokenizer is proved in the form of
`TokensAreTree`, which names the tree by positions in the text. `AciaTypeOK` is proved
and left out of the runs.

## Not modelled

* 6522 and AY-3-8910: stubs that print. They are address ranges in `BusSync`,
  register sizes in `Config`.
* 6551: what it reads from the terminal it drops; control, command and status
  register have no function. Its destructor is never called.
* GUI: drawing has no effect on the simulation; its end is in `ClockSync` and `Sim`.
* jsmn in the modes that are not built: strict, parent links, counting without
  a token array. Its examples are programs of their own.
* `opcodes.py`: not used at run time. Test ROMs: programs.
* Option parsing, the contents of the ROM, opening the window: input and output.
* Chips that write `memory[]` while the CPU reads it: none of this version does.
* Compiler and memory effects: the Makefile builds without optimisation, so that
  each access in the source is a load or store, made in program order. The fields
  of `sim65_t` are not volatile; an optimising build could hoist the loads out of
  the waits on `sync_clock` and `running`. Weak memory ordering is left out.

## Plan

Order of work, most important behaviour first. Done: 1 to 10.

1. `Rendezvous`, `BusSync` and its run; 2. `ClockSync` and its run;
3. `BusSyncProofs`, `ClockSyncProofs`; 4. `Alu` over all operands;
5. `Cpu6502`, `CpuDocs`, `Calls`.
6. `Sim`: bus and pacing in one, with the order of the two waits of the main loop
   and of the joins. 7. `Acia6551` on top of it. 8. `Jsmn`, `Config`, `Startup`.
9. Proofs: the laws of `Alu` for every operand; types, accesses, lengths and flags
   of `Cpu6502` for every program; the stack invariant of `Calls`; `Startup` for every
   text.
10. Proofs: the tree that the tokens stand for, the pointer of the reader and the end of
   the start, for every text; the requests of each opcode as those that the bus
   assumes; what the components promise, of the simulator.
11. `Sim` with `Cpu6502` as its main thread, for programs that print: an instruction
   in the steps of `BusSync`, as a refinement of its one step.
