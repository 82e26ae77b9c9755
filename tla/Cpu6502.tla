------------------------------ MODULE Cpu6502 -------------------------------
(***************************************************************************)
(* The CPU of the simulator: the fetch and decode of the main loop         *)
(* (sim.c), the opcode table (6502.c), the addressing modes and the        *)
(* instruction functions (funcs.c), one action per function, one           *)
(* instruction per step.  What an instruction computes is in Alu.          *)
(*                                                                         *)
(* Only the CPU thread runs here.  What an instruction asks of the bus is  *)
(* recorded in `bus'; how the bus answers is the subject of BusSync, and   *)
(* the time an instruction takes that of ClockSync.                        *)
(***************************************************************************)
EXTENDS Alu, Sequences

CONSTANTS Roms,        \* contents of memory at start, outside its zeros
          CodeSpace,   \* bound: where instructions are executed from
          StackSpace,  \* bound: values of S with which they are executed
          NoAddr       \* an access for which addrDecode stored no mem_addr

\* uint16_t
UINT16_MAX == 65535
Word == 0..UINT16_MAX

\* The vectors of RESET and BRK.
Vectors == 65532..65535

Wrap16(x) == x % 65536

\* main refuses a file that does not fill memory up to its end.  An
\* instruction that ends within memory reads no byte beyond it.
ASSUME RomAssumption ==
    /\ \A rom \in Roms :
         /\ DOMAIN rom \subseteq Word
         /\ Vectors \subseteq DOMAIN rom
         /\ \A a \in DOMAIN rom : rom[a] \in Byte
    /\ \A a \in CodeSpace : {a, a + 2} \subseteq Word
    /\ StackSpace \subseteq Byte
    /\ NoAddr \notin Word

VARIABLES A, X, Y, S, PC, P,   \* struct CPU
          mem,                 \* memory[], where it may differ from 0
          bus,                 \* the accesses the last instruction signalled
          st                   \* "run", or how the program ended

cpu == <<A, X, Y, S, PC, P>>
vars == <<cpu, mem, bus, st>>

-----------------------------------------------------------------------------
\* Memory

LoadFrom(m, a) == IF a \in DOMAIN m THEN m[a] ELSE 0
Load(a) == LoadFrom(mem, a)

\* *((uint16_t *) &memory[a]) on a little-endian host
WordFrom(m, a) == LoadFrom(m, a) + 256 * LoadFrom(m, a + 1)
WordAt(a) == WordFrom(mem, a)

\* Memory m with the cells of f replaced.
Patched(m, f) ==
    [a \in DOMAIN m \cup DOMAIN f |-> IF a \in DOMAIN f THEN f[a] ELSE m[a]]

\* The stack: n-th free cell counted from S downwards, n-th pushed byte
\* counted from S upwards.  S is a byte and wraps within the page.
FreeCell(n) == 256 + ((S - (n - 1)) % 256)
\* Seeded fault: S is advanced after the load.
PulledEarly(n) == Load(256 + ((S + n - 1) % 256))
Pulled(n) == Load(256 + ((S + n) % 256))
PulledWord(n) == Pulled(n) + 256 * Pulled(n + 1)

\* STACK_STORE8 and STACK_STORE16: the bytes in the order they are stored.
Pushed(bytes) ==
    Patched(mem, [a \in { FreeCell(n) : n \in 1..Len(bytes) } |->
                    bytes[CHOOSE n \in 1..Len(bytes) : FreeCell(n) = a]])

\* Seeded fault: the low byte is pushed first.
LoHi(w) == <<w % 256, w \div 256>>
HiLo(w) == <<w \div 256, w % 256>>

-----------------------------------------------------------------------------
\* Decoding

op  == Load(PC)
cc  == op % 4
bbb == (op \div 4) % 8
aaa == op \div 32

Control == <<"NULL", "zp", "NULL", "abs", "rel", "zpx", "NULL", "abx">>
Operand == [Control EXCEPT ![1] = "imm"]
Logic   == <<"izx", "zp", "imm", "abs", "izy", "zpx", "aby", "abx">>
LogicY  == [Logic EXCEPT ![6] = "zpy", ![8] = "aby"]
Shift   == <<"NULL", "zp", "A", "abs", "NULL", "zpx", "NULL", "abx">>
MoveX   == <<"imm", "zp", "A", "abs", "NULL", "zpy", "S", "aby">>
Count   == [Shift EXCEPT ![1] = "imm", ![3] = "X"]

\* addr_modes of the opcode table, by cc, aaa and bbb (counted from 1).
opcodes == <<
    << Control, [Control EXCEPT ![1] = "abs"], Control,
       [Control EXCEPT ![4] = "ind"], [Operand EXCEPT ![7] = "A"],
       [Operand EXCEPT ![3] = "A"], Operand, [Operand EXCEPT ![4] = "abx"] >>,
    << Logic, Logic, Logic, Logic, Logic, Logic, Logic, Logic >>,
    << Shift, Shift, Shift, Shift, MoveX, MoveX, Count,
       [Count EXCEPT ![3] = "NULL"] >>,
    << Logic, Logic, Logic, Logic, LogicY, LogicY, Logic, Logic >> >>

mode == opcodes[cc + 1][aaa + 1][bbb + 1]

\* (uint16_t) hi << 8 | lo + index: the sum is merged into the page by OR,
\* so that a carry out of the low byte is lost where bit 8 is already set.
Indexed(w, index) ==
    IF (w % 256) + index >= 256 /\ Bit(w, 256) = 1 THEN w + index - 256
                                                   ELSE w + index

\* A word in the zero page, its second byte taken from its start after its end.
ZeroPageWord(a) == Load(a % 256) + 256 * Load((a + 1) % 256)

\* addrDecode: the operand bytes it steps over, the cell it points to and
\* the address it leaves in mem_addr.
addrDecode ==
    LET b == Load(PC + 1)
        w == WordAt(PC + 1)
        Cell(n, a) == [len |-> n, loc |-> <<"mem", a>>, addr |-> a]
        Register(r) == [len |-> 0, loc |-> <<r, 0>>, addr |-> NoAddr]
    IN CASE mode = "imm" ->
              [len |-> 1, loc |-> <<"mem", PC + 1>>, addr |-> NoAddr]
         [] mode = "zp"  -> Cell(1, b)
         [] mode = "abs" -> Cell(2, w)
         [] mode = "zpx" -> Cell(1, (b + X) % 256)
         [] mode = "zpy" -> Cell(1, (b + Y) % 256)
         [] mode = "abx" -> Cell(2, Indexed(w, X))
         [] mode = "aby" -> Cell(2, Indexed(w, Y))
         [] mode = "ind" -> Cell(2, Load(w))
         [] mode = "izx" -> Cell(1, ZeroPageWord(b + X))
         [] mode = "izy" -> Cell(1, Indexed(ZeroPageWord(b), Y))
         [] mode \in {"A", "S", "X"} -> Register(mode)
         [] mode \in {"NULL", "rel"} -> Register("NULL")

loc == addrDecode.loc

\* *addrDecode(a), read
operand == CASE loc[1] = "mem" -> Load(loc[2])
             [] loc[1] = "A" -> A
             [] loc[1] = "S" -> S
             [] loc[1] = "X" -> X

\* *addrDecode(a) = v
Store(v) == /\ A' = IF loc[1] = "A" THEN v ELSE A
            /\ S' = IF loc[1] = "S" THEN v ELSE S
            /\ X' = IF loc[1] = "X" THEN v ELSE X
            /\ mem' = IF loc[1] = "mem" THEN Patched(mem, [a \in {loc[2]} |-> v])
                                        ELSE mem

\* mem_rwb = n; mem_sync = true, as often as `times' says.
Signal(n, times) ==
    bus' = [i \in 1..times |-> [addr |-> addrDecode.addr, rwb |-> n]]
Silent == bus' = <<>>

\* PC behind the opcode and n bytes of operand.
Advance(n) == PC' = Wrap16(PC + 1 + n)

-----------------------------------------------------------------------------
\* Shapes of instructions

\* The main loop has an instruction to execute: while(cpu.PC != 0xFFFF).
Running == st = "run" /\ PC \in CodeSpace /\ S \in StackSpace

\* It is in row r of the table's part for c.
Is(c, r) == cc = c /\ aaa = r

\* An implied instruction that leaves memory, stack and bus alone.
Implied == /\ Advance(0)
           /\ Silent
           /\ UNCHANGED <<S, mem, st>>

FlagsOnly(p) == Implied /\ P' = p /\ UNCHANGED <<A, X, Y>>

\* Seeded fault: a branch that is not taken does not step over its offset.
BranchShort(taken) ==
    /\ PC' = IF taken THEN Wrap16(PC + 2 + Signed(Load(PC + 1))) ELSE Wrap16(PC + 1)
    /\ Silent
    /\ UNCHANGED <<A, X, Y, S, P, mem, st>>

\* The offset is signed and counts from the end of the instruction.
Branch(taken) ==
    /\ PC' = IF taken THEN Wrap16(PC + 2 + Signed(Load(PC + 1))) ELSE Wrap16(PC + 2)
    /\ Silent
    /\ UNCHANGED <<A, X, Y, S, P, mem, st>>

\* Seeded fault: S does not wrap.
PushUnwrapped(bytes) == /\ mem' = Pushed(bytes)
                        /\ S' = S - Len(bytes)
                        /\ Silent
                        /\ UNCHANGED <<A, X, Y, st>>

Push(bytes) == /\ mem' = Pushed(bytes)
               /\ S' = (S - Len(bytes)) % 256
               /\ Silent
               /\ UNCHANGED <<A, X, Y, st>>

Pull(n) == /\ S' = (S + n) % 256
           /\ Silent
           /\ UNCHANGED <<X, Y, mem, st>>

\* An instruction that reads its operand into A and the flags.
Accumulate(r) == /\ A' = r.val
                 /\ P' = r.P
                 /\ Advance(addrDecode.len)
                 /\ Signal(1, 1)
                 /\ UNCHANGED <<X, Y, S, mem, st>>

LoadA(v) == Accumulate([val |-> v, P |-> SetNZ(P, v)])
FlagsOf(p) == Accumulate([val |-> A, P |-> p])

\* Seeded fault: the bus is not told of the write.
ModifyOneAccess(r) == /\ Store(r.val)
                      /\ P' = r.P
                      /\ Advance(addrDecode.len)
                      /\ Signal(1, IF loc[1] = "mem" THEN 1 ELSE 0)
                      /\ UNCHANGED <<Y, st>>

\* An instruction that reads its operand and writes it back: in memory it
\* waits for a pass over the chips and leaves a second one to the main loop.
Modify(r) == /\ Store(r.val)
             /\ P' = r.P
             /\ Advance(addrDecode.len)
             /\ Signal(2, IF loc[1] = "mem" THEN 2 ELSE 0)
             /\ UNCHANGED <<Y, st>>

\* The null pointer that addrDecode returns for aNULL is dereferenced: the
\* program dies with what the instruction has done so far.  None has changed
\* more than PC and the masked flags, which die with it.
Crash == /\ st' = "crashed"
         /\ Silent
         /\ UNCHANGED <<cpu, mem>>

Deref(body) == IF loc[1] = "NULL" THEN Crash ELSE body

-----------------------------------------------------------------------------
\* cc = 0: control instructions.  Rows without a case only step over the
\* opcode.

group0 ==
    /\ Is(0, 0)
    /\ \/ /\ bbb = 0                                              \* BRK
          /\ Push(HiLo(Wrap16(PC + 3)) \o <<StatusByte(P)>>)
          /\ PC' = WordFrom(mem', 65534)
          /\ P' = P
       \/ bbb = 2 /\ Push(<<StatusByte(P)>>) /\ Advance(0) /\ P' = P   \* PHP
       \/ bbb = 4 /\ Branch("N" \notin P)                         \* BPL
       \/ bbb = 6 /\ FlagsOnly(P \ {"C"})                         \* CLC
       \/ bbb \in {1, 3, 5, 7} /\ FlagsOnly(P)

group1 ==
    /\ Is(0, 1)
    /\ \/ /\ bbb = 0                                              \* JSR
          /\ Push(HiLo(Wrap16(PC + 3)))
          /\ PC' = WordFrom(mem', PC + 1)
          /\ P' = P
       \/ bbb \in {1, 3} /\ FlagsOf(BitTest(P, A, operand))       \* BIT
       \/ /\ bbb = 2                                              \* PLP
          /\ Pull(1)
          /\ P' = StatusOf(Pulled(1))
          /\ Advance(0)
          /\ A' = A
       \/ bbb = 4 /\ Branch("N" \in P)                            \* BMI
       \/ bbb = 6 /\ FlagsOnly(P \cup {"C"})                      \* SEC
       \/ bbb \in {5, 7} /\ FlagsOnly(P)

group2 ==
    /\ Is(0, 2)
    /\ \/ /\ bbb = 0                                              \* RTI
          /\ Pull(3)
          /\ P' = StatusOf(Pulled(1))
          /\ PC' = PulledWord(2)
          /\ A' = A
       \/ bbb = 2 /\ Push(<<A>>) /\ Advance(0) /\ P' = P          \* PHA
       \/ /\ bbb = 3                                              \* JMP abs
          /\ PC' = WordAt(PC + 1)
          /\ Silent
          /\ UNCHANGED <<A, X, Y, S, P, mem, st>>
       \/ bbb = 4 /\ Branch("V" \notin P)                         \* BVC
       \/ bbb = 6 /\ FlagsOnly(P \ {"I"})                         \* CLI
       \/ bbb \in {1, 5, 7} /\ FlagsOnly(P)

group3 ==
    /\ Is(0, 3)
    /\ \/ bbb = 0 /\ Pull(2) /\ PC' = PulledWord(1) /\ UNCHANGED <<A, P>>  \* RTS
       \/ bbb = 2 /\ Pull(1) /\ A' = Pulled(1) /\ Advance(0) /\ P' = P     \* PLA
       \/ /\ bbb = 3                                              \* JMP ind
          /\ PC' = WordAt(loc[2])
          /\ Silent
          /\ UNCHANGED <<A, X, Y, S, P, mem, st>>
       \/ bbb = 4 /\ Branch("V" \in P)                            \* BVS
       \/ bbb = 6 /\ FlagsOnly(P \cup {"I"})                      \* SEI
       \/ bbb \in {1, 5, 7} /\ FlagsOnly(P)

\* A register takes the value and the flags of r.
StepX(r) == Implied /\ X' = r.val /\ P' = r.P /\ UNCHANGED <<A, Y>>
StepY(r) == Implied /\ Y' = r.val /\ P' = r.P /\ UNCHANGED <<A, X>>

group4 ==
    /\ Is(0, 4)
    /\ \/ bbb = 2 /\ StepY(Decrement(P, Y))                       \* DEY
       \/ bbb = 4 /\ Branch("C" \notin P)                         \* BCC
       \/ /\ bbb \notin {2, 4}                                    \* STY, TYA
          /\ Store(Y)
          /\ Signal(0, IF loc[1] = "A" THEN 0 ELSE 1)
          /\ P' = SetNZ(P, Y)
          /\ Advance(addrDecode.len)
          /\ UNCHANGED <<Y, st>>

group5 ==
    /\ Is(0, 5)
    /\ \/ bbb = 4 /\ Branch("C" \in P)                            \* BCS
       \/ bbb = 6 /\ FlagsOnly(P \ {"V"})                         \* CLV
       \/ /\ bbb \notin {4, 6}                                    \* LDY, TAY
          /\ Y' = operand
          /\ Signal(1, IF loc[1] = "A" THEN 0 ELSE 1)
          /\ P' = SetNZ(P, operand)
          /\ Advance(addrDecode.len)
          /\ UNCHANGED <<A, X, S, mem, st>>

group6 ==
    /\ Is(0, 6)
    /\ \/ bbb = 2 /\ StepY(Increment(P, Y))                       \* INY
       \/ bbb = 4 /\ Branch("Z" \notin P)                         \* BNE
       \/ bbb = 6 /\ FlagsOnly(P \ {"D"})                         \* CLD
       \/ bbb \notin {2, 4, 6} /\ FlagsOf(Compare(P, Y, operand)) \* CPY

group7 ==
    /\ Is(0, 7)
    /\ \/ bbb = 2 /\ StepX(Increment(P, X))                       \* INX
       \/ bbb = 4 /\ Branch("Z" \in P)                            \* BEQ
       \/ bbb = 6 /\ FlagsOnly(P \cup {"D"})                      \* SED
       \/ bbb \notin {2, 4, 6} /\ FlagsOf(Compare(P, X, operand)) \* CPX

-----------------------------------------------------------------------------
\* cc = 1: the accumulator and memory.

groupORA == Is(1, 0) /\ LoadA(BitOr(A, operand))
groupAND == Is(1, 1) /\ LoadA(BitAnd(A, operand))
groupEOR == Is(1, 2) /\ LoadA(BitXor(A, operand))
groupADC == Is(1, 3) /\ Accumulate(Adc(P, A, operand))

\* Seeded fault: the bus is not told of the store.
groupSTAsilent == /\ Is(1, 4)
                  /\ Store(A)
                  /\ Silent
                  /\ Advance(addrDecode.len)
                  /\ UNCHANGED <<Y, P, st>>

groupSTA == /\ Is(1, 4)
            /\ Store(A)
            /\ Signal(0, 1)
            /\ Advance(addrDecode.len)
            /\ UNCHANGED <<Y, P, st>>

groupLDA == Is(1, 5) /\ LoadA(operand)
groupCMP == Is(1, 6) /\ FlagsOf(Compare(P, A, operand))
groupSBC == Is(1, 7) /\ Accumulate(Sbc(P, A, operand))

-----------------------------------------------------------------------------
\* cc = 2: shifts, X and memory counters.

groupASL == /\ Is(2, 0)
            /\ \/ bbb = 6 /\ FlagsOnly(P)                         \* NOP
               \/ bbb # 6 /\ Deref(Modify(Asl(P, operand)))

groupROL == Is(2, 1) /\ Deref(Modify(Rol(P, operand)))
groupLSR == Is(2, 2) /\ Deref(Modify(Lsr(P, operand)))
groupROR == Is(2, 3) /\ Deref(Modify(Ror(P, operand)))

\* STX, TXA, TXS: the flags follow the transfers, the bus the stores.
groupSX ==
    /\ Is(2, 4)
    /\ Deref(/\ Store(X)
             /\ P' = IF bbb \in {2, 6} THEN SetNZ(P, X) ELSE P
             /\ Signal(0, IF bbb \in {2, 6} THEN 0 ELSE 1)
             /\ Advance(addrDecode.len)
             /\ UNCHANGED <<Y, st>>)

\* LDX, TAX, TSX, likewise.
groupLX ==
    /\ Is(2, 5)
    /\ Deref(/\ X' = operand
             /\ P' = IF bbb \in {2, 6} THEN SetNZ(P, operand) ELSE P
             /\ Signal(1, IF bbb \in {2, 6} THEN 0 ELSE 1)
             /\ Advance(addrDecode.len)
             /\ UNCHANGED <<A, Y, S, mem, st>>)

Counted(by) == LET v == (operand + by) % 256 IN [val |-> v, P |-> SetNZ(P, v)]

groupDEC == Is(2, 6) /\ Deref(Modify(Counted(-1)))                \* and DEX

groupINC == /\ Is(2, 7)
            /\ \/ bbb = 2 /\ FlagsOnly(P)                         \* NOP
               \/ bbb # 2 /\ Deref(Modify(Counted(1)))

\* cc = 3: the eight functions have no body, so that PC stays and the same
\* opcode is fetched again.
Undocumented == /\ \E r \in 0..7 : Is(3, r)
                /\ Silent
                /\ UNCHANGED <<cpu, mem, st>>

-----------------------------------------------------------------------------
\* The main loop ends where PC has become $FFFF.
Finish == /\ st = "run" /\ PC = 65535
          /\ st' = "done"
          /\ UNCHANGED <<cpu, mem, bus>>

Init == /\ mem \in Roms
        /\ PC = WordAt(65532)
        /\ A = 0 /\ X = 0 /\ Y = 0
        /\ S = 255
        /\ P = {"U"}
        /\ bus = <<>>
        /\ st = "run"

Instruction ==
    /\ Running
    /\ \/ group0 \/ group1 \/ group2 \/ group3
       \/ group4 \/ group5 \/ group6 \/ group7
       \/ groupORA \/ groupAND \/ groupEOR \/ groupADC
       \/ groupSTA \/ groupLDA \/ groupCMP \/ groupSBC
       \/ groupASL \/ groupROL \/ groupLSR \/ groupROR
       \/ groupSX \/ groupLX \/ groupDEC \/ groupINC
       \/ Undocumented

Next == Instruction \/ Finish

Spec == Init /\ [][Next]_vars

-----------------------------------------------------------------------------
\* Registers, memory and flags stay within their widths, and the bus is asked
\* for one access, or for two by an instruction that writes back.
TypeOK ==
    /\ {A, X, Y, S} \subseteq Byte
    /\ PC \in Word
    /\ P \subseteq Flag
    /\ DOMAIN mem \subseteq Word
    /\ \A a \in DOMAIN mem : mem[a] \in Byte
    /\ Len(bus) <= 2
    /\ \A i \in 1..Len(bus) : /\ bus[i].addr \in Word \cup {NoAddr}
                              /\ bus[i].rwb \in 0..2
                              /\ bus[i].rwb = 2 <=> Len(bus) = 2
    /\ st \in {"run", "done", "crashed"}
=============================================================================
