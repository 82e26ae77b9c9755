----------------------------- MODULE CpuProofs ------------------------------
(***************************************************************************)
(* Proofs about Cpu6502: whatever the ROM, no register, flag or cell of    *)
(* memory leaves its width, one group of instructions after the other.     *)
(***************************************************************************)
EXTENDS CpuDocs, AluLemmas

MemOK(m) == /\ DOMAIN m \subseteq Word
            /\ \A a \in DOMAIN m : m[a] \in Byte

BusOK(b) == /\ Len(b) <= 2
            /\ \A i \in 1..Len(b) : /\ b[i].addr \in Word \cup {NoAddr}
                                    /\ b[i].rwb \in 0..2
                                    /\ b[i].rwb = 2 <=> Len(b) = 2

\* The numbers of a word, as inequalities.
LEMMA WordIs == \A x : x \in Word <=> x \in Int /\ 0 <= x /\ x <= 65535
<1>1. UINT16_MAX \in Int
    BY DEF UINT16_MAX
<1>2. \A x : x \in Word <=> x \in Int /\ 0 <= x /\ x <= UINT16_MAX
    BY <1>1 DEF Word
<1> QED
    BY <1>2 DEF UINT16_MAX

\* The numbers of a byte, as inequalities.
LEMMA ByteIs == \A x : x \in Byte <=> x \in Int /\ 0 <= x /\ x <= 255
    BY DEF Byte

\* An instruction that is not at the end of memory has its operands in it.
LEMMA CodeIs == \A x \in CodeSpace : x \in Int /\ 0 <= x /\ x + 2 <= 65535
    BY RomAssumption, WordIs

\* The type invariant in the parts that the instructions disturb.
LEMMA TypeParts ==
    TypeOK <=> /\ A \in Byte /\ X \in Byte /\ Y \in Byte /\ S \in Byte
               /\ PC \in Word /\ P \subseteq Flag
               /\ MemOK(mem) /\ BusOK(bus)
               /\ st \in {"run", "done", "crashed"}
    BY DEF TypeOK, MemOK, BusOK

\* The same of the next state.
LEMMA TypePartsNext ==
    TypeOK' <=> /\ A' \in Byte /\ X' \in Byte /\ Y' \in Byte /\ S' \in Byte
                /\ PC' \in Word /\ P' \subseteq Flag
                /\ MemOK(mem') /\ BusOK(bus')
                /\ st' \in {"run", "done", "crashed"}
    BY DEF TypeOK, MemOK, BusOK

\* What is cut to uint16_t is a word.
LEMMA Wraps == \A i \in Int : Wrap16(i) \in Word
<1> SUFFICES ASSUME NEW i \in Int PROVE Wrap16(i) \in Word
    OBVIOUS
<1>1. i % 65536 \in Int /\ 0 <= i % 65536 /\ i % 65536 < 65536
    BY SMT
<1> QED
    BY <1>1, WordIs DEF Wrap16

\* A load returns a byte.
LEMMA LoadIsByte == \A m : MemOK(m) => \A a : LoadFrom(m, a) \in Byte
    BY DEF MemOK, LoadFrom, Byte

\* Two bytes make a word.
LEMMA WordOfBytes == \A lo, hi \in Byte : lo + 256 * hi \in Word
    BY WordIs, ByteIs

\* A load of 16 bits returns a word.
LEMMA WordFromIsWord == \A m : MemOK(m) => \A a : WordFrom(m, a) \in Word
    BY LoadIsByte, WordOfBytes DEF WordFrom

\* Memory stays memory when bytes are stored at words.
LEMMA PatchedOK ==
    \A m, f : MemOK(m) /\ MemOK(f) => MemOK(Patched(m, f))
    BY DEF MemOK, Patched

\* An index never leads out of memory: it is lost in the last, odd, page.
LEMMA IndexedInMemory == \A w \in Word, i \in Byte : Indexed(w, i) \in Word
<1> SUFFICES ASSUME NEW w \in Word, NEW i \in Byte PROVE Indexed(w, i) \in Word
    OBVIOUS
<1>1. w \in Int /\ 0 <= w /\ w <= 65535 /\ i \in Int /\ 0 <= i /\ i <= 255
    BY WordIs, ByteIs
<1>2. PICK h, l \in Int : /\ w = 256 * h + l /\ 0 <= l /\ l <= 255
                          /\ 0 <= h /\ h <= 255
                          /\ w % 256 = l /\ w \div 256 = h
    <2>1. w % 256 \in Int /\ w \div 256 \in Int
        BY <1>1
    <2> QED BY <1>1, <2>1
<1>3. Bit(w, 256) = h % 2
    BY <1>2 DEF Bit
<1>4. Indexed(w, i) \in Int /\ 0 <= Indexed(w, i) /\ Indexed(w, i) <= 65535
    BY <1>1, <1>2, <1>3 DEF Indexed
<1> QED
    BY <1>4, WordIs

\* The STACK_ macros store into page 1 only.
LEMMA FreeCellInPage1 ==
    S \in Byte => \A n \in Int : /\ FreeCell(n) \in Int
                                  /\ 256 <= FreeCell(n) /\ FreeCell(n) <= 511
    BY DEF FreeCell, Byte

\* A push leaves memory in its width.
LEMMA PushedOK ==
    ASSUME MemOK(mem), S \in Byte, NEW bytes \in Seq(Byte)
    PROVE  MemOK(Pushed(bytes))
<1> DEFINE cells == { FreeCell(n) : n \in 1..Len(bytes) }
           at(a) == CHOOSE n \in 1..Len(bytes) : FreeCell(n) = a
           f == [a \in cells |-> bytes[at(a)]]
<1>1. \A n \in 1..Len(bytes) : FreeCell(n) \in Word
    <2> SUFFICES ASSUME NEW n \in 1..Len(bytes) PROVE FreeCell(n) \in Word
        OBVIOUS
    <2>1. n \in Int
        OBVIOUS
    <2>2. FreeCell(n) \in Int /\ 256 <= FreeCell(n) /\ FreeCell(n) <= 511
        BY <2>1, FreeCellInPage1
    <2> QED BY <2>2, WordIs
<1>2. \A a \in cells : at(a) \in 1..Len(bytes)
    OBVIOUS
<1>3. \A a \in cells : bytes[at(a)] \in Byte
    <2> HIDE DEF at
    <2> QED BY <1>2
<1>4. MemOK(f)
    <2>1. cells \subseteq Word
        BY <1>1
    <2> HIDE DEF at, cells
    <2> QED BY <2>1, <1>3 DEF MemOK
<1> QED
    BY <1>4, PatchedOK DEF Pushed

-----------------------------------------------------------------------------
\* Decoding.

Modes == {"imm", "zp", "abs", "zpx", "zpy", "abx", "aby", "ind", "izx", "izy",
          "A", "S", "X", "NULL", "rel"}

\* The fields into which execute_instruction takes an opcode apart.
LEMMA OpcodeParts ==
    ASSUME TypeOK
    PROVE  /\ op \in Byte /\ cc \in 0..3 /\ bbb \in 0..7 /\ aaa \in 0..7
           /\ op = 32 * aaa + 4 * bbb + cc
<1>1. op \in Byte
    BY TypeParts, LoadIsByte DEF op, Load
<1>2. cc \in 0..3 /\ bbb \in 0..7 /\ aaa \in 0..7
    BY <1>1, ByteIs DEF cc, bbb, aaa
<1>3. op = 32 * aaa + 4 * bbb + cc
    BY <1>1, ByteIs DEF cc, bbb, aaa
<1> QED
    BY <1>1, <1>2, <1>3

\* The opcode table names a mode for every opcode.
LEMMA ModeIsMode == TypeOK => mode \in Modes
<1>1. \A k \in 1..4, j, i \in 1..8 : opcodes[k][j][i] \in Modes
    BY DEF opcodes, Operand, Control, Logic, LogicY, Shift, MoveX, Count, Modes
<1>2. TypeOK => cc + 1 \in 1..4 /\ aaa + 1 \in 1..8 /\ bbb + 1 \in 1..8
    BY OpcodeParts
<1> QED
    BY <1>1, <1>2 DEF mode

\* What addrDecode gives for each mode.
Decoded(d) ==
    /\ d.len \in 0..2
    /\ d.addr \in Word \cup {NoAddr}
    /\ d.loc[1] \in {"mem", "A", "S", "X", "NULL"}
    /\ d.loc[1] = "mem" => d.loc[2] \in Word
    /\ d.loc[1] = "NULL" <=> mode \in {"NULL", "rel"}
    /\ \A r \in {"A", "S", "X"} : d.loc[1] = r <=> mode = r

\* addrDecode returns an address in memory, or none, and a length of up to 2.
LEMMA DecodedOK ==
    ASSUME TypeOK, PC \in CodeSpace
    PROVE  Decoded(addrDecode)
<1> DEFINE b == Load(PC + 1)
           w == WordAt(PC + 1)
<1>1. mode \in Modes
    BY ModeIsMode
<1>2. b \in Byte /\ w \in Word /\ X \in Byte /\ Y \in Byte /\ MemOK(mem)
    BY TypeParts, LoadIsByte, WordFromIsWord DEF Load, WordAt
<1>3. \A a : Load(a) \in Byte /\ ZeroPageWord(a) \in Word
    BY <1>2, LoadIsByte, WordOfBytes DEF Load, ZeroPageWord
<1>4. \A a \in Byte : a \in Word
    BY ByteIs, WordIs
<1>5. PC + 1 \in Word
    BY CodeIs, WordIs
<1>6. (b + X) % 256 \in Byte /\ (b + Y) % 256 \in Byte
    BY <1>2, ByteIs
<1>7. CASE mode = "imm"
    BY <1>5, <1>7 DEF addrDecode, Decoded
<1>8. CASE mode = "zp"
    BY <1>2, <1>4, <1>8 DEF addrDecode, Decoded
<1>9. CASE mode = "abs"
    BY <1>2, <1>9 DEF addrDecode, Decoded
<1>10. CASE mode = "zpx"
    BY <1>4, <1>6, <1>10 DEF addrDecode, Decoded
<1>11. CASE mode = "zpy"
    BY <1>4, <1>6, <1>11 DEF addrDecode, Decoded
<1>12. CASE mode = "abx"
    BY <1>2, <1>12, IndexedInMemory DEF addrDecode, Decoded
<1>13. CASE mode = "aby"
    BY <1>2, <1>13, IndexedInMemory DEF addrDecode, Decoded
<1>14. CASE mode = "ind"
    BY <1>3, <1>4, <1>14 DEF addrDecode, Decoded
<1>15. CASE mode = "izx"
    BY <1>3, <1>15 DEF addrDecode, Decoded
<1>16. CASE mode = "izy"
    BY <1>2, <1>3, <1>16, IndexedInMemory DEF addrDecode, Decoded
<1>17. CASE mode \in {"A", "S", "X"}
    BY <1>17 DEF addrDecode, Decoded
<1>18. CASE mode \in {"NULL", "rel"}
    BY <1>18 DEF addrDecode, Decoded
<1> QED
    BY <1>1, <1>7, <1>8, <1>9, <1>10, <1>11, <1>12, <1>13, <1>14, <1>15, <1>16,
       <1>17, <1>18, Zenon DEF Modes

\* An operand that there is is a byte.
LEMMA OperandOK ==
    ASSUME TypeOK, PC \in CodeSpace, loc[1] # "NULL"
    PROVE  operand \in Byte
<1>1. loc[1] \in {"mem", "A", "S", "X"}
    BY DecodedOK DEF Decoded, loc
<1> QED
    BY <1>1, TypeParts, LoadIsByte DEF operand, Load

\* A store of a byte leaves registers and memory in their widths.
LEMMA StoreOK ==
    ASSUME TypeOK, PC \in CodeSpace, NEW v \in Byte, Store(v)
    PROVE  A' \in Byte /\ S' \in Byte /\ X' \in Byte /\ MemOK(mem')
<1>1. A' \in Byte /\ S' \in Byte /\ X' \in Byte
    BY TypeParts DEF Store
<1>2. CASE loc[1] = "mem"
    <2> DEFINE f == [a \in {loc[2]} |-> v]
    <2>1. loc[2] \in Word
        BY <1>2, DecodedOK DEF Decoded, loc
    <2>2. MemOK(f)
        BY <2>1 DEF MemOK
    <2>3. mem' = Patched(mem, f)
        BY <1>2 DEF Store
    <2>4. MemOK(mem)
        BY TypeParts
    <2> HIDE DEF f
    <2> QED BY <1>1, <2>2, <2>3, <2>4, PatchedOK
<1>3. CASE loc[1] # "mem"
    BY <1>1, <1>3, TypeParts DEF Store
<1> QED
    BY <1>2, <1>3

\* The accesses that instructions signal.
LEMMA SignalOK ==
    ASSUME TypeOK, PC \in CodeSpace,
           NEW n \in 0..2, NEW times \in 0..2, times # 0 => (n = 2 <=> times = 2),
           Signal(n, times)
    PROVE  BusOK(bus')
<1> DEFINE access == [addr |-> addrDecode.addr, rwb |-> n]
<1>1. bus' = [i \in 1..times |-> access]
    BY DEF Signal
<1>2. bus' \in Seq({access}) /\ Len(bus') = times
    <2> HIDE DEF access
    <2> QED BY <1>1
<1>3. access.addr \in Word \cup {NoAddr} /\ access.rwb = n
    BY DecodedOK DEF Decoded
<1>4. \A i \in 1..times : bus'[i] = access
    BY <1>1
<1> HIDE DEF access
<1> QED
    BY <1>2, <1>3, <1>4 DEF BusOK

\* So is a silent bus.
LEMMA SilentOK == Silent => BusOK(bus')
    BY DEF Silent, BusOK

\* PC stays a word.
LEMMA AdvanceOK ==
    ASSUME TypeOK, NEW n \in 0..2, Advance(n)
    PROVE  PC' \in Word
<1>1. PC \in Int
    BY TypeParts, WordIs
<1> QED
    BY <1>1, Wraps DEF Advance

-----------------------------------------------------------------------------
\* The shapes of instructions keep the types.

Ready == TypeOK /\ PC \in CodeSpace

\* Instructions that change flags only keep the type invariant.
LEMMA FlagsOnlyOK ==
    ASSUME Ready, NEW p, p \subseteq Flag, FlagsOnly(p)
    PROVE  TypeOK'
    BY TypeParts, TypePartsNext, AdvanceOK, SilentOK DEF Ready, FlagsOnly, Implied

\* Branches keep the type invariant.
LEMMA BranchOK ==
    ASSUME Ready, NEW taken, Branch(taken)
    PROVE  TypeOK'
<1>1. Load(PC + 1) \in Byte /\ PC \in Int
    BY TypeParts, LoadIsByte, WordIs DEF Load, Ready
<1>2. Signed(Load(PC + 1)) \in Int
    BY <1>1, ByteIs DEF Signed
<1>3. PC' \in Word
    BY <1>1, <1>2, Wraps DEF Branch
<1> QED
    BY <1>3, TypeParts, TypePartsNext, SilentOK DEF Ready, Branch

\* Pushes keep everything in its width; PC and P are up to the instruction.
LEMMA PushOK ==
    ASSUME Ready, NEW bytes \in Seq(Byte), Push(bytes)
    PROVE  /\ MemOK(mem') /\ BusOK(bus')
           /\ A' \in Byte /\ X' \in Byte /\ Y' \in Byte /\ S' \in Byte
           /\ st' \in {"run", "done", "crashed"}
<1>1. Len(bytes) \in Nat /\ S \in Int
    BY TypeParts, ByteIs DEF Ready
<1>2. S' \in Byte
    BY <1>1, Mod256 DEF Push
<1> QED
    BY <1>2, TypeParts, PushedOK, SilentOK DEF Ready, Push

\* So do pulls.
LEMMA PullOK ==
    ASSUME Ready, NEW n \in Nat, Pull(n)
    PROVE  /\ MemOK(mem') /\ BusOK(bus')
           /\ X' \in Byte /\ Y' \in Byte /\ S' \in Byte
           /\ st' \in {"run", "done", "crashed"}
<1>1. S \in Int
    BY TypeParts, ByteIs DEF Ready
<1>2. S' \in Byte
    BY <1>1, Mod256 DEF Pull
<1> QED
    BY <1>2, TypeParts, SilentOK DEF Ready, Pull

\* What is pulled is a byte or a word.
LEMMA PulledOK ==
    ASSUME Ready
    PROVE  \A n : Pulled(n) \in Byte /\ PulledWord(n) \in Word
    BY TypeParts, LoadIsByte, WordOfBytes DEF Ready, Pulled, PulledWord, Load

\* Instructions that work on A keep the type invariant.
LEMMA AccumulateOK ==
    ASSUME Ready, NEW r, r.val \in Byte, r.P \subseteq Flag, Accumulate(r)
    PROVE  TypeOK'
<1>1. addrDecode.len \in 0..2
    BY DecodedOK DEF Decoded, Ready
<1>2. PC' \in Word
    BY <1>1, AdvanceOK DEF Accumulate, Ready
<1>3. BusOK(bus')
    BY SignalOK DEF Accumulate, Ready
<1> QED
    BY <1>2, <1>3, TypeParts, TypePartsNext DEF Accumulate, Ready

\* Instructions that write back keep the type invariant.
LEMMA ModifyOK ==
    ASSUME Ready, NEW r, r.val \in Byte, r.P \subseteq Flag, Modify(r)
    PROVE  TypeOK'
<1>1. addrDecode.len \in 0..2
    BY DecodedOK DEF Decoded, Ready
<1>2. PC' \in Word
    BY <1>1, AdvanceOK DEF Modify, Ready
<1>3. BusOK(bus')
    <2>1. CASE loc[1] = "mem"
        BY <2>1, SignalOK DEF Modify, Ready
    <2>2. CASE loc[1] # "mem"
        BY <2>2, SignalOK DEF Modify, Ready
    <2> QED BY <2>1, <2>2
<1>4. A' \in Byte /\ S' \in Byte /\ X' \in Byte /\ MemOK(mem')
    BY StoreOK DEF Modify, Ready
<1> QED
    BY <1>2, <1>3, <1>4, TypeParts, TypePartsNext DEF Modify, Ready

\* A NULL operand that is dereferenced leaves everything in its width.
LEMMA CrashOK == Ready /\ Crash => TypeOK'
    BY TypeParts, TypePartsNext, SilentOK DEF Ready, Crash, cpu

-----------------------------------------------------------------------------
\* Where the control instructions, and only they, use the NULL mode.

\* The modes of the opcodes with cc = 0 that have an operand.
LEMMA ControlModes ==
    ASSUME Ready, cc = 0
    PROVE  /\ aaa = 1 /\ bbb \in {1, 3} => mode \in {"zp", "abs"}
           /\ aaa = 4 /\ bbb \notin {2, 4} => mode \in {"imm", "zp", "abs", "zpx", "A", "abx"}
           /\ aaa = 5 /\ bbb \notin {4, 6} => mode \in {"imm", "zp", "abs", "zpx", "A", "abx"}
           /\ aaa = 6 /\ bbb \notin {2, 4, 6} => mode \in {"imm", "zp", "abs", "zpx", "abx"}
           /\ aaa = 7 /\ bbb \notin {2, 4, 6} => mode \in {"imm", "zp", "abx", "zpx"}
           /\ aaa = 3 /\ bbb = 3 => mode = "ind"
<1>1. bbb \in {0, 1, 2, 3, 4, 5, 6, 7}
    BY OpcodeParts DEF Ready
<1> QED
    BY <1>1 DEF mode, opcodes, Operand, Control

\* The modes of the opcodes with cc = 1.
LEMMA LogicModes ==
    ASSUME Ready, cc = 1
    PROVE  mode \in {"izx", "zp", "imm", "abs", "izy", "zpx", "aby", "abx"}
<1>1. bbb \in {0, 1, 2, 3, 4, 5, 6, 7} /\ aaa \in {0, 1, 2, 3, 4, 5, 6, 7}
    BY OpcodeParts DEF Ready
<1> QED
    BY <1>1 DEF mode, opcodes, Logic

\* Only NULL and relative opcodes have no operand.
LEMMA LocOK ==
    ASSUME Ready
    PROVE  loc[1] = "NULL" <=> mode \in {"NULL", "rel"}
    BY DecodedOK DEF Decoded, Ready, loc

\* All others have one that is a byte.
LEMMA ReadsOperand ==
    ASSUME Ready, mode \notin {"NULL", "rel"}
    PROVE  operand \in Byte
    BY LocOK, OperandOK DEF Ready

\* Instructions that set flags from their operand keep the type invariant.
LEMMA FlagsOfOK ==
    ASSUME Ready, NEW p, p \subseteq Flag, FlagsOf(p)
    PROVE  TypeOK'
<1> DEFINE r == [val |-> A, P |-> p]
<1>1. r.val \in Byte /\ r.P \subseteq Flag /\ Accumulate(r)
    BY TypeParts DEF Ready, FlagsOf
<1> HIDE DEF r
<1> QED
    BY <1>1, AccumulateOK

\* Instructions that load A keep the type invariant.
LEMMA LoadAOK ==
    ASSUME Ready, NEW v \in Byte, LoadA(v)
    PROVE  TypeOK'
<1> DEFINE r == [val |-> v, P |-> SetNZ(P, v)]
<1>1. r.val \in Byte /\ r.P \subseteq Flag /\ Accumulate(r)
    BY TypeParts, SetNZType DEF Ready, LoadA
<1> HIDE DEF r
<1> QED
    BY <1>1, AccumulateOK

-----------------------------------------------------------------------------
\* Each instruction function keeps the types.

\* Flags raised and cleared.
LEMMA FlagSets ==
    P \subseteq Flag =>
      \A f \in {"C", "I", "V", "D"} : P \cup {f} \subseteq Flag /\ P \ {f} \subseteq Flag
    BY DEF Flag

\* JSR and BRK push bytes.
LEMMA HiLoOK == \A w \in Word : HiLo(w) \in Seq(Byte)
<1>1. \A w \in Word : w \div 256 \in Byte /\ w % 256 \in Byte
    BY WordIs, ByteIs
<1> QED
    BY <1>1 DEF HiLo

\* What is the same before every instruction function.
LEMMA Known ==
    ASSUME Ready
    PROVE  /\ TypeOK /\ PC \in CodeSpace
           /\ A \in Byte /\ X \in Byte /\ Y \in Byte /\ S \in Byte
           /\ PC \in Word /\ PC \in Int /\ P \subseteq Flag /\ MemOK(mem)
           /\ st \in {"run", "done", "crashed"}
    BY TypeParts, WordIs DEF Ready

\* BRK, PHP, BPL and CLC keep the type invariant.
LEMMA Group0OK == Ready /\ group0 => TypeOK'
<1> SUFFICES ASSUME Ready, group0 PROVE TypeOK'
    OBVIOUS
<1>1. ASSUME Push(HiLo(Wrap16(PC + 3)) \o <<StatusByte(P)>>),
             PC' = WordFrom(mem', 65534), P' = P
      PROVE  TypeOK'
    <2> DEFINE bytes == HiLo(Wrap16(PC + 3)) \o <<StatusByte(P)>>
    <2>1. bytes \in Seq(Byte) /\ Push(bytes)
        BY <1>1, Known, HiLoOK, StatusByteType, Wraps
    <2> HIDE DEF bytes
    <2>2. /\ MemOK(mem') /\ BusOK(bus')
          /\ A' \in Byte /\ X' \in Byte /\ Y' \in Byte /\ S' \in Byte
          /\ st' \in {"run", "done", "crashed"}
        BY <2>1, PushOK
    <2>3. PC' \in Word
        BY <1>1, <2>2, WordFromIsWord
    <2> QED BY <1>1, <2>2, <2>3, Known, TypePartsNext
<1>2. ASSUME Push(<<StatusByte(P)>>), Advance(0), P' = P
      PROVE  TypeOK'
    <2>1. <<StatusByte(P)>> \in Seq(Byte)
        BY StatusByteType
    <2>2. PC' \in Word
        BY <1>2, Known, AdvanceOK
    <2> QED BY <1>2, <2>1, <2>2, PushOK, Known, TypePartsNext
<1> QED
    BY <1>1, <1>2, Known, BranchOK, FlagsOnlyOK, FlagSets DEF group0

\* JSR, BIT, PLP, BMI and SEC keep the type invariant.
LEMMA Group1OK == Ready /\ group1 => TypeOK'
<1> SUFFICES ASSUME Ready, group1 PROVE TypeOK'
    OBVIOUS
<1>1. ASSUME Push(HiLo(Wrap16(PC + 3))), PC' = WordFrom(mem', PC + 1), P' = P
      PROVE  TypeOK'
    <2>1. HiLo(Wrap16(PC + 3)) \in Seq(Byte)
        BY Known, HiLoOK, Wraps
    <2>2. MemOK(mem')
        BY <1>1, <2>1, PushOK
    <2>3. PC' \in Word
        BY <1>1, <2>2, WordFromIsWord
    <2> QED BY <1>1, <2>1, <2>3, PushOK, Known, TypePartsNext
<1>2. ASSUME cc = 0, aaa = 1, bbb \in {1, 3}, FlagsOf(BitTest(P, A, operand))
      PROVE  TypeOK'
    <2>1. operand \in Byte
        BY <1>2, ControlModes, ReadsOperand
    <2>2. BitTest(P, A, operand) \subseteq Flag
        BY <2>1, Known, BitTestType
    <2> QED BY <1>2, <2>2, FlagsOfOK
<1>3. ASSUME Pull(1), P' = StatusOf(Pulled(1)), Advance(0), A' = A
      PROVE  TypeOK'
    <2>1. P' \subseteq Flag
        BY <1>3, PulledOK, StatusOfType
    <2>2. PC' \in Word
        BY <1>3, Known, AdvanceOK
    <2> QED BY <1>3, <2>1, <2>2, PullOK, Known, TypePartsNext
<1> QED
    BY <1>1, <1>2, <1>3, Known, BranchOK, FlagsOnlyOK, FlagSets DEF group1, Is

\* RTI, PHA, JMP, BVC and CLI keep the type invariant.
LEMMA Group2OK == Ready /\ group2 => TypeOK'
<1> SUFFICES ASSUME Ready, group2 PROVE TypeOK'
    OBVIOUS
<1>1. ASSUME Pull(3), P' = StatusOf(Pulled(1)), PC' = PulledWord(2), A' = A
      PROVE  TypeOK'
    <2>1. P' \subseteq Flag /\ PC' \in Word
        BY <1>1, PulledOK, StatusOfType
    <2> QED BY <1>1, <2>1, PullOK, Known, TypePartsNext
<1>2. ASSUME Push(<<A>>), Advance(0), P' = P
      PROVE  TypeOK'
    <2>1. <<A>> \in Seq(Byte)
        BY Known
    <2>2. PC' \in Word
        BY <1>2, Known, AdvanceOK
    <2> QED BY <1>2, <2>1, <2>2, PushOK, Known, TypePartsNext
<1>3. ASSUME PC' = WordAt(PC + 1), Silent, UNCHANGED <<A, X, Y, S, P, mem, st>>
      PROVE  TypeOK'
    <2>1. PC' \in Word
        BY <1>3, Known, WordFromIsWord DEF WordAt
    <2> QED BY <1>3, <2>1, Known, SilentOK, TypePartsNext
<1> QED
    BY <1>1, <1>2, <1>3, Known, BranchOK, FlagsOnlyOK, FlagSets DEF group2

\* RTS, PLA, JMP (), BVS and SEI keep the type invariant.
LEMMA Group3OK == Ready /\ group3 => TypeOK'
<1> SUFFICES ASSUME Ready, group3 PROVE TypeOK'
    OBVIOUS
<1>1. ASSUME Pull(2), PC' = PulledWord(1), UNCHANGED <<A, P>>
      PROVE  TypeOK'
    <2>1. PC' \in Word
        BY <1>1, PulledOK
    <2> QED BY <1>1, <2>1, PullOK, Known, TypePartsNext
<1>2. ASSUME Pull(1), A' = Pulled(1), Advance(0), P' = P
      PROVE  TypeOK'
    <2>1. A' \in Byte
        BY <1>2, PulledOK
    <2>2. PC' \in Word
        BY <1>2, Known, AdvanceOK
    <2> QED BY <1>2, <2>1, <2>2, PullOK, Known, TypePartsNext
<1>3. ASSUME PC' = WordAt(loc[2]), Silent, UNCHANGED <<A, X, Y, S, P, mem, st>>
      PROVE  TypeOK'
    <2>1. PC' \in Word
        BY <1>3, Known, WordFromIsWord DEF WordAt
    <2> QED BY <1>3, <2>1, Known, SilentOK, TypePartsNext
<1> QED
    BY <1>1, <1>2, <1>3, Known, BranchOK, FlagsOnlyOK, FlagSets DEF group3

\* Increments and decrements return a byte and flags that there are.
LEMMA StepType ==
    ASSUME NEW p \in SUBSET Flag, NEW v \in Byte
    PROVE  /\ Increment(p, v).val \in Byte /\ Increment(p, v).P \subseteq Flag
           /\ Decrement(p, v).val \in Byte /\ Decrement(p, v).P \subseteq Flag
<1>1. (v + 1) % 256 \in Byte /\ (v - 1) % 256 \in Byte
    BY ByteIs
<1> QED
    BY <1>1, StepNZType DEF Increment, Decrement

\* Counting in X or Y keeps the type invariant.
LEMMA StepXYOK ==
    ASSUME Ready, NEW r, r.val \in Byte, r.P \subseteq Flag, StepX(r) \/ StepY(r)
    PROVE  TypeOK'
<1>1. PC' \in Word
    BY Known, AdvanceOK DEF StepX, StepY, Implied
<1> QED
    BY <1>1, Known, SilentOK, TypePartsNext DEF StepX, StepY, Implied

\* STY, DEY, BCC and TYA keep the type invariant.
LEMMA Group4OK == Ready /\ group4 => TypeOK'
<1> SUFFICES ASSUME Ready, group4 PROVE TypeOK'
    OBVIOUS
<1>1. CASE bbb = 2 /\ StepY(Decrement(P, Y))
    BY <1>1, Known, StepType, StepXYOK
<1>2. ASSUME Store(Y), Signal(0, IF loc[1] = "A" THEN 0 ELSE 1),
             P' = SetNZ(P, Y), Advance(addrDecode.len), UNCHANGED <<Y, st>>
      PROVE  TypeOK'
    <2>1. addrDecode.len \in 0..2
        BY Known, DecodedOK DEF Decoded
    <2>2. PC' \in Word
        BY <1>2, <2>1, Known, AdvanceOK
    <2>3. BusOK(bus')
        BY <1>2, Known, SignalOK
    <2>4. P' \subseteq Flag
        BY <1>2, Known, SetNZType
    <2> QED BY <1>2, <2>2, <2>3, <2>4, Known, StoreOK, TypePartsNext
<1> QED
    BY <1>1, <1>2, BranchOK DEF group4

\* LDY, TAY, BCS and CLV keep the type invariant.
LEMMA Group5OK == Ready /\ group5 => TypeOK'
<1> SUFFICES ASSUME Ready, group5 PROVE TypeOK'
    OBVIOUS
<1>1. ASSUME cc = 0, aaa = 5, bbb \notin {4, 6}, Y' = operand,
             Signal(1, IF loc[1] = "A" THEN 0 ELSE 1),
             P' = SetNZ(P, operand), Advance(addrDecode.len),
             UNCHANGED <<A, X, S, mem, st>>
      PROVE  TypeOK'
    <2>1. addrDecode.len \in 0..2
        BY Known, DecodedOK DEF Decoded
    <2>2. PC' \in Word
        BY <1>1, <2>1, Known, AdvanceOK
    <2>3. BusOK(bus')
        BY <1>1, Known, SignalOK
    <2>4. operand \in Byte
        BY <1>1, ControlModes, ReadsOperand
    <2>5. P' \subseteq Flag
        BY <1>1, <2>4, Known, SetNZType
    <2> QED BY <1>1, <2>2, <2>3, <2>4, <2>5, Known, TypePartsNext
<1> QED
    BY <1>1, Known, BranchOK, FlagsOnlyOK, FlagSets DEF group5, Is

\* CPY, INY, CPX, INX, BNE, BEQ, CLD and SED keep the type invariant.
LEMMA Group67OK == Ready /\ (group6 \/ group7) => TypeOK'
<1> SUFFICES ASSUME Ready, group6 \/ group7 PROVE TypeOK'
    OBVIOUS
<1>1. ASSUME cc = 0, aaa \in {6, 7}, bbb \notin {2, 4, 6}, NEW r \in Byte,
             FlagsOf(Compare(P, r, operand))
      PROVE  TypeOK'
    <2>1. operand \in Byte
        BY <1>1, ControlModes, ReadsOperand
    <2>2. Compare(P, r, operand) \subseteq Flag
        BY <2>1, Known, CompareType
    <2> QED BY <1>1, <2>2, FlagsOfOK
<1>2. ASSUME StepX(Increment(P, X)) \/ StepY(Increment(P, Y))
      PROVE  TypeOK'
    BY <1>2, Known, StepType, StepXYOK
<1> QED
    BY <1>1, <1>2, Known, BranchOK, FlagsOnlyOK, FlagSets DEF group6, group7, Is

\* The instructions with cc = 1 that read keep the type invariant.
LEMMA AccumulatorOK ==
    Ready /\ (\/ groupORA \/ groupAND \/ groupEOR \/ groupADC
              \/ groupLDA \/ groupCMP \/ groupSBC) => TypeOK'
<1> SUFFICES ASSUME Ready, cc = 1,
                    \/ groupORA \/ groupAND \/ groupEOR \/ groupADC
                    \/ groupLDA \/ groupCMP \/ groupSBC
             PROVE  TypeOK'
    BY DEF groupORA, groupAND, groupEOR, groupADC, groupLDA, groupCMP, groupSBC, Is
<1>1. operand \in Byte
    BY LogicModes, ReadsOperand
<1>2. CASE groupORA
    BY <1>1, <1>2, Known, OrType, LoadAOK DEF groupORA
<1>3. CASE groupAND
    BY <1>1, <1>3, Known, AndType, LoadAOK DEF groupAND
<1>4. CASE groupEOR
    BY <1>1, <1>4, Known, XorType, LoadAOK DEF groupEOR
<1>5. CASE groupADC
    BY <1>1, <1>5, Known, AdcType, AccumulateOK DEF groupADC
<1>6. CASE groupLDA
    BY <1>1, <1>6, LoadAOK DEF groupLDA
<1>7. CASE groupCMP
    BY <1>1, <1>7, Known, CompareType, FlagsOfOK DEF groupCMP
<1>8. CASE groupSBC
    BY <1>1, <1>8, Known, SbcType, AccumulateOK DEF groupSBC
<1> QED
    BY <1>2, <1>3, <1>4, <1>5, <1>6, <1>7, <1>8

\* STA keeps the type invariant.
LEMMA StaOK == Ready /\ groupSTA => TypeOK'
<1> SUFFICES ASSUME Ready, groupSTA PROVE TypeOK'
    OBVIOUS
<1>1. addrDecode.len \in 0..2
    BY Known, DecodedOK DEF Decoded
<1>2. PC' \in Word
    BY <1>1, Known, AdvanceOK DEF groupSTA
<1>3. BusOK(bus')
    BY Known, SignalOK DEF groupSTA
<1> QED
    BY <1>2, <1>3, Known, StoreOK, TypePartsNext DEF groupSTA

\* The functions of cc = 2 read an operand only where addrDecode returns one.
LEMMA DerefOperand ==
    ASSUME Ready, loc[1] # "NULL" PROVE operand \in Byte
    BY Known, OperandOK

\* INC and DEC return a byte and flags that there are.
LEMMA CountedOK ==
    ASSUME Ready, loc[1] # "NULL", NEW by \in {-1, 1}
    PROVE  Counted(by).val \in Byte /\ Counted(by).P \subseteq Flag
<1>1. (operand + by) % 256 \in Byte
    BY DerefOperand, ByteIs, Mod256
<1> QED
    BY <1>1, Known, SetNZType DEF Counted

\* Shifts, rotations, INC and DEC keep the type invariant.
LEMMA ModifierOK ==
    Ready /\ (\/ groupASL \/ groupROL \/ groupLSR \/ groupROR
              \/ groupDEC \/ groupINC) => TypeOK'
<1> SUFFICES ASSUME Ready,
                    \/ groupASL \/ groupROL \/ groupLSR \/ groupROR
                    \/ groupDEC \/ groupINC
             PROVE  TypeOK'
    OBVIOUS
<1>1. CASE loc[1] = "NULL"
    BY <1>1, Known, CrashOK, FlagsOnlyOK
    DEF groupASL, groupROL, groupLSR, groupROR, groupDEC, groupINC, Deref
<1>2. CASE loc[1] # "NULL"
    <2>1. /\ Asl(P, operand).val \in Byte /\ Asl(P, operand).P \subseteq Flag
          /\ Rol(P, operand).val \in Byte /\ Rol(P, operand).P \subseteq Flag
          /\ Lsr(P, operand).val \in Byte /\ Lsr(P, operand).P \subseteq Flag
          /\ Ror(P, operand).val \in Byte /\ Ror(P, operand).P \subseteq Flag
        BY <1>2, DerefOperand, Known, ShiftType
    <2>2. \A by \in {-1, 1} : Counted(by).val \in Byte /\ Counted(by).P \subseteq Flag
        BY <1>2, CountedOK
    <2>3. ASSUME NEW r, r.val \in Byte, r.P \subseteq Flag, Modify(r)
          PROVE  TypeOK'
        BY <2>3, ModifyOK
    <2> QED
        BY <1>2, <2>1, <2>2, <2>3, Known, FlagsOnlyOK
        DEF groupASL, groupROL, groupLSR, groupROR, groupDEC, groupINC, Deref
<1> QED
    BY <1>1, <1>2

\* STX, LDX and the transfers of X keep the type invariant.
LEMMA MoveXOK == Ready /\ (groupSX \/ groupLX) => TypeOK'
<1> SUFFICES ASSUME Ready, groupSX \/ groupLX PROVE TypeOK'
    OBVIOUS
<1>1. addrDecode.len \in 0..2
    BY Known, DecodedOK DEF Decoded
<1>2. ASSUME loc[1] # "NULL", Store(X), P' = IF bbb \in {2, 6} THEN SetNZ(P, X) ELSE P,
             Signal(0, IF bbb \in {2, 6} THEN 0 ELSE 1),
             Advance(addrDecode.len), UNCHANGED <<Y, st>>
      PROVE  TypeOK'
    <2>1. PC' \in Word
        BY <1>1, <1>2, Known, AdvanceOK
    <2>2. BusOK(bus')
        BY <1>2, Known, SignalOK
    <2>3. P' \subseteq Flag
        BY <1>2, Known, SetNZType
    <2> QED BY <1>2, <2>1, <2>2, <2>3, Known, StoreOK, TypePartsNext
<1>3. ASSUME loc[1] # "NULL", X' = operand,
             P' = IF bbb \in {2, 6} THEN SetNZ(P, operand) ELSE P,
             Signal(1, IF bbb \in {2, 6} THEN 0 ELSE 1),
             Advance(addrDecode.len), UNCHANGED <<A, Y, S, mem, st>>
      PROVE  TypeOK'
    <2>1. PC' \in Word
        BY <1>1, <1>3, Known, AdvanceOK
    <2>2. BusOK(bus')
        BY <1>3, Known, SignalOK
    <2>3. operand \in Byte
        BY <1>3, DerefOperand
    <2>4. P' \subseteq Flag
        BY <1>3, <2>3, Known, SetNZType
    <2> QED BY <1>3, <2>1, <2>2, <2>3, <2>4, Known, TypePartsNext
<1> QED
    BY <1>2, <1>3, CrashOK DEF groupSX, groupLX, Deref

-----------------------------------------------------------------------------
\* So every instruction keeps the type invariant.
LEMMA InstructionOK == TypeOK /\ Instruction => TypeOK'
<1> SUFFICES ASSUME TypeOK, Instruction PROVE TypeOK'
    OBVIOUS
<1>1. Ready
    BY DEF Instruction, Running, Ready
<1>2. CASE Undocumented
    BY <1>2, TypeParts, TypePartsNext, SilentOK DEF Undocumented, cpu
<1> QED
    BY <1>1, <1>2, Group0OK, Group1OK, Group2OK, Group3OK, Group4OK, Group5OK,
       Group67OK, AccumulatorOK, StaOK, ModifierOK, MoveXOK DEF Instruction

\* After the reset, the type invariant holds.
LEMMA InitOK == Init => TypeOK
<1> SUFFICES ASSUME Init PROVE TypeOK
    OBVIOUS
<1>1. MemOK(mem)
    BY RomAssumption DEF Init, MemOK
<1>2. PC \in Word
    BY <1>1, WordFromIsWord DEF Init, WordAt
<1>3. BusOK(bus)
    BY DEF Init, BusOK
<1>4. P \subseteq Flag
    BY DEF Init, Flag
<1> QED
    BY <1>1, <1>2, <1>3, <1>4, TypeParts, ByteIs DEF Init

\* Every step keeps the type invariant.
LEMMA StepOK == TypeOK /\ [Next]_vars => TypeOK'
<1>1. TypeOK /\ Finish => TypeOK'
    BY TypeParts, TypePartsNext DEF Finish, cpu
<1>2. TypeOK /\ UNCHANGED vars => TypeOK'
    BY TypeParts, TypePartsNext DEF vars, cpu
<1> QED
    BY <1>1, <1>2, InstructionOK DEF Next

\* Registers, flags and memory stay within their widths and the bus is asked
\* for one access or two, whatever the program in the ROM (funcs.c, 6502.c).
THEOREM TypeCorrect == Spec => []TypeOK
    BY InitOK, StepOK, PTL DEF Spec

-----------------------------------------------------------------------------
(***************************************************************************)
(* Cpu6502 does what CpuDocs states of it, for every ROM: the rows of the  *)
(* documented matrix are placed in the groups of opcodes, each group is    *)
(* reduced to the few shapes that its instructions have, and what a        *)
(* property states is shown once of each shape.                            *)
(***************************************************************************)

\* A documented opcode has a row of the matrix of the documents.
LEMMA DocRow ==
    ASSUME TypeOK, DocMode # "undocumented"
    PROVE  \E r \in DocMatrix : /\ r.c = cc /\ r.b = bbb /\ aaa \in r.cols
                                /\ DocMode = r.mode
<1> DEFINE rows == { r \in DocMatrix : r.c = cc /\ r.b = bbb /\ aaa \in r.cols }
<1>1. DocMode = IF rows = {} THEN "undocumented" ELSE (CHOOSE r \in rows : TRUE).mode
    BY OpcodeParts DEF DocMode, DocModes, cc, bbb, aaa
<1>2. rows # {}
    BY <1>1
<1>3. (CHOOSE r \in rows : TRUE) \in rows
    <2> HIDE DEF rows
    <2> QED BY <1>2
<1> QED
    BY <1>1, <1>2, <1>3

OperandModes == {"immediate", "zeropage", "absolute", "zeropageX", "zeropageY",
                 "absoluteX", "absoluteY", "indirX", "indirY"}

\* The rows of the matrix have one of the modes.
LEMMA OperandRows ==
    ~ \E r \in DocMatrix : r.mode \notin NoOperand \cup OperandModes
    BY DEF DocMatrix, NoOperand, OperandModes

\* The rows of control instructions.
LEMMA ControlRows ==
    ~ \E r \in DocMatrix :
        r.mode = "control" /\
        ~(\/ r.c = 0 /\ r.b = 0 /\ r.cols = 0..3
          \/ r.c = 0 /\ r.b = 3 /\ r.cols = 2..3)
    BY DEF DocMatrix

\* The row of branches.
LEMMA RelativeRows ==
    ~ \E r \in DocMatrix :
        r.mode = "relative" /\
        ~(\/ r.c = 0 /\ r.b = 4 /\ r.cols = 0..7)
    BY DEF DocMatrix

\* The rows of implied instructions.
LEMMA ImpliedRows ==
    ~ \E r \in DocMatrix :
        r.mode = "implied" /\
        ~(\/ r.c = 0 /\ r.b = 2 /\ r.cols = 0..7
          \/ r.c = 0 /\ r.b = 6 /\ r.cols = 0..7
          \/ r.c = 2 /\ r.b = 2 /\ r.cols = 0..7
          \/ r.c = 2 /\ r.b = 6 /\ r.cols = 4..5)
    BY DEF DocMatrix

\* The rows with an immediate operand.
LEMMA ImmediateRows ==
    ~ \E r \in DocMatrix :
        r.mode = "immediate" /\
        ~(\/ r.c = 0 /\ r.b = 0 /\ r.cols = 5..7
          \/ r.c = 1 /\ r.b = 2 /\ r.cols = 0..7 \ {4}
          \/ r.c = 2 /\ r.b = 0 /\ r.cols = {5})
    BY DEF DocMatrix

\* The rows with an operand in the zero page.
LEMMA ZeroPageRows ==
    ~ \E r \in DocMatrix :
        r.mode = "zeropage" /\
        ~(\/ r.c = 0 /\ r.b = 1 /\ r.cols = {1} \cup 4..7
          \/ r.c = 1 /\ r.b = 1 /\ r.cols = 0..7
          \/ r.c = 2 /\ r.b = 1 /\ r.cols = 0..7)
    BY DEF DocMatrix

\* The rows with an absolute operand.
LEMMA AbsoluteRows ==
    ~ \E r \in DocMatrix :
        r.mode = "absolute" /\
        ~(\/ r.c = 0 /\ r.b = 3 /\ r.cols = {1} \cup 4..7
          \/ r.c = 1 /\ r.b = 3 /\ r.cols = 0..7
          \/ r.c = 2 /\ r.b = 3 /\ r.cols = 0..7)
    BY DEF DocMatrix

\* The rows with an operand in the zero page, indexed by X.
LEMMA ZeroPageXRows ==
    ~ \E r \in DocMatrix :
        r.mode = "zeropageX" /\
        ~(\/ r.c = 0 /\ r.b = 5 /\ r.cols = 4..5
          \/ r.c = 1 /\ r.b = 5 /\ r.cols = 0..7
          \/ r.c = 2 /\ r.b = 5 /\ r.cols = 0..7 \ {4, 5})
    BY DEF DocMatrix

\* The row of STX and LDX, indexed by Y.
LEMMA ZeroPageYRows ==
    ~ \E r \in DocMatrix :
        r.mode = "zeropageY" /\
        ~(\/ r.c = 2 /\ r.b = 5 /\ r.cols = 4..5)
    BY DEF DocMatrix

\* The rows with an absolute operand, indexed by X.
LEMMA AbsoluteXRows ==
    ~ \E r \in DocMatrix :
        r.mode = "absoluteX" /\
        ~(\/ r.c = 0 /\ r.b = 7 /\ r.cols = {5}
          \/ r.c = 1 /\ r.b = 7 /\ r.cols = 0..7
          \/ r.c = 2 /\ r.b = 7 /\ r.cols = 0..7 \ {4, 5})
    BY DEF DocMatrix

\* The rows with an absolute operand, indexed by Y.
LEMMA AbsoluteYRows ==
    ~ \E r \in DocMatrix :
        r.mode = "absoluteY" /\
        ~(\/ r.c = 1 /\ r.b = 6 /\ r.cols = 0..7
          \/ r.c = 2 /\ r.b = 7 /\ r.cols = {5})
    BY DEF DocMatrix

\* The row with an indexed pointer.
LEMMA IndirectXRows ==
    ~ \E r \in DocMatrix :
        r.mode = "indirX" /\
        ~(\/ r.c = 1 /\ r.b = 0 /\ r.cols = 0..7)
    BY DEF DocMatrix

\* The row with a pointer that is indexed.
LEMMA IndirectYRows ==
    ~ \E r \in DocMatrix :
        r.mode = "indirY" /\
        ~(\/ r.c = 1 /\ r.b = 4 /\ r.cols = 0..7)
    BY DEF DocMatrix

\* Ranges of columns, one by one.
LEMMA Columns ==
    /\ \A a : a \in 0..3 <=> a \in {0, 1, 2, 3}
    /\ \A a : a \in 2..3 <=> a \in {2, 3}
    /\ \A a : a \in 4..5 <=> a \in {4, 5}
    /\ \A a : a \in 4..7 <=> a \in {4, 5, 6, 7}
    /\ \A a : a \in 5..7 <=> a \in {5, 6, 7}
<1>1. \A a : a \in 0..3 <=> a \in {0, 1, 2, 3}
    OBVIOUS
<1>2. \A a : a \in 2..3 <=> a \in {2, 3}
    OBVIOUS
<1>3. \A a : a \in 4..5 <=> a \in {4, 5}
    OBVIOUS
<1>4. \A a : a \in 4..7 <=> a \in {4, 5, 6, 7}
    OBVIOUS
<1>5. \A a : a \in 5..7 <=> a \in {5, 6, 7}
    OBVIOUS
<1> QED
    BY <1>1, <1>2, <1>3, <1>4, <1>5

\* Where the documented opcodes of each mode stand among all opcodes.
LEMMA Placed ==
    ASSUME TypeOK, DocMode # "undocumented"
    PROVE  /\ DocMode \in NoOperand \cup OperandModes
           /\ DocMode = "control" =>
                cc = 0 /\ \/ bbb = 0 /\ aaa \in {0, 1, 2, 3}
                          \/ bbb = 3 /\ aaa \in {2, 3}
           /\ DocMode = "relative" =>
                cc = 0 /\ bbb = 4
           /\ DocMode = "implied" =>
                \/ cc = 0 /\ bbb \in {2, 6}
                \/ cc = 2 /\ bbb = 2
                \/ cc = 2 /\ bbb = 6 /\ aaa \in {4, 5}
           /\ DocMode = "immediate" =>
                \/ cc = 0 /\ bbb = 0 /\ aaa \in {5, 6, 7}
                \/ cc = 1 /\ bbb = 2 /\ aaa # 4
                \/ cc = 2 /\ bbb = 0 /\ aaa = 5
           /\ DocMode = "zeropage" =>
                bbb = 1 /\ ((cc = 0 /\ aaa \in {1, 4, 5, 6, 7}) \/ cc \in {1, 2})
           /\ DocMode = "absolute" =>
                bbb = 3 /\ ((cc = 0 /\ aaa \in {1, 4, 5, 6, 7}) \/ cc \in {1, 2})
           /\ DocMode = "zeropageX" =>
                bbb = 5 /\ \/ cc = 0 /\ aaa \in {4, 5}
                           \/ cc = 1
                           \/ cc = 2 /\ aaa \notin {4, 5}
           /\ DocMode = "zeropageY" =>
                bbb = 5 /\ cc = 2 /\ aaa \in {4, 5}
           /\ DocMode = "absoluteX" =>
                bbb = 7 /\ \/ cc = 0 /\ aaa = 5
                           \/ cc = 1
                           \/ cc = 2 /\ aaa \notin {4, 5}
           /\ DocMode = "absoluteY" =>
                \/ cc = 1 /\ bbb = 6
                \/ cc = 2 /\ bbb = 7 /\ aaa = 5
           /\ DocMode = "indirX" =>
                cc = 1 /\ bbb = 0
           /\ DocMode = "indirY" =>
                cc = 1 /\ bbb = 4
<1>1. PICK r \in DocMatrix : r.c = cc /\ r.b = bbb /\ aaa \in r.cols /\ DocMode = r.mode
    BY DocRow
<1>2. DocMode \in NoOperand \cup OperandModes
    BY <1>1, OperandRows
<1>3. DocMode = "control" =>
                cc = 0 /\ \/ bbb = 0 /\ aaa \in {0, 1, 2, 3}
                          \/ bbb = 3 /\ aaa \in {2, 3}
    BY <1>1, ControlRows, Columns
<1>4. DocMode = "relative" =>
                cc = 0 /\ bbb = 4
    BY <1>1, RelativeRows
<1>5. DocMode = "implied" =>
                \/ cc = 0 /\ bbb \in {2, 6}
                \/ cc = 2 /\ bbb = 2
                \/ cc = 2 /\ bbb = 6 /\ aaa \in {4, 5}
    BY <1>1, ImpliedRows, Columns
<1>6. DocMode = "immediate" =>
                \/ cc = 0 /\ bbb = 0 /\ aaa \in {5, 6, 7}
                \/ cc = 1 /\ bbb = 2 /\ aaa # 4
                \/ cc = 2 /\ bbb = 0 /\ aaa = 5
    BY <1>1, ImmediateRows, Columns, ZenonT(30)
<1>7. DocMode = "zeropage" =>
                bbb = 1 /\ ((cc = 0 /\ aaa \in {1, 4, 5, 6, 7}) \/ cc \in {1, 2})
    BY <1>1, ZeroPageRows, Columns
<1>8. DocMode = "absolute" =>
                bbb = 3 /\ ((cc = 0 /\ aaa \in {1, 4, 5, 6, 7}) \/ cc \in {1, 2})
    BY <1>1, AbsoluteRows, Columns
<1>9. DocMode = "zeropageX" =>
                bbb = 5 /\ \/ cc = 0 /\ aaa \in {4, 5}
                           \/ cc = 1
                           \/ cc = 2 /\ aaa \notin {4, 5}
    <2>1. DocMode = "zeropageX" =>
                    bbb = 5 /\ \/ cc = 0 /\ aaa \in 4..5
                               \/ cc = 1
                               \/ cc = 2 /\ aaa \notin {4, 5}
        BY <1>1, ZeroPageXRows
    <2> QED BY <2>1, Columns
<1>10. DocMode = "zeropageY" =>
                bbb = 5 /\ cc = 2 /\ aaa \in {4, 5}
    <2>1. DocMode = "zeropageY" =>
                    bbb = 5 /\ cc = 2 /\ aaa \in 4..5
        BY <1>1, ZeroPageYRows
    <2> QED BY <2>1, Columns
<1>11. DocMode = "absoluteX" =>
                bbb = 7 /\ \/ cc = 0 /\ aaa = 5
                           \/ cc = 1
                           \/ cc = 2 /\ aaa \notin {4, 5}
    BY <1>1, AbsoluteXRows
<1>12. DocMode = "absoluteY" =>
                \/ cc = 1 /\ bbb = 6
                \/ cc = 2 /\ bbb = 7 /\ aaa = 5
    BY <1>1, AbsoluteYRows
<1>13. DocMode = "indirX" =>
                cc = 1 /\ bbb = 0
    BY <1>1, IndirectXRows
<1>14. DocMode = "indirY" =>
                cc = 1 /\ bbb = 4
    BY <1>1, IndirectYRows
<1> QED
    BY <1>2, <1>3, <1>4, <1>5, <1>6, <1>7, <1>8, <1>9, <1>10, <1>11, <1>12, <1>13, <1>14
-----------------------------------------------------------------------------
\* The opcode table of 6502.c names the documented mode, but for CPX absolute.
LEMMA ModeAgrees ==
    ASSUME TypeOK, DocMode \in OperandModes
    PROVE  /\ DocMode = "immediate" => mode = "imm"
           /\ DocMode = "zeropage" => mode = "zp"
           /\ DocMode = "absolute" => mode = IF op = CPXabs THEN "abx" ELSE "abs"
           /\ DocMode = "zeropageX" => mode = "zpx"
           /\ DocMode = "zeropageY" => mode = "zpy"
           /\ DocMode = "absoluteX" => mode = "abx"
           /\ DocMode = "absoluteY" => mode = "aby"
           /\ DocMode = "indirX" => mode = "izx"
           /\ DocMode = "indirY" => mode = "izy"
<1>1. cc \in {0, 1, 2, 3} /\ aaa \in {0, 1, 2, 3, 4, 5, 6, 7}
    BY OpcodeParts
<1>2. op = CPXabs <=> cc = 0 /\ aaa = 7 /\ bbb = 3
    BY OpcodeParts DEF CPXabs
<1>3. DocMode # "undocumented"
    BY DEF OperandModes
<1>4. DocMode = "immediate" => mode = "imm"
    BY <1>1, <1>2, <1>3, Placed DEF mode, opcodes, Operand, Control, Logic, Shift, MoveX, Count
<1>5. DocMode = "zeropage" => mode = "zp"
    BY <1>1, <1>2, <1>3, Placed DEF mode, opcodes, Operand, Control, Logic, Shift, MoveX, Count
<1>6. DocMode = "absolute" => mode = IF op = CPXabs THEN "abx" ELSE "abs"
    BY <1>1, <1>2, <1>3, Placed DEF mode, opcodes, Operand, Control, Logic, Shift, MoveX, Count
<1>7. ASSUME DocMode = "zeropageX" PROVE mode = "zpx"
    <2>1. bbb = 5 /\ \/ cc = 0 /\ aaa \in {4, 5}
                     \/ cc = 1
                     \/ cc = 2 /\ aaa \notin {4, 5}
        BY <1>7, <1>3, Placed
    <2> QED BY <1>1, <2>1 DEF mode, opcodes, Operand, Control, Logic, Shift, MoveX, Count
<1>8. ASSUME DocMode = "zeropageY" PROVE mode = "zpy"
    <2>1. bbb = 5 /\ cc = 2 /\ aaa \in {4, 5}
        BY <1>8, <1>3, Placed
    <2> QED BY <1>1, <2>1 DEF mode, opcodes, Operand, Control, Logic, Shift, MoveX, Count
<1>9. ASSUME DocMode = "absoluteX" PROVE mode = "abx"
    <2>1. bbb = 7 /\ \/ cc = 0 /\ aaa = 5
                     \/ cc = 1
                     \/ cc = 2 /\ aaa \notin {4, 5}
        BY <1>9, <1>3, Placed
    <2> QED BY <1>1, <2>1 DEF mode, opcodes, Operand, Control, Logic, Shift, MoveX, Count
<1>10. ASSUME DocMode = "absoluteY" PROVE mode = "aby"
    <2>1. \/ cc = 1 /\ bbb = 6
          \/ cc = 2 /\ bbb = 7 /\ aaa = 5
        BY <1>10, <1>3, Placed
    <2> QED BY <1>1, <2>1 DEF mode, opcodes, Operand, Control, Logic, Shift, MoveX, Count
<1>11. ASSUME DocMode = "indirX" PROVE mode = "izx"
    <2>1. cc = 1 /\ bbb = 0
        BY <1>11, <1>3, Placed
    <2> QED BY <1>1, <2>1 DEF mode, opcodes, Operand, Control, Logic, Shift, MoveX, Count
<1>12. ASSUME DocMode = "indirY" PROVE mode = "izy"
    <2>1. cc = 1 /\ bbb = 4
        BY <1>12, <1>3, Placed
    <2> QED BY <1>1, <2>1 DEF mode, opcodes, Operand, Control, Logic, Shift, MoveX, Count
<1> QED
    BY <1>4, <1>5, <1>6, <1>7, <1>8, <1>9, <1>10, <1>11, <1>12

\* The opcodes that each function of funcs.c is called for.
LEMMA GroupPlaces ==
    /\ group0 => cc = 0 /\ aaa = 0
    /\ group1 => cc = 0 /\ aaa = 1
    /\ group2 => cc = 0 /\ aaa = 2
    /\ group3 => cc = 0 /\ aaa = 3
    /\ group4 => cc = 0 /\ aaa = 4
    /\ group5 => cc = 0 /\ aaa = 5
    /\ group6 => cc = 0 /\ aaa = 6
    /\ group7 => cc = 0 /\ aaa = 7
    /\ groupORA => cc = 1 /\ aaa = 0
    /\ groupAND => cc = 1 /\ aaa = 1
    /\ groupEOR => cc = 1 /\ aaa = 2
    /\ groupADC => cc = 1 /\ aaa = 3
    /\ groupSTA => cc = 1 /\ aaa = 4
    /\ groupLDA => cc = 1 /\ aaa = 5
    /\ groupCMP => cc = 1 /\ aaa = 6
    /\ groupSBC => cc = 1 /\ aaa = 7
    /\ groupASL => cc = 2 /\ aaa = 0
    /\ groupROL => cc = 2 /\ aaa = 1
    /\ groupLSR => cc = 2 /\ aaa = 2
    /\ groupROR => cc = 2 /\ aaa = 3
    /\ groupSX => cc = 2 /\ aaa = 4
    /\ groupLX => cc = 2 /\ aaa = 5
    /\ groupDEC => cc = 2 /\ aaa = 6
    /\ groupINC => cc = 2 /\ aaa = 7
    /\ Undocumented => cc = 3
<1>1. group0 => cc = 0 /\ aaa = 0
    BY DEF group0, Is
<1>2. group1 => cc = 0 /\ aaa = 1
    BY DEF group1, Is
<1>3. group2 => cc = 0 /\ aaa = 2
    BY DEF group2, Is
<1>4. group3 => cc = 0 /\ aaa = 3
    BY DEF group3, Is
<1>5. group4 => cc = 0 /\ aaa = 4
    BY DEF group4, Is
<1>6. group5 => cc = 0 /\ aaa = 5
    BY DEF group5, Is
<1>7. group6 => cc = 0 /\ aaa = 6
    BY DEF group6, Is
<1>8. group7 => cc = 0 /\ aaa = 7
    BY DEF group7, Is
<1>9. groupORA => cc = 1 /\ aaa = 0
    BY DEF groupORA, Is
<1>10. groupAND => cc = 1 /\ aaa = 1
    BY DEF groupAND, Is
<1>11. groupEOR => cc = 1 /\ aaa = 2
    BY DEF groupEOR, Is
<1>12. groupADC => cc = 1 /\ aaa = 3
    BY DEF groupADC, Is
<1>13. groupSTA => cc = 1 /\ aaa = 4
    BY DEF groupSTA, Is
<1>14. groupLDA => cc = 1 /\ aaa = 5
    BY DEF groupLDA, Is
<1>15. groupCMP => cc = 1 /\ aaa = 6
    BY DEF groupCMP, Is
<1>16. groupSBC => cc = 1 /\ aaa = 7
    BY DEF groupSBC, Is
<1>17. groupASL => cc = 2 /\ aaa = 0
    BY DEF groupASL, Is
<1>18. groupROL => cc = 2 /\ aaa = 1
    BY DEF groupROL, Is
<1>19. groupLSR => cc = 2 /\ aaa = 2
    BY DEF groupLSR, Is
<1>20. groupROR => cc = 2 /\ aaa = 3
    BY DEF groupROR, Is
<1>21. groupSX => cc = 2 /\ aaa = 4
    BY DEF groupSX, Is
<1>22. groupLX => cc = 2 /\ aaa = 5
    BY DEF groupLX, Is
<1>23. groupDEC => cc = 2 /\ aaa = 6
    BY DEF groupDEC, Is
<1>24. groupINC => cc = 2 /\ aaa = 7
    BY DEF groupINC, Is
<1>25. Undocumented => cc = 3
    BY DEF Undocumented, Is
<1> QED
    BY <1>1, <1>2, <1>3, <1>4, <1>5, <1>6, <1>7, <1>8, <1>9,
       <1>10, <1>11, <1>12, <1>13, <1>14, <1>15, <1>16, <1>17, <1>18, <1>19, <1>20, <1>21,
       <1>22, <1>23, <1>24, <1>25

\* So that an instruction is a step of the function of its opcode.
LEMMA GroupOf ==
    ASSUME Instruction
    PROVE  /\ cc = 0 /\ aaa = 0 => group0
           /\ cc = 0 /\ aaa = 1 => group1
           /\ cc = 0 /\ aaa = 2 => group2
           /\ cc = 0 /\ aaa = 3 => group3
           /\ cc = 0 /\ aaa = 4 => group4
           /\ cc = 0 /\ aaa = 5 => group5
           /\ cc = 0 /\ aaa = 6 => group6
           /\ cc = 0 /\ aaa = 7 => group7
           /\ cc = 1 /\ aaa = 0 => groupORA
           /\ cc = 1 /\ aaa = 1 => groupAND
           /\ cc = 1 /\ aaa = 2 => groupEOR
           /\ cc = 1 /\ aaa = 3 => groupADC
           /\ cc = 1 /\ aaa = 4 => groupSTA
           /\ cc = 1 /\ aaa = 5 => groupLDA
           /\ cc = 1 /\ aaa = 6 => groupCMP
           /\ cc = 1 /\ aaa = 7 => groupSBC
           /\ cc = 2 /\ aaa = 0 => groupASL
           /\ cc = 2 /\ aaa = 1 => groupROL
           /\ cc = 2 /\ aaa = 2 => groupLSR
           /\ cc = 2 /\ aaa = 3 => groupROR
           /\ cc = 2 /\ aaa = 4 => groupSX
           /\ cc = 2 /\ aaa = 5 => groupLX
           /\ cc = 2 /\ aaa = 6 => groupDEC
           /\ cc = 2 /\ aaa = 7 => groupINC
           /\ cc = 3 => Undocumented
    BY GroupPlaces DEF Instruction
-----------------------------------------------------------------------------
Stores == \E v \in Byte : Store(v)

Writes == Signal(0, 1) /\ Stores
WritesBack == Signal(2, 2) /\ Stores
Reads == Signal(1, 1) /\ mem' = mem

\* A documented operand is in memory.
LEMMA OperandLoc ==
    ASSUME Ready, DocMode \in OperandModes
    PROVE  loc[1] = "mem" /\ cc \in {0, 1, 2}
           /\ mode \notin {"A", "S", "X", "NULL", "rel", "ind"}
<1>1. mode \in {"imm", "zp", "abs", "abx", "zpx", "zpy", "aby", "izx", "izy"}
    BY ModeAgrees, Known DEF OperandModes
<1>2. loc[1] = "mem"
    BY <1>1, Known, DecodedOK DEF Decoded, loc
<1>3. cc \in {0, 1, 2}
    BY Placed, Known DEF OperandModes
<1> QED
    BY <1>1, <1>2, <1>3

\* What the opcodes with cc = 0 do that have an operand.
LEMMA OperandStep0 ==
    ASSUME Ready, DocMode \in OperandModes, Instruction, cc = 0
    PROVE  /\ Advance(addrDecode.len) /\ st' = st
           /\ aaa = 4 => Writes
           /\ aaa # 4 => Reads
<1>0. TypeOK /\ DocMode # "undocumented"
    BY Known DEF OperandModes
<1>1. /\ aaa \in {1, 4, 5, 6, 7}
      /\ bbb \in {0, 1, 3, 5, 7}
      /\ aaa = 1 => bbb \in {1, 3}
    <2>1. DocMode \in {"immediate", "zeropage", "absolute", "zeropageX", "absoluteX"}
        BY <1>0, Placed DEF OperandModes
    <2>2. CASE DocMode = "immediate"
        BY <1>0, <2>2, Placed
    <2>3. CASE DocMode = "zeropage"
        BY <1>0, <2>3, Placed
    <2>4. CASE DocMode = "absolute"
        BY <1>0, <2>4, Placed
    <2>5. CASE DocMode = "zeropageX"
        BY <1>0, <2>5, Placed
    <2>6. CASE DocMode = "absoluteX"
        BY <1>0, <2>6, Placed
    <2> QED BY <2>1, <2>2, <2>3, <2>4, <2>5, <2>6
<1>2. loc[1] = "mem"
    BY OperandLoc
<1>3. ASSUME NEW p, FlagsOf(p)
      PROVE  Advance(addrDecode.len) /\ st' = st /\ Reads
    BY <1>3 DEF FlagsOf, Accumulate, Reads
<1>4. CASE aaa = 1
    BY <1>1, <1>3, <1>4, GroupOf DEF group1
<1>5. CASE aaa = 4
    BY <1>1, <1>2, <1>5, GroupOf, Known DEF group4, Writes, Stores
<1>6. CASE aaa = 5
    BY <1>1, <1>2, <1>6, GroupOf DEF group5, Reads
<1>7. CASE aaa = 6
    BY <1>1, <1>3, <1>7, GroupOf DEF group6
<1>8. CASE aaa = 7
    BY <1>1, <1>3, <1>8, GroupOf DEF group7
<1> QED
    BY <1>1, <1>4, <1>5, <1>6, <1>7, <1>8

\* What the opcodes with cc = 1 do that have an operand.
LEMMA OperandStep1 ==
    ASSUME Ready, DocMode \in OperandModes, Instruction, cc = 1
    PROVE  /\ Advance(addrDecode.len) /\ st' = st
           /\ aaa = 4 => Writes
           /\ aaa # 4 => Reads
<1>1. aaa \in {0, 1, 2, 3, 4, 5, 6, 7}
    BY OpcodeParts, Known
<1>2. ASSUME NEW r, Accumulate(r)
      PROVE  Advance(addrDecode.len) /\ st' = st /\ Reads
    BY <1>2 DEF Accumulate, Reads
<1>3. ASSUME NEW v, LoadA(v) \/ FlagsOf(v)
      PROVE  Advance(addrDecode.len) /\ st' = st /\ Reads
    BY <1>3 DEF LoadA, FlagsOf, Accumulate, Reads
<1>4. CASE aaa = 4
    BY <1>4, GroupOf, Known DEF groupSTA, Writes, Stores
<1>5. CASE aaa # 4
    BY <1>1, <1>2, <1>3, <1>5, GroupOf
    DEF groupORA, groupAND, groupEOR, groupADC, groupLDA, groupCMP, groupSBC
<1> QED
    BY <1>4, <1>5

\* What the opcodes with cc = 2 do that have an operand.
LEMMA OperandStep2 ==
    ASSUME Ready, DocMode \in OperandModes, Instruction, cc = 2
    PROVE  /\ Advance(addrDecode.len) /\ st' = st
           /\ aaa = 4 => Writes
           /\ aaa = 5 => Reads
           /\ aaa \notin {4, 5} => WritesBack
<1>1. /\ aaa \in {0, 1, 2, 3, 4, 5, 6, 7}
      /\ bbb \in {0, 1, 3, 5, 7}
    <2>1. TypeOK /\ DocMode # "undocumented"
        BY Known DEF OperandModes
    <2>2. bbb \in {0, 1, 3, 5, 7}
        BY <2>1, Placed DEF OperandModes
    <2> QED BY <2>1, <2>2, OpcodeParts
<1>2. loc[1] = "mem" /\ operand \in Byte
    BY OperandLoc, DerefOperand
<1>3. ASSUME NEW r, r.val \in Byte, Modify(r)
      PROVE  Advance(addrDecode.len) /\ st' = st /\ WritesBack
    BY <1>2, <1>3 DEF Modify, WritesBack, Stores
<1>4. /\ Asl(P, operand).val \in Byte /\ Rol(P, operand).val \in Byte
      /\ Lsr(P, operand).val \in Byte /\ Ror(P, operand).val \in Byte
      /\ Counted(1).val \in Byte /\ Counted(-1).val \in Byte
    BY <1>2, Known, ShiftType, CountedOK
<1>5. CASE aaa = 4
    BY <1>1, <1>2, <1>5, GroupOf, Known DEF groupSX, Deref, Writes, Stores
<1>6. CASE aaa = 5
    BY <1>1, <1>2, <1>6, GroupOf, Known DEF groupLX, Deref, Reads
<1>7. CASE aaa \notin {4, 5}
    BY <1>1, <1>2, <1>3, <1>4, <1>7, GroupOf
    DEF groupASL, groupROL, groupLSR, groupROR, groupDEC, groupINC, Deref
<1> QED
    BY <1>5, <1>6, <1>7

\* An instruction with an operand reads it, writes it or writes it back, as
\* its column says, and steps behind it.
LEMMA OperandStep ==
    ASSUME Ready, DocMode \in OperandModes, Instruction
    PROVE  /\ Advance(addrDecode.len) /\ st' = st
           /\ CASE aaa = 4 -> Writes
                [] aaa # 4 /\ cc = 2 /\ aaa # 5 -> WritesBack
                [] OTHER -> Reads
    BY OperandLoc, OperandStep0, OperandStep1, OperandStep2

\* A documented branch is a branch, on the flag in its name.
LEMMA RelativeStep ==
    ASSUME Ready, DocMode = "relative", Instruction
    PROVE  Branch(Taken)
<1>1. cc = 0 /\ bbb = 4 /\ aaa \in {0, 1, 2, 3, 4, 5, 6, 7}
    BY Placed, OpcodeParts, Known
<1>2. CASE aaa = 0
    BY <1>1, <1>2, GroupOf DEF group0, Taken, Tested
<1>3. CASE aaa = 1
    BY <1>1, <1>3, GroupOf DEF group1, Taken, Tested
<1>4. CASE aaa = 2
    BY <1>1, <1>4, GroupOf DEF group2, Taken, Tested
<1>5. CASE aaa = 3
    BY <1>1, <1>5, GroupOf DEF group3, Taken, Tested
<1>6. CASE aaa = 4
    BY <1>1, <1>6, GroupOf DEF group4, Taken, Tested
<1>7. CASE aaa = 5
    BY <1>1, <1>7, GroupOf DEF group5, Taken, Tested
<1>8. CASE aaa = 6
    BY <1>1, <1>8, GroupOf DEF group6, Taken, Tested
<1>9. CASE aaa = 7
    BY <1>1, <1>9, GroupOf DEF group7, Taken, Tested
<1> QED
    BY <1>1, <1>2, <1>3, <1>4, <1>5, <1>6, <1>7, <1>8, <1>9

\* Control instructions keep the bus silent and change memory by a push only.
LEMMA ControlStep ==
    ASSUME Ready, DocMode = "control", Instruction
    PROVE  /\ st' = st /\ Silent
           /\ \/ mem' = mem
              \/ op \in {BRK, JSR} /\ \E bytes \in Seq(Byte) : mem' = Pushed(bytes)
<1>0. TypeOK /\ DocMode # "undocumented"
    BY Known
<1>1. cc = 0 /\ \/ bbb = 0 /\ aaa \in {0, 1, 2, 3}
                \/ bbb = 3 /\ aaa \in {2, 3}
    BY <1>0, Placed
<1>2. /\ aaa = 0 /\ bbb = 0 => op = BRK
      /\ aaa = 1 /\ bbb = 0 => op = JSR
    BY <1>1, OpcodeParts, Known DEF BRK, JSR
<1>3. CASE bbb = 0 /\ aaa = 0
    <2> DEFINE bytes == HiLo(Wrap16(PC + 3)) \o <<StatusByte(P)>>
    <2>1. bytes \in Seq(Byte)
        BY Known, HiLoOK, StatusByteType, Wraps
    <2>2. Push(bytes)
        BY <1>1, <1>3, GroupOf DEF group0
    <2> HIDE DEF bytes
    <2> QED BY <1>2, <1>3, <2>1, <2>2 DEF Push
<1>4. CASE bbb = 0 /\ aaa = 1
    <2>1. HiLo(Wrap16(PC + 3)) \in Seq(Byte)
        BY Known, HiLoOK, Wraps
    <2> QED BY <1>1, <1>2, <1>4, <2>1, GroupOf DEF group1, Push
<1>5. CASE aaa \in {2, 3}
    <2>1. group2 \/ group3
        BY <1>1, <1>5, GroupOf
    <2>2. group2 => st' = st /\ Silent /\ mem' = mem
        BY <1>1 DEF group2, Pull
    <2>3. group3 => st' = st /\ Silent /\ mem' = mem
        BY <1>1 DEF group3, Pull
    <2> QED BY <2>1, <2>2, <2>3, Zenon
<1> QED
    BY <1>1, <1>3, <1>4, <1>5
\* What the bus has been asked for.
LEMMA Signalled ==
    ASSUME NEW n, NEW times \in 0..2, Signal(n, times)
    PROVE  /\ Len(bus') = times
           /\ \A i \in 1..times : bus'[i].addr = addrDecode.addr /\ bus'[i].rwb = n
<1> DEFINE access == [addr |-> addrDecode.addr, rwb |-> n]
<1>1. bus' = [i \in 1..times |-> access]
    BY DEF Signal
<1>2. access.addr = addrDecode.addr /\ access.rwb = n
    OBVIOUS
<1> HIDE DEF access
<1>3. Len(bus') = times
    <2>1. bus' \in Seq({access})
        BY <1>1
    <2> QED BY <1>1, <2>1
<1>4. \A i \in 1..times : bus'[i] = access
    BY <1>1
<1> QED
    BY <1>2, <1>3, <1>4

\* An opcode that works on a register has no operand bytes.
LEMMA RegisterLoc ==
    ASSUME mode \in {"A", "S", "X"}
    PROVE  addrDecode.len = 0 /\ loc[1] = mode
    BY DEF addrDecode, loc

\* The implied opcodes that work on a register by way of addrDecode.
LEMMA ImpliedModes ==
    ASSUME TypeOK
    PROVE  /\ cc = 0 /\ bbb = 2 /\ aaa = 5 => mode = "A"
           /\ cc = 0 /\ bbb = 6 /\ aaa = 4 => mode = "A"
           /\ cc = 2 /\ bbb = 2 /\ aaa # 7 => mode \in {"A", "X"}
           /\ cc = 2 /\ bbb = 6 /\ aaa \in {4, 5} => mode = "S"
<1>1. aaa \in {0, 1, 2, 3, 4, 5, 6, 7}
    BY OpcodeParts
<1> QED
    BY <1>1 DEF mode, opcodes, Operand, Control, Shift, MoveX, Count

\* What an implied instruction does besides changing registers.
ImpliedEffect ==
    /\ Advance(0) /\ st' = st /\ Len(bus') = 0
    /\ \/ mem' = mem
       \/ op \in {PHP, PHA} /\ \E bytes \in Seq(Byte) : mem' = Pushed(bytes)

\* The implied instructions that do not go by way of addrDecode.
LEMMA ImpliedShapes ==
    /\ \A p : FlagsOnly(p) => ImpliedEffect
    /\ \A r : StepX(r) \/ StepY(r) => ImpliedEffect
    /\ \A n : Pull(n) /\ Advance(0) => ImpliedEffect
    BY DEF FlagsOnly, StepX, StepY, Implied, Pull, Silent, ImpliedEffect

\* An instruction that works on a register by way of addrDecode.
LEMMA RegisterShapes ==
    ASSUME mode \in {"A", "S", "X"}, st' = st, Advance(addrDecode.len),
           NEW n, Signal(n, 0), NEW v, Store(v) \/ mem' = mem
    PROVE  ImpliedEffect
<1>1. addrDecode.len = 0 /\ loc[1] # "mem"
    BY RegisterLoc
<1>2. mem' = mem
    BY <1>1 DEF Store
<1>3. Len(bus') = 0
    BY Signalled
<1> QED
    BY <1>1, <1>2, <1>3 DEF ImpliedEffect

\* Every implied instruction is one byte long and leaves memory and bus alone.
LEMMA ImpliedStep ==
    ASSUME Ready, DocMode = "implied", Instruction
    PROVE  ImpliedEffect
<1>1. aaa \in {0, 1, 2, 3, 4, 5, 6, 7}
    BY OpcodeParts, Known
<1>2. TypeOK /\ DocMode # "undocumented"
    BY Known
<1>3. CASE cc = 0 /\ bbb = 2
    <2>1. /\ aaa = 0 => op = PHP
          /\ aaa = 2 => op = PHA
        BY <1>3, OpcodeParts, Known DEF PHP, PHA
    <2>2. ASSUME NEW b \in Byte, Push(<<b>>), Advance(0), op \in {PHP, PHA}
          PROVE  ImpliedEffect
        <3>1. <<b>> \in Seq(Byte)
            OBVIOUS
        <3> HIDE DEF PHP, PHA
        <3> QED BY <2>2, <3>1 DEF Push, Silent, ImpliedEffect
    <2>3. CASE aaa = 0
        BY <1>3, <2>1, <2>2, <2>3, GroupOf, Known, StatusByteType DEF group0
    <2>4. CASE aaa = 1
        BY <1>3, <2>4, GroupOf, ImpliedShapes DEF group1
    <2>5. CASE aaa = 2
        BY <1>3, <2>1, <2>2, <2>5, GroupOf, Known DEF group2
    <2>6. CASE aaa = 3
        BY <1>3, <2>6, GroupOf, ImpliedShapes DEF group3
    <2>7. CASE aaa = 4
        BY <1>3, <2>7, GroupOf, ImpliedShapes DEF group4
    <2>8. CASE aaa = 5
        <3>1. mode = "A"
            BY <1>2, <1>3, <2>8, ImpliedModes
        <3>2. loc[1] = "A"
            BY <3>1, RegisterLoc
        <3>3. /\ st' = st /\ Advance(addrDecode.len) /\ Signal(1, 0)
              /\ mem' = mem
            BY <1>3, <2>8, <3>2, GroupOf DEF group5
        <3> QED BY <3>1, <3>3, RegisterShapes
    <2>9. CASE aaa = 6
        BY <1>3, <2>9, GroupOf, ImpliedShapes DEF group6
    <2>10. CASE aaa = 7
        BY <1>3, <2>10, GroupOf, ImpliedShapes DEF group7
    <2> QED
        BY <1>1, <2>3, <2>4, <2>5, <2>6, <2>7, <2>8, <2>9, <2>10
<1>4. CASE cc = 0 /\ bbb = 6
    <2>1. CASE aaa = 4
        <3>1. mode = "A"
            BY <1>2, <1>4, <2>1, ImpliedModes
        <3>2. loc[1] = "A"
            BY <3>1, RegisterLoc
        <3>3. st' = st /\ Advance(addrDecode.len) /\ Signal(0, 0) /\ Store(Y)
            BY <1>4, <2>1, <3>2, GroupOf DEF group4
        <3> QED BY <3>1, <3>3, RegisterShapes
    <2>2. CASE aaa # 4
        BY <1>1, <1>4, <2>2, GroupOf, ImpliedShapes
        DEF group0, group1, group2, group3, group5, group6, group7
    <2> QED BY <2>1, <2>2
<1>5. CASE cc = 2 /\ (bbb = 2 \/ (bbb = 6 /\ aaa \in {4, 5}))
    <2>1. CASE bbb = 2 /\ aaa = 7
        BY <1>5, <2>1, GroupOf, ImpliedShapes DEF groupINC
    <2>2. CASE ~(bbb = 2 /\ aaa = 7)
        <3>1. mode \in {"A", "S", "X"}
            BY <1>2, <1>5, <2>2, ImpliedModes
        <3>2. loc[1] # "mem" /\ loc[1] # "NULL"
            BY <3>1, RegisterLoc
        <3>3. ASSUME NEW r, Modify(r) PROVE ImpliedEffect
            <4>1. /\ st' = st /\ Advance(addrDecode.len) /\ Signal(2, 0)
                  /\ Store(r.val)
                BY <3>2, <3>3 DEF Modify
            <4> QED BY <3>1, <4>1, RegisterShapes
        <3>4. CASE aaa = 4
            <4>1. st' = st /\ Advance(addrDecode.len) /\ Signal(0, 0) /\ Store(X)
                BY <1>5, <3>2, <3>4, GroupOf DEF groupSX, Deref
            <4> QED BY <3>1, <4>1, RegisterShapes
        <3>5. CASE aaa = 5
            <4>1. st' = st /\ Advance(addrDecode.len) /\ Signal(1, 0) /\ mem' = mem
                BY <1>5, <3>2, <3>5, GroupOf DEF groupLX, Deref
            <4> QED BY <3>1, <4>1, RegisterShapes
        <3>6. CASE aaa \notin {4, 5, 7}
            BY <1>1, <1>5, <3>2, <3>3, <3>6, GroupOf
            DEF groupASL, groupROL, groupLSR, groupROR, groupDEC, Deref
        <3> QED BY <1>5, <2>2, <3>4, <3>5, <3>6
    <2> QED BY <2>1, <2>2
<1> QED
    BY <1>2, <1>3, <1>4, <1>5, Placed
-----------------------------------------------------------------------------
\* A word is not changed by being cut to 16 bits.
LEMMA WrapOfWord == \A i \in Word : Wrap16(i) = i
<1> SUFFICES ASSUME NEW i \in Word PROVE Wrap16(i) = i
    OBVIOUS
<1>1. i \in Int /\ 0 <= i /\ i < 65536
    BY WordIs
<1> QED
    BY <1>1 DEF Wrap16

\* The order of two cuts does not matter.
LEMMA WrapTwice == \A i \in Int : Wrap16(Wrap16(i) - 256) = Wrap16(i - 256)
<1> SUFFICES ASSUME NEW i \in Int PROVE ((i % 65536) - 256) % 65536 = (i - 256) % 65536
    BY DEF Wrap16
<1> QED
    BY SMTT(30)

\* Indexing, but for a carry that does not reach an odd page, is addition.
LEMMA IndexedIs ==
    ASSUME NEW w \in Word, NEW i \in Byte
    PROVE  Indexed(w, i) = IF (w % 256) + i >= 256 /\ (w \div 256) % 2 = 1
                           THEN Wrap16(Wrap16(w + i) - 256) ELSE Wrap16(w + i)
<1>1. w \in Int /\ 0 <= w /\ w <= 65535 /\ i \in Int /\ 0 <= i /\ i <= 255
    BY WordIs, ByteIs
<1>2. Bit(w, 256) = (w \div 256) % 2
    BY DEF Bit
<1>3. Indexed(w, i) \in Word
    BY IndexedInMemory
<1>4. CASE (w % 256) + i >= 256 /\ (w \div 256) % 2 = 1
    <2>1. Indexed(w, i) = w + i - 256
        BY <1>2, <1>4 DEF Indexed
    <2>2. w + i \in Int /\ (w + i) - 256 = Indexed(w, i)
        BY <1>1, <2>1
    <2> QED BY <1>3, <1>4, <2>2, WrapTwice, WrapOfWord
<1>5. CASE ~((w % 256) + i >= 256 /\ (w \div 256) % 2 = 1)
    <2>1. Indexed(w, i) = w + i
        BY <1>2, <1>5 DEF Indexed
    <2> QED BY <1>3, <1>5, <2>1, WrapOfWord
<1> QED
    BY <1>4, <1>5

\* The length that addrDecode returns is the documented one.
LEMMA LengthAgrees ==
    ASSUME Ready, DocMode \in OperandModes
    PROVE  addrDecode.len \in 1..2 /\ Length = 1 + addrDecode.len
<1>1. TypeOK
    BY Known
<1>2. CASE DocMode = "immediate"
    <2>1. Length = 2
        BY <1>2 DEF Length
    <2>2. addrDecode.len = 1
        BY <1>1, <1>2, ModeAgrees DEF addrDecode
    <2> QED BY <2>1, <2>2
<1>3. CASE DocMode = "zeropage"
    <2>1. Length = 2
        BY <1>3 DEF Length
    <2>2. addrDecode.len = 1
        BY <1>1, <1>3, ModeAgrees DEF addrDecode
    <2> QED BY <2>1, <2>2
<1>4. CASE DocMode = "absolute"
    <2>1. Length = 3
        BY <1>4 DEF Length
    <2>2. addrDecode.len = 2
        BY <1>1, <1>4, ModeAgrees DEF addrDecode
    <2> QED BY <2>1, <2>2
<1>5. CASE DocMode = "zeropageX"
    <2>1. Length = 2
        BY <1>5 DEF Length
    <2>2. addrDecode.len = 1
        BY <1>1, <1>5, ModeAgrees DEF addrDecode
    <2> QED BY <2>1, <2>2
<1>6. CASE DocMode = "zeropageY"
    BY <1>1, <1>6, ModeAgrees DEF addrDecode, Length
<1>7. CASE DocMode = "absoluteX"
    BY <1>1, <1>7, ModeAgrees DEF addrDecode, Length
<1>8. CASE DocMode = "absoluteY"
    BY <1>1, <1>8, ModeAgrees DEF addrDecode, Length
<1>9. CASE DocMode = "indirX"
    BY <1>1, <1>9, ModeAgrees DEF addrDecode, Length
<1>10. CASE DocMode = "indirY"
    BY <1>1, <1>10, ModeAgrees DEF addrDecode, Length
<1> QED
    BY <1>2, <1>3, <1>4, <1>5, <1>6, <1>7, <1>8, <1>9, <1>10 DEF OperandModes

\* The address that addrDecode returns is the documented one, but for a carry
\* that does not reach an odd page, and for CPX absolute.
LEMMA AddressAgrees ==
    ASSUME Ready, DocMode \in OperandModes, op # CPXabs
    PROVE  addrDecode.addr = IF CarryLost THEN Wrap16(DocAddress - 256) ELSE DocAddress
<1> DEFINE b == Load(PC + 1)
           w == WordAt(PC + 1)
<1>1. TypeOK /\ X \in Byte /\ Y \in Byte
    BY Known
<1>2. b \in Byte /\ w \in Word /\ \A a : ZeroPageWord(a) \in Word
    BY Known, LoadIsByte, WordFromIsWord, WordOfBytes DEF Load, WordAt, ZeroPageWord
<1>3. \A v \in Word : Wrap16(v + 0) = v
    BY WrapOfWord, WordIs
<1>4. CASE DocMode = "immediate"
    BY <1>1, <1>2, <1>4, ModeAgrees, ByteIs
    DEF addrDecode, CarryLost, DocAddress, DocBase, DocIndex
<1>5. CASE DocMode = "zeropage"
    BY <1>1, <1>2, <1>5, ModeAgrees, ByteIs
    DEF addrDecode, CarryLost, DocAddress, DocBase, DocIndex
<1>6. CASE DocMode = "absolute"
    BY <1>1, <1>2, <1>3, <1>6, ModeAgrees
    DEF addrDecode, CarryLost, DocAddress, DocBase, DocIndex
<1>7. CASE DocMode = "zeropageX"
    BY <1>1, <1>2, <1>7, ModeAgrees, ByteIs
    DEF addrDecode, CarryLost, DocAddress, DocBase, DocIndex
<1>8. CASE DocMode = "zeropageY"
    BY <1>1, <1>2, <1>8, ModeAgrees, ByteIs
    DEF addrDecode, CarryLost, DocAddress, DocBase, DocIndex
<1>9. CASE DocMode = "absoluteX"
    <2>1. addrDecode.addr = Indexed(w, X)
        BY <1>1, <1>9, ModeAgrees DEF addrDecode
    <2>2. DocAddress = Wrap16(w + X)
        BY <1>9 DEF DocAddress, DocBase, DocIndex
    <2>3. CarryLost <=> (w % 256) + X >= 256 /\ (w \div 256) % 2 = 1
        BY <1>9 DEF CarryLost, DocBase, DocIndex
    <2> QED BY <1>1, <1>2, <2>1, <2>2, <2>3, IndexedIs
<1>10. CASE DocMode = "absoluteY"
    <2>1. addrDecode.addr = Indexed(w, Y)
        BY <1>1, <1>10, ModeAgrees DEF addrDecode
    <2>2. DocAddress = Wrap16(w + Y)
        BY <1>10 DEF DocAddress, DocBase, DocIndex
    <2>3. CarryLost <=> (w % 256) + Y >= 256 /\ (w \div 256) % 2 = 1
        BY <1>10 DEF CarryLost, DocBase, DocIndex
    <2> QED BY <1>1, <1>2, <2>1, <2>2, <2>3, IndexedIs
<1>11. CASE DocMode = "indirX"
    BY <1>1, <1>2, <1>3, <1>11, ModeAgrees
    DEF addrDecode, CarryLost, DocAddress, DocBase, DocIndex
<1>12. CASE DocMode = "indirY"
    <2>1. addrDecode.addr = Indexed(ZeroPageWord(b), Y)
        BY <1>1, <1>12, ModeAgrees DEF addrDecode
    <2>2. DocAddress = Wrap16(ZeroPageWord(b) + Y)
        BY <1>12 DEF DocAddress, DocBase, DocIndex
    <2>3. CarryLost <=> (ZeroPageWord(b) % 256) + Y >= 256 /\ (ZeroPageWord(b) \div 256) % 2 = 1
        BY <1>12 DEF CarryLost, DocBase, DocIndex
    <2> QED BY <1>1, <1>2, <2>1, <2>2, <2>3, IndexedIs
<1> QED
    BY <1>4, <1>5, <1>6, <1>7, <1>8, <1>9, <1>10, <1>11, <1>12 DEF OperandModes
-----------------------------------------------------------------------------
\* A documented instruction is executed with all that the lemmas ask for.
LEMMA ExecutesReady ==
    ASSUME TypeOK, Next, Executes
    PROVE  Ready /\ Instruction /\ DocMode \in NoOperand \cup OperandModes
<1>1. Instruction
    BY DEF Next, Finish, Executes
<1>2. Ready
    BY <1>1 DEF Instruction, Running, Ready
<1>3. DocMode \in NoOperand \cup OperandModes
    BY Placed DEF Executes
<1> QED
    BY <1>1, <1>2, <1>3

\* The numbers of page 1, as inequalities.
LEMMA Page1Is == \A x : x \in 256..511 <=> x \in Int /\ 256 <= x /\ x <= 511
    OBVIOUS

\* A push changes no cell outside page 1.
LEMMA PushedAt ==
    ASSUME Ready, NEW bytes \in Seq(Byte), mem' = Pushed(bytes),
           NEW a, LoadFrom(mem', a) # Load(a)
    PROVE  a \in 256..511
<1>1. a \in { FreeCell(n) : n \in 1..Len(bytes) }
    BY DEF Pushed, Patched, LoadFrom, Load
<1>2. PICK n \in 1..Len(bytes) : a = FreeCell(n)
    BY <1>1
<1>3. S \in Byte /\ n \in Int
    BY Known
<1>4. FreeCell(n) \in Int /\ 256 <= FreeCell(n) /\ FreeCell(n) <= 511
    BY <1>3, FreeCellInPage1, Zenon
<1>5. FreeCell(n) \in 256..511
    BY <1>4, Page1Is, ZenonT(30)
<1> QED
    BY <1>2, <1>5, Zenon

\* A push writes the cells from S downwards and no other.
LEMMA PushedElsewhere ==
    ASSUME NEW bytes, mem' = Pushed(bytes), NEW a,
           a \notin { FreeCell(n) : n \in 1..Len(bytes) }
    PROVE  LoadFrom(mem', a) = Load(a)
    BY DEF Pushed, Patched, LoadFrom, Load

\* A jump, a call, a break or a return goes to its target.
LEMMA ControlTarget ==
    ASSUME Ready, DocMode = "control", Instruction, op # JMPind, ~OverwritesOperand
    PROVE  PC' = Target
<1>0. TypeOK /\ DocMode # "undocumented"
    BY Known
<1>1. cc = 0 /\ \/ bbb = 0 /\ aaa \in {0, 1, 2, 3}
                \/ bbb = 3 /\ aaa \in {2, 3}
    BY <1>0, Placed
<1>2. op = 32 * aaa + 4 * bbb
    BY <1>0, <1>1, OpcodeParts
<1>3. PC \in Int
    BY Known
<1>4. CASE bbb = 0 /\ aaa = 0
    <2> DEFINE bytes == HiLo(Wrap16(PC + 3)) \o <<StatusByte(P)>>
    <2>1. bytes \in Seq(Byte)
        BY Known, HiLoOK, StatusByteType, Wraps
    <2>2. Push(bytes) /\ PC' = WordFrom(mem', 65534)
        BY <1>1, <1>4, GroupOf DEF group0
    <2> HIDE DEF bytes
    <2>3. mem' = Pushed(bytes)
        BY <2>2 DEF Push
    <2>4. /\ LoadFrom(mem', 65534) = Load(65534)
          /\ LoadFrom(mem', 65534 + 1) = Load(65534 + 1)
        <3>1. ASSUME NEW a, a \notin 256..511 PROVE LoadFrom(mem', a) = Load(a)
            <4>1. SUFFICES ASSUME LoadFrom(mem', a) # Load(a) PROVE FALSE
                OBVIOUS
            <4>2. a \in 256..511
                BY <2>1, <2>3, <4>1, PushedAt
            <4> QED BY <3>1, <4>2, Zenon
        <3>2. 65534 \notin 256..511
            OBVIOUS
        <3>3. LoadFrom(mem', 65534) = Load(65534)
            BY <3>1, <3>2, SMT
        <3>4. 65534 + 1 \notin 256..511
            OBVIOUS
        <3>5. LoadFrom(mem', 65534 + 1) = Load(65534 + 1)
            BY <3>1, <3>4, SMT
        <3> QED BY <3>3, <3>5
    <2>5. PC' = WordAt(65534)
        BY <2>2, <2>4 DEF WordAt, WordFrom, Load
    <2>6. op = BRK
        BY <1>2, <1>4 DEF BRK
    <2> QED BY <2>5, <2>6 DEF Target, JSR, JMP, BRK, RTS, RTI
<1>5. CASE bbb = 0 /\ aaa = 1
    <2> DEFINE bytes == HiLo(Wrap16(PC + 3))
    <2>1. Push(bytes) /\ PC' = WordFrom(mem', PC + 1)
        BY <1>1, <1>5, GroupOf DEF group1
    <2>2. op = JSR
        BY <1>2, <1>5 DEF JSR
    <2>3. Len(bytes) = 2
        BY DEF HiLo
    <2> HIDE DEF bytes
    <2>4. mem' = Pushed(bytes)
        BY <2>1 DEF Push
    <2>5. /\ LoadFrom(mem', PC + 1) = Load(PC + 1)
          /\ LoadFrom(mem', PC + 2) = Load(PC + 2)
        BY <2>2, <2>3, <2>4, PushedElsewhere DEF OverwritesOperand
    <2>6. (PC + 1) + 1 = PC + 2
        BY <1>3
    <2>7. PC' = WordAt(PC + 1)
        BY <2>1, <2>5, <2>6 DEF WordAt, WordFrom, Load
    <2> QED BY <2>2, <2>7 DEF Target, JSR, JMP, BRK, RTS, RTI
<1>6. CASE aaa = 2
    <2>1. CASE bbb = 0
        <3>1. op = RTI /\ PC' = PulledWord(2)
            BY <1>1, <1>2, <1>6, <2>1, GroupOf DEF group2, RTI
        <3> QED BY <3>1 DEF Target, JSR, JMP, BRK, RTS, RTI
    <2>2. CASE bbb = 3
        <3>1. op = JMP /\ PC' = WordAt(PC + 1)
            BY <1>1, <1>2, <1>6, <2>2, GroupOf DEF group2, JMP
        <3> QED BY <3>1 DEF Target, JSR, JMP, BRK, RTS, RTI
    <2> QED BY <1>1, <2>1, <2>2
<1>7. CASE aaa = 3
    <2>1. bbb = 0
        BY <1>1, <1>2, <1>7 DEF JMPind
    <2>2. op = RTS /\ PC' = PulledWord(1)
        BY <1>1, <1>2, <1>7, <2>1, GroupOf DEF group3, RTS
    <2> QED BY <2>2 DEF Target, JSR, JMP, BRK, RTS, RTI
<1> QED
    BY <1>1, <1>4, <1>5, <1>6, <1>7

\* Every documented instruction leaves the CPU running, at the next one or at
\* its target, whatever the program: the lengths of the opcode table and the
\* PC++ of the functions add up, branches ask for the flag in their name, and
\* jumps, calls, breaks and returns but JMP () load their target from where it
\* is.
THEOREM AdvancesAlways == Spec => Advances
<1>1. TypeOK /\ [Next]_vars =>
        [Executes =>
           /\ st' = "run"
           /\ op # JMPind /\ ~OverwritesOperand => PC' = Continues]_vars
    <2> SUFFICES ASSUME TypeOK, Next, Executes
                 PROVE  /\ st' = "run"
                        /\ op # JMPind /\ ~OverwritesOperand => PC' = Continues
        OBVIOUS
    <2>1. Ready /\ Instruction /\ st = "run" /\ PC \in Int
        BY ExecutesReady, Known DEF Executes
    <2>2. CASE DocMode = "control"
        BY <2>1, <2>2, ControlStep, ControlTarget DEF Continues
    <2>3. CASE DocMode = "relative"
        <3>1. Branch(Taken)
            BY <2>1, <2>3, RelativeStep
        <3>2. st' = st
            BY <3>1 DEF Branch
        <3>3. CASE Taken
            BY <2>1, <2>3, <3>1, <3>2, <3>3 DEF Branch, Continues
        <3>4. CASE ~Taken
            <4>1. PC + 2 + 0 = PC + 2
                BY <2>1
            <4> QED BY <2>1, <2>3, <3>1, <3>2, <3>4, <4>1 DEF Branch, Continues
        <3> QED BY <3>3, <3>4
    <2>4. CASE DocMode = "implied"
        <3>0. Continues = Wrap16(PC + Length)
            BY <2>4 DEF Continues
        <3>1. Length = 1
            BY <2>4 DEF Length
        <3>2. Advance(0) /\ st' = st
            BY <2>1, <2>4, ImpliedStep DEF ImpliedEffect
        <3>3. PC + 1 + 0 = PC + 1
            BY <2>1
        <3> QED BY <2>1, <3>0, <3>1, <3>2, <3>3 DEF Advance
    <2>5. CASE DocMode \in OperandModes
        <3>1. Advance(addrDecode.len) /\ st' = st
            BY <2>1, <2>5, OperandStep
        <3>2. PC + 1 + addrDecode.len = PC + Length
            BY <2>1, <2>5, LengthAgrees
        <3>3. Continues = Wrap16(PC + Length)
            BY <2>5 DEF Continues, OperandModes
        <3> QED BY <2>1, <3>1, <3>2, <3>3 DEF Advance
    <2> QED BY <2>2, <2>3, <2>4, <2>5, ExecutesReady DEF NoOperand
<1> QED
    BY <1>1, TypeCorrect, PTL DEF Spec, Advances

\* Without an operand, the bus is not asked for anything.
LEMMA NoAccess ==
    ASSUME Ready, Instruction, DocMode \in NoOperand
    PROVE  Len(bus') = 0
<1>1. ASSUME Silent PROVE Len(bus') = 0
    BY <1>1 DEF Silent
<1>2. CASE DocMode = "control"
    BY <1>1, <1>2, ControlStep
<1>3. CASE DocMode = "relative"
    BY <1>1, <1>3, RelativeStep DEF Branch
<1>4. CASE DocMode = "implied"
    BY <1>4, ImpliedStep DEF ImpliedEffect
<1> QED
    BY <1>2, <1>3, <1>4 DEF NoOperand

\* With one, it is asked for the accesses of the kind of the instruction.
LEMMA Accesses ==
    ASSUME Ready, Instruction, DocMode \in OperandModes
    PROVE  /\ Len(bus') = Len(DocAccesses)
           /\ \A i \in 1..Len(bus') : /\ bus'[i].rwb = DocAccesses[i]
                                      /\ bus'[i].addr = addrDecode.addr
<1>1. DocMode \notin NoOperand
    BY DEF OperandModes, NoOperand
<1>2. CASE aaa = 4
    <2>1. DocAccesses = <<0>>
        BY <1>1, <1>2 DEF DocAccesses
    <2>2. Signal(0, 1)
        BY <1>2, OperandStep DEF Writes
    <2> QED BY <2>1, <2>2, Signalled
<1>3. CASE aaa # 4 /\ cc = 2 /\ aaa # 5
    <2>1. DocAccesses = <<2, 2>>
        BY <1>1, <1>3 DEF DocAccesses
    <2>2. Signal(2, 2)
        BY <1>3, OperandStep DEF WritesBack
    <2> QED BY <2>1, <2>2, Signalled
<1>4. CASE aaa # 4 /\ ~(cc = 2 /\ aaa # 5)
    <2>1. DocAccesses = <<1>>
        BY <1>1, <1>4 DEF DocAccesses
    <2>2. Signal(1, 1)
        BY <1>4, OperandStep DEF Reads
    <2> QED BY <2>1, <2>2, Signalled
<1> QED
    BY <1>2, <1>3, <1>4

\* Every documented instruction asks the bus for its accesses at its effective
\* address, up to the two departures of the code that the property names.
THEOREM BusFollowsDocsAlways == Spec => BusFollowsDocs
<1>1. TypeOK /\ [Next]_vars =>
        [Executes /\ op # CPXabs =>
           /\ Len(bus') = Len(DocAccesses)
           /\ \A i \in 1..Len(bus') :
                /\ bus'[i].rwb = DocAccesses[i]
                /\ bus'[i].addr = IF CarryLost THEN Wrap16(DocAddress - 256)
                                               ELSE DocAddress]_vars
    <2> SUFFICES ASSUME TypeOK, Next, Executes, op # CPXabs
                 PROVE  /\ Len(bus') = Len(DocAccesses)
                        /\ \A i \in 1..Len(bus') :
                             /\ bus'[i].rwb = DocAccesses[i]
                             /\ bus'[i].addr = IF CarryLost
                                               THEN Wrap16(DocAddress - 256)
                                               ELSE DocAddress
        OBVIOUS
    <2>1. CASE DocMode \in NoOperand
        <3>1. Len(bus') = 0
            BY <2>1, ExecutesReady, NoAccess
        <3>2. DocAccesses = <<>>
            BY <2>1 DEF DocAccesses
        <3> QED BY <3>1, <3>2
    <2>2. CASE DocMode \in OperandModes
        BY <2>2, ExecutesReady, Accesses, AddressAgrees
    <2> QED BY <2>1, <2>2, ExecutesReady
<1> QED
    BY <1>1, TypeCorrect, PTL DEF Spec, BusFollowsDocs

\* A store changes no cell but that of its operand.
LEMMA StoredAt ==
    ASSUME Ready, Stores, loc[1] = "mem",
           NEW a, LoadFrom(mem', a) # Load(a)
    PROVE  a = loc[2]
<1>1. PICK v : mem' = Patched(mem, [c \in {loc[2]} |-> v])
    BY DEF Stores, Store
<1> QED
    BY <1>1 DEF Patched, LoadFrom, Load

\* The cell of an access in memory is the one that the bus is told of; an
\* immediate operand is not written.
LEMMA WritesToldOf ==
    ASSUME Ready, Instruction, DocMode \in OperandModes,
           NEW a, LoadFrom(mem', a) # Load(a)
    PROVE  \E i \in 1..Len(bus') : bus'[i].addr = a /\ bus'[i].rwb # 1
<1>1. ~Reads
    BY DEF Reads, Load
<1>2. PICK n \in {0, 2}, t \in 1..2 : Signal(n, t) /\ Stores
    BY <1>1, OperandStep DEF Writes, WritesBack
<1>3. DocMode # "immediate"
    <2>1. aaa = 4 \/ (cc = 2 /\ aaa # 5)
        BY <1>1, OperandStep
    <2> QED BY <2>1, Known, Placed DEF OperandModes
<1>4. loc[1] = "mem" /\ loc[2] = addrDecode.addr
    <2>1. mode \in {"zp", "abs", "abx", "zpx", "zpy", "aby", "izx", "izy"}
        BY <1>3, ModeAgrees, Known DEF OperandModes
    <2> QED BY <2>1 DEF addrDecode, loc
<1>5. a = addrDecode.addr
    BY <1>2, <1>4, StoredAt
<1>6. t \in 0..2 /\ 1 \in 1..t
    OBVIOUS
<1>7. Len(bus') = t /\ bus'[1].addr = a /\ bus'[1].rwb = n
    BY <1>2, <1>5, <1>6, Signalled
<1> QED
    BY <1>6, <1>7

\* No documented instruction changes a cell outside the stack of which the
\* chips are not told.
THEOREM WritesReachBusAlways == Spec => WritesReachBus
<1>1. TypeOK /\ [Next]_vars =>
        [Executes =>
           \A a \in DOMAIN mem' : LoadFrom(mem', a) # Load(a) =>
             \/ op \in {BRK, PHP, JSR, PHA} /\ a \in 256..511
             \/ \E i \in 1..Len(bus') : bus'[i].addr = a /\ bus'[i].rwb # 1]_vars
    <2> SUFFICES ASSUME TypeOK, Next, Executes,
                        NEW a \in DOMAIN mem', LoadFrom(mem', a) # Load(a)
                 PROVE  \/ op \in {BRK, PHP, JSR, PHA} /\ a \in 256..511
                        \/ \E i \in 1..Len(bus') : /\ bus'[i].addr = a
                                                   /\ bus'[i].rwb # 1
        OBVIOUS
    <2>1. Ready /\ Instruction
        BY ExecutesReady
    <2>2. mem' # mem
        BY DEF Load
    <2>3. CASE DocMode = "control"
        BY <2>1, <2>2, <2>3, ControlStep, PushedAt
    <2>4. CASE DocMode = "relative"
        BY <2>1, <2>2, <2>4, RelativeStep DEF Branch
    <2>5. CASE DocMode = "implied"
        BY <2>1, <2>2, <2>5, ImpliedStep, PushedAt DEF ImpliedEffect
    <2>6. CASE DocMode \in OperandModes
        BY <2>1, <2>6, WritesToldOf
    <2> QED BY <2>3, <2>4, <2>5, <2>6, ExecutesReady DEF NoOperand
<1> QED
    BY <1>1, TypeCorrect, PTL DEF Spec, WritesReachBus
-----------------------------------------------------------------------------
\* The instructions of BusSync, by what they ask for: an access of each kind
\* raises mem_sync so often, with this mem_rwb.
Kinds == {"read", "write", "rmw", "none"}
TimesOf(kind) == CASE kind = "none" -> 0 [] kind = "rmw" -> 2 [] OTHER -> 1
RwbOf(kind) == CASE kind = "write" -> 0 [] kind = "read" -> 1 [] OTHER -> 2
Asked(kind, a) ==
    [i \in 1..TimesOf(kind) |-> [addr |-> a, rwb |-> RwbOf(kind)]]

\* The cell that an address stands for: where the bus is told none, the operand
\* is immediate.
CellOf(a) == IF a = NoAddr THEN PC + 1 ELSE a

\* The only cell that changes is that of the access; only instructions that
\* ask for nothing push.
ChangesOnly(kind, a) ==
    \A c \in Word : LoadFrom(mem', c) # Load(c) =>
       \/ kind = "none" /\ c \in 256..511
       \/ kind \in {"write", "rmw"} /\ c = CellOf(a)

\* The step is one of them: the bus is asked for the accesses of one kind at
\* one address, and no more is changed than that.
OfBus ==
    \E kind \in Kinds, a \in Word \cup {NoAddr} :
       bus' = Asked(kind, a) /\ ChangesOnly(kind, a)

\* Nothing else than an immediate operand is in memory without an address.
LEMMA CellIsLoc ==
    ASSUME Ready, loc[1] = "mem"
    PROVE  loc[2] = CellOf(addrDecode.addr)
<1>1. CASE mode = "imm"
    BY <1>1 DEF addrDecode, loc, CellOf
<1>2. CASE mode # "imm"
    <2>1. addrDecode.addr = loc[2]
        <3>1. mode \in Modes /\ mode \notin {"imm", "A", "S", "X", "NULL", "rel"}
            BY <1>2, Known, ModeIsMode DEF addrDecode, loc
        <3> QED BY <3>1 DEF addrDecode, loc, Modes
    <2>2. loc[2] # NoAddr
        BY Known, DecodedOK, RomAssumption DEF Decoded, loc
    <2> QED BY <2>1, <2>2 DEF CellOf
<1> QED
    BY <1>1, <1>2

\* Without a request, only the stack may change.
LEMMA SilentOfBus ==
    ASSUME NEW n, Silent \/ Signal(n, 0),
           \A c \in Word : LoadFrom(mem', c) # Load(c) => c \in 256..511
    PROVE  OfBus
<1>1. bus' = Asked("none", NoAddr)
    <2> DEFINE x == [addr |-> NoAddr, rwb |-> RwbOf("none")]
               y == [addr |-> addrDecode.addr, rwb |-> n]
    <2>1. bus' = <<>> \/ bus' = [i \in 1..0 |-> y]
        BY DEF Silent, Signal
    <2>2. Asked("none", NoAddr) = [i \in 1..0 |-> x]
        BY DEF Asked, TimesOf
    <2> HIDE DEF x, y
    <2>3. <<>> = [i \in 1..0 |-> x] /\ [i \in 1..0 |-> y] = [i \in 1..0 |-> x]
        OBVIOUS
    <2> QED BY <2>1, <2>2, <2>3
<1>2. "none" \in Kinds /\ NoAddr \in Word \cup {NoAddr}
    BY DEF Kinds
<1>3. ChangesOnly("none", NoAddr)
    BY DEF ChangesOnly
<1> QED
    BY <1>1, <1>2, <1>3 DEF OfBus

\* With one, the instruction is of the kind that it signals.
LEMMA SignalOfBus ==
    ASSUME Ready, NEW kind \in Kinds, Signal(RwbOf(kind), TimesOf(kind)),
           \A c \in Word : LoadFrom(mem', c) # Load(c) =>
              kind \in {"write", "rmw"} /\ c = CellOf(addrDecode.addr)
    PROVE  OfBus
<1>1. addrDecode.addr \in Word \cup {NoAddr}
    BY Known, DecodedOK DEF Decoded
<1>2. bus' = Asked(kind, addrDecode.addr)
    BY DEF Signal, Asked
<1>3. ChangesOnly(kind, addrDecode.addr)
    BY DEF ChangesOnly
<1> QED
    BY <1>1, <1>2, <1>3 DEF OfBus

\* A store that the bus is told of when it goes to memory.
LEMMA StoreOfBus ==
    ASSUME Ready, NEW v, Store(v), NEW kind \in {"write", "rmw"}, NEW t,
           Signal(RwbOf(kind), t), t = TimesOf(kind) \/ (t = 0 /\ loc[1] # "mem")
    PROVE  OfBus
<1>1. CASE loc[1] = "mem"
    <2>1. ASSUME NEW c, LoadFrom(mem', c) # Load(c) PROVE c = loc[2]
        BY <1>1, <2>1 DEF Store, Patched, LoadFrom, Load
    <2>2. loc[2] = CellOf(addrDecode.addr)
        BY <1>1, CellIsLoc
    <2>3. kind \in Kinds /\ t = TimesOf(kind)
        BY <1>1 DEF Kinds
    <2> QED BY <2>1, <2>2, <2>3, SignalOfBus
<1>2. CASE loc[1] # "mem"
    <2>1. mem' = mem
        BY <1>2 DEF Store
    <2>2. CASE t = 0
        BY <2>1, <2>2, SilentOfBus DEF Load
    <2>3. CASE t = TimesOf(kind)
        <3>1. kind \in Kinds
            BY DEF Kinds
        <3> QED BY <2>1, <2>3, <3>1, SignalOfBus DEF Load
    <2> QED BY <2>2, <2>3
<1> QED
    BY <1>1, <1>2

\* Reads, register instructions and branches.
LEMMA ShapesOfBus ==
    ASSUME Ready
    PROVE  /\ Silent /\ mem' = mem => OfBus
           /\ Signal(1, 1) /\ mem' = mem => OfBus
           /\ \A p : FlagsOnly(p) \/ FlagsOf(p) \/ LoadA(p) => OfBus
           /\ \A r : StepX(r) \/ StepY(r) \/ Accumulate(r) => OfBus
           /\ \A taken : Branch(taken) => OfBus
           /\ \A n : Pull(n) => OfBus
           /\ Crash => OfBus
<1>1. Silent /\ mem' = mem => OfBus
    BY SilentOfBus DEF Load
<1>2. Signal(1, 1) /\ mem' = mem => OfBus
    <2>1. "read" \in Kinds /\ RwbOf("read") = 1 /\ TimesOf("read") = 1
        BY DEF Kinds, RwbOf, TimesOf
    <2> QED BY <2>1, SignalOfBus DEF Load
<1> QED
    BY <1>1, <1>2 DEF FlagsOnly, FlagsOf, LoadA, StepX, StepY, Implied, Accumulate,
                      Branch, Pull, Crash

\* Pushes.
LEMMA PushOfBus ==
    ASSUME Ready, NEW bytes \in Seq(Byte), Push(bytes)
    PROVE  OfBus
<1>1. ASSUME NEW c, LoadFrom(mem', c) # Load(c) PROVE c \in 256..511
    BY <1>1, PushedAt DEF Push
<1> QED
    BY <1>1, SilentOfBus DEF Push

\* Write-backs, of memory or of a register.
LEMMA ModifyOfBus ==
    ASSUME Ready, NEW r, Modify(r) PROVE OfBus
<1> DEFINE t == IF loc[1] = "mem" THEN 2 ELSE 0
<1>1. Store(r.val) /\ Signal(RwbOf("rmw"), t)
    BY DEF Modify, RwbOf
<1>2. t = TimesOf("rmw") \/ (t = 0 /\ loc[1] # "mem")
    BY DEF TimesOf
<1> HIDE DEF t
<1> QED
    BY <1>1, <1>2, StoreOfBus

\* BRK, PHP, JSR, PLP, RTI, PHA, RTS, PLA, jumps, branches, flags and BIT.
LEMMA ControlOfBus ==
    ASSUME Ready, group0 \/ group1 \/ group2 \/ group3
    PROVE  OfBus
<1>1. HiLo(Wrap16(PC + 3)) \in Seq(Byte)
    BY Known, Wraps, HiLoOK
<1>2. StatusByte(P) \in Byte
    BY Known, StatusByteType
<1>3. /\ HiLo(Wrap16(PC + 3)) \o <<StatusByte(P)>> \in Seq(Byte)
      /\ <<StatusByte(P)>> \in Seq(Byte) /\ <<A>> \in Seq(Byte)
    BY <1>1, <1>2, Known
<1>4. CASE group0
    <2>1. CASE bbb = 0
        <3>1. Push(HiLo(Wrap16(PC + 3)) \o <<StatusByte(P)>>)
            BY <1>4, <2>1 DEF group0
        <3> QED BY <1>3, <3>1, PushOfBus
    <2>2. CASE bbb = 2
        <3>1. Push(<<StatusByte(P)>>)
            BY <1>4, <2>2 DEF group0
        <3> QED BY <1>3, <3>1, PushOfBus
    <2>3. CASE bbb \notin {0, 2}
        BY <1>4, <2>3, ShapesOfBus DEF group0
    <2> QED BY <2>1, <2>2, <2>3
<1>5. CASE group1
    BY <1>1, <1>5, ShapesOfBus, PushOfBus DEF group1
<1>6. CASE group2
    BY <1>3, <1>6, ShapesOfBus, PushOfBus DEF group2
<1>7. CASE group3
    BY <1>7, ShapesOfBus DEF group3
<1> QED
    BY <1>4, <1>5, <1>6, <1>7

\* STY, LDY, CPY, CPX and the counters of X and Y.
LEMMA IndexOfBus ==
    ASSUME Ready, group4 \/ group5 \/ group6 \/ group7
    PROVE  OfBus
<1>1. CASE group4
    <2>1. CASE bbb \in {2, 4}
        BY <1>1, <2>1, ShapesOfBus DEF group4
    <2>2. CASE bbb \notin {2, 4}
        <3> DEFINE t == IF loc[1] = "A" THEN 0 ELSE 1
        <3>1. Store(Y) /\ Signal(RwbOf("write"), t)
            BY <1>1, <2>2 DEF group4, RwbOf
        <3>2. t = TimesOf("write") \/ (t = 0 /\ loc[1] # "mem")
            BY DEF TimesOf
        <3> HIDE DEF t
        <3> QED BY <3>1, <3>2, StoreOfBus
    <2> QED BY <2>1, <2>2
<1>2. CASE group5
    <2>1. CASE bbb \in {4, 6}
        BY <1>2, <2>1, ShapesOfBus DEF group5
    <2>2. CASE bbb \notin {4, 6}
        <3>1. mem' = mem /\ (Signal(1, 0) \/ Signal(1, 1))
            BY <1>2, <2>2 DEF group5
        <3> QED BY <3>1, ShapesOfBus, SilentOfBus DEF Load
    <2> QED BY <2>1, <2>2
<1>3. CASE group6 \/ group7
    BY <1>3, ShapesOfBus DEF group6, group7
<1> QED
    BY <1>1, <1>2, <1>3

\* STX, LDX and the transfers of X, S and A.
LEMMA MoveOfBus ==
    ASSUME Ready, groupSX \/ groupLX
    PROVE  OfBus
<1>1. CASE loc[1] = "NULL"
    BY <1>1, ShapesOfBus DEF groupSX, groupLX, Deref
<1>2. CASE loc[1] # "NULL" /\ groupSX
    <2> DEFINE t == IF bbb \in {2, 6} THEN 0 ELSE 1
    <2>1. Store(X) /\ Signal(RwbOf("write"), t)
        BY <1>2 DEF groupSX, Deref, RwbOf
    <2>2. bbb \in {2, 6} => loc[1] # "mem"
        <3>1. bbb \in {2, 6} => mode \in {"A", "S"}
            BY <1>2 DEF groupSX, Is, mode, opcodes, MoveX
        <3> QED BY <3>1, Known, DecodedOK DEF Decoded, loc
    <2>3. t = TimesOf("write") \/ (t = 0 /\ loc[1] # "mem")
        BY <2>2 DEF TimesOf
    <2> HIDE DEF t
    <2> QED BY <2>1, <2>3, StoreOfBus
<1>3. CASE loc[1] # "NULL" /\ groupLX
    <2>1. mem' = mem /\ (Signal(1, 0) \/ Signal(1, 1))
        BY <1>3 DEF groupLX, Deref
    <2> QED BY <2>1, ShapesOfBus, SilentOfBus DEF Load
<1> QED
    BY <1>1, <1>2, <1>3

\* STA.
LEMMA StaOfBus == Ready /\ groupSTA => OfBus
<1> SUFFICES ASSUME Ready, groupSTA PROVE OfBus
    OBVIOUS
<1>1. Store(A) /\ Signal(RwbOf("write"), TimesOf("write"))
    BY DEF groupSTA, RwbOf, TimesOf
<1> QED
    BY <1>1, StoreOfBus

\* Whatever the program and the opcode, documented or not, an instruction is
\* one of those that BusSync assumes: it asks the chips for one read, one
\* write, a write-back in two passes or nothing, at one address, and it
\* changes no other cell than the one there, but those that it pushes.
THEOREM RequestsFitBus == Spec => [][Instruction => OfBus]_vars
<1>1. TypeOK /\ [Next]_vars => [Instruction => OfBus]_vars
    <2> SUFFICES ASSUME TypeOK, Instruction PROVE OfBus
        OBVIOUS
    <2>1. Ready
        BY DEF Instruction, Running, Ready
    <2>2. CASE group0 \/ group1 \/ group2 \/ group3
        BY <2>1, <2>2, ControlOfBus
    <2>3. CASE group4 \/ group5 \/ group6 \/ group7
        BY <2>1, <2>3, IndexOfBus
    <2>4. CASE \/ groupORA \/ groupAND \/ groupEOR \/ groupADC
               \/ groupLDA \/ groupCMP \/ groupSBC
        BY <2>1, <2>4, ShapesOfBus
        DEF groupORA, groupAND, groupEOR, groupADC, groupLDA, groupCMP, groupSBC
    <2>5. CASE groupSTA
        BY <2>1, <2>5, StaOfBus
    <2>6. CASE \/ groupASL \/ groupROL \/ groupLSR \/ groupROR
               \/ groupDEC \/ groupINC
        BY <2>1, <2>6, ShapesOfBus, ModifyOfBus
        DEF groupASL, groupROL, groupLSR, groupROR, groupDEC, groupINC, Deref
    <2>7. CASE groupSX \/ groupLX
        BY <2>1, <2>7, MoveOfBus
    <2>8. CASE Undocumented
        BY <2>1, <2>8, ShapesOfBus DEF Undocumented
    <2> QED
        BY <2>2, <2>3, <2>4, <2>5, <2>6, <2>7, <2>8 DEF Instruction
<1> QED
    BY <1>1, TypeCorrect, PTL DEF Spec

-----------------------------------------------------------------------------
\* The flags that change are among N, Z, C and t.
Touches(p, q, t) == ((p \ q) \cup (q \ p)) \ {"N", "Z", "C"} \subseteq t

\* Results, counters and comparisons touch N, Z and C; BIT touches V too.
LEMMA ResultTouches ==
    /\ \A p, v : Touches(p, SetNZ(p, v), {})
    /\ \A p, v : v # 0 => Touches(p, StepNZ(p, v), {})
    /\ \A p, r, m : Touches(p, Compare(p, r, m), {})
    /\ \A p, a, m : Touches(p, BitTest(p, a, m), {"V"})
<1>1. \A p, v : Touches(p, SetNZ(p, v), {})
    BY DEF Touches, SetNZ, If
<1>2. \A p, v : v # 0 => Touches(p, StepNZ(p, v), {})
    BY DEF Touches, StepNZ, If
<1>3. \A p, r, m : Touches(p, Compare(p, r, m), {})
    BY DEF Touches, Compare, If
<1>4. \A p, a, m : Touches(p, BitTest(p, a, m), {"V"})
    BY DEF Touches, BitTest, If
<1> QED
    BY <1>1, <1>2, <1>3, <1>4

\* ADC and SBC touch V besides.
LEMMA SumTouches ==
    \A p, a, m : /\ Touches(p, Adc(p, a, m).P, {"V"})
                 /\ Touches(p, Sbc(p, a, m).P, {"V"})
<1> SUFFICES ASSUME NEW p, NEW a, NEW m
             PROVE  /\ Touches(p, Adc(p, a, m).P, {"V"})
                    /\ Touches(p, Sbc(p, a, m).P, {"V"})
    OBVIOUS
<1>1. Touches(p, Adc(p, a, m).P, {"V"})
    BY DEF Touches, Adc, If
<1>2. Touches(p, Sbc(p, a, m).P, {"V"})
    BY DEF Touches, Sbc, If
<1> QED
    BY <1>1, <1>2

\* Shifts and rotations touch N, Z and C.
LEMMA ShiftTouches ==
    \A p, m : /\ Touches(p, Asl(p, m).P, {}) /\ Touches(p, Rol(p, m).P, {})
              /\ Touches(p, Lsr(p, m).P, {}) /\ Touches(p, Ror(p, m).P, {})
<1> SUFFICES ASSUME NEW p, NEW m
             PROVE  /\ Touches(p, Asl(p, m).P, {}) /\ Touches(p, Rol(p, m).P, {})
                    /\ Touches(p, Lsr(p, m).P, {}) /\ Touches(p, Ror(p, m).P, {})
    OBVIOUS
<1>1. Touches(p, Asl(p, m).P, {})
    BY DEF Touches, Asl, If
<1>2. Touches(p, Rol(p, m).P, {})
    BY DEF Touches, Rol, If
<1>3. Touches(p, Lsr(p, m).P, {})
    BY DEF Touches, Lsr, If
<1>4. Touches(p, Ror(p, m).P, {})
    BY DEF Touches, Ror, If
<1> QED
    BY <1>1, <1>2, <1>3, <1>4

\* The instructions for a flag touch that flag.
LEMMA FlagTouches ==
    /\ \A p : Touches(p, p, {})
    /\ \A p : Touches(p, p \cup {"C"}, {}) /\ Touches(p, p \ {"C"}, {})
    /\ \A p, f : Touches(p, p \cup {f}, {f}) /\ Touches(p, p \ {f}, {f})
    BY DEF Touches

\* Who touches N, Z and C only, touches no flag that is not allowed.
LEMMA TouchesFewer == \A p, q, t : Touches(p, q, {}) => Touches(p, q, t)
    BY DEF Touches

\* The opcodes with exceptions, by their fields.
LEMMA OpIs ==
    ASSUME TypeOK
    PROVE  /\ op = BRK <=> cc = 0 /\ aaa = 0 /\ bbb = 0
           /\ op = PLP <=> cc = 0 /\ aaa = 1 /\ bbb = 2
           /\ op = RTI <=> cc = 0 /\ aaa = 2 /\ bbb = 0
           /\ op = CLI <=> cc = 0 /\ aaa = 2 /\ bbb = 6
           /\ op = PLA <=> cc = 0 /\ aaa = 3 /\ bbb = 2
           /\ op = SEI <=> cc = 0 /\ aaa = 3 /\ bbb = 6
           /\ op = DEY <=> cc = 0 /\ aaa = 4 /\ bbb = 2
           /\ op = CLV <=> cc = 0 /\ aaa = 5 /\ bbb = 6
           /\ op = INY <=> cc = 0 /\ aaa = 6 /\ bbb = 2
           /\ op = CLD <=> cc = 0 /\ aaa = 6 /\ bbb = 6
           /\ op = INX <=> cc = 0 /\ aaa = 7 /\ bbb = 2
           /\ op = SED <=> cc = 0 /\ aaa = 7 /\ bbb = 6
           /\ op = LSRA <=> cc = 2 /\ aaa = 2 /\ bbb = 2
<1>1. /\ cc \in 0..3 /\ bbb \in 0..7 /\ aaa \in 0..7
      /\ op = 32 * aaa + 4 * bbb + cc
    BY OpcodeParts
<1> HIDE DEF op, cc, bbb, aaa
<1> QED
    BY <1>1 DEF BRK, PLP, RTI, CLI, PLA, SEI, DEY, CLV, INY, CLD, INX, SED, LSRA

\* The flags besides N, Z and C that an opcode may touch, by its fields.
LEMMA MayTouchIs ==
    ASSUME TypeOK, DocMode # "undocumented"
    PROVE  /\ cc = 0 /\ aaa = 1 /\ bbb = 2 => MayTouch = Flag
           /\ cc = 0 /\ aaa = 2 /\ bbb = 0 => MayTouch = Flag
           /\ cc = 0 /\ aaa = 2 /\ bbb = 6 => MayTouch = {"I"}
           /\ cc = 0 /\ aaa = 3 /\ bbb = 6 => MayTouch = {"I"}
           /\ cc = 0 /\ aaa = 5 /\ bbb = 6 => MayTouch = {"V"}
           /\ cc = 0 /\ aaa \in {6, 7} /\ bbb = 6 => MayTouch = {"D"}
           /\ cc = 0 /\ aaa = 1 /\ bbb \in {1, 3} => MayTouch = {"V"}
           /\ cc = 1 /\ aaa \in {3, 7} => MayTouch = {"V"}
<1>1. cc = 0 /\ aaa = 1 /\ bbb \in {1, 3} => DocMode # "control"
    BY Placed
<1> USE OpIs DEF MayTouch
<1>2. cc = 0 /\ aaa = 1 /\ bbb = 2 => MayTouch = Flag
    OBVIOUS
<1>3. cc = 0 /\ aaa = 2 /\ bbb = 0 => MayTouch = Flag
    OBVIOUS
<1>4. cc = 0 /\ aaa = 2 /\ bbb = 6 => MayTouch = {"I"}
    OBVIOUS
<1>5. cc = 0 /\ aaa = 3 /\ bbb = 6 => MayTouch = {"I"}
    OBVIOUS
<1>6. cc = 0 /\ aaa = 5 /\ bbb = 6 => MayTouch = {"V"}
    OBVIOUS
<1>7. cc = 0 /\ aaa \in {6, 7} /\ bbb = 6 => MayTouch = {"D"}
    OBVIOUS
<1>8. cc = 0 /\ aaa = 1 /\ bbb \in {1, 3} => MayTouch = {"V"}
    BY <1>1
<1>9. cc = 1 /\ aaa \in {3, 7} => MayTouch = {"V"}
    OBVIOUS
<1> QED
    BY <1>2, <1>3, <1>4, <1>5, <1>6, <1>7, <1>8, <1>9

\* The flags after each documented instruction, group by group.
LEMMA ControlFlags ==
    ASSUME TypeOK, Ready, Instruction, DocMode # "undocumented", ~CountsToZero,
           P' \subseteq Flag, cc = 0
    PROVE  Touches(P, P', MayTouch)
<1>1. aaa \in {0, 1, 2, 3, 4, 5, 6, 7}
    BY OpcodeParts
<1>2. ASSUME P' = P \/ P' = P \cup {"C"} \/ P' = P \ {"C"}
      PROVE  Touches(P, P', MayTouch)
    BY <1>2, FlagTouches, TouchesFewer
<1>3. \A taken : Branch(taken) => P' = P
    BY DEF Branch
<1>4. ASSUME MayTouch = Flag PROVE Touches(P, P', MayTouch)
    BY <1>4, Known DEF Touches
<1>5. CASE aaa = 0
    BY <1>2, <1>3, <1>5, GroupOf DEF group0, FlagsOnly
<1>6. CASE aaa = 1
    <2>1. CASE bbb \in {1, 3}
        BY <1>6, <2>1, GroupOf, MayTouchIs, ResultTouches
        DEF group1, FlagsOf, Accumulate
    <2>2. CASE bbb = 2
        BY <1>4, <1>6, <2>2, MayTouchIs
    <2>3. CASE bbb \notin {1, 2, 3}
        BY <1>2, <1>3, <1>6, <2>3, GroupOf DEF group1, FlagsOnly
    <2> QED BY <2>1, <2>2, <2>3
<1>7. CASE aaa = 2
    <2>1. CASE bbb = 0
        BY <1>4, <1>7, <2>1, MayTouchIs
    <2>2. CASE bbb = 6
        <3>1. P' = P \ {"I"}
            BY <1>7, <2>2, GroupOf DEF group2, FlagsOnly
        <3> QED BY <1>7, <2>2, <3>1, MayTouchIs, FlagTouches
    <2>3. CASE bbb \notin {0, 6}
        BY <1>2, <1>3, <1>7, <2>3, GroupOf DEF group2, FlagsOnly
    <2> QED BY <2>1, <2>2, <2>3
<1>8. CASE aaa = 3
    <2>1. CASE bbb = 6
        <3>1. P' = P \cup {"I"}
            BY <1>8, <2>1, GroupOf DEF group3, FlagsOnly
        <3> QED BY <1>8, <2>1, <3>1, MayTouchIs, FlagTouches, ZenonT(30)
    <2>2. CASE bbb # 6
        BY <1>2, <1>3, <1>8, <2>2, GroupOf DEF group3, FlagsOnly
    <2> QED BY <2>1, <2>2
<1>9. CASE aaa = 4
    <2>1. CASE bbb = 2
        <3>1. Decrement(P, Y).val # 0
            BY <1>9, <2>1, Known, OpIs, ByteIs DEF CountsToZero, Decrement
        <3>2. P' = StepNZ(P, Decrement(P, Y).val)
            BY <1>9, <2>1, GroupOf DEF group4, StepY, Decrement
        <3> QED BY <3>1, <3>2, ResultTouches, TouchesFewer
    <2>2. CASE bbb # 2
        BY <1>2, <1>3, <1>9, <2>2, GroupOf, ResultTouches, TouchesFewer DEF group4
    <2> QED BY <2>1, <2>2
<1>10. CASE aaa = 5
    <2>1. CASE bbb = 6
        <3>1. P' = P \ {"V"}
            BY <1>10, <2>1, GroupOf DEF group5, FlagsOnly
        <3> QED BY <1>10, <2>1, <3>1, MayTouchIs, FlagTouches
    <2>2. CASE bbb # 6
        BY <1>2, <1>3, <1>10, <2>2, GroupOf, ResultTouches, TouchesFewer DEF group5
    <2> QED BY <2>1, <2>2
<1>11. CASE aaa = 6
    <2>1. CASE bbb = 2
        <3>1. Increment(P, Y).val # 0
            BY <1>11, <2>1, Known, OpIs, ByteIs DEF CountsToZero, Increment
        <3>2. P' = StepNZ(P, Increment(P, Y).val)
            BY <1>11, <2>1, GroupOf DEF group6, StepY, Increment
        <3> QED BY <3>1, <3>2, ResultTouches, TouchesFewer
    <2>2. CASE bbb = 6
        <3>1. P' = P \ {"D"}
            BY <1>11, <2>2, GroupOf DEF group6, FlagsOnly
        <3> QED BY <1>11, <2>2, <3>1, MayTouchIs, FlagTouches
    <2>3. CASE bbb \notin {2, 6}
        BY <1>2, <1>3, <1>11, <2>3, GroupOf, ResultTouches, TouchesFewer
        DEF group6, FlagsOf, Accumulate
    <2> QED BY <2>1, <2>2, <2>3
<1>12. CASE aaa = 7
    <2>1. CASE bbb = 2
        <3>1. Increment(P, X).val # 0
            BY <1>12, <2>1, Known, OpIs, ByteIs DEF CountsToZero, Increment
        <3>2. P' = StepNZ(P, Increment(P, X).val)
            BY <1>12, <2>1, GroupOf DEF group7, StepX, Increment
        <3> QED BY <3>1, <3>2, ResultTouches, TouchesFewer
    <2>2. CASE bbb = 6
        <3>1. P' = P \cup {"D"}
            BY <1>12, <2>2, GroupOf DEF group7, FlagsOnly
        <3> QED BY <1>12, <2>2, <3>1, MayTouchIs, FlagTouches
    <2>3. CASE bbb \notin {2, 6}
        BY <1>2, <1>3, <1>12, <2>3, GroupOf, ResultTouches, TouchesFewer
        DEF group7, FlagsOf, Accumulate
    <2> QED BY <2>1, <2>2, <2>3
<1> QED
    BY <1>1, <1>5, <1>6, <1>7, <1>8, <1>9, <1>10, <1>11, <1>12

\* The flags after the opcodes with cc = 1.
LEMMA AccumulatorFlags ==
    ASSUME TypeOK, Ready, Instruction, DocMode # "undocumented", cc = 1
    PROVE  Touches(P, P', MayTouch)
<1>1. aaa \in {0, 1, 2, 3, 4, 5, 6, 7}
    BY OpcodeParts
<1>2. CASE aaa \in {3, 7}
    BY <1>2, GroupOf, MayTouchIs, SumTouches DEF groupADC, groupSBC, Accumulate
<1>3. CASE aaa \notin {3, 7}
    <2>1. Touches(P, P', {})
        BY <1>1, <1>3, GroupOf, ResultTouches, FlagTouches
        DEF groupORA, groupAND, groupEOR, groupSTA, groupLDA, groupCMP,
            LoadA, FlagsOf, Accumulate
    <2> QED BY <2>1, TouchesFewer
<1> QED
    BY <1>2, <1>3

\* The flags after the opcodes with cc = 2.
LEMMA ModifierFlags ==
    ASSUME TypeOK, Ready, Instruction, cc = 2
    PROVE  Touches(P, P', MayTouch)
<1>1. aaa \in {0, 1, 2, 3, 4, 5, 6, 7}
    BY OpcodeParts
<1>2. \A by : Touches(P, Counted(by).P, {})
    BY ResultTouches DEF Counted
<1>3. Crash => P' = P
    BY DEF Crash, cpu
<1>4. Touches(P, P', {})
    BY <1>1, <1>2, <1>3, GroupOf, ShiftTouches, ResultTouches, FlagTouches
    DEF groupASL, groupROL, groupLSR, groupROR, groupSX, groupLX, groupDEC,
        groupINC, Deref, Modify, FlagsOnly
<1> QED
    BY <1>4, TouchesFewer

\* No documented instruction touches V, D, I or a bit without a meaning unless
\* it is there for it: each mask of funcs.c keeps the right ones.
THEOREM FlagsKeptAlways == Spec => FlagsKept
<1>1. TypeOK /\ [Next]_vars =>
        [Executes /\ ~CountsToZero =>
           ((P \ P') \cup (P' \ P)) \ {"N", "Z", "C"} \subseteq MayTouch]_vars
    <2> SUFFICES ASSUME TypeOK, Next, Executes, ~CountsToZero
                 PROVE  Touches(P, P', MayTouch)
        BY DEF Touches
    <2>1. Ready /\ Instruction /\ DocMode # "undocumented" /\ cc \in {0, 1, 2, 3}
        BY ExecutesReady, OpcodeParts DEF Executes
    <2>2. P' \subseteq Flag
        BY StepOK, TypePartsNext
    <2>3. cc # 3
        BY <2>1, Placed DEF NoOperand, OperandModes
    <2> QED BY <2>1, <2>2, <2>3, ControlFlags, AccumulatorFlags, ModifierFlags
<1> QED
    BY <1>1, TypeCorrect, PTL DEF Spec, FlagsKept
-----------------------------------------------------------------------------
\* N and Z describe results, counters that do not reach 0, and what was shifted.
LEMMA ResultDescribed ==
    /\ \A p, v : Describes(SetNZ(p, v), v)
    /\ \A p, v : v # 0 => Describes(StepNZ(p, v), v)
    /\ \A p, m : /\ Describes(Asl(p, m).P, Asl(p, m).val)
                 /\ Describes(Rol(p, m).P, Rol(p, m).val)
                 /\ Describes(Ror(p, m).P, Ror(p, m).val)
<1>1. \A p, v : Describes(SetNZ(p, v), v)
    BY DEF Describes, SetNZ, If
<1>2. \A p, v : v # 0 => Describes(StepNZ(p, v), v)
    BY DEF Describes, StepNZ, If
<1>3. ASSUME NEW p, NEW m PROVE Describes(Asl(p, m).P, Asl(p, m).val)
    BY DEF Describes, Asl, If
<1>4. ASSUME NEW p, NEW m PROVE Describes(Rol(p, m).P, Rol(p, m).val)
    BY DEF Describes, Rol, If
<1>5. ASSUME NEW p, NEW m PROVE Describes(Ror(p, m).P, Ror(p, m).val)
    BY DEF Describes, Ror, If
<1> QED
    BY <1>1, <1>2, <1>3, <1>4, <1>5

\* A register that the step changes is described by the flags after it.
Follows == /\ A' # A => Describes(P', A')
           /\ X' # X => Describes(P', X')
           /\ Y' # Y => Describes(P', Y')

\* A store into a register leaves flags that describe it.
LEMMA StoreFollows ==
    ASSUME NEW v, Store(v), Y' = Y,
           Describes(P', v) \/ loc[1] \in {"mem", "S"} 
    PROVE  Follows
    BY DEF Store, Follows

\* The registers after the opcodes with cc = 0.
LEMMA ControlFollows ==
    ASSUME TypeOK, Ready, Instruction, ~CountsToZero, op # PLA, cc = 0
    PROVE  Follows
<1>1. aaa \in {0, 1, 2, 3, 4, 5, 6, 7}
    BY OpcodeParts
<1>2. ASSUME UNCHANGED <<A, X, Y>> PROVE Follows
    BY <1>2 DEF Follows
<1>3. \A taken : Branch(taken) => Follows
    BY DEF Branch, Follows
<1>4. \A p : FlagsOnly(p) \/ FlagsOf(p) => Follows
    BY DEF FlagsOnly, FlagsOf, Accumulate, Follows
<1>5. \A bytes : Push(bytes) => Follows
    BY DEF Push, Follows
<1>6. ASSUME NEW r, r.val # 0, r.P = StepNZ(P, r.val), StepX(r) \/ StepY(r)
      PROVE  Follows
    BY <1>6, ResultDescribed DEF StepX, StepY, Implied, Follows
<1>7. /\ \A v : Increment(P, v).P = StepNZ(P, Increment(P, v).val)
      /\ \A v : Decrement(P, v).P = StepNZ(P, Decrement(P, v).val)
    BY DEF Increment, Decrement
<1>8. CASE aaa = 0
    BY <1>3, <1>4, <1>5, <1>8, GroupOf DEF group0
<1>9. CASE aaa = 1
    BY <1>2, <1>3, <1>4, <1>5, <1>9, GroupOf DEF group1, Pull
<1>10. CASE aaa = 2
    BY <1>2, <1>3, <1>4, <1>5, <1>10, GroupOf DEF group2, Pull
<1>11. CASE aaa = 3
    BY <1>2, <1>3, <1>4, <1>5, <1>11, GroupOf, OpIs DEF group3, Pull
<1>12. CASE aaa = 4
    <2>1. CASE bbb = 2
        <3>1. Decrement(P, Y).val # 0
            BY <1>12, <2>1, Known, OpIs, ByteIs DEF CountsToZero, Decrement
        <3> QED BY <1>6, <1>7, <1>12, <2>1, <3>1, GroupOf DEF group4
    <2>2. CASE bbb = 4
        BY <1>3, <1>12, <2>2, GroupOf DEF group4
    <2>3. CASE bbb \notin {2, 4}
        BY <1>12, <2>3, GroupOf, ResultDescribed, StoreFollows DEF group4
    <2> QED BY <2>1, <2>2, <2>3
<1>13. CASE aaa = 5
    <2>1. CASE bbb \in {4, 6}
        BY <1>3, <1>4, <1>13, <2>1, GroupOf DEF group5
    <2>2. CASE bbb \notin {4, 6}
        BY <1>13, <2>2, GroupOf, ResultDescribed DEF group5, Follows
    <2> QED BY <2>1, <2>2
<1>14. CASE aaa = 6
    <2>1. CASE bbb = 2
        <3>1. Increment(P, Y).val # 0
            BY <1>14, <2>1, Known, OpIs, ByteIs DEF CountsToZero, Increment
        <3> QED BY <1>6, <1>7, <1>14, <2>1, <3>1, GroupOf DEF group6
    <2>2. CASE bbb # 2
        BY <1>3, <1>4, <1>14, <2>2, GroupOf DEF group6
    <2> QED BY <2>1, <2>2
<1>15. CASE aaa = 7
    <2>1. CASE bbb = 2
        <3>1. Increment(P, X).val # 0
            BY <1>15, <2>1, Known, OpIs, ByteIs DEF CountsToZero, Increment
        <3> QED BY <1>6, <1>7, <1>15, <2>1, <3>1, GroupOf DEF group7
    <2>2. CASE bbb # 2
        BY <1>3, <1>4, <1>15, <2>2, GroupOf DEF group7
    <2> QED BY <2>1, <2>2
<1> QED
    BY <1>1, <1>8, <1>9, <1>10, <1>11, <1>12, <1>13, <1>14, <1>15

\* The registers after the opcodes with cc = 1.
LEMMA AccumulatorFollows ==
    ASSUME TypeOK, Ready, Instruction, cc = 1, aaa \notin {3, 7}
    PROVE  Follows
<1>1. aaa \in {0, 1, 2, 3, 4, 5, 6, 7}
    BY OpcodeParts
<1>2. ASSUME NEW v, LoadA(v) PROVE Follows
    BY <1>2, ResultDescribed DEF LoadA, Accumulate, Follows
<1>3. ASSUME NEW p, FlagsOf(p) PROVE Follows
    BY <1>3 DEF FlagsOf, Accumulate, Follows
<1>4. CASE aaa = 4
    <2>1. loc[1] = "mem"
        BY LogicModes DEF addrDecode, loc
    <2> QED BY <1>4, <2>1, GroupOf, StoreFollows DEF groupSTA
<1> QED
    BY <1>1, <1>2, <1>3, <1>4, GroupOf
    DEF groupORA, groupAND, groupEOR, groupLDA, groupCMP

\* The register that a shift or a transfer works on.
LEMMA RegisterModes ==
    ASSUME TypeOK, cc = 2
    PROVE  /\ mode \in {"A", "X", "S"} => bbb \in {2, 6}
           /\ aaa = 2 => mode \notin {"X", "S"}
           /\ mode = "A" => bbb = 2
           /\ aaa = 4 /\ bbb \notin {2, 6} => mode \notin {"A", "X"}
<1>1. /\ aaa \in {0, 1, 2, 3, 4, 5, 6, 7}
      /\ bbb \in {0, 1, 2, 3, 4, 5, 6, 7}
    BY OpcodeParts
<1> QED
    BY <1>1 DEF mode, opcodes, Shift, MoveX, Count

\* The registers after the opcodes with cc = 2.
LEMMA ModifierFollows ==
    ASSUME TypeOK, Ready, Instruction, DocMode # "undocumented",
           op \notin LDX \cup {LSRA}, cc = 2
    PROVE  Follows
<1>1. /\ aaa \in {0, 1, 2, 3, 4, 5, 6, 7}
      /\ bbb \in {0, 1, 2, 3, 4, 5, 6, 7}
      /\ op = 32 * aaa + 4 * bbb + cc
    BY OpcodeParts
<1>2. Crash => Follows
    BY DEF Crash, cpu, Follows
<1>3. \A p : FlagsOnly(p) => Follows
    BY DEF FlagsOnly, Follows
<1>4. ASSUME NEW r, Describes(r.P, r.val), Modify(r) PROVE Follows
    BY <1>4, StoreFollows DEF Modify
<1>5. \A by : Describes(Counted(by).P, Counted(by).val)
    BY ResultDescribed DEF Counted
<1>6. \A r \in {"A", "S", "X"} : loc[1] = r <=> mode = r
    BY Known, DecodedOK DEF Decoded, loc
<1>7. CASE aaa = 2
    <2>1. mode \notin {"A", "X"}
        BY <1>7, RegisterModes, OpIs
    <2>2. loc[1] \notin {"A", "X"}
        BY <1>6, <2>1
    <2> QED BY <1>2, <1>7, <2>2, GroupOf DEF groupLSR, Deref, Modify, Store, Follows
<1>8. CASE aaa = 4
    <2>1. CASE bbb \in {2, 6}
        BY <1>2, <1>8, <2>1, GroupOf, ResultDescribed, StoreFollows DEF groupSX, Deref
    <2>2. CASE bbb \notin {2, 6}
        <3>1. loc[1] \notin {"A", "X"}
            BY <1>6, <1>8, <2>2, RegisterModes
        <3> QED BY <1>2, <1>8, <3>1, GroupOf DEF groupSX, Deref, Store, Follows
    <2> QED BY <2>1, <2>2
<1>9. CASE aaa = 5
    <2>1. CASE bbb \in {2, 6}
        BY <1>2, <1>9, <2>1, GroupOf, ResultDescribed DEF groupLX, Deref, Follows
    <2>2. CASE bbb = 4
        <3>1. FALSE
            BY <1>9, <2>2, Placed DEF NoOperand, OperandModes
        <3> QED BY <3>1
    <2>3. CASE bbb \notin {2, 4, 6}
        BY <1>1, <1>9, <2>3 DEF LDX
    <2> QED BY <2>1, <2>2, <2>3
<1>10. CASE aaa \notin {2, 4, 5}
    BY <1>1, <1>2, <1>3, <1>4, <1>5, <1>10, GroupOf, ResultDescribed
    DEF groupASL, groupROL, groupROR, groupDEC, groupINC, Deref
<1> QED
    BY <1>7, <1>8, <1>9, <1>10

\* N and Z describe every register that a documented instruction has changed,
\* up to the exceptions that the property names.
THEOREM FlagsFollowRegistersAlways == Spec => FlagsFollowRegisters
<1>1. TypeOK /\ [Next]_vars =>
        [(Executes /\ ~CountsToZero /\ op \notin LDX \cup {PLA, LSRA}) =>
           /\ (A' # A /\ ~(cc = 1 /\ aaa \in {3, 7})) => Describes(P', A')
           /\ (X' # X) => Describes(P', X')
           /\ (Y' # Y) => Describes(P', Y')]_vars
    <2> SUFFICES ASSUME TypeOK, Next, Executes, ~CountsToZero,
                        op \notin LDX \cup {PLA, LSRA}
                 PROVE  /\ (A' # A /\ ~(cc = 1 /\ aaa \in {3, 7})) => Describes(P', A')
                        /\ (X' # X) => Describes(P', X')
                        /\ (Y' # Y) => Describes(P', Y')
        OBVIOUS
    <2>1. Ready /\ Instruction /\ DocMode # "undocumented" /\ cc \in {0, 1, 2, 3}
        BY ExecutesReady, OpcodeParts DEF Executes
    <2>2. cc # 3
        BY <2>1, Placed DEF NoOperand, OperandModes
    <2>3. CASE cc = 0
        BY <2>1, <2>3, ControlFollows DEF Follows
    <2>4. CASE cc = 1 /\ aaa \in {3, 7}
        BY <2>1, <2>4, GroupOf DEF groupADC, groupSBC, Accumulate
    <2>5. CASE cc = 1 /\ aaa \notin {3, 7}
        BY <2>1, <2>5, AccumulatorFollows DEF Follows
    <2>6. CASE cc = 2
        BY <2>1, <2>6, ModifierFollows DEF Follows
    <2> QED BY <2>1, <2>2, <2>3, <2>4, <2>5, <2>6
<1> QED
    BY <1>1, TypeCorrect, PTL DEF Spec, FlagsFollowRegisters
=============================================================================
