----------------------------- MODULE CallsProofs ----------------------------
(***************************************************************************)
(* Proofs about Calls: what was pushed stays on the stack until it is      *)
(* pulled, whatever instructions run between and wherever S wraps.         *)
(***************************************************************************)
EXTENDS Calls, CpuProofs

\* The n-th cell above s.
StackCell(s, n) == 256 + ((s + n) % 256)

\* Numbers that are less than 256 apart differ in their low byte.
LEMMA CloseMod == \A a, b \in Int :
    a % 256 = b % 256 /\ a - b < 256 /\ b - a < 256 => a = b
    OBVIOUS

\* Cutting S to a byte before or after an addition is the same.
LEMMA ModMod == \A a, n \in Int : ((a % 256) + n) % 256 = (a + n) % 256
    OBVIOUS

\* The 256 cells of the stack are different cells.
LEMMA CellDistinct ==
    ASSUME NEW s \in Int, NEW i \in Int, NEW j \in Int,
           i - j < 256, j - i < 256, StackCell(s, i) = StackCell(s, j)
    PROVE  i = j
<1>1. (s + i) % 256 = (s + j) % 256
    <2>1. (s + i) % 256 \in Int /\ (s + j) % 256 \in Int
        OBVIOUS
    <2> QED BY <2>1 DEF StackCell
<1>2. s + i = s + j
    BY <1>1, CloseMod
<1> QED
    BY <1>2

\* The cell that a push stores into, counted from S.
LEMMA FreeCellIs == S \in Int => \A n \in Int : FreeCell(n) = StackCell(S, 1 - n)
    BY DEF FreeCell, StackCell

\* After a push its bytes are in their cells, and all others are as before.
LEMMA PushedCells ==
    ASSUME S \in Byte, NEW bytes \in Seq(Byte), Len(bytes) <= 3
    PROVE  /\ \A j \in 1..Len(bytes) : LoadFrom(Pushed(bytes), FreeCell(j)) = bytes[j]
           /\ \A a : (\A j \in 1..Len(bytes) : FreeCell(j) # a)
                       => LoadFrom(Pushed(bytes), a) = Load(a)
<1> DEFINE cells == { FreeCell(n) : n \in 1..Len(bytes) }
           at(a) == CHOOSE n \in 1..Len(bytes) : FreeCell(n) = a
           f == [a \in cells |-> bytes[at(a)]]
<1>1. Pushed(bytes) = Patched(mem, f)
    BY DEF Pushed
<1>2. \A a : a \notin cells => LoadFrom(Patched(mem, f), a) = Load(a)
    <2> HIDE DEF cells
    <2> QED BY DEF Patched, LoadFrom, Load
<1>3. \A a \in cells : LoadFrom(Patched(mem, f), a) = bytes[at(a)]
    <2> HIDE DEF cells, at
    <2> QED BY DEF Patched, LoadFrom
<1>4. ASSUME NEW j \in 1..Len(bytes) PROVE FreeCell(j) \in cells /\ at(FreeCell(j)) = j
    <2>1. FreeCell(j) \in cells
        OBVIOUS
    <2>2. at(FreeCell(j)) \in 1..Len(bytes) /\ FreeCell(at(FreeCell(j))) = FreeCell(j)
        OBVIOUS
    <2>3. ASSUME NEW i \in 1..Len(bytes), FreeCell(i) = FreeCell(j) PROVE i = j
        <3>1. i \in Int /\ j \in Int /\ i - j < 256 /\ j - i < 256 /\ S \in Int
            BY ByteIs
        <3>2. StackCell(S, 1 - i) = StackCell(S, 1 - j)
            BY <2>3, <3>1, FreeCellIs
        <3>3. 1 - i \in Int /\ 1 - j \in Int /\ (1 - i) - (1 - j) < 256 /\ (1 - j) - (1 - i) < 256
            BY <3>1
        <3>4. 1 - i = 1 - j
            BY <3>1, <3>2, <3>3, CellDistinct
        <3> QED BY <3>1, <3>4
    <2> QED BY <2>1, <2>2, <2>3
<1> HIDE DEF cells, at, f
<1>5. \A j \in 1..Len(bytes) : LoadFrom(Pushed(bytes), FreeCell(j)) = bytes[j]
    BY <1>1, <1>3, <1>4
<1>6. ASSUME NEW a, \A j \in 1..Len(bytes) : FreeCell(j) # a PROVE a \notin cells
    BY <1>6 DEF cells
<1> QED
    BY <1>1, <1>2, <1>5, <1>6

\* A push puts its bytes on top of the stack and moves the others down, with S
\* in any place: the STACK_STORE macros store before they count down.
LEMMA StackAfterPush ==
    ASSUME TypeOK, NEW bytes \in Seq(Byte), Len(bytes) <= 3, Push(bytes)
    PROVE  /\ \A n \in 1..Len(bytes) :
                LoadFrom(mem', StackCell(S', n)) = bytes[Len(bytes) - n + 1]
           /\ \A n \in (Len(bytes) + 1)..256 :
                LoadFrom(mem', StackCell(S', n)) = Load(StackCell(S, n - Len(bytes)))
<1> DEFINE k == Len(bytes)
<1>1. k \in Nat /\ k <= 3 /\ S \in Byte /\ S \in Int
    BY TypeParts, ByteIs
<1>2. mem' = Pushed(bytes) /\ S' = (S - k) % 256
    BY DEF Push
<1> HIDE DEF k
<1>3. \A n \in Int : StackCell(S', n) = StackCell(S, n - k)
    <2> SUFFICES ASSUME NEW n \in Int PROVE StackCell(S', n) = StackCell(S, n - k)
        OBVIOUS
    <2>1. S - k \in Int
        BY <1>1
    <2>2. (((S - k) % 256) + n) % 256 = ((S - k) + n) % 256
        BY <2>1, ModMod
    <2>3. (S - k) + n = S + (n - k)
        BY <1>1
    <2> QED BY <1>2, <2>2, <2>3 DEF StackCell
<1>4. ASSUME NEW n \in 1..k
      PROVE  LoadFrom(mem', StackCell(S', n)) = bytes[k - n + 1]
    <2>1. k - n + 1 \in 1..k /\ 1 - (k - n + 1) = n - k /\ n \in Int
        BY <1>1
    <2>2. StackCell(S', n) = FreeCell(k - n + 1)
        BY <1>1, <1>3, <2>1, FreeCellIs
    <2> QED BY <1>1, <1>2, <2>1, <2>2, PushedCells DEF k
<1>5. ASSUME NEW n \in (k + 1)..256
      PROVE  LoadFrom(mem', StackCell(S', n)) = Load(StackCell(S, n - k))
    <2>1. n \in Int /\ n - k \in Int /\ k < n /\ n <= 256
        BY <1>1
    <2>2. ASSUME NEW j \in 1..k PROVE FreeCell(j) # StackCell(S, n - k)
        <3>1. j \in Int /\ 1 - j \in Int /\ 1 - j <= 0 /\ 0 < n - k
              /\ (n - k) - (1 - j) < 256 /\ (1 - j) - (n - k) < 256
            BY <1>1, <2>1
        <3>2. FreeCell(j) = StackCell(S, 1 - j)
            BY <1>1, <3>1, FreeCellIs
        <3>3. StackCell(S, 1 - j) = StackCell(S, n - k) => 1 - j = n - k
            BY <1>1, <2>1, <3>1, CellDistinct
        <3> QED BY <2>1, <3>1, <3>2, <3>3
    <2>3. StackCell(S', n) = StackCell(S, n - k)
        BY <1>3, <2>1
    <2> QED BY <1>1, <1>2, <2>2, <2>3, PushedCells DEF k
<1> QED
    BY <1>4, <1>5 DEF k

-----------------------------------------------------------------------------
\* S and page 1 stay as they are.
Quiet == S' = S /\ \A a \in 256..511 : LoadFrom(mem', a) = Load(a)

StackOps == {JSR, BRK, PHA, PHP, RTS, RTI, PLA, PLP}

\* The opcodes that work on the stack, by their fields.
LEMMA StackOpIs ==
    ASSUME TypeOK
    PROVE  /\ op = BRK <=> cc = 0 /\ aaa = 0 /\ bbb = 0
           /\ op = PHP <=> cc = 0 /\ aaa = 0 /\ bbb = 2
           /\ op = JSR <=> cc = 0 /\ aaa = 1 /\ bbb = 0
           /\ op = PLP <=> cc = 0 /\ aaa = 1 /\ bbb = 2
           /\ op = RTI <=> cc = 0 /\ aaa = 2 /\ bbb = 0
           /\ op = PHA <=> cc = 0 /\ aaa = 2 /\ bbb = 2
           /\ op = RTS <=> cc = 0 /\ aaa = 3 /\ bbb = 0
           /\ op = PLA <=> cc = 0 /\ aaa = 3 /\ bbb = 2
           /\ op = TXS <=> cc = 2 /\ aaa = 4 /\ bbb = 6
<1>1. /\ cc \in 0..3 /\ bbb \in 0..7 /\ aaa \in 0..7
      /\ op = 32 * aaa + 4 * bbb + cc
    BY OpcodeParts
<1> HIDE DEF op, cc, bbb, aaa
<1> QED
    BY <1>1 DEF BRK, PHP, JSR, PLP, RTI, PHA, RTS, PLA, TXS

\* Only TXS works on S by way of addrDecode; a shift has no X to work on.
LEMMA StackModes ==
    ASSUME TypeOK, mode = "S"
    PROVE  cc = 2 /\ bbb = 6 /\ aaa \in {4, 5}
<1>1. /\ aaa \in {0, 1, 2, 3, 4, 5, 6, 7}
      /\ bbb \in {0, 1, 2, 3, 4, 5, 6, 7}
      /\ cc \in {0, 1, 2, 3}
    BY OpcodeParts
<1>2. CASE cc = 0
    BY <1>1, <1>2 DEF mode, opcodes, Operand, Control
<1>3. CASE cc = 1
    BY <1>1, <1>3 DEF mode, opcodes, Logic
<1>4. CASE cc = 2
    BY <1>1, <1>4 DEF mode, opcodes, Shift, MoveX, Count
<1>5. CASE cc = 3
    BY <1>1, <1>5 DEF mode, opcodes, Logic, LogicY
<1> QED
    BY <1>1, <1>2, <1>3, <1>4, <1>5

\* The cell that is stored into is the one that the bus is told of, if any.
LEMMA AddressIsLoc ==
    ASSUME TypeOK, loc[1] = "mem"
    PROVE  addrDecode.addr \in {NoAddr, loc[2]}
<1>1. mode \in Modes
    BY ModeIsMode
<1>2. mode \notin {"A", "S", "X", "NULL", "rel"}
    BY DEF addrDecode, loc
<1> QED
    BY <1>1, <1>2 DEF addrDecode, loc, Modes

\* A store that the bus is told of as outside page 1 leaves the stack alone.
LEMMA StoreQuiet ==
    ASSUME Ready, ~Disturbs, NEW v, Store(v), loc[1] # "S",
           NEW n, NEW t \in 0..2, Signal(n, t), n # 1, loc[1] = "mem" => t # 0
    PROVE  Quiet
<1>1. S' = S
    BY DEF Store
<1>2. CASE loc[1] = "mem"
    <2>1. 1 \in 1..t /\ Len(bus') = t /\ bus'[1].addr = addrDecode.addr
          /\ bus'[1].rwb = n
        <3>1. 1 \in 1..t
            BY <1>2
        <3> QED BY <3>1, Signalled
    <2>2. addrDecode.addr # NoAddr /\ addrDecode.addr \notin 256..511
        <3>1. 1 \in 1..Len(bus') /\ bus'[1].rwb # 1
            BY <2>1
        <3>2. ~(bus'[1].addr = NoAddr \/ bus'[1].addr \in 256..511)
            BY <3>1 DEF Disturbs
        <3> QED BY <2>1, <3>2
    <2>3. loc[2] \notin 256..511
        BY <1>2, <2>2, AddressIsLoc, Known
    <2>4. mem' = Patched(mem, [a \in {loc[2]} |-> v])
        BY <1>2 DEF Store
    <2>5. ASSUME NEW a \in 256..511 PROVE LoadFrom(mem', a) = Load(a)
        <3>1. a # loc[2]
            BY <2>3
        <3> QED BY <2>4, <3>1 DEF Patched, LoadFrom, Load
    <2> QED BY <1>1, <2>5 DEF Quiet
<1>3. CASE loc[1] # "mem"
    <2>1. mem' = mem
        BY <1>3 DEF Store
    <2> QED BY <1>1, <2>1 DEF Quiet, Load
<1> QED
    BY <1>2, <1>3

\* Instructions that store nothing leave the stack alone.
LEMMA ShapesQuiet ==
    /\ S' = S /\ mem' = mem => Quiet
    /\ \A p : FlagsOnly(p) \/ FlagsOf(p) \/ LoadA(p) => Quiet
    /\ \A r : StepX(r) \/ StepY(r) \/ Accumulate(r) => Quiet
    /\ \A taken : Branch(taken) => Quiet
    /\ Crash => Quiet
<1>1. S' = S /\ mem' = mem => Quiet
    BY DEF Quiet, Load
<1> QED
    BY <1>1 DEF FlagsOnly, FlagsOf, LoadA, StepX, StepY, Implied, Accumulate, Branch,
                Crash, cpu

\* So does a write-back outside page 1.
LEMMA ModifyQuiet ==
    ASSUME Ready, ~Disturbs, loc[1] # "S", NEW r, Modify(r)
    PROVE  Quiet
<1> DEFINE t == IF loc[1] = "mem" THEN 2 ELSE 0
<1>1. Store(r.val) /\ Signal(2, t)
    BY DEF Modify
<1>2. t \in 0..2 /\ (loc[1] = "mem" => t # 0)
    OBVIOUS
<1> HIDE DEF t
<1> QED
    BY <1>1, <1>2, StoreQuiet

\* Every instruction but those of the stack leaves the stack alone, unless it
\* is seen to disturb it.
LEMMA Undisturbed ==
    ASSUME TypeOK, Instruction, ~Disturbs, op \notin StackOps
    PROVE  Quiet
<1>1. Ready
    BY DEF Instruction, Running, Ready
<1>2. /\ cc \in {0, 1, 2, 3} /\ aaa \in {0, 1, 2, 3, 4, 5, 6, 7}
    BY OpcodeParts
<1>3. \A r \in {"A", "S", "X"} : loc[1] = r <=> mode = r
    BY <1>1, Known, DecodedOK DEF Decoded, loc
<1>4. CASE cc = 0
    <2>1. loc[1] # "S"
        BY <1>3, <1>4, StackModes
    <2>2. CASE aaa \in {0, 1}
        BY <1>4, <2>2, GroupOf, StackOpIs, ShapesQuiet DEF group0, group1, StackOps
    <2>3. CASE aaa \in {2, 3}
        BY <1>4, <2>3, GroupOf, StackOpIs, ShapesQuiet DEF group2, group3, StackOps
    <2>4. CASE aaa = 4
        <3>1. CASE bbb \in {2, 4}
            BY <1>4, <2>4, <3>1, GroupOf, ShapesQuiet DEF group4
        <3>2. CASE bbb \notin {2, 4}
            <4> DEFINE t == IF loc[1] = "A" THEN 0 ELSE 1
            <4>1. Store(Y) /\ Signal(0, t)
                BY <1>4, <2>4, <3>2, GroupOf DEF group4
            <4>2. t \in 0..2 /\ (loc[1] = "mem" => t # 0)
                OBVIOUS
            <4> HIDE DEF t
            <4> QED BY <1>1, <2>1, <4>1, <4>2, StoreQuiet
        <3> QED BY <3>1, <3>2
    <2>5. CASE aaa = 5
        BY <1>4, <2>5, GroupOf, ShapesQuiet DEF group5
    <2>6. CASE aaa \in {6, 7}
        BY <1>4, <2>6, GroupOf, ShapesQuiet DEF group6, group7
    <2> QED BY <1>2, <2>2, <2>3, <2>4, <2>5, <2>6
<1>5. CASE cc = 1
    <2>1. CASE aaa = 4
        <3>1. Store(A) /\ Signal(0, 1)
            BY <1>5, <2>1, GroupOf DEF groupSTA
        <3>2. loc[1] # "S"
            BY <1>3, <1>5, StackModes
        <3> QED BY <1>1, <3>1, <3>2, StoreQuiet
    <2>2. CASE aaa # 4
        BY <1>2, <1>5, <2>2, GroupOf, ShapesQuiet
        DEF groupORA, groupAND, groupEOR, groupADC, groupLDA, groupCMP, groupSBC
    <2> QED BY <2>1, <2>2
<1>6. CASE cc = 2
    <2>1. op # TXS
        BY DEF Disturbs
    <2>2. aaa # 5 => loc[1] # "S"
        BY <1>3, <1>6, <2>1, StackModes, StackOpIs
    <2>3. CASE aaa = 4
        <3>1. CASE loc[1] = "NULL"
            BY <1>6, <2>3, <3>1, GroupOf, ShapesQuiet DEF groupSX, Deref
        <3>2. CASE loc[1] # "NULL"
            <4> DEFINE t == IF bbb \in {2, 6} THEN 0 ELSE 1
            <4>1. Store(X) /\ Signal(0, t)
                BY <1>6, <2>3, <3>2, GroupOf DEF groupSX, Deref
            <4>2. t \in 0..2
                OBVIOUS
            <4>3. loc[1] = "mem" => t # 0
                <5>1. bbb \in {2, 6} => mode \in {"A", "S"}
                    BY <1>6, <2>3 DEF mode, opcodes, MoveX
                <5> QED BY <1>3, <5>1
            <4> HIDE DEF t
            <4> QED BY <1>1, <2>2, <2>3, <4>1, <4>2, <4>3, StoreQuiet
        <3> QED BY <3>1, <3>2
    <2>4. CASE aaa = 5
        BY <1>6, <2>4, GroupOf, ShapesQuiet DEF groupLX, Deref
    <2>5. CASE aaa \notin {4, 5}
        BY <1>1, <1>2, <1>6, <2>2, <2>5, GroupOf, ShapesQuiet, ModifyQuiet
        DEF groupASL, groupROL, groupLSR, groupROR, groupDEC, groupINC, Deref
    <2> QED BY <2>3, <2>4, <2>5
<1>7. CASE cc = 3
    BY <1>7, GroupOf, ShapesQuiet DEF Undocumented, cpu
<1> QED
    BY <1>2, <1>4, <1>5, <1>6, <1>7

-----------------------------------------------------------------------------
\* s is r backwards: what is pushed last is remembered first.
Backwards(s, r) == Len(s) = Len(r) /\ \A n \in 1..Len(r) : s[n] = r[Len(r) - n + 1]

\* A byte backwards.
LEMMA One == ASSUME NEW B, NEW x \in B
  PROVE <<x>> \in Seq(B) /\ Len(<<x>>) = 1 /\ Backwards(<<x>>, <<x>>)
<1>1. <<x>> \in Seq(B) /\ Len(<<x>>) = 1
   OBVIOUS
<1>2. \A n \in 1..1 : n = 1
   OBVIOUS
<1> QED BY <1>1, <1>2 DEF Backwards

\* Two bytes backwards.
LEMMA Two == ASSUME NEW B, NEW x \in B, NEW y \in B
  PROVE <<x, y>> \in Seq(B) /\ Len(<<x, y>>) = 2 /\ Backwards(<<x, y>>, <<y, x>>)
<1>1. <<x, y>> \in Seq(B) /\ Len(<<x, y>>) = 2 /\ Len(<<y, x>>) = 2
   OBVIOUS
<1>2. \A n \in 1..2 : n \in {1, 2}
   OBVIOUS
<1>3. \A n \in {1, 2} : <<x, y>>[n] = <<y, x>>[2 - n + 1]
   OBVIOUS
<1> QED BY <1>1, <1>2, <1>3 DEF Backwards

\* Three bytes backwards.
LEMMA Three == ASSUME NEW B, NEW x \in B, NEW y \in B, NEW z \in B
  PROVE <<x, y, z>> \in Seq(B) /\ Len(<<x, y, z>>) = 3 /\ Backwards(<<x, y, z>>, <<z, y, x>>)
<1>1. <<x, y, z>> \in Seq(B) 
   OBVIOUS
<1>1a. Len(<<x, y, z>>) = 3 /\ Len(<<z, y, x>>) = 3
   OBVIOUS
<1>2. \A n \in 1..3 : n \in {1, 2, 3}
   OBVIOUS
<1>3. \A n \in {1, 2, 3} : <<x, y, z>>[n] = <<z, y, x>>[3 - n + 1]
   OBVIOUS
<1> QED BY <1>1,<1>1a, <1>2, <1>3 DEF Backwards

\* Two bytes and one are three.
LEMMA Cat == ASSUME NEW B, NEW x \in B, NEW y \in B, NEW z \in B
  PROVE <<x, y>> \o <<z>> = <<x, y, z>>
<1>1. <<x, y>> \in Seq(B) /\ <<z>> \in Seq(B) /\ Len(<<x, y>>) = 2 /\ Len(<<z>>) = 1
   OBVIOUS
<1> DEFINE s == <<x, y>> \o <<z>>
<1>2. s \in Seq(B) /\ Len(s) = 3
  BY <1>1
<1>3. s[1] = x /\ s[2] = y /\ s[3] = z
  BY <1>1
<1> HIDE DEF s
<1>4. s = [i \in 1..3 |-> s[i]]
  BY <1>2
<1> DEFINE u == <<x, y, z>>
<1>5. u \in Seq(B) /\ Len(u) = 3 /\ u[1] = x /\ u[2] = y /\ u[3] = z
  OBVIOUS
<1> HIDE DEF u
<1>6. u = [i \in 1..3 |-> u[i]]
  BY <1>5
<1>7. \A i \in 1..3 : s[i] = u[i]
  <2>1. \A i \in 1..3 : i \in {1, 2, 3}
    OBVIOUS
  <2> QED BY <2>1, <1>3, <1>5
<1>8. s = u
  <2>1. [i \in 1..3 |-> s[i]] = [i \in 1..3 |-> u[i]]
    BY <1>7
  <2> QED BY <2>1, <1>4, <1>6
<1> QED BY <1>8 DEF u, s

\* JSR, BRK, PHA and PHP push what the history remembers.
LEMMA PushOps ==
    ASSUME TypeOK, Instruction, op \in {JSR, BRK, PHA, PHP}
    PROVE  /\ PulledBytes = 0 /\ PushedBytes \in Seq(Byte) /\ Len(PushedBytes) <= 3
           /\ \E bytes \in Seq(Byte) : Push(bytes) /\ Backwards(PushedBytes, bytes)
<1> DEFINE hi == Continued \div 256
           lo == Continued % 256
           sb == StatusByte(P)
<1>1. Ready
    BY DEF Instruction, Running, Ready
<1>2. /\ hi \in Byte /\ lo \in Byte
      /\ sb \in Byte /\ A \in Byte
    <2>1. Continued \in Word
        BY <1>1, Known, Wraps, WordIs DEF Continued, DocReturn
    <2>2. hi \in Byte /\ lo \in Byte
        BY <2>1, WordIs, ByteIs
    <2> QED BY <1>1, <2>2, Known, StatusByteType
<1>3. HiLo(Wrap16(PC + 3)) = <<hi, lo>>
    <2>1. Continued = Wrap16(PC + 3)
        BY <1>1, Known, WordIs DEF Continued, DocReturn
    <2> QED BY <2>1 DEF HiLo
<1>4. PulledBytes = 0
    BY DEF PulledBytes, JSR, BRK, PHA, PHP, RTS, RTI, PLA, PLP
<1>5. /\ op = JSR => PushedBytes = <<lo, hi>>
      /\ op = BRK => PushedBytes = <<sb, lo, hi>>
      /\ op = PHA => PushedBytes = <<A>>
      /\ op = PHP => PushedBytes = <<sb>>
    BY DEF PushedBytes, JSR, BRK, PHA, PHP
<1>6. /\ op = JSR => Push(HiLo(Wrap16(PC + 3)))
      /\ op = BRK => Push(HiLo(Wrap16(PC + 3)) \o <<sb>>)
      /\ op = PHA => Push(<<A>>)
      /\ op = PHP => Push(<<sb>>)
    BY GroupOf, StackOpIs DEF group0, group1, group2
<1> HIDE DEF hi, lo, sb
<1>7. ASSUME NEW old \in Seq(Byte), NEW new \in Seq(Byte), PushedBytes = old,
             Push(new), Backwards(old, new), Len(old) <= 3
      PROVE  /\ PushedBytes \in Seq(Byte) /\ Len(PushedBytes) <= 3
             /\ \E bytes \in Seq(Byte) : Push(bytes) /\ Backwards(PushedBytes, bytes)
    BY <1>7
<1>8. CASE op = JSR
    <2>1. Push(<<hi, lo>>) /\ PushedBytes = <<lo, hi>>
        BY <1>3, <1>5, <1>6, <1>8
    <2>2. /\ <<hi, lo>> \in Seq(Byte) /\ <<lo, hi>> \in Seq(Byte) /\ Len(<<lo, hi>>) = 2
          /\ Backwards(<<lo, hi>>, <<hi, lo>>)
        BY <1>2, Two
    <2>3. Len(<<lo, hi>>) <= 3
        BY <2>2
    <2> QED BY <1>4, <1>7, <2>1, <2>2, <2>3
<1>9. CASE op = BRK
    <2>1. <<hi, lo>> \o <<sb>> = <<hi, lo, sb>>
        BY <1>2, Cat
    <2>2. Push(<<hi, lo, sb>>) /\ PushedBytes = <<sb, lo, hi>>
        BY <1>3, <1>5, <1>6, <1>9, <2>1
    <2>3. /\ <<hi, lo, sb>> \in Seq(Byte) /\ <<sb, lo, hi>> \in Seq(Byte)
          /\ Len(<<sb, lo, hi>>) = 3
          /\ Backwards(<<sb, lo, hi>>, <<hi, lo, sb>>)
        BY <1>2, Three
    <2>4. Len(<<sb, lo, hi>>) <= 3
        BY <2>3
    <2> QED BY <1>4, <1>7, <2>2, <2>3, <2>4
<1>10. CASE op = PHA
    <2>1. <<A>> \in Seq(Byte) /\ Len(<<A>>) = 1 /\ Backwards(<<A>>, <<A>>)
        BY <1>2, One
    <2>2. Len(<<A>>) <= 3
        BY <2>1
    <2> QED BY <1>4, <1>5, <1>6, <1>7, <1>10, <2>1, <2>2
<1>11. CASE op = PHP
    <2>1. <<sb>> \in Seq(Byte) /\ Len(<<sb>>) = 1 /\ Backwards(<<sb>>, <<sb>>)
        BY <1>2, One
    <2>2. Len(<<sb>>) <= 3
        BY <2>1
    <2> QED BY <1>4, <1>5, <1>6, <1>7, <1>11, <2>1, <2>2
<1> QED
    BY <1>8, <1>9, <1>10, <1>11

\* RTS, RTI, PLA and PLP pull as many bytes as the history forgets, and take
\* PC, P and A from them in this order.
LEMMA PullOps ==
    ASSUME TypeOK, Instruction, op \in {RTS, RTI, PLA, PLP}
    PROVE  /\ PushedBytes = <<>> /\ PulledBytes \in 1..3
           /\ Pull(PulledBytes)
           /\ op = RTS => PC' = PulledWord(1)
           /\ op = RTI => P' = StatusOf(Pulled(1)) /\ PC' = PulledWord(2)
           /\ op = PLA => A' = Pulled(1)
           /\ op = PLP => P' = StatusOf(Pulled(1))
<1>1. PushedBytes = <<>>
    BY DEF PushedBytes, JSR, BRK, PHA, PHP, RTS, RTI, PLA, PLP
<1>2. CASE op = RTS
    <2>1. PulledBytes = 2 /\ op \notin {RTI, PLA, PLP}
        BY <1>2 DEF PulledBytes, RTS, RTI, PLA, PLP
    <2> QED BY <1>1, <1>2, <2>1, GroupOf, StackOpIs DEF group3
<1>3. CASE op = RTI
    <2>1. PulledBytes = 3 /\ op \notin {RTS, PLA, PLP}
        BY <1>3 DEF PulledBytes, RTS, RTI, PLA, PLP
    <2> QED BY <1>1, <1>3, <2>1, GroupOf, StackOpIs DEF group2
<1>4. CASE op = PLA
    <2>1. PulledBytes = 1 /\ op \notin {RTS, RTI, PLP}
        BY <1>4 DEF PulledBytes, RTS, RTI, PLA, PLP
    <2> QED BY <1>1, <1>4, <2>1, GroupOf, StackOpIs DEF group3
<1>5. CASE op = PLP
    <2>1. PulledBytes = 1 /\ op \notin {RTS, RTI, PLA}
        BY <1>5 DEF PulledBytes, RTS, RTI, PLA, PLP
    <2> QED BY <1>1, <1>5, <2>1, GroupOf, StackOpIs DEF group1
<1> QED
    BY <1>2, <1>3, <1>4, <1>5

\* No other instruction has a part in the history.
LEMMA OtherOps ==
    ASSUME op \notin StackOps
    PROVE  PulledBytes = 0 /\ PushedBytes = <<>>
    BY DEF StackOps, PulledBytes, PushedBytes

-----------------------------------------------------------------------------
\* The history remembers the newest bytes.
LEMMA NewestIs ==
    ASSUME NEW s \in Seq(Byte)
    PROVE  /\ Newest(s) \in Seq(Byte) /\ Len(Newest(s)) \in 0..MaxPushed
           /\ Len(Newest(s)) <= Len(s)
           /\ \A i \in 1..Len(Newest(s)) : Newest(s)[i] = s[i]
    BY MaxPushedAssumption DEF Newest

\* What is left when the newest bytes are pulled.
LEMMA RestIs ==
    ASSUME NEW s \in Seq(Byte), NEW k \in 0..3
    PROVE  /\ SubSeq(s, k + 1, Len(s)) \in Seq(Byte)
           /\ Len(SubSeq(s, k + 1, Len(s))) = IF k <= Len(s) THEN Len(s) - k ELSE 0
           /\ \A i \in 1..Len(SubSeq(s, k + 1, Len(s))) :
                SubSeq(s, k + 1, Len(s))[i] = s[k + i]
    OBVIOUS

-----------------------------------------------------------------------------
\* The inductive invariant.
StackOK == /\ pushed \in Seq(Byte) /\ Len(pushed) <= MaxPushed
           /\ PushedOnStack

\* The invariant, by cells.
LEMMA OnStack == PushedOnStack <=>
    \A n \in 1..Len(pushed) : LoadFrom(mem, StackCell(S, n)) = pushed[n]
    BY DEF PushedOnStack, StackCell

\* The same of the next state.
LEMMA OnStackNext == PushedOnStack' <=>
    \A n \in 1..Len(pushed') : LoadFrom(mem', StackCell(S', n)) = pushed'[n]
    BY DEF PushedOnStack, StackCell

\* The history is on the stack if what it is made of is.
LEMMA NewestOnStack ==
    ASSUME NEW s \in Seq(Byte), pushed' = Newest(s),
           \A n \in 1..Len(s) : n <= MaxPushed => LoadFrom(mem', StackCell(S', n)) = s[n]
    PROVE  StackOK'
<1>1. /\ pushed' \in Seq(Byte) /\ Len(pushed') \in 0..MaxPushed /\ Len(pushed') <= Len(s)
      /\ \A i \in 1..Len(pushed') : pushed'[i] = s[i]
    BY NewestIs
<1>2. ASSUME NEW n \in 1..Len(pushed')
      PROVE  LoadFrom(mem', StackCell(S', n)) = pushed'[n]
    <2>1. n \in 1..Len(s) /\ n <= MaxPushed
        BY <1>1, MaxPushedAssumption
    <2> QED BY <1>1, <2>1
<1>3. Len(pushed') <= MaxPushed
    BY <1>1, MaxPushedAssumption
<1> QED
    BY <1>1, <1>2, <1>3, OnStackNext DEF StackOK

\* Every instruction keeps the history on the stack.
LEMMA RememberOK ==
    ASSUME TypeOK, StackOK, Instruction, Remember
    PROVE  StackOK'
<1> DEFINE k == PulledBytes
           rest == SubSeq(pushed, k + 1, Len(pushed))
<1>1. pushed \in Seq(Byte) /\ S \in Int /\ MaxPushed \in Int /\ MaxPushed <= 256
    BY TypeParts, ByteIs, MaxPushedAssumption DEF StackOK
<1>2. \A n \in 1..Len(pushed) : LoadFrom(mem, StackCell(S, n)) = pushed[n]
    BY OnStack DEF StackOK
<1>3. CASE Disturbs
    <2>1. pushed' = <<>>
        BY <1>3 DEF Remember
    <2> QED BY <2>1, MaxPushedAssumption, OnStackNext DEF StackOK
<1>4. CASE ~Disturbs /\ op \in {JSR, BRK, PHA, PHP}
    <2>1. /\ k = 0 /\ PushedBytes \in Seq(Byte) /\ Len(PushedBytes) <= 3
        BY <1>4, PushOps
    <2>2. PICK bytes \in Seq(Byte) : Push(bytes) /\ Backwards(PushedBytes, bytes)
        BY <1>4, PushOps
    <2>3. rest \in Seq(Byte) /\ Len(rest) = Len(pushed)
          /\ \A i \in 1..Len(rest) : rest[i] = pushed[i]
        BY <1>1, <2>1, RestIs
    <2>4. pushed' = Newest(PushedBytes \o rest)
        BY <1>4 DEF Remember
    <2>5. Len(bytes) = Len(PushedBytes) /\ Len(bytes) <= 3
          /\ \A n \in 1..Len(bytes) : PushedBytes[n] = bytes[Len(bytes) - n + 1]
        BY <2>1, <2>2 DEF Backwards
    <2>6. /\ \A n \in 1..Len(bytes) :
               LoadFrom(mem', StackCell(S', n)) = bytes[Len(bytes) - n + 1]
          /\ \A n \in (Len(bytes) + 1)..256 :
               LoadFrom(mem', StackCell(S', n)) = Load(StackCell(S, n - Len(bytes)))
        BY <2>2, <2>5, StackAfterPush
    <2> HIDE DEF rest
    <2> DEFINE s == PushedBytes \o rest
    <2>7. /\ s \in Seq(Byte) /\ Len(s) = Len(bytes) + Len(pushed)
          /\ \A n \in 1..Len(bytes) : s[n] = PushedBytes[n]
          /\ \A n \in (Len(bytes) + 1)..Len(s) : s[n] = rest[n - Len(bytes)]
        BY <2>1, <2>3, <2>5
    <2> HIDE DEF s
    <2>8. ASSUME NEW n \in 1..Len(s), n <= MaxPushed
          PROVE  LoadFrom(mem', StackCell(S', n)) = s[n]
        <3>1. Len(bytes) \in Nat /\ Len(pushed) \in Nat /\ n \in Int /\ n <= 256
            BY <1>1, <2>8
        <3>2. CASE n <= Len(bytes)
            BY <2>5, <2>6, <2>7, <3>1, <3>2
        <3>3. CASE n > Len(bytes)
            <4>1. n \in (Len(bytes) + 1)..256 /\ n \in (Len(bytes) + 1)..Len(s)
                  /\ n - Len(bytes) \in 1..Len(pushed)
                BY <2>7, <3>1, <3>3
            <4>2. s[n] = pushed[n - Len(bytes)]
                BY <2>3, <2>7, <4>1
            <4>3. LoadFrom(mem', StackCell(S', n)) = LoadFrom(mem, StackCell(S, n - Len(bytes)))
                BY <2>6, <4>1 DEF Load
            <4> QED BY <1>2, <4>1, <4>2, <4>3
        <3> QED BY <3>1, <3>2, <3>3
    <2>9. pushed' = Newest(s)
        BY <2>4 DEF s
    <2> QED BY <2>7, <2>8, <2>9, NewestOnStack
<1>5. ASSUME ~Disturbs, PushedBytes = <<>>, k \in 0..3, S' = (S + k) % 256,
             \A a \in 256..511 : LoadFrom(mem', a) = Load(a)
      PROVE  StackOK'
    <2>1. /\ rest \in Seq(Byte)
          /\ Len(rest) = IF k <= Len(pushed) THEN Len(pushed) - k ELSE 0
          /\ \A i \in 1..Len(rest) : rest[i] = pushed[k + i]
        BY <1>1, <1>5, RestIs
    <2>2. pushed' = Newest(<<>> \o rest)
        BY <1>5 DEF Remember
    <2>3. k \in Int /\ 0 <= k
        BY <1>5
    <2> HIDE DEF rest, k
    <2>4. <<>> \o rest = rest
        BY <2>1
    <2>5. ASSUME NEW n \in 1..Len(rest), n <= MaxPushed
          PROVE  LoadFrom(mem', StackCell(S', n)) = rest[n]
        <3>1. k + n \in 1..Len(pushed) /\ n \in Int
            BY <1>1, <2>1, <2>3
        <3>2. StackCell(S', n) = StackCell(S, k + n)
            <4>1. S + k \in Int /\ (S + k) + n = S + (k + n)
                BY <1>1, <2>3, <3>1
            <4>2. (((S + k) % 256) + n) % 256 = ((S + k) + n) % 256
                BY <3>1, <4>1, ModMod
            <4> QED BY <1>5, <4>1, <4>2 DEF StackCell
        <3>3. StackCell(S, k + n) \in 256..511
            <4> DEFINE i == S + (k + n)
            <4>1. i \in Int
                BY <1>1, <2>3, <3>1
            <4>2. StackCell(S, k + n) = 256 + (i % 256)
                BY DEF StackCell
            <4> HIDE DEF i
            <4>3. 256 + (i % 256) \in 256..511
                BY <4>1
            <4> QED BY <4>2, <4>3
        <3> QED BY <1>2, <1>5, <2>1, <3>1, <3>2, <3>3, ZenonT(30) DEF Load
    <2> QED BY <2>1, <2>2, <2>4, <2>5, NewestOnStack
<1>6. CASE ~Disturbs /\ op \in {RTS, RTI, PLA, PLP}
    <2>1. PushedBytes = <<>> /\ k \in 1..3 /\ Pull(k)
        BY <1>6, PullOps
    <2>2. S' = (S + k) % 256 /\ mem' = mem
        BY <2>1 DEF Pull
    <2>3. k \in 0..3
        BY <2>1
    <2> QED BY <1>5, <1>6, <2>1, <2>2, <2>3 DEF Load
<1>7. CASE ~Disturbs /\ op \notin StackOps
    <2>1. Quiet /\ PushedBytes = <<>> /\ k = 0
        BY <1>7, Undisturbed, OtherOps
    <2>2. S' = (S + k) % 256
        <3>1. S \in 0..255 /\ S' = S
            BY <2>1, TypeParts DEF Quiet, Byte
        <3> QED BY <2>1, <3>1
    <2>3. k \in 0..3
        BY <2>1
    <2> QED BY <1>5, <1>7, <2>1, <2>2, <2>3 DEF Quiet
<1> QED
    BY <1>3, <1>4, <1>6, <1>7 DEF StackOps

\* So does every step.
LEMMA StackStep == TypeOK /\ StackOK /\ [HNext]_hvars => StackOK'
<1>1. ASSUME StackOK, UNCHANGED <<S, mem, pushed>> PROVE StackOK'
    BY <1>1, OnStack, OnStackNext DEF StackOK
<1> QED
    BY <1>1, RememberOK DEF HNext, Finish, cpu, hvars, vars

\* The history changes nothing: the type invariant holds with it.
LEMMA HistoryOfSpec == HSpec => []TypeOK
<1>1. HInit => Init
    BY DEF HInit
<1>2. [HNext]_hvars => [Next]_vars
    BY DEF HNext, Next, hvars
<1> QED
    BY <1>1, <1>2, InitOK, StepOK, PTL DEF HSpec

\* What the program pushed is on the stack above S, in the order in which it is
\* pulled, for every program and wherever S wraps (STACK_ macros of funcs.c).
THEOREM PushedOnStackAlways == HSpec => []PushedOnStack
<1>1. HInit => StackOK
    BY OnStack, MaxPushedAssumption DEF HInit, StackOK
<1>2. StackOK => PushedOnStack
    BY DEF StackOK
<1> QED
    BY <1>1, <1>2, StackStep, HistoryOfSpec, PTL DEF HSpec

\* RTS and RTI continue at the address that their JSR and BRK have pushed, RTI
\* and PLP restore the status and PLA restores A, whatever the program did
\* between that did not write page 1 or S.
THEOREM ReturnsToCallerAlways == HSpec => ReturnsToCaller
<1> DEFINE Returns ==
      (st = "run" /\ PC # 65535) =>
        /\ (op = RTS /\ Len(pushed) >= 2) =>
              PC' = pushed[1] + 256 * pushed[2]
        /\ (op = RTI /\ Len(pushed) >= 3) =>
              /\ P' = StatusOf(pushed[1])
              /\ PC' = pushed[2] + 256 * pushed[3]
        /\ (op = PLA /\ Len(pushed) >= 1) => A' = pushed[1]
        /\ (op = PLP /\ Len(pushed) >= 1) => P' = StatusOf(pushed[1])
<1>1. TypeOK /\ StackOK /\ [HNext]_hvars => [Returns]_hvars
    <2> SUFFICES ASSUME TypeOK, StackOK, HNext, st = "run", PC # 65535
                 PROVE  Returns
        OBVIOUS
    <2>1. Instruction
        BY DEF HNext, Finish
    <2>2. \A n \in 1..Len(pushed) : Pulled(n) = pushed[n]
        BY OnStack DEF StackOK, Pulled, Load, StackCell
    <2>3. Len(pushed) \in Nat
        BY DEF StackOK
    <2>4. \A n \in Nat \ {0} : Len(pushed) >= n + 1 =>
            PulledWord(n) = pushed[n] + 256 * pushed[n + 1]
        BY <2>2, <2>3 DEF PulledWord
    <2>5. Len(pushed) >= 1 => Pulled(1) = pushed[1]
        BY <2>2, <2>3
    <2>6. /\ Len(pushed) >= 2 => PulledWord(1) = pushed[1] + 256 * pushed[2]
          /\ Len(pushed) >= 3 => PulledWord(2) = pushed[2] + 256 * pushed[3]
          /\ Len(pushed) >= 3 => Len(pushed) >= 1
        BY <2>3, <2>4
    <2> QED BY <2>1, <2>5, <2>6, PullOps
<1>2. HInit => StackOK
    BY OnStack, MaxPushedAssumption DEF HInit, StackOK
<1> QED
    BY <1>1, <1>2, StackStep, HistoryOfSpec, PTL DEF HSpec, ReturnsToCaller
=============================================================================
