------------------------------ MODULE CpuDocs -------------------------------
(***************************************************************************)
(* Cpu6502 against the instruction set that docs/6502.proc.info describes: *)
(* the matrix "6510 Instructions by Addressing Modes", its documented      *)
(* entries only (those without an asterisk), the effective address of each *)
(* mode and the flags each instruction may change.                         *)
(***************************************************************************)
EXTENDS Cpu6502

\* The documented entries of the matrix: the offset of its row is 4 * b + c,
\* its columns are numbered from 0.
DocMatrix ==
    { [c |-> 0, b |-> 0, cols |-> 0..3, mode |-> "control"],
      [c |-> 0, b |-> 0, cols |-> 5..7, mode |-> "immediate"],
      [c |-> 0, b |-> 1, cols |-> {1} \cup 4..7, mode |-> "zeropage"],
      [c |-> 0, b |-> 2, cols |-> 0..7, mode |-> "implied"],
      [c |-> 0, b |-> 3, cols |-> {1} \cup 4..7, mode |-> "absolute"],
      [c |-> 0, b |-> 3, cols |-> 2..3, mode |-> "control"],
      [c |-> 0, b |-> 4, cols |-> 0..7, mode |-> "relative"],
      [c |-> 0, b |-> 5, cols |-> 4..5, mode |-> "zeropageX"],
      [c |-> 0, b |-> 6, cols |-> 0..7, mode |-> "implied"],
      [c |-> 0, b |-> 7, cols |-> {5}, mode |-> "absoluteX"],
      [c |-> 1, b |-> 0, cols |-> 0..7, mode |-> "indirX"],
      [c |-> 1, b |-> 1, cols |-> 0..7, mode |-> "zeropage"],
      [c |-> 1, b |-> 2, cols |-> 0..7 \ {4}, mode |-> "immediate"],
      [c |-> 1, b |-> 3, cols |-> 0..7, mode |-> "absolute"],
      [c |-> 1, b |-> 4, cols |-> 0..7, mode |-> "indirY"],
      [c |-> 1, b |-> 5, cols |-> 0..7, mode |-> "zeropageX"],
      [c |-> 1, b |-> 6, cols |-> 0..7, mode |-> "absoluteY"],
      [c |-> 1, b |-> 7, cols |-> 0..7, mode |-> "absoluteX"],
      [c |-> 2, b |-> 0, cols |-> {5}, mode |-> "immediate"],
      [c |-> 2, b |-> 1, cols |-> 0..7, mode |-> "zeropage"],
      [c |-> 2, b |-> 2, cols |-> 0..7, mode |-> "implied"],
      [c |-> 2, b |-> 3, cols |-> 0..7, mode |-> "absolute"],
      [c |-> 2, b |-> 5, cols |-> 0..7 \ {4, 5}, mode |-> "zeropageX"],
      [c |-> 2, b |-> 5, cols |-> 4..5, mode |-> "zeropageY"],
      [c |-> 2, b |-> 6, cols |-> 4..5, mode |-> "implied"],
      [c |-> 2, b |-> 7, cols |-> 0..7 \ {4, 5}, mode |-> "absoluteX"],
      [c |-> 2, b |-> 7, cols |-> {5}, mode |-> "absoluteY"] }

\* The documented mode of each opcode.
DocModes ==
    [o \in Byte |->
       LET rows == { r \in DocMatrix : /\ r.c = o % 4
                                       /\ r.b = (o \div 4) % 8
                                       /\ o \div 32 \in r.cols }
       IN  IF rows = {} THEN "undocumented" ELSE (CHOOSE r \in rows : TRUE).mode]

DocMode == DocModes[op]

NoOperand == {"control", "implied", "relative"}

Length ==
    CASE DocMode = "implied" -> 1
      [] DocMode \in {"absolute", "absoluteX", "absoluteY"} -> 3
      [] OTHER -> 2

\* The cell a documented instruction works on: a base and an index.
DocBase ==
    CASE DocMode \in {"zeropage", "zeropageX", "zeropageY"} -> Load(PC + 1)
      [] DocMode \in {"absolute", "absoluteX", "absoluteY"} -> WordAt(PC + 1)
      [] DocMode = "indirX" -> ZeroPageWord(Load(PC + 1) + X)
      [] DocMode = "indirY" -> ZeroPageWord(Load(PC + 1))

DocIndex ==
    CASE DocMode \in {"zeropageX", "absoluteX"} -> X
      [] DocMode \in {"zeropageY", "absoluteY", "indirY"} -> Y
      [] OTHER -> 0

DocAddress ==
    CASE DocMode = "immediate" -> NoAddr
      [] DocMode \in {"zeropage", "zeropageX", "zeropageY"} ->
            (DocBase + DocIndex) % 256
      [] OTHER -> Wrap16(DocBase + DocIndex)

\* Where the code departs from that: a carry out of the low byte does not
\* reach an odd page, so that the access stays in the page of the base.
CarryLost == /\ DocMode \in {"absoluteX", "absoluteY", "indirY"}
             /\ (DocBase % 256) + DocIndex >= 256
             /\ (DocBase \div 256) % 2 = 1

\* The accesses a documented instruction makes, by mem_rwb.
DocAccesses ==
    CASE DocMode \in NoOperand -> <<>>
      [] DocMode \notin NoOperand /\ aaa = 4 -> <<0>>
      [] DocMode \notin NoOperand /\ cc = 2 /\ aaa \notin {4, 5} -> <<2, 2>>
      [] OTHER -> <<1>>

BRK == 0   PHP == 8    JSR == 32  PLP == 40  RTI == 64   PHA == 72
JMP == 76  JMPind == 108
CLI == 88  RTS == 96   PLA == 104 SEI == 120 DEY == 136  TXS == 154
CLV == 184 INY == 200  CLD == 216 INX == 232 CPXabs == 236 SED == 248

\* The next step executes a documented instruction.
Executes == st = "run" /\ PC # 65535 /\ DocMode # "undocumented"

\* A branch is taken if the flag it asks for is set, or clear: BPL and BMI
\* ask for N, BVC and BVS for V, BCC and BCS for C, BNE and BEQ for Z.
Tested == CASE aaa \in {0, 1} -> "N" [] aaa \in {2, 3} -> "V"
            [] aaa \in {4, 5} -> "C" [] aaa \in {6, 7} -> "Z"
Taken == Tested \in P <=> aaa \in {1, 3, 5, 7}

\* Where a control instruction goes, all but JMP ().  One departure of the code
\* is in it: RTS goes to the address it pulls, to which the documentation (line
\* 972) has it add one.
Target == CASE op \in {JSR, JMP} -> WordAt(PC + 1)
            [] op = BRK -> WordAt(65534)
            [] op = RTS -> PulledWord(1)
            [] op = RTI -> PulledWord(2)

\* A JSR in page 1 whose push overwrites its own operand.
OverwritesOperand ==
    op = JSR /\ \E n \in 1..2 : FreeCell(n) \in {PC + 1, PC + 2}

\* Where a documented instruction leaves PC.
Continues ==
    CASE DocMode = "control" -> Target
      [] DocMode = "relative" ->
            Wrap16(PC + 2 + (IF Taken THEN Signed(Load(PC + 1)) ELSE 0))
      [] OTHER -> Wrap16(PC + Length)

-----------------------------------------------------------------------------
(***************************************************************************)
(* A documented instruction leaves the CPU running, at the next            *)
(* instruction or, if it is a branch that is taken, a jump, a call, a      *)
(* break or a return, at its target.  (The opcode table and the switch of  *)
(* every group function, whose PC++ and addrDecode must add up.)  Two may  *)
(* go elsewhere: a JSR that overwrites its operand, and JMP (), for which  *)
(* funcs.c:97 loads one byte where the documentation (lines 793 to 797)    *)
(* and the comment above it have a pointer of two.                         *)
(***************************************************************************)
Advances == [][
    Executes =>
      /\ st' = "run"
      /\ op # JMPind /\ ~OverwritesOperand => PC' = Continues]_vars

(***************************************************************************)
(* A documented instruction asks the bus for the accesses of its kind, at  *)
(* its effective address, but for two departures of the code: a carry does *)
(* not reach an odd page (IndexIsAdded), and $EC, in the row "Absolute" of *)
(* the documentation (line 80), is decoded as indexed by X (6502.c:26).    *)
(* The accesses are the requests of this bus: one for a register that is   *)
(* read or written, two for a read-modify-write.                           *)
(***************************************************************************)
BusFollowsDocs == [][
    Executes /\ op # CPXabs =>
      /\ Len(bus') = Len(DocAccesses)
      /\ \A i \in 1..Len(bus') :
           /\ bus'[i].rwb = DocAccesses[i]
           /\ bus'[i].addr = IF CarryLost THEN Wrap16(DocAddress - 256)
                                          ELSE DocAddress]_vars

(***************************************************************************)
(* Every change of memory by a documented instruction is a push into page  *)
(* 1 or the cell of a write that the bus is told of: the chips miss none.  *)
(* ($82, $89 and the like, which store into their own operand, are         *)
(* undocumented.)                                                          *)
(***************************************************************************)
WritesReachBus == [][
    Executes =>
      \A a \in DOMAIN mem' : LoadFrom(mem', a) # Load(a) =>
        \/ op \in {BRK, PHP, JSR, PHA} /\ a \in 256..511
        \/ \E i \in 1..Len(bus') : bus'[i].addr = a /\ bus'[i].rwb # 1]_vars

\* INX, INY and DEY whose result is 0 clear every flag.
CountsToZero == \/ op = INX /\ X = 255
                \/ op = INY /\ Y = 255
                \/ op = DEY /\ Y = 1

\* The flags a documented instruction may change besides N, Z and C.  BRK,
\* which is documented to set I (line 888), may do so; the code does not.
MayTouch ==
    CASE op \in {PLP, RTI} -> Flag
      [] op \in {CLD, SED} -> {"D"}
      [] op \in {BRK, CLI, SEI} -> {"I"}
      [] op = CLV \/ (cc = 1 /\ aaa \in {3, 7}) -> {"V"}
      [] DocMode # "control" /\ cc = 0 /\ aaa = 1 /\ bbb \in {1, 3} -> {"V"}
      [] OTHER -> {}

\* V, D, I and the bits without a meaning are changed by the instructions for
\* them only, INX, INY and DEY excepted when they reach 0 (BitFiveIsOne).
FlagsKept == [][
    Executes /\ ~CountsToZero =>
      ((P \ P') \cup (P' \ P)) \ {"N", "Z", "C"} \subseteq MayTouch]_vars

\* N and Z describe a value.
Describes(p, v) == /\ "N" \in p <=> v >= 128
                   /\ "Z" \in p <=> v = 0

\* LDX, and LSR A, whose N is that of before.
LDX == {162, 166, 174, 182, 190}
LSRA == 74

(***************************************************************************)
(* N and Z describe a register after an instruction that has changed it.   *)
(* The exceptions depart from the documentation: LDX and PLA, which leave  *)
(* the flags alone (LoadsSetN; lines 170 to 173 say it of every load), LSR *)
(* A, which keeps an N that it is documented to clear (lines 1469, 1528),  *)
(* and INX, INY and DEY to 0 (BitFiveIsOne).  The flags of ADC and SBC are *)
(* in MCAlu.                                                               *)
(***************************************************************************)
FlagsFollowRegisters == [][
    (Executes /\ ~CountsToZero /\ op \notin LDX \cup {PLA, LSRA}) =>
      /\ (A' # A /\ ~(cc = 1 /\ aaa \in {3, 7})) => Describes(P', A')
      /\ (X' # X) => Describes(P', X')
      /\ (Y' # Y) => Describes(P', Y')]_vars

-----------------------------------------------------------------------------
\* Statements about the program that the code does not keep.

\* sim.c:171: "Initialize processor status (bit 5 is always 1)".
\* Neither PLP nor RTI, which take what the program has on the stack.
BitFiveIsOne == [][
    (Executes /\ op \notin {PLP, RTI} /\ "U" \in P) => "U" \in P']_vars

\* funcs.c:81 and 89: "X-Register is added to this absolute address".
IndexIsAdded == [][
    Executes /\ DocMode \in {"absoluteX", "absoluteY"} /\ bus' # <<>> =>
      bus'[1].addr = DocAddress]_vars

\* docs/6502.proc.info: N "will be set after any arithmetic operations (when
\* any of the registers A, X or Y is being loaded with a value)" and is
\* "copied from the topmost bit of the register being loaded".
LoadsSetN == [][
    (Executes /\ X' # X) => ("N" \in P' <=> X' >= 128)]_vars
=============================================================================
