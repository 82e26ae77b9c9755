-------------------------------- MODULE Alu ---------------------------------
(***************************************************************************)
(* The arithmetic of the CPU as the instruction functions of funcs.c       *)
(* compute it: for each, the value produced and the processor status.      *)
(*                                                                         *)
(* A byte is a number below 256.  The status register is the set of its    *)
(* flags that are 1; "U" is bit 5, the unused one.  A mask F_MASK_x of     *)
(* 6502.h keeps every flag but those of x.                                 *)
(***************************************************************************)
EXTENDS Integers

Byte == 0..255

Flag == {"N", "V", "U", "B", "D", "I", "Z", "C"}

\* Bit of weight w.
Bit(x, w) == (x \div w) % 2

\* The byte whose bit of weight w is f(w), for f with values 0 and 1.
ByteOfBits(f(_)) ==
    f(1) + 2 * f(2) + 4 * f(4) + 8 * f(8)
         + 16 * f(16) + 32 * f(32) + 64 * f(64) + 128 * f(128)

BitAnd(a, b) == LET both(w) == Bit(a, w) * Bit(b, w)
                IN  ByteOfBits(both)
BitXor(a, b) == LET differ(w) == (Bit(a, w) + Bit(b, w)) % 2
                IN  ByteOfBits(differ)
BitOr(a, b) == a + b - BitAnd(a, b)

\* The byte of a status register and the status register of a byte: what
\* PHP and PLP move.
FlagOf(w) == CASE w = 128 -> "N" [] w = 64 -> "V" [] w = 32 -> "U"
               [] w = 16 -> "B"  [] w = 8 -> "D"  [] w = 4 -> "I"
               [] w = 2 -> "Z"   [] w = 1 -> "C"

StatusByte(P) == LET isSet(w) == IF FlagOf(w) \in P THEN 1 ELSE 0
                 IN  ByteOfBits(isSet)

StatusOf(b) ==
    { FlagOf(w) : w \in { v \in {1, 2, 4, 8, 16, 32, 64, 128} : Bit(b, v) = 1 } }

-----------------------------------------------------------------------------
\* Where a flag is raised: f if the condition holds.
If(cond, f) == IF cond THEN {f} ELSE {}

Carry(P) == IF "C" \in P THEN 1 ELSE 0

\* Seeded faults: no mask; a mask that clears bit 5 too.
SetNZUnmasked(P, v) == P \cup If(v >= 128, "N") \cup If(v = 0, "Z")

SetNZWrongMask(P, v) ==
    (P \ {"N", "U", "Z"}) \cup If(v >= 128, "N") \cup If(v = 0, "Z")

\* cpu.P &= F_MASK_NZ; cpu.P |= v & 0x80; if (!v) cpu.P |= F_Z
SetNZ(P, v) == (P \ {"N", "Z"}) \cup If(v >= 128, "N") \cup If(v = 0, "Z")

(***************************************************************************)
(* INX, INY and DEY.  The flags that come out for a result of 0 are those  *)
(* of `cpu.P &= F_Z' on a status that has just lost its Z.                 *)
(***************************************************************************)
StepNZ(P, v) ==
    IF v = 0 THEN (P \ {"N", "Z"}) \cap {"Z"}
    ELSE (P \ {"N", "Z"}) \cup If(v >= 128, "N")

Increment(P, v) == LET r == (v + 1) % 256 IN [val |-> r, P |-> StepNZ(P, r)]
Decrement(P, v) == LET r == (v - 1) % 256 IN [val |-> r, P |-> StepNZ(P, r)]

\* Seeded faults: the low digit 10 is not corrected; V without the overflow of
\* two negative operands, and no decimal mode.
AdcLateCorrection(P, A, m) ==
    LET c   == Carry(P)
        low == (A % 16) + (m % 16) + c
        dec == "D" \in P
        fix == IF low > 10 /\ dec THEN ((low + 6) % 16) + 16 ELSE low
        mid == fix + (A - (A % 16)) + (m - (m % 16))
        erg == IF mid >= 160 /\ dec THEN mid + 96 ELSE mid
        V   == \/ A < 128 /\ m < 128 /\ mid >= 128
               \/ A >= 128 /\ m >= 128 /\ mid % 256 < 128
    IN  [val |-> erg % 256,
         P |-> (P \ {"N", "V", "Z", "C"})
                 \cup If(Bit(mid, 128) = 1, "N") \cup If(V, "V")
                 \cup If(erg >= 256, "C") \cup If(A + m + c = 0, "Z")]

AdcPositiveOverflow(P, A, m) ==
    LET c == Carry(P)
        r == A + m + c
    IN  [val |-> r % 256,
         P |-> (P \ {"N", "V", "Z", "C"})
                 \cup If(Bit(r, 128) = 1, "N")
                 \cup If(A < 128 /\ m < 128 /\ r >= 128, "V")
                 \cup If(r >= 256, "C") \cup If(r = 0, "Z")]

(***************************************************************************)
(* ADC.  In decimal mode the low digit is corrected before the high digits *)
(* are added, N and V are taken next, and the high digit corrected last.   *)
(***************************************************************************)
Adc(P, A, m) ==
    LET c   == Carry(P)
        low == (A % 16) + (m % 16) + c
        dec == "D" \in P
        fix == IF low >= 10 /\ dec THEN ((low + 6) % 16) + 16 ELSE low
        mid == fix + (A - (A % 16)) + (m - (m % 16))
        erg == IF mid >= 160 /\ dec THEN mid + 96 ELSE mid
        V   == \/ A < 128 /\ m < 128 /\ mid >= 128
               \/ A >= 128 /\ m >= 128 /\ mid % 256 < 128
    IN  [val |-> erg % 256,
         P |-> (P \ {"N", "V", "Z", "C"})
                 \cup If(Bit(mid, 128) = 1, "N") \cup If(V, "V")
                 \cup If(erg >= 256, "C") \cup If(A + m + c = 0, "Z")]

Signed(b) == IF b < 128 THEN b ELSE b - 256

\* Seeded faults: the carry of 255; no correction of the high digit.
SbcCarryOffByOne(P, A, m) ==
    LET c   == Carry(P)
        low == (A % 16) - (m % 16) + c - 1
        dec == "D" \in P
        fix == IF low < 0 /\ dec THEN ((low - 6) % 16) - 16 ELSE low
        mid == fix + (A - (A % 16)) - (m - (m % 16))
        erg == IF mid < 0 /\ dec THEN mid - 96 ELSE mid
        e   == Signed(A) - Signed(m) + c - 1
        cz  == (A - m + c - 1) % 65536
    IN  [val |-> erg % 256,
         P |-> (P \ {"N", "V", "Z", "C"})
                 \cup If(e < -128 \/ e > 127, "V") \cup If(e < 0, "N")
                 \cup If(cz < 255, "C") \cup If(cz = 0, "Z")]

SbcHighUncorrected(P, A, m) ==
    LET c   == Carry(P)
        low == (A % 16) - (m % 16) + c - 1
        dec == "D" \in P
        fix == IF low < 0 /\ dec THEN ((low - 6) % 16) - 16 ELSE low
        mid == fix + (A - (A % 16)) - (m - (m % 16))
        erg == mid
        e   == Signed(A) - Signed(m) + c - 1
        cz  == (A - m + c - 1) % 65536
    IN  [val |-> erg % 256,
         P |-> (P \ {"N", "V", "Z", "C"})
                 \cup If(e < -128 \/ e > 127, "V") \cup If(e < 0, "N")
                 \cup If(cz <= 255, "C") \cup If(cz = 0, "Z")]

(***************************************************************************)
(* SBC.  N and V come from the difference of the signed operands, C and Z  *)
(* from that of the unsigned ones (computed in 16 bits).                   *)
(***************************************************************************)
Sbc(P, A, m) ==
    LET c   == Carry(P)
        low == (A % 16) - (m % 16) + c - 1
        dec == "D" \in P
        fix == IF low < 0 /\ dec THEN ((low - 6) % 16) - 16 ELSE low
        mid == fix + (A - (A % 16)) - (m - (m % 16))
        erg == IF mid < 0 /\ dec THEN mid - 96 ELSE mid
        e   == Signed(A) - Signed(m) + c - 1
        cz  == (A - m + c - 1) % 65536
    IN  [val |-> erg % 256,
         P |-> (P \ {"N", "V", "Z", "C"})
                 \cup If(e < -128 \/ e > 127, "V") \cup If(e < 0, "N")
                 \cup If(cz <= 255, "C") \cup If(cz = 0, "Z")]

\* Seeded fault: no carry when the operands are equal.
CompareStrict(P, r, m) ==
    (P \ {"N", "Z", "C"})
      \cup If(r < m, "N") \cup If(r = m, "Z") \cup If(r > m, "C")

\* CMP, CPX, CPY: N is the sign of the difference of the unsigned operands.
Compare(P, r, m) ==
    (P \ {"N", "Z", "C"})
      \cup If(r < m, "N") \cup If(r = m, "Z") \cup If(r >= m, "C")

\* BIT: Z is raised but never lowered; N and V are bits 7 and 6.
BitTest(P, A, m) ==
    ((P \cup If(BitAnd(m, A) = 0, "Z")) \ {"N", "V"})
      \cup If(Bit(m, 128) = 1, "N") \cup If(Bit(m, 64) = 1, "V")

Asl(P, m) == LET r == (2 * m) % 256 IN
    [val |-> r,
     P |-> (P \ {"N", "Z", "C"}) \cup If(m >= 128, "C") \cup If(r >= 128, "N")
             \cup If(r = 0, "Z")]

\* Seeded fault: the carry is replaced before it is rotated in.
RolNewCarry(P, m) == LET r == ((2 * m) % 256) + (m \div 128) IN
    [val |-> r,
     P |-> (P \ {"N", "Z", "C"}) \cup If(m >= 128, "C") \cup If(r >= 128, "N")
             \cup If(r = 0, "Z")]

Rol(P, m) == LET r == ((2 * m) % 256) + Carry(P) IN
    [val |-> r,
     P |-> (P \ {"N", "Z", "C"}) \cup If(m >= 128, "C") \cup If(r >= 128, "N")
             \cup If(r = 0, "Z")]

\* LSR keeps N: its mask is F_MASK_ZC.
Lsr(P, m) == LET r == m \div 2 IN
    [val |-> r,
     P |-> (P \ {"Z", "C"}) \cup If(m % 2 = 1, "C") \cup If(r = 0, "Z")]

Ror(P, m) == LET r == (m \div 2) + 128 * Carry(P) IN
    [val |-> r,
     P |-> (P \ {"N", "Z", "C"}) \cup If(m % 2 = 1, "C") \cup If(r >= 128, "N")
             \cup If(r = 0, "Z")]
=============================================================================
