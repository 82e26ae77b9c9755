------------------------------- MODULE MCAlu --------------------------------
(***************************************************************************)
(* Alu against what its instructions are for, over all operands: the test  *)
(* programs dectest.s and cmptest.s loop over the same space.  The         *)
(* operand runs through all bytes for each accumulator, carry and mode.    *)
(* N, V and Z are up before, so that one that is not lowered shows.        *)
(***************************************************************************)
EXTENDS Alu

VARIABLES a, m, p   \* accumulator, operand, status before the instruction

vars == <<a, m, p>>

Init == /\ a \in Byte
        /\ m = 0
        /\ p \in { {"N", "V", "Z", "U"} \cup s : s \in SUBSET {"C", "D"} }

NextOperand == /\ m < 255
               /\ m' = m + 1
               /\ UNCHANGED <<a, p>>

Spec == Init /\ [][NextOperand]_vars

-----------------------------------------------------------------------------
c == Carry(p)

IsBcd(b) == b % 16 <= 9 /\ b \div 16 <= 9
Dec(b) == 10 * (b \div 16) + (b % 16)

Fits(e) == e \in -128..127

\* Binary addition: the result, the carry as its ninth bit, the overflow of
\* the signed sum, and the sign of the result.
AdcAdds ==
    "D" \notin p =>
    LET r == Adc(p, a, m) IN
    /\ r.val + 256 * Carry(r.P) = a + m + c
    /\ "V" \in r.P <=> ~Fits(Signed(a) + Signed(m) + c)
    /\ "N" \in r.P <=> r.val >= 128

\* Decimal addition: two BCD operands give the BCD sum and its carry.
AdcAddsDecimal ==
    "D" \in p /\ IsBcd(a) /\ IsBcd(m) =>
    LET r == Adc(p, a, m) IN
    /\ IsBcd(r.val)
    /\ Dec(r.val) + 100 * Carry(r.P) = Dec(a) + Dec(m) + c

\* Binary subtraction: the result, the borrow and the overflow of the signed
\* difference; without overflow N is bit 7 of the result, and without borrow
\* Z says whether it is 0.  The code departs from docs/6502.proc.info in the
\* rest: there N is bit 7 in any case (lines 172 and 716), but funcs.c:640
\* takes the sign of the exact difference; and a difference of -256, which
\* loads A with 0, does not set Z (line 260) at funcs.c:649.
SbcSubtracts ==
    "D" \notin p =>
    LET r == Sbc(p, a, m) IN
    /\ r.val - 256 * (1 - Carry(r.P)) = a - m - (1 - c)
    /\ "V" \in r.P <=> ~Fits(Signed(a) - Signed(m) - (1 - c))
    /\ "V" \notin r.P => ("N" \in r.P <=> r.val >= 128)
    /\ "C" \in r.P => ("Z" \in r.P <=> r.val = 0)

\* Decimal subtraction of BCD operands, and flags that do not depend on the
\* mode, whatever the operands.
SbcSubtractsDecimal ==
    "D" \in p =>
    LET r == Sbc(p, a, m) IN
    /\ IsBcd(a) /\ IsBcd(m) =>
         /\ IsBcd(r.val)
         /\ Dec(r.val) - 100 * (1 - Carry(r.P)) = Dec(a) - Dec(m) - (1 - c)
    /\ r.P \ {"D"} = Sbc(p \ {"D"}, a, m).P

\* A comparison is the subtraction without borrow in binary mode that stores
\* nothing, and leaves the flags alone that say nothing of it.  Its N is bit 7
\* of the difference if that fits a signed byte; if not, the code departs from
\* docs/6502.proc.info, where N is bit 7 in any case (lines 273 to 276 and
\* 716): funcs.c:593 takes the borrow.
CompareIsSbc ==
    LET P == Compare(p, a, m)
        s == Sbc((p \cup {"C"}) \ {"D"}, a, m).P
    IN  /\ P \cap {"C", "Z"} = s \cap {"C", "Z"}
        /\ Fits(a - m) => ("N" \in P <=> (a - m) % 256 >= 128)
        /\ P \ {"N", "Z", "C"} = p \ {"N", "Z", "C"}

\* The rotations are a rotation of nine bits and its inverse, and the shifts
\* the rotations with the carry clear, but for N after LSR: the code keeps it,
\* docs/6502.proc.info (lines 1469 and 1528) has it cleared.
RotationsInvert ==
    LET l == Rol(p, a)
        r == Ror(p, a)
        clear == p \ {"C"}
    IN  /\ Ror(l.P, l.val).val = a /\ Carry(Ror(l.P, l.val).P) = c
        /\ Rol(r.P, r.val).val = a /\ Carry(Rol(r.P, r.val).P) = c
        /\ l.val + 256 * Carry(l.P) = 2 * a + c
        /\ Asl(p, a) = Rol(clear, a)
        /\ Lsr(p, a).val = Ror(clear, a).val
        /\ Lsr(p, a).P \ {"N"} = Ror(clear, a).P \ {"N"}

-----------------------------------------------------------------------------
\* Statements about the program that the code does not keep.

\* dectest2.s: 89 + 76 and C=1 gives 66 and N=0 V=0 Z=1 C=1
AdcZeroAsBinary == "Z" \in Adc(p, a, m).P <=> (a + m + c) % 256 = 0
=============================================================================
