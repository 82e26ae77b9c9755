----------------------------- MODULE AluLemmas ------------------------------
(***************************************************************************)
(* What the instruction functions of funcs.c return, for every operand     *)
(* and every status register: bytes, and flags out of those that there     *)
(* are; and what ADC and SBC return, part by part.                         *)
(***************************************************************************)
EXTENDS Alu, TLAPS

\* A byte is put together of its two digits, which decimal mode adds apart.
LEMMA Nibbles == \A b \in Byte : /\ b % 16 \in 0..15
                                 /\ b \div 16 \in 0..15
                                 /\ b = 16 * (b \div 16) + (b % 16)
    BY DEF Byte

\* The carry that an instruction adds is 0 or 1.
LEMMA CarryIsBit == \A p : Carry(p) \in {0, 1}
    BY DEF Carry

\* What is cut to uint8_t is a byte.
LEMMA Mod256 == \A i \in Int : i % 256 \in Byte
    BY DEF Byte

\* A bit is 0 or 1.
LEMMA BitIsBit == \A x \in Nat, w \in Nat \ {0} : Bit(x, w) \in {0, 1}
    BY DEF Bit

\* Bit 7 of a sum is set just when its low byte is at least 128.
LEMMA TopBit == \A x \in Int : Bit(x, 128) = 1 <=> x % 256 >= 128
    BY DEF Bit

\* Taking N and Z from a byte leaves flags that there are.
LEMMA SetNZType == \A p \in SUBSET Flag, v \in Byte : SetNZ(p, v) \subseteq Flag
    BY DEF SetNZ, If, Flag

\* So do INX, INY and DEY.
LEMMA StepNZType == \A p \in SUBSET Flag, v \in Byte : StepNZ(p, v) \subseteq Flag
    BY DEF StepNZ, If, Flag

\* So do CMP, CPX and CPY.
LEMMA CompareType ==
    \A p \in SUBSET Flag, r, m \in Byte : Compare(p, r, m) \subseteq Flag
    BY DEF Compare, If, Flag

\* So does BIT.
LEMMA BitTestType ==
    \A p \in SUBSET Flag, a, m \in Byte : BitTest(p, a, m) \subseteq Flag
    BY DEF BitTest, If, Flag

\* The shifts and rotations return a byte and flags that there are.
LEMMA ShiftType ==
    ASSUME NEW p \in SUBSET Flag, NEW m \in Byte
    PROVE  /\ Asl(p, m).val \in Byte /\ Asl(p, m).P \subseteq Flag
           /\ Rol(p, m).val \in Byte /\ Rol(p, m).P \subseteq Flag
           /\ Lsr(p, m).val \in Byte /\ Lsr(p, m).P \subseteq Flag
           /\ Ror(p, m).val \in Byte /\ Ror(p, m).P \subseteq Flag
<1>1. Asl(p, m).val \in Byte /\ Asl(p, m).P \subseteq Flag
    BY DEF Asl, If, Flag, Byte
<1>2. Rol(p, m).val \in Byte /\ Rol(p, m).P \subseteq Flag
    BY DEF Rol, If, Flag, Byte, Carry
<1>3. Lsr(p, m).val \in Byte /\ Lsr(p, m).P \subseteq Flag
    BY DEF Lsr, If, Flag, Byte
<1>4. Ror(p, m).val \in Byte /\ Ror(p, m).P \subseteq Flag
    BY DEF Ror, If, Flag, Byte, Carry
<1> QED
    BY <1>1, <1>2, <1>3, <1>4

\* AND of two bytes is a byte.
LEMMA AndType == \A a, b \in Byte : BitAnd(a, b) \in Byte
    BY DEF BitAnd, ByteOfBits, Bit, Byte
\* EOR of two bytes is a byte.
LEMMA XorType == \A a, b \in Byte : BitXor(a, b) \in Byte
    BY DEF BitXor, ByteOfBits, Bit, Byte

\* A byte is the sum of its bits.
LEMMA ByteFromBits ==
    ASSUME NEW b \in Byte
    PROVE  b = Bit(b, 1) + 2 * Bit(b, 2) + 4 * Bit(b, 4) + 8 * Bit(b, 8)
                 + 16 * Bit(b, 16) + 32 * Bit(b, 32) + 64 * Bit(b, 64)
                 + 128 * Bit(b, 128)
    BY SMTT(30) DEF Bit, Byte

\* ORA of two bytes is a byte: their sum without the bits they share.
LEMMA OrType == \A a, b \in Byte : BitOr(a, b) \in Byte
<1> SUFFICES ASSUME NEW a \in Byte, NEW b \in Byte
             PROVE  BitOr(a, b) \in Byte
    OBVIOUS
<1> DEFINE x(w) == Bit(a, w)
           y(w) == Bit(b, w)
           both(w) == x(w) * y(w)
           weights == {1, 2, 4, 8, 16, 32, 64, 128}
<1>1. BitOr(a, b) = a + b - (both(1) + 2 * both(2) + 4 * both(4) + 8 * both(8)
           + 16 * both(16) + 32 * both(32) + 64 * both(64) + 128 * both(128))
    BY DEF BitOr, BitAnd, ByteOfBits
<1>2. \A w \in weights : x(w) \in {0, 1} /\ y(w) \in {0, 1}
    BY BitIsBit DEF Byte
<1>3. \A w \in weights : /\ both(w) \in {0, 1}
                          /\ x(w) + y(w) - both(w) \in {0, 1}
    <2> HIDE DEF x, y
    <2> QED BY <1>2
<1>4. /\ a = x(1) + 2 * x(2) + 4 * x(4) + 8 * x(8)
             + 16 * x(16) + 32 * x(32) + 64 * x(64) + 128 * x(128)
      /\ b = y(1) + 2 * y(2) + 4 * y(4) + 8 * y(8)
             + 16 * y(16) + 32 * y(32) + 64 * y(64) + 128 * y(128)
    BY ByteFromBits
<1> HIDE DEF x, y, both
<1> DEFINE either(w) == x(w) + y(w) - both(w)
<1>5. BitOr(a, b) = either(1) + 2 * either(2) + 4 * either(4) + 8 * either(8)
                      + 16 * either(16) + 32 * either(32) + 64 * either(64)
                      + 128 * either(128)
    <2>1. \A w \in weights : x(w) \in Int /\ y(w) \in Int /\ both(w) \in Int
        BY <1>2, <1>3
    <2>2. /\ x(1) \in Int /\ x(2) \in Int /\ x(4) \in Int /\ x(8) \in Int
          /\ x(16) \in Int /\ x(32) \in Int /\ x(64) \in Int /\ x(128) \in Int
          /\ y(1) \in Int /\ y(2) \in Int /\ y(4) \in Int /\ y(8) \in Int
          /\ y(16) \in Int /\ y(32) \in Int /\ y(64) \in Int /\ y(128) \in Int
          /\ both(1) \in Int /\ both(2) \in Int /\ both(4) \in Int
          /\ both(8) \in Int /\ both(16) \in Int /\ both(32) \in Int
          /\ both(64) \in Int /\ both(128) \in Int
        BY <2>1
    <2> QED BY <1>1, <1>4, <2>2
<1>6. /\ either(1) \in {0, 1} /\ either(2) \in {0, 1} /\ either(4) \in {0, 1}
      /\ either(8) \in {0, 1} /\ either(16) \in {0, 1} /\ either(32) \in {0, 1}
      /\ either(64) \in {0, 1} /\ either(128) \in {0, 1}
    BY <1>3
<1> HIDE DEF either
<1> QED
    BY <1>5, <1>6 DEF Byte

\* PHP and BRK push a byte.
LEMMA StatusByteType == \A p : StatusByte(p) \in Byte
    BY DEF StatusByte, ByteOfBits, Byte
\* PLP and RTI pull flags that there are.
LEMMA StatusOfType == \A b \in Byte : StatusOf(b) \subseteq Flag
    BY DEF StatusOf, Flag, FlagOf

-----------------------------------------------------------------------------
\* The sums inside Adc and the differences inside Sbc, by their own names.
Tens(b) == b - (b % 16)
AdcLow(p, a, m) == (a % 16) + (m % 16) + Carry(p)
AdcFix(p, a, m) == IF AdcLow(p, a, m) >= 10 /\ "D" \in p
                     THEN ((AdcLow(p, a, m) + 6) % 16) + 16 ELSE AdcLow(p, a, m)
AdcMid(p, a, m) == AdcFix(p, a, m) + Tens(a) + Tens(m)
AdcErg(p, a, m) == IF AdcMid(p, a, m) >= 160 /\ "D" \in p
                     THEN AdcMid(p, a, m) + 96 ELSE AdcMid(p, a, m)

SbcLow(p, a, m) == (a % 16) - (m % 16) + Carry(p) - 1
SbcFix(p, a, m) == IF SbcLow(p, a, m) < 0 /\ "D" \in p
                     THEN ((SbcLow(p, a, m) - 6) % 16) - 16 ELSE SbcLow(p, a, m)
SbcMid(p, a, m) == SbcFix(p, a, m) + Tens(a) - Tens(m)
SbcErg(p, a, m) == IF SbcMid(p, a, m) < 0 /\ "D" \in p
                     THEN SbcMid(p, a, m) - 96 ELSE SbcMid(p, a, m)
SbcExact(p, a, m) == Signed(a) - Signed(m) + Carry(p) - 1
SbcUnsigned(p, a, m) == (a - m + Carry(p) - 1) % 65536

\* ADC: its result, each of its flags, and the flags that it keeps.
LEMMA AdcParts ==
    ASSUME NEW p, NEW a, NEW m
    PROVE  /\ Adc(p, a, m).val = AdcErg(p, a, m) % 256
           /\ "C" \in Adc(p, a, m).P <=> AdcErg(p, a, m) >= 256
           /\ "Z" \in Adc(p, a, m).P <=> a + m + Carry(p) = 0
           /\ "N" \in Adc(p, a, m).P <=> Bit(AdcMid(p, a, m), 128) = 1
           /\ "V" \in Adc(p, a, m).P <=>
                \/ a < 128 /\ m < 128 /\ AdcMid(p, a, m) >= 128
                \/ a >= 128 /\ m >= 128 /\ AdcMid(p, a, m) % 256 < 128
           /\ Adc(p, a, m).P \subseteq p \cup {"N", "V", "Z", "C"}
           /\ p \ {"N", "V", "Z", "C"} \subseteq Adc(p, a, m).P
    BY DEF Adc, If, AdcErg, AdcMid, AdcFix, AdcLow, Tens

\* SBC: its result, each of its flags, and the flags that it keeps.
LEMMA SbcParts ==
    ASSUME NEW p, NEW a, NEW m
    PROVE  /\ Sbc(p, a, m).val = SbcErg(p, a, m) % 256
           /\ "C" \in Sbc(p, a, m).P <=> SbcUnsigned(p, a, m) <= 255
           /\ "Z" \in Sbc(p, a, m).P <=> SbcUnsigned(p, a, m) = 0
           /\ "N" \in Sbc(p, a, m).P <=> SbcExact(p, a, m) < 0
           /\ "V" \in Sbc(p, a, m).P <=> \/ SbcExact(p, a, m) < -128
                                         \/ SbcExact(p, a, m) > 127
           /\ Sbc(p, a, m).P \subseteq p \cup {"N", "V", "Z", "C"}
           /\ p \ {"N", "V", "Z", "C"} \subseteq Sbc(p, a, m).P
    BY SMTT(30) DEF Sbc, If, SbcErg, SbcMid, SbcFix, SbcLow, SbcExact, SbcUnsigned, Tens

\* ADC returns a byte and flags that there are.
LEMMA AdcType ==
    ASSUME NEW p \in SUBSET Flag, NEW a \in Byte, NEW m \in Byte
    PROVE  Adc(p, a, m).val \in Byte /\ Adc(p, a, m).P \subseteq Flag
<1>1. /\ a % 16 \in Int /\ m % 16 \in Int /\ Carry(p) \in Int
      /\ Tens(a) \in Int /\ Tens(m) \in Int
    BY CarryIsBit DEF Tens, Byte
<1>2. AdcFix(p, a, m) \in Int
    BY <1>1 DEF AdcFix, AdcLow
<1>3. AdcErg(p, a, m) \in Int
    BY <1>1, <1>2 DEF AdcErg, AdcMid
<1>4. Adc(p, a, m).P \subseteq p \cup {"N", "V", "Z", "C"}
    BY AdcParts
<1>5. AdcErg(p, a, m) % 256 \in Byte
    BY <1>3, Mod256
<1>6. Adc(p, a, m).val \in Byte
    BY <1>5, AdcParts
<1> QED
    BY <1>4, <1>6 DEF Flag

\* SBC returns a byte and flags that there are.
LEMMA SbcType ==
    ASSUME NEW p \in SUBSET Flag, NEW a \in Byte, NEW m \in Byte
    PROVE  Sbc(p, a, m).val \in Byte /\ Sbc(p, a, m).P \subseteq Flag
<1>1. /\ a % 16 \in Int /\ m % 16 \in Int /\ Carry(p) \in Int
      /\ Tens(a) \in Int /\ Tens(m) \in Int
    BY CarryIsBit DEF Tens, Byte
<1>2. SbcFix(p, a, m) \in Int
    BY <1>1 DEF SbcFix, SbcLow
<1>3. SbcErg(p, a, m) \in Int
    BY <1>1, <1>2 DEF SbcErg, SbcMid
<1>4. Sbc(p, a, m).P \subseteq p \cup {"N", "V", "Z", "C"}
    BY SbcParts
<1>5. SbcErg(p, a, m) % 256 \in Byte
    BY <1>3, Mod256
<1>6. Sbc(p, a, m).val \in Byte
    BY <1>5, SbcParts
<1> QED
    BY <1>4, <1>6 DEF Flag
=============================================================================
