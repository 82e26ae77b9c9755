----------------------------- MODULE AluProofs ------------------------------
(***************************************************************************)
(* The arithmetic of funcs.c does what its instructions are for, for all   *)
(* bytes and every status register, with those combinations of flags too   *)
(* that MCAlu does not run through.                                        *)
(***************************************************************************)
EXTENDS MCAlu, AluLemmas

AluTypeOK == a \in Byte /\ m \in Byte /\ p \in SUBSET Flag

\* Two halves of a byte.
LEMMA Halves ==
    ASSUME NEW b \in Byte
    PROVE  \E h, l \in 0..15 : /\ b = 16 * h + l
                               /\ b % 16 = l
                               /\ b \div 16 = h
                               /\ Tens(b) = 16 * h
    BY Nibbles DEF Byte, Tens

\* ADC in binary mode adds: result, carry, overflow and sign.
LEMMA AdcAddsAlways == AluTypeOK => AdcAdds
<1> SUFFICES ASSUME AluTypeOK, "D" \notin p
             PROVE  LET r == Adc(p, a, m) IN
                    /\ r.val + 256 * Carry(r.P) = a + m + c
                    /\ "V" \in r.P <=> ~Fits(Signed(a) + Signed(m) + c)
                    /\ "N" \in r.P <=> r.val >= 128
    BY DEF AdcAdds
<1> DEFINE r == Adc(p, a, m)
<1>1. a \in 0..255 /\ m \in 0..255 /\ c \in {0, 1}
    BY CarryIsBit DEF AluTypeOK, Byte, c
<1>2. AdcMid(p, a, m) = a + m + c /\ AdcErg(p, a, m) = a + m + c
    BY <1>1 DEF AdcErg, AdcMid, AdcFix, AdcLow, Tens, c
<1>3. /\ r.val = (a + m + c) % 256
      /\ "C" \in r.P <=> a + m + c >= 256
      /\ "N" \in r.P <=> Bit(a + m + c, 128) = 1
      /\ "V" \in r.P <=> \/ a < 128 /\ m < 128 /\ a + m + c >= 128
                         \/ a >= 128 /\ m >= 128 /\ (a + m + c) % 256 < 128
    BY <1>2, AdcParts
<1>4. Carry(r.P) = IF a + m + c >= 256 THEN 1 ELSE 0
    BY <1>3 DEF Carry
<1> HIDE DEF r
<1>5. r.val + 256 * Carry(r.P) = a + m + c
    BY <1>1, <1>3, <1>4
<1>6. "V" \in r.P <=> ~Fits(Signed(a) + Signed(m) + c)
  <2>1. CASE a < 128 /\ m < 128
    BY <1>1, <1>3, <2>1 DEF Fits, Signed
  <2>2. CASE a >= 128 /\ m >= 128
    BY <1>1, <1>3, <2>2 DEF Fits, Signed
  <2>3. CASE (a < 128 /\ m >= 128) \/ (a >= 128 /\ m < 128)
    BY <1>1, <1>3, <2>3 DEF Fits, Signed
  <2> QED
    BY <1>1, <2>1, <2>2, <2>3
<1>7. "N" \in r.P <=> r.val >= 128
    BY <1>1, <1>3, TopBit
<1> QED
    BY <1>5, <1>6, <1>7 DEF r

\* ADC in decimal mode adds BCD operands: both corrections are enough.
LEMMA AdcAddsDecimalAlways == AluTypeOK => AdcAddsDecimal
<1> SUFFICES ASSUME AluTypeOK, "D" \in p, IsBcd(a), IsBcd(m)
             PROVE  LET r == Adc(p, a, m) IN
                    /\ IsBcd(r.val)
                    /\ Dec(r.val) + 100 * Carry(r.P) = Dec(a) + Dec(m) + c
    BY DEF AdcAddsDecimal
<1> DEFINE r == Adc(p, a, m)
<1>1. c \in {0, 1} /\ c = Carry(p)
    BY CarryIsBit DEF c
<1>2. PICK ah, al \in 0..15 : /\ a = 16 * ah + al /\ a % 16 = al
                              /\ a \div 16 = ah /\ Tens(a) = 16 * ah
    BY Halves DEF AluTypeOK
<1>3. PICK mh, ml \in 0..15 : /\ m = 16 * mh + ml /\ m % 16 = ml
                              /\ m \div 16 = mh /\ Tens(m) = 16 * mh
    BY Halves DEF AluTypeOK
<1>4. ah \in 0..9 /\ al \in 0..9 /\ mh \in 0..9 /\ ml \in 0..9
    BY <1>2, <1>3 DEF IsBcd
<1> DEFINE low == al + ml + c
           fix == IF low >= 10 THEN low + 6 ELSE low
           mid == fix + 16 * ah + 16 * mh
           erg == IF mid >= 160 THEN mid + 96 ELSE mid
<1>5. AdcFix(p, a, m) = fix
    BY <1>1, <1>2, <1>3, <1>4 DEF AdcFix, AdcLow
<1>6. AdcErg(p, a, m) = erg
    <2> HIDE DEF fix
    <2> QED BY <1>2, <1>3, <1>5 DEF AdcErg, AdcMid
<1>7. r.val = erg % 256 /\ Carry(r.P) = IF erg >= 256 THEN 1 ELSE 0
    <2> HIDE DEF erg
    <2> QED BY <1>6, AdcParts DEF Carry
<1> DEFINE l == IF low >= 10 THEN low - 10 ELSE low
           k == IF low >= 10 THEN 1 ELSE 0
           h == IF ah + mh + k >= 10 THEN ah + mh + k - 10 ELSE ah + mh + k
<1>8. l \in 0..9 /\ k \in {0, 1} /\ mid = 16 * (ah + mh + k) + l /\ low = 10 * k + l
    BY <1>1, <1>4
<1>9. /\ h \in 0..9 /\ erg % 256 = 16 * h + l
      /\ erg >= 256 <=> ah + mh + k >= 10
    <2> HIDE DEF l, k, mid
    <2> QED BY <1>4, <1>8
<1>10. (16 * h + l) % 16 = l /\ (16 * h + l) \div 16 = h
    <2> HIDE DEF l, h
    <2> QED BY <1>8, <1>9
<1>11. 10 * h + l + 100 * (IF erg >= 256 THEN 1 ELSE 0)
         = (10 * ah + al) + (10 * mh + ml) + c
    <2> HIDE DEF l, k, erg
    <2> QED BY <1>1, <1>4, <1>8, <1>9
<1> HIDE DEF r, h, l, erg
<1>12. r.val % 16 = l /\ r.val \div 16 = h
    BY <1>7, <1>9, <1>10
<1>13. Dec(r.val) = 10 * h + l /\ Dec(a) = 10 * ah + al /\ Dec(m) = 10 * mh + ml
    BY <1>2, <1>3, <1>12 DEF Dec
<1>14. IsBcd(r.val)
    BY <1>8, <1>9, <1>12 DEF IsBcd
<1>15. Dec(r.val) + 100 * Carry(r.P) = Dec(a) + Dec(m) + c
    BY <1>7, <1>11, <1>13
<1> QED
    BY <1>14, <1>15 DEF r

\* SBC in binary mode subtracts: result, borrow, zero, overflow and sign.
LEMMA SbcSubtractsAlways == AluTypeOK => SbcSubtracts
<1> SUFFICES ASSUME AluTypeOK, "D" \notin p
             PROVE  LET r == Sbc(p, a, m) IN
                    /\ r.val - 256 * (1 - Carry(r.P)) = a - m - (1 - c)
                    /\ "V" \in r.P <=> ~Fits(Signed(a) - Signed(m) - (1 - c))
                    /\ "V" \notin r.P => ("N" \in r.P <=> r.val >= 128)
                    /\ "C" \in r.P => ("Z" \in r.P <=> r.val = 0)
    BY DEF SbcSubtracts
<1> DEFINE r == Sbc(p, a, m)
           d == a - m - (1 - c)
<1>1. a \in 0..255 /\ m \in 0..255 /\ c \in {0, 1} /\ c = Carry(p)
    BY CarryIsBit DEF AluTypeOK, Byte, c
<1>2. /\ SbcErg(p, a, m) = d
      /\ SbcUnsigned(p, a, m) = d % 65536
      /\ SbcExact(p, a, m) = Signed(a) - Signed(m) - (1 - c)
      /\ Signed(a) \in Int /\ Signed(m) \in Int
    BY <1>1 DEF SbcErg, SbcMid, SbcFix, SbcLow, Tens, SbcUnsigned, SbcExact, Signed
<1>3. /\ r.val = d % 256
      /\ "C" \in r.P <=> d % 65536 <= 255
      /\ "Z" \in r.P <=> d % 65536 = 0
      /\ "N" \in r.P <=> Signed(a) - Signed(m) - (1 - c) < 0
      /\ "V" \in r.P <=> ~Fits(Signed(a) - Signed(m) - (1 - c))
    BY <1>1, <1>2, SbcParts DEF Fits
<1>4. d \in -256..255
    BY <1>1, SMTT(30)
<1>5. /\ d % 65536 <= 255 <=> d >= 0
      /\ d % 65536 = 0 <=> d = 0
      /\ d % 256 = IF d = -256 THEN 0 ELSE IF d < 0 THEN d + 256 ELSE d
    <2> HIDE DEF d
    <2> QED BY <1>4
<1>6. Carry(r.P) = IF d >= 0 THEN 1 ELSE 0
    BY <1>3, <1>5 DEF Carry
<1>7. d # -256 \/ (a = 0 /\ m = 255 /\ c = 0)
    BY <1>1
<1> HIDE DEF r
<1>8. "C" \in r.P => ("Z" \in r.P <=> r.val = 0)
    <2> HIDE DEF d
    <2> QED BY <1>3, <1>4, <1>5
<1>9. "V" \notin r.P => ("N" \in r.P <=> r.val >= 128)
  <2> DEFINE e == Signed(a) - Signed(m) - (1 - c)
  <2>1. e \in -256..255 /\ (e = d \/ e = d - 256 \/ e = d + 256)
    <3>1. /\ Signed(a) \in -128..127 /\ (Signed(a) = a \/ Signed(a) = a - 256)
          /\ Signed(m) \in -128..127 /\ (Signed(m) = m \/ Signed(m) = m - 256)
        BY <1>1 DEF Signed
    <3>2. e \in -256..255
        <4> DEFINE x == Signed(a)
                   y == Signed(m)
        <4>1. c \in 0..1 /\ x \in -128..127 /\ y \in -128..127
            BY <1>1, <3>1
        <4> HIDE DEF x, y
        <4>2. x - y - (1 - c) \in -256..255
            BY <4>1, CarryIsBit, SMTT(30)
        <4> QED BY <4>2 DEF x, y
    <3>3. e = d \/ e = d - 256 \/ e = d + 256
        BY <1>1, <3>1
    <3> QED BY <3>2, <3>3
  <2>2. r.val = e % 256
    <3> HIDE DEF e, d
    <3> QED BY <1>3, <1>4, <2>1
  <2>3. e % 256 = IF e >= 0 THEN e ELSE e + 256
    <3> HIDE DEF e
    <3> QED BY <2>1
  <2> HIDE DEF e
  <2> QED
    BY <1>3, <2>1, <2>2, <2>3 DEF Fits, e
<1>10. r.val - 256 * (1 - Carry(r.P)) = a - m - (1 - c)
    BY <1>1, <1>3, <1>4, <1>5, <1>6
<1> QED
    BY <1>3, <1>8, <1>9, <1>10 DEF r

\* SBC takes its flags from the binary difference in either mode.
LEMMA SbcFlagsIgnoreDecimal ==
    ASSUME AluTypeOK
    PROVE  Sbc(p, a, m).P \ {"D"} = Sbc(p \ {"D"}, a, m).P
<1> DEFINE q == p \ {"D"}
<1>1. Carry(q) = Carry(p)
    BY DEF Carry
<1>2. /\ SbcExact(q, a, m) = SbcExact(p, a, m)
      /\ SbcUnsigned(q, a, m) = SbcUnsigned(p, a, m)
    BY <1>1 DEF SbcExact, SbcUnsigned
<1>3. \A f \in {"N", "V", "Z", "C"} : f \in Sbc(p, a, m).P <=> f \in Sbc(q, a, m).P
    <2> HIDE DEF q
    <2> QED BY <1>2, SbcParts
<1> QED
    BY <1>3, SbcParts

\* SBC in decimal mode subtracts BCD operands.
LEMMA SbcSubtractsDecimalAlways == AluTypeOK => SbcSubtractsDecimal
<1> SUFFICES ASSUME AluTypeOK, "D" \in p
             PROVE  LET r == Sbc(p, a, m) IN
                    IsBcd(a) /\ IsBcd(m) =>
                      /\ IsBcd(r.val)
                      /\ Dec(r.val) - 100 * (1 - Carry(r.P))
                           = Dec(a) - Dec(m) - (1 - c)
    BY SbcFlagsIgnoreDecimal DEF SbcSubtractsDecimal
<1> SUFFICES ASSUME IsBcd(a), IsBcd(m)
             PROVE  LET r == Sbc(p, a, m) IN
                    /\ IsBcd(r.val)
                    /\ Dec(r.val) - 100 * (1 - Carry(r.P)) = Dec(a) - Dec(m) - (1 - c)
    OBVIOUS
<1> DEFINE r == Sbc(p, a, m)
<1>1. c \in {0, 1} /\ c = Carry(p)
    BY CarryIsBit DEF c
<1>2. PICK ah, al \in 0..15 : /\ a = 16 * ah + al /\ a % 16 = al
                              /\ a \div 16 = ah /\ Tens(a) = 16 * ah
    BY Halves DEF AluTypeOK
<1>3. PICK mh, ml \in 0..15 : /\ m = 16 * mh + ml /\ m % 16 = ml
                              /\ m \div 16 = mh /\ Tens(m) = 16 * mh
    BY Halves DEF AluTypeOK
<1>4. ah \in 0..9 /\ al \in 0..9 /\ mh \in 0..9 /\ ml \in 0..9
    BY <1>2, <1>3 DEF IsBcd
<1> DEFINE low == al - ml + c - 1
           fix == IF low < 0 THEN low - 6 ELSE low
           mid == fix + 16 * ah - 16 * mh
           erg == IF mid < 0 THEN mid - 96 ELSE mid
           d   == a - m + c - 1
<1>5. SbcFix(p, a, m) = fix
    BY <1>1, <1>2, <1>3, <1>4 DEF SbcFix, SbcLow
<1>6. SbcErg(p, a, m) = erg
    <2> HIDE DEF fix
    <2> QED BY <1>2, <1>3, <1>5 DEF SbcErg, SbcMid
<1>7. r.val = erg % 256 /\ Carry(r.P) = IF d >= 0 THEN 1 ELSE 0
    <2>1. d \in -256..255 /\ SbcUnsigned(p, a, m) = d % 65536
        BY <1>1, <1>2, <1>3, SMTT(30) DEF SbcUnsigned
    <2>2. d % 65536 <= 255 <=> d >= 0
        <3> HIDE DEF d
        <3> QED BY <2>1
    <2> HIDE DEF erg, d
    <2> QED BY <1>6, <2>1, <2>2, SbcParts DEF Carry
\* The digits of the difference and the borrow out of each.
<1> DEFINE k == IF low < 0 THEN 1 ELSE 0
           l == low + 10 * k
           b == IF ah - mh - k < 0 THEN 1 ELSE 0
           h == ah - mh - k + 10 * b
<1>8. l \in 0..9 /\ k \in {0, 1} /\ mid = 16 * (ah - mh - k) + l
    BY <1>1, <1>4
<1>9. /\ h \in 0..9 /\ b \in {0, 1}
      /\ erg % 256 = 16 * h + l
      /\ d >= 0 <=> b = 0
    <2>1. h \in 0..9 /\ b \in {0, 1} /\ (mid < 0 <=> b = 1)
        <3> HIDE DEF l, k, mid
        <3> QED BY <1>4, <1>8
    <2>2. d = 16 * (ah - mh) + (al - ml + c - 1)
        BY <1>1, <1>2, <1>3
    <2>3. d >= 0 <=> b = 0
        BY <1>1, <1>4, <2>2
    <2>4. erg = 16 * h + l - 256 * b
        <3> HIDE DEF l, k, mid
        <3> QED BY <1>4, <1>8, <2>1
    <2>5. (16 * h + l - 256 * b) % 256 = 16 * h + l
        <3> HIDE DEF l, h, b
        <3> QED BY <1>8, <2>1
    <2> QED BY <2>1, <2>3, <2>4, <2>5
<1>10. (16 * h + l) % 16 = l /\ (16 * h + l) \div 16 = h
    <2> HIDE DEF l, h
    <2> QED BY <1>8, <1>9
<1>11. 10 * h + l - 100 * b = (10 * ah + al) - (10 * mh + ml) - (1 - c)
    <2> HIDE DEF k, b
    <2> QED BY <1>1, <1>4, <1>8, <1>9
<1>12. Carry(r.P) = 1 - b
    <2> HIDE DEF d, b
    <2> QED BY <1>7, <1>9
<1> HIDE DEF r, h, l, b, erg
<1>13. r.val % 16 = l /\ r.val \div 16 = h
    BY <1>7, <1>9, <1>10
<1>14. Dec(r.val) = 10 * h + l /\ Dec(a) = 10 * ah + al /\ Dec(m) = 10 * mh + ml
    BY <1>2, <1>3, <1>13 DEF Dec
<1>15. IsBcd(r.val)
    BY <1>8, <1>9, <1>13 DEF IsBcd
<1>16. Dec(r.val) - 100 * (1 - Carry(r.P)) = Dec(a) - Dec(m) - (1 - c)
    BY <1>1, <1>4, <1>8, <1>9, <1>11, <1>12, <1>14
<1> QED
    BY <1>15, <1>16 DEF r

\* CMP, CPX and CPY set C and Z as the subtraction without borrow does, and N
\* as bit 7 of a difference that fits a signed byte.
LEMMA CompareIsSbcAlways == AluTypeOK => CompareIsSbc
<1> SUFFICES ASSUME AluTypeOK PROVE CompareIsSbc
    OBVIOUS
<1> DEFINE P == Compare(p, a, m)
           q == (p \cup {"C"}) \ {"D"}
           s == Sbc(q, a, m).P
<1>1. a \in 0..255 /\ m \in 0..255
    BY DEF AluTypeOK, Byte
<1>2. Carry(q) = 1
    BY DEF Carry
<1>3. SbcUnsigned(q, a, m) = (a - m) % 65536
    <2> HIDE DEF q
    <2> QED BY <1>1, <1>2 DEF SbcUnsigned
<1>4. /\ (a - m) % 65536 <= 255 <=> a >= m
      /\ (a - m) % 65536 = 0 <=> a = m
    BY <1>1, SMTT(30)
<1>5. ("C" \in s <=> a >= m) /\ ("Z" \in s <=> a = m)
    <2> HIDE DEF q
    <2> QED BY <1>3, <1>4, SbcParts
<1>6. /\ "C" \in P <=> a >= m
      /\ "Z" \in P <=> a = m
      /\ "N" \in P <=> a < m
      /\ P \ {"N", "Z", "C"} = p \ {"N", "Z", "C"}
    BY DEF Compare, If
<1>8. P \cap {"C", "Z"} = s \cap {"C", "Z"}
    <2> HIDE DEF P, s
    <2> QED BY <1>5, <1>6
<1>9. Fits(a - m) => ("N" \in P <=> (a - m) % 256 >= 128)
    <2>1. Fits(a - m) => (a < m <=> (a - m) % 256 >= 128)
        BY <1>1 DEF Fits
    <2> HIDE DEF P
    <2> QED BY <1>6, <2>1
<1> QED
    BY <1>6, <1>8, <1>9 DEF CompareIsSbc

\* What the rotations of a byte are.
LEMMA RolIs ==
    \A b \in Byte : \A q :
      /\ Rol(q, b).val = ((2 * b) % 256) + Carry(q)
      /\ Carry(Rol(q, b).P) = IF b >= 128 THEN 1 ELSE 0
    BY DEF Rol, Carry, If

\* ROR moves every bit down, the carry to the top and the lowest bit out.
LEMMA RorIs ==
    \A b \in Byte : \A q :
      /\ Ror(q, b).val = (b \div 2) + 128 * Carry(q)
      /\ Carry(Ror(q, b).P) = b % 2
<1> SUFFICES ASSUME NEW b \in Byte, NEW q
             PROVE  /\ Ror(q, b).val = (b \div 2) + 128 * Carry(q)
                    /\ Carry(Ror(q, b).P) = b % 2
    OBVIOUS
<1>1. b % 2 \in {0, 1}
    BY DEF Byte
<1> QED
    BY <1>1 DEF Ror, Carry, If

\* A rotation to the left is nine bits shifted in a circle; each rotation
\* undoes the other.
LEMMA RotationsOfNineBits ==
    ASSUME NEW b \in Byte, NEW q \in SUBSET Flag
    PROVE  /\ Rol(q, b).val + 256 * Carry(Rol(q, b).P) = 2 * b + Carry(q)
           /\ Ror(Rol(q, b).P, Rol(q, b).val).val = b
           /\ Carry(Ror(Rol(q, b).P, Rol(q, b).val).P) = Carry(q)
           /\ Rol(Ror(q, b).P, Ror(q, b).val).val = b
           /\ Carry(Rol(Ror(q, b).P, Ror(q, b).val).P) = Carry(q)
<1> DEFINE l == Rol(q, b)
           r == Ror(q, b)
           k == Carry(q)
<1>1. b \in 0..255 /\ k \in 0..1
    BY CarryIsBit DEF Byte
<1>2. l.val \in Byte /\ r.val \in Byte
    BY ShiftType
<1>3. l.val = ((2 * b) % 256) + k /\ Carry(l.P) = IF b >= 128 THEN 1 ELSE 0
    BY RolIs
<1>4. r.val = (b \div 2) + 128 * k /\ Carry(r.P) = b % 2
    BY RorIs
<1> HIDE DEF l, r, k
<1>5. /\ Ror(l.P, l.val).val = (l.val \div 2) + 128 * Carry(l.P)
      /\ Carry(Ror(l.P, l.val).P) = l.val % 2
    BY <1>2, RorIs
<1>6. /\ Rol(r.P, r.val).val = ((2 * r.val) % 256) + Carry(r.P)
      /\ Carry(Rol(r.P, r.val).P) = IF r.val >= 128 THEN 1 ELSE 0
    BY <1>2, RolIs, Zenon
<1>7. \A x \in 0..255, y \in 0..1 : LET v == ((2 * x) % 256) + y IN
        /\ v + 256 * (IF x >= 128 THEN 1 ELSE 0) = 2 * x + y
        /\ (v \div 2) + 128 * (IF x >= 128 THEN 1 ELSE 0) = x
        /\ v % 2 = y
    OBVIOUS
<1>8. \A x \in 0..255, y \in 0..1 : LET v == (x \div 2) + 128 * y IN
        /\ ((2 * v) % 256) + (x % 2) = x
        /\ (IF v >= 128 THEN 1 ELSE 0) = y
    OBVIOUS
<1>9. l.val + 256 * Carry(l.P) = 2 * b + k
    BY <1>1, <1>3, <1>7
<1>10. Ror(l.P, l.val).val = b /\ Carry(Ror(l.P, l.val).P) = k
    BY <1>1, <1>3, <1>5, <1>7
<1>11. Rol(r.P, r.val).val = b /\ Carry(Rol(r.P, r.val).P) = k
    BY <1>1, <1>4, <1>6, <1>8
<1> QED
    BY <1>9, <1>10, <1>11 DEF l, r, k

\* A shift is a rotation with the carry clear, but for N after LSR.
LEMMA ShiftsAreRotations ==
    ASSUME NEW b \in Byte, NEW q \in SUBSET Flag
    PROVE  LET clear == q \ {"C"} IN
           /\ Asl(q, b) = Rol(clear, b)
           /\ Lsr(q, b).val = Ror(clear, b).val
           /\ Lsr(q, b).P \ {"N"} = Ror(clear, b).P \ {"N"}
<1> DEFINE clear == q \ {"C"}
<1>1. Carry(clear) = 0 /\ clear \ {"N", "Z", "C"} = q \ {"N", "Z", "C"}
    BY DEF Carry
<1> HIDE DEF clear
<1>2. Asl(q, b) = Rol(clear, b)
    <2>1. ((2 * b) % 256) + 0 = (2 * b) % 256
        BY DEF Byte
    <2> DEFINE Shape(Q, r) ==
          [val |-> r, P |-> Q \cup If(b >= 128, "C") \cup If(r >= 128, "N")
                              \cup If(r = 0, "Z")]
    <2>2. Rol(clear, b) = Shape(clear \ {"N", "Z", "C"}, ((2 * b) % 256) + Carry(clear))
        BY Zenon DEF Rol
    <2>3. Asl(q, b) = Shape(q \ {"N", "Z", "C"}, (2 * b) % 256)
        BY Zenon DEF Asl
    <2> HIDE DEF Shape
    <2> QED BY <1>1, <2>1, <2>2, <2>3
<1>3. b \div 2 \in 0..127 /\ (b \div 2) + 128 * 0 = b \div 2
    BY DEF Byte
<1>4. Lsr(q, b).val = Ror(clear, b).val
    BY <1>1, <1>3 DEF Lsr, Ror
<1>5. Ror(clear, b).P = (q \ {"N", "Z", "C"})
        \cup If(b % 2 = 1, "C") \cup If(b \div 2 >= 128, "N")
        \cup If(b \div 2 = 0, "Z")
    BY <1>1, <1>3, Zenon DEF Ror
<1>6. If(b \div 2 >= 128, "N") = {}
    BY <1>3 DEF If
<1>7. Lsr(q, b).P = (q \ {"Z", "C"}) \cup If(b % 2 = 1, "C")
                                     \cup If(b \div 2 = 0, "Z")
    BY DEF Lsr
<1> QED
    BY <1>2, <1>4, <1>5, <1>6, <1>7 DEF clear

\* ROL and ROR undo each other; ASL and LSR are rotations of a zero.
LEMMA RotationsInvertAlways == AluTypeOK => RotationsInvert
<1> SUFFICES ASSUME AluTypeOK PROVE RotationsInvert
    OBVIOUS
<1>1. a \in Byte /\ p \in SUBSET Flag
    BY DEF AluTypeOK
<1>2. /\ Rol(p, a).val + 256 * Carry(Rol(p, a).P) = 2 * a + c
      /\ Ror(Rol(p, a).P, Rol(p, a).val).val = a
      /\ Carry(Ror(Rol(p, a).P, Rol(p, a).val).P) = c
      /\ Rol(Ror(p, a).P, Ror(p, a).val).val = a
      /\ Carry(Rol(Ror(p, a).P, Ror(p, a).val).P) = c
    BY <1>1, RotationsOfNineBits, ZenonT(30) DEF c
<1>3. LET clear == p \ {"C"} IN
      /\ Asl(p, a) = Rol(clear, a)
      /\ Lsr(p, a).val = Ror(clear, a).val
      /\ Lsr(p, a).P \ {"N"} = Ror(clear, a).P \ {"N"}
    BY <1>1, ShiftsAreRotations, Zenon
<1> QED
    BY <1>2, <1>3, Zenon DEF RotationsInvert

-----------------------------------------------------------------------------
\* The operands are bytes and flags: what the lemmas above ask for.
THEOREM AluTypeCorrect == Spec => []AluTypeOK
<1>1. Init => AluTypeOK
    <2> SUFFICES ASSUME Init PROVE AluTypeOK
        OBVIOUS
    <2>1. PICK s \in SUBSET {"C", "D"} : p = {"N", "V", "Z", "U"} \cup s
        BY DEF Init
    <2>2. p \in SUBSET Flag
        BY <2>1 DEF Flag
    <2>3. a \in Byte /\ m \in Byte
        BY DEF Init, Byte
    <2> QED BY <2>2, <2>3 DEF AluTypeOK
<1>2. AluTypeOK /\ [NextOperand]_vars => AluTypeOK'
    BY DEF AluTypeOK, NextOperand, vars, Byte
<1> QED
    BY <1>1, <1>2, PTL DEF Spec

\* ADC (funcs.c) in binary mode: nine-bit sum, overflow and sign are right
\* for every pair of bytes and either carry.
THEOREM AdditionCorrect == Spec => []AdcAdds
    BY AluTypeCorrect, AdcAddsAlways, PTL

\* ADC in decimal mode: the digits and the carry of the BCD sum are right for
\* every pair of BCD operands.
THEOREM DecimalAdditionCorrect == Spec => []AdcAddsDecimal
    BY AluTypeCorrect, AdcAddsDecimalAlways, PTL

\* SBC (funcs.c) in binary mode: difference, borrow and overflow are right, and
\* so are N without overflow and Z without borrow.
THEOREM SubtractionCorrect == Spec => []SbcSubtracts
    BY AluTypeCorrect, SbcSubtractsAlways, PTL

\* SBC in decimal mode: the BCD difference and its borrow are right, and the
\* flags are those of binary mode.
THEOREM DecimalSubtractionCorrect == Spec => []SbcSubtractsDecimal
    BY AluTypeCorrect, SbcSubtractsDecimalAlways, PTL

\* CMP, CPX and CPY (funcs.c): C and Z are those of SBC without borrow, N is
\* bit 7 of the difference if that fits a signed byte.
THEOREM ComparisonCorrect == Spec => []CompareIsSbc
    BY AluTypeCorrect, CompareIsSbcAlways, PTL

\* ROL and ROR (funcs.c) rotate nine bits and invert each other; ASL and LSR
\* are the rotations with the carry clear, but for N after LSR.
THEOREM RotationCorrect == Spec => []RotationsInvert
    BY AluTypeCorrect, RotationsInvertAlways, PTL
=============================================================================
