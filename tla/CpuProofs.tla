----------------------------- MODULE CpuProofs ------------------------------
(* The processor's proofs.  First its lazy flags keep the promise of the   *)
(* eager ones: every sequence of flag operations of the decoder shows a    *)
(* program the flags that arithmetic defines, for every width and every    *)
(* operand.  Then the processor itself, instruction by instruction: it     *)
(* keeps every part of the machine in its width, and what it does to the   *)
(* flags is one of those operations, for every program.  Last, an          *)
(* interrupt and its return give a program back what they took from it.    *)
EXTENDS FlagMachine, Cpu, WellFoundedInduction, TLAPS

-----------------------------------------------------------------------------
(* Arithmetic modulo a power of two.                                       *)

LEMMA WrapInside ==
  ASSUME NEW sign \in Nat, sign > 0, NEW x \in Int, 0 <= x, x < 2 * sign
  PROVE  Wrap(x, sign) = x
  BY DEF Wrap

LEMMA WrapAbove ==
  ASSUME NEW sign \in Nat, sign > 0, NEW x \in Int, 2 * sign <= x, x < 4 * sign
  PROVE  Wrap(x, sign) = x - 2 * sign
  BY DEF Wrap

LEMMA WrapBelow ==
  ASSUME NEW sign \in Nat, sign > 0, NEW x \in Int, -(2 * sign) <= x, x < 0
  PROVE  Wrap(x, sign) = x + 2 * sign
  BY DEF Wrap

\* The carry from bit 3 to bit 4 is the sum's fourth bit where the operands
\* have an even number of ones.
LEMMA NibbleSum ==
  ASSUME NEW sign \in Nat, sign > 0, sign % 16 = 0, NEW a \in Nat, NEW b \in Nat,
         NEW c \in {0, 1}, NEW r \in Nat,
         r = a + b + c \/ r = a + b + c - 2 * sign
  PROVE  ((a \div 16 + b \div 16 + r \div 16) % 2 = 1)
            <=> ((a % 16) + (b % 16) + c >= 16)
  BY SMTT(30)

LEMMA NibbleDifference ==
  ASSUME NEW sign \in Nat, sign > 0, sign % 16 = 0, NEW a \in Nat, NEW b \in Nat,
         NEW c \in {0, 1}, NEW r \in Nat,
         r = a - b - c \/ r = a - b - c + 2 * sign
  PROVE  ((a \div 16 + b \div 16 + r \div 16) % 2 = 1)
            <=> ((a % 16) < (b % 16) + c)
  BY SMTT(30)

LEMMA NibbleStep ==
  ASSUME NEW sign \in Nat, sign > 0, sign % 16 = 0, NEW a \in Nat, NEW r \in Nat
  PROVE  /\ r = a + 1 \/ r = a + 1 - 2 * sign
              => ((r % 16 = 0) <=> ((a % 16) + 1 >= 16))
         /\ r = a - 1 \/ r = a - 1 + 2 * sign
              => ((r % 16 = 15) <=> ((a % 16) < 1))
         /\ r = -a \/ r = 2 * sign - a
              => ((r % 16 = 0) <=> (a % 16 = 0))
  BY SMTT(30)

-----------------------------------------------------------------------------
(* The operations note what arithmetic defines.                            *)

\* EagerFlags brings its own copies of the definitions of LazyFlags.
LEMMA EagerNames ==
  /\ Eager!Conditions = Conditions
  /\ \A x, s : Eager!Wrap(x, s) = Wrap(x, s)
  /\ \A x : Eager!Nibble(x) = Nibble(x)
  /\ \A x : Eager!EvenParity(x) = EvenParity(x)
  /\ \A x, y, s : Eager!SameSign(x, y, s) = SameSign(x, y, s)
  /\ \A lf : Eager!OutLeft(lf) = OutLeft(lf)
  /\ \A lf : Eager!OutRight(lf) = OutRight(lf)
  /\ \A a, n, s : Eager!SHL(a, n, s) = SHL(a, n, s)
  /\ \A a, n, s : Eager!SHR(a, n, s) = SHR(a, n, s)
  /\ \A a, n, s : Eager!SAR(a, n, s) = SAR(a, n, s)
<1>1. Eager!Conditions = Conditions
  BY DEF Eager!Conditions, Conditions
<1>2. \A x, s : Eager!Wrap(x, s) = Wrap(x, s)
  BY DEF Eager!Wrap, Wrap
<1>3. \A x : Eager!Nibble(x) = Nibble(x)
  BY DEF Eager!Nibble, Nibble
<1>4. \A x, n : Eager!Bit(x,n) = Bit(x,n)
  BY DEF Eager!Bit, Bit
<1>5. \A x : Eager!EvenParity(x) = EvenParity(x) 
  BY DEF Eager!EvenParity, EvenParity
<1>6. \A x, y, s : Eager!SameSign(x, y, s) = SameSign(x, y, s)
  BY DEF Eager!SameSign, SameSign
<1>7. \A s : Eager!Power(s) = Power(s)
  BY DEF Eager!Power, Power
<1>8. \A lf : Eager!OutLeft(lf) = OutLeft(lf)
  BY <1>4, <1>7 DEF Eager!OutLeft, OutLeft
<1>9. \A lf : Eager!OutRight(lf) = OutRight(lf)
  BY <1>4, <1>7 DEF Eager!OutRight, OutRight
<1>10. \A a, n, s : Eager!SHL(a, n, s) = SHL(a, n, s)
  BY Zenon, <1>7 DEF Eager!SHL, SHL, Eager!Lazy, Lazy
<1>11. \A a, n, s : Eager!SHR(a, n, s) = SHR(a, n, s)
  BY Zenon, <1>7 DEF Eager!SHR, SHR, Eager!Lazy, Lazy
<1>12. \A a, n, s : Eager!SAR(a, n, s) = SAR(a, n, s)
  <2> SUFFICES ASSUME NEW a, NEW n, NEW s PROVE Eager!SAR(a, n, s) = SAR(a, n, s)
    OBVIOUS
  <2>1. \A type, var1, var2, res, sign :
          Eager!Lazy(type, var1, var2, res, sign) = Lazy(type, var1, var2, res, sign)
    BY DEF Eager!Lazy, Lazy
  <2>2. Eager!Power(s) = Power(s)
    BY <1>7
  <2>3. QED
    BY <2>1, <2>2 DEF Eager!SAR, SAR
<1> QED
  BY <1>1, <1>2, <1>3, <1>5, <1>6, <1>8, <1>9, <1>10, <1>11, <1>12

\* One condition of what is asked, and of what arithmetic gives.
LEMMA AskedOne ==
  ASSUME NEW fl, NEW lf
  PROVE  /\ Asked(fl, lf)["CF"] <=> GetCF(fl, lf)
         /\ Asked(fl, lf)["AF"] <=> GetAF(fl, lf)
         /\ Asked(fl, lf)["ZF"] <=> GetZF(fl, lf)
         /\ Asked(fl, lf)["SF"] <=> GetSF(fl, lf)
         /\ Asked(fl, lf)["OF"] <=> GetOF(fl, lf)
         /\ Asked(fl, lf)["PF"] <=> GetPF(fl, lf)
  BY DEF Asked, Conditions

LEMMA AskedBoolean ==
  ASSUME NEW fl, NEW lf
  PROVE  Asked(fl, lf) \in [Conditions -> BOOLEAN]
  BY DEF Asked

LEMMA SameFlags ==
  ASSUME NEW g \in [Conditions -> BOOLEAN], NEW h \in [Conditions -> BOOLEAN],
         g["CF"] <=> h["CF"], g["AF"] <=> h["AF"], g["OF"] <=> h["OF"],
         g["ZF"] <=> h["ZF"], g["SF"] <=> h["SF"], g["PF"] <=> h["PF"]
  PROVE  g = h
  BY DEF Conditions

LEMMA AskedUnknown ==
  ASSUME NEW fl \in [Conditions -> BOOLEAN]
  PROVE  Asked(fl, Unknown) = fl
<1>1. /\ GetCF(fl, Unknown) <=> fl["CF"]
      /\ GetAF(fl, Unknown) <=> fl["AF"]
      /\ GetZF(fl, Unknown) <=> fl["ZF"]
      /\ GetSF(fl, Unknown) <=> fl["SF"]
      /\ GetOF(fl, Unknown) <=> fl["OF"]
      /\ GetPF(fl, Unknown) <=> fl["PF"]
  BY DEF Unknown, Lazy, Additions, Subtractions, Shifts, DoubleShifts,
         GetCF, GetAF, GetZF, GetSF, GetOF, GetPF
<1> QED
  BY <1>1, AskedOne, AskedBoolean, SameFlags

LEMMA ResultOne ==
  ASSUME NEW res, NEW sign, NEW cf, NEW af, NEW of
  PROVE  LET given == Eager!OfResult(res, sign, cf, af, of)
         IN  /\ given \in [Conditions -> BOOLEAN]
             /\ given["CF"] <=> cf
             /\ given["AF"] <=> af
             /\ given["OF"] <=> of
             /\ given["ZF"] <=> res = 0
             /\ given["SF"] <=> res >= sign
             /\ given["PF"] <=> EvenParity(res)
  BY EagerNames DEF Eager!OfResult, Conditions

LEMMA WordBounds ==
  ASSUME NEW sign \in Signs, NEW a \in Operands(sign)
  PROVE  sign \in Nat /\ sign > 0 /\ sign % 16 = 0 /\ a \in Nat /\ a < 2 * sign
  BY SignAssumption DEF Operands

LEMMA SumWraps ==
  ASSUME NEW sign \in Signs, NEW a \in Operands(sign), NEW b \in Nat, b < 2 * sign,
         NEW c \in {0, 1}
  PROVE  LET r == Wrap(a + b + c, sign)
         IN  /\ r \in Nat /\ r < 2 * sign
             /\ \/ r = a + b + c /\ a + b + c < 2 * sign
                \/ r = a + b + c - 2 * sign /\ a + b + c >= 2 * sign
<1>1. PICK x \in Int : x = a + b + c
  BY WordBounds
<1>2. CASE x < 2 * sign
  BY <1>1, <1>2, WordBounds, WrapInside
<1>3. CASE x >= 2 * sign
  <2>1. Wrap(x, sign) = x - 2 * sign
    BY <1>1, <1>3, WordBounds, WrapAbove
  <2> QED
    BY <1>1, <1>3, <2>1, WordBounds
<1> QED
  BY <1>1, <1>2, <1>3, WordBounds

LEMMA DifferenceWraps ==
  ASSUME NEW sign \in Signs, NEW a \in Nat, a < 2 * sign, NEW b \in Nat,
         b < 2 * sign, NEW c \in {0, 1}
  PROVE  LET r == Wrap(a - b - c, sign)
         IN  /\ r \in Nat /\ r < 2 * sign
             /\ \/ r = a - b - c /\ a >= b + c
                \/ r = a - b - c + 2 * sign /\ a < b + c
<1>1. PICK x \in Int : x = a - b - c
  OBVIOUS
<1>2. sign \in Nat /\ sign > 0
  BY SignAssumption
<1>3. CASE x >= 0
  BY <1>1, <1>2, <1>3, WrapInside
<1>4. CASE x < 0
  <2>1. Wrap(x, sign) = x + 2 * sign
    BY <1>1, <1>2, <1>4, WrapBelow
  <2> QED
    BY <1>1, <1>2, <1>4, <2>1
<1> QED
  BY <1>1, <1>2, <1>3, <1>4

\* get_CF, get_AF and get_OF after an addition are the carry out of the
\* word, the carry out of the nibble and the overflow of the signed sum.
LEMMA SumNoted ==
  ASSUME NEW fl, NEW sign \in Signs,
         NEW a \in Operands(sign), NEW b \in Operands(sign), NEW cf \in BOOLEAN,
         NEW lf, lf = ADC(a, b, cf, sign) \/ (~cf /\ lf = ADD(a, b, sign)),
         NEW c, c = IF cf THEN 1 ELSE 0
  PROVE  Asked(fl, lf) = Eager!SumFlags(a, b, c, sign)
<1> DEFINE r == Wrap(a + b + c, sign)
<1>1. /\ sign \in Nat /\ sign > 0 /\ sign % 16 = 0
      /\ a \in Nat /\ b \in Nat /\ a < 2 * sign /\ b < 2 * sign
      /\ c \in {0, 1} /\ cf <=> c = 1
  BY SignAssumption DEF Operands
<1>2. /\ lf.type \in {"ADC", "ADD"} /\ lf.var1 = a /\ lf.var2 = b
      /\ lf.sign = sign /\ lf.res = r
      /\ lf.type = "ADC" => lf.oldcf = cf
      /\ lf.type = "ADD" => ~cf
  BY <1>1 DEF ADC, ADD, Lazy
<1>3. /\ r \in Nat /\ r < 2 * sign
      /\ \/ r = a + b + c /\ a + b + c < 2 * sign
         \/ r = a + b + c - 2 * sign /\ a + b + c >= 2 * sign
  BY <1>1, SumWraps
<1> HIDE DEF r
<1>4. GetCF(fl, lf) <=> a + b + c >= 2 * sign
  BY <1>1, <1>2, <1>3 DEF GetCF
<1>5. GetAF(fl, lf) <=> Nibble(a) + Nibble(b) + c >= 16
  <2>1. ((a \div 16 + b \div 16 + r \div 16) % 2 = 1)
           <=> ((a % 16) + (b % 16) + c >= 16)
    BY <1>1, <1>3, NibbleSum
  <2> QED
    BY <1>2, <2>1 DEF GetAF, CrossesNibble, Nibble, Additions, Subtractions, Shifts
<1>6. GetOF(fl, lf) <=> ~Eager!Fits(Eager!Signed(a, sign) + Eager!Signed(b, sign) + c, sign)
  BY <1>1, <1>2, <1>3 
     DEF GetOF, SameSign, Additions, Subtractions, DoubleShifts, Eager!Fits, Eager!Signed
<1>7. /\ GetZF(fl, lf) <=> r = 0
      /\ GetSF(fl, lf) <=> r >= sign
      /\ GetPF(fl, lf) <=> EvenParity(r)
  BY <1>2 DEF GetZF, GetSF, GetPF
<1> QED
  BY <1>4, <1>5, <1>6, <1>7, AskedOne, AskedBoolean, ResultOne, SameFlags, EagerNames
     DEF Eager!SumFlags, r

\* After a subtraction they are the borrows and the overflow of the signed
\* difference.
LEMMA DifferenceNoted ==
  ASSUME NEW fl, NEW sign \in Signs,
         NEW a \in Operands(sign), NEW b \in Operands(sign), NEW cf \in BOOLEAN,
         NEW lf,
         \/ lf = SBB(a, b, cf, sign)
         \/ ~cf /\ (lf = SUB("SUB", a, b, sign) \/ lf = SUB("CMP", a, b, sign)),
         NEW c, c = IF cf THEN 1 ELSE 0
  PROVE  Asked(fl, lf) = Eager!DifferenceFlags(a, b, c, sign)
<1> DEFINE r == Wrap(a - b - c, sign)
<1>1. /\ sign \in Nat /\ sign > 0 /\ sign % 16 = 0
      /\ a \in Nat /\ b \in Nat /\ a < 2 * sign /\ b < 2 * sign
      /\ c \in {0, 1} /\ cf <=> c = 1
  BY SignAssumption DEF Operands
<1>2. /\ lf.type \in {"SBB", "SUB", "CMP"} /\ lf.var1 = a /\ lf.var2 = b
      /\ lf.sign = sign /\ lf.res = r
      /\ lf.type = "SBB" => lf.oldcf = cf
      /\ lf.type # "SBB" => ~cf
  BY <1>1 DEF SBB, SUB, Lazy
<1>3. /\ r \in Nat /\ r < 2 * sign
      /\ \/ r = a - b - c /\ a >= b + c
         \/ r = a - b - c + 2 * sign /\ a < b + c
  BY <1>1, DifferenceWraps
<1> HIDE DEF r
<1>4. GetCF(fl, lf) <=> a < b + c
  BY <1>1, <1>2, <1>3 DEF GetCF
<1>5. GetAF(fl, lf) <=> Nibble(a) < Nibble(b) + c
  <2>1. ((a \div 16 + b \div 16 + r \div 16) % 2 = 1)
           <=> ((a % 16) < (b % 16) + c)
    BY <1>1, <1>3, NibbleDifference
  <2> QED
    BY <1>2, <2>1 DEF GetAF, CrossesNibble, Nibble, Additions, Subtractions, Shifts
<1>6. GetOF(fl, lf) <=> ~Eager!Fits(Eager!Signed(a, sign) - Eager!Signed(b, sign) - c, sign)
  BY <1>1, <1>2, <1>3
     DEF GetOF, SameSign, Additions, Subtractions, DoubleShifts, Eager!Fits, Eager!Signed
<1>7. /\ GetZF(fl, lf) <=> r = 0
      /\ GetSF(fl, lf) <=> r >= sign
      /\ GetPF(fl, lf) <=> EvenParity(r)
  BY <1>2 DEF GetZF, GetSF, GetPF
<1> QED
  BY <1>4, <1>5, <1>6, <1>7, AskedOne, AskedBoolean, ResultOne, SameFlags, EagerNames
     DEF Eager!DifferenceFlags, r

LEMMA KeptCarry ==
  ASSUME NEW given \in [Conditions -> BOOLEAN], NEW fl \in [Conditions -> BOOLEAN]
  PROVE  LET kept == [given EXCEPT !["CF"] = fl["CF"]]
         IN  /\ kept \in [Conditions -> BOOLEAN]
             /\ kept["CF"] <=> fl["CF"]
             /\ kept["AF"] <=> given["AF"]
             /\ kept["OF"] <=> given["OF"]
             /\ kept["ZF"] <=> given["ZF"]
             /\ kept["SF"] <=> given["SF"]
             /\ kept["PF"] <=> given["PF"]
  BY DEF Conditions

\* INC and DEC set all but the carry, which they take from the register
\* they worked it out into.
LEMMA IncrementNoted ==
  ASSUME NEW fl \in [Conditions -> BOOLEAN], NEW sign \in Signs,
         NEW a \in Operands(sign)
  PROVE  Asked(fl, INC(a, sign))
           = [Eager!SumFlags(a, 1, 0, sign) EXCEPT !["CF"] = fl["CF"]]
<1> DEFINE r == Wrap(a + 1, sign)
           lf == INC(a, sign)
<1>1. /\ sign \in Nat /\ sign > 0 /\ sign % 16 = 0 /\ a \in Nat /\ a < 2 * sign
      /\ a + 1 + 0 = a + 1
  BY SignAssumption DEF Operands
<1>2. /\ lf.type = "INC" /\ lf.sign = sign /\ lf.res = r
  BY DEF INC, Lazy
<1>3. /\ r \in Nat /\ r < 2 * sign
      /\ \/ r = a + 1 /\ a + 1 < 2 * sign
         \/ r = a + 1 - 2 * sign /\ a + 1 >= 2 * sign
  BY <1>1, SumWraps
<1> HIDE DEF r, lf
<1>4. GetCF(fl, lf) <=> fl["CF"]
  BY <1>2 DEF GetCF
<1>5. GetAF(fl, lf) <=> Nibble(a) + Nibble(1) + 0 >= 16
  <2>1. (r % 16 = 0) <=> ((a % 16) + 1 >= 16)
    BY <1>1, <1>3, NibbleStep
  <2> QED
    BY <1>1, <1>2, <2>1 DEF GetAF, Nibble, Additions, Subtractions, Shifts
<1>6. GetOF(fl, lf) <=> ~Eager!Fits(Eager!Signed(a, sign) + Eager!Signed(1, sign) + 0, sign)
  BY <1>1, <1>2, <1>3
     DEF GetOF, Additions, Subtractions, DoubleShifts, Eager!Fits, Eager!Signed
<1>7. /\ GetZF(fl, lf) <=> r = 0
      /\ GetSF(fl, lf) <=> r >= sign
      /\ GetPF(fl, lf) <=> EvenParity(r)
  BY <1>2 DEF GetZF, GetSF, GetPF
<1> DEFINE given == Eager!SumFlags(a, 1, 0, sign)
<1>8. /\ given \in [Conditions -> BOOLEAN]
      /\ given["AF"] <=> Nibble(a) + Nibble(1) + 0 >= 16
      /\ given["OF"] <=> ~Eager!Fits(Eager!Signed(a, sign) + Eager!Signed(1, sign) + 0, sign)
      /\ given["ZF"] <=> r = 0
      /\ given["SF"] <=> r >= sign
      /\ given["PF"] <=> EvenParity(r)
  BY <1>1, ResultOne, EagerNames DEF Eager!SumFlags, r
<1> DEFINE kept == [given EXCEPT !["CF"] = fl["CF"]]
<1> HIDE DEF given
<1>9. /\ kept \in [Conditions -> BOOLEAN]
      /\ kept["CF"] <=> fl["CF"]
      /\ kept["AF"] <=> given["AF"]
      /\ kept["OF"] <=> given["OF"]
      /\ kept["ZF"] <=> given["ZF"]
      /\ kept["SF"] <=> given["SF"]
      /\ kept["PF"] <=> given["PF"]
  BY <1>8, KeptCarry
<1> HIDE DEF kept
<1>10. Asked(fl, lf) = kept
  BY <1>4, <1>5, <1>6, <1>7, <1>8, <1>9, AskedOne, AskedBoolean, SameFlags
<1> QED
  BY <1>10 DEF kept, given, lf

LEMMA DecrementNoted ==
  ASSUME NEW fl \in [Conditions -> BOOLEAN], NEW sign \in Signs,
         NEW a \in Operands(sign)
  PROVE  Asked(fl, DEC(a, sign))
           = [Eager!DifferenceFlags(a, 1, 0, sign) EXCEPT !["CF"] = fl["CF"]]
<1> DEFINE r == Wrap(a - 1, sign)
           lf == DEC(a, sign)
<1>1. /\ sign \in Nat /\ sign > 0 /\ sign % 16 = 0 /\ a \in Nat /\ a < 2 * sign
      /\ a - 1 - 0 = a - 1
  BY SignAssumption DEF Operands
<1>2. /\ lf.type = "DEC" /\ lf.sign = sign /\ lf.res = r
  BY DEF DEC, Lazy
<1>3. /\ r \in Nat /\ r < 2 * sign
      /\ \/ r = a - 1 /\ a >= 1
         \/ r = a - 1 + 2 * sign /\ a < 1
  BY <1>1, DifferenceWraps
<1> HIDE DEF r, lf
<1>4. GetCF(fl, lf) <=> fl["CF"]
  BY <1>2 DEF GetCF
<1>5. GetAF(fl, lf) <=> Nibble(a) < Nibble(1) + 0
  <2>1. (r % 16 = 15) <=> ((a % 16) < 1)
    BY <1>1, <1>3, NibbleStep
  <2> QED
    BY <1>1, <1>2, <2>1 DEF GetAF, Nibble, Additions, Subtractions, Shifts
<1>6. GetOF(fl, lf) <=> ~Eager!Fits(Eager!Signed(a, sign) - Eager!Signed(1, sign) - 0, sign)
  BY <1>1, <1>2, <1>3
     DEF GetOF, Additions, Subtractions, DoubleShifts, Eager!Fits, Eager!Signed
<1>7. /\ GetZF(fl, lf) <=> r = 0
      /\ GetSF(fl, lf) <=> r >= sign
      /\ GetPF(fl, lf) <=> EvenParity(r)
  BY <1>2 DEF GetZF, GetSF, GetPF
<1> DEFINE given == Eager!DifferenceFlags(a, 1, 0, sign)
<1>8. /\ given \in [Conditions -> BOOLEAN]
      /\ given["AF"] <=> Nibble(a) < Nibble(1) + 0
      /\ given["OF"] <=> ~Eager!Fits(Eager!Signed(a, sign) - Eager!Signed(1, sign) - 0, sign)
      /\ given["ZF"] <=> r = 0
      /\ given["SF"] <=> r >= sign
      /\ given["PF"] <=> EvenParity(r)
  <2>1. Eager!Wrap(a - 1 - 0, sign) = r
    BY <1>1, EagerNames DEF r
  <2>2. Eager!Nibble(a) = Nibble(a) /\ Eager!Nibble(1) = Nibble(1)
    BY EagerNames
  <2> QED
    BY <2>1, <2>2, ResultOne DEF Eager!DifferenceFlags
<1> DEFINE kept == [given EXCEPT !["CF"] = fl["CF"]]
<1> HIDE DEF given
<1>9. /\ kept \in [Conditions -> BOOLEAN]
      /\ kept["CF"] <=> fl["CF"]
      /\ kept["AF"] <=> given["AF"]
      /\ kept["OF"] <=> given["OF"]
      /\ kept["ZF"] <=> given["ZF"]
      /\ kept["SF"] <=> given["SF"]
      /\ kept["PF"] <=> given["PF"]
  BY <1>8, KeptCarry
<1> HIDE DEF kept
<1>10. Asked(fl, lf) = kept
  BY <1>4, <1>5, <1>6, <1>7, <1>8, <1>9, AskedOne, AskedBoolean, SameFlags
<1> QED
  BY <1>10 DEF kept, given, lf

LEMMA NegationWraps ==
  ASSUME NEW sign \in Signs, NEW a \in Operands(sign)
  PROVE  LET r == Wrap(0 - a, sign)
         IN  /\ r \in Nat /\ r < 2 * sign
             /\ \/ r = -a /\ a = 0
                \/ r = 2 * sign - a /\ a > 0
<1>1. sign \in Nat /\ sign > 0 /\ a \in Nat /\ a < 2 * sign /\ 0 - a - 0 = 0 - a
  BY SignAssumption DEF Operands
<1> QED
  BY <1>1, DifferenceWraps

LEMMA NegationNoted ==
  ASSUME NEW fl, NEW sign \in Signs, NEW a \in Operands(sign)
  PROVE  Asked(fl, NEG(a, sign)) = Eager!DifferenceFlags(0, a, 0, sign)
<1> DEFINE r == Wrap(0 - a, sign)
           lf == NEG(a, sign)
<1>1. /\ sign \in Nat /\ sign > 0 /\ sign % 16 = 0 /\ a \in Nat /\ a < 2 * sign
      /\ 0 - a - 0 = 0 - a
  BY SignAssumption DEF Operands
<1>2. /\ lf.type = "NEG" /\ lf.var1 = a /\ lf.sign = sign /\ lf.res = r
  BY DEF NEG, Lazy
<1>3. /\ r \in Nat /\ r < 2 * sign
      /\ \/ r = -a /\ a = 0
         \/ r = 2 * sign - a /\ a > 0
  BY NegationWraps
<1> HIDE DEF r, lf
<1>4. GetCF(fl, lf) <=> 0 < a + 0
  BY <1>1, <1>2 DEF GetCF
<1>5. GetAF(fl, lf) <=> Nibble(0) < Nibble(a) + 0
  BY <1>1, <1>2 DEF GetAF, Nibble, Additions, Subtractions, Shifts
<1>6. GetOF(fl, lf) <=> ~Eager!Fits(Eager!Signed(0, sign) - Eager!Signed(a, sign) - 0, sign)
  BY <1>1, <1>2, <1>3
     DEF GetOF, Additions, Subtractions, DoubleShifts, Eager!Fits, Eager!Signed
<1>7. /\ GetZF(fl, lf) <=> r = 0
      /\ GetSF(fl, lf) <=> r >= sign
      /\ GetPF(fl, lf) <=> EvenParity(r)
  BY <1>2 DEF GetZF, GetSF, GetPF
<1> QED
  BY <1>1, <1>4, <1>5, <1>6, <1>7, AskedOne, AskedBoolean, ResultOne, SameFlags,
     EagerNames
     DEF Eager!DifferenceFlags, r, lf

-----------------------------------------------------------------------------
(* Working the flags out changes none of them.                             *)

\* What the operations leave in lflags, as far as working out needs it.
Pending(lf) ==
  /\ lf.type \in Types
  /\ lf.type = "NEG" => /\ lf.sign \in Signs
                        /\ lf.var1 \in Operands(lf.sign)
                        /\ lf.res = Wrap(0 - lf.var1, lf.sign)
  /\ lf.type = "SHR" => lf.var2 \in 1 .. 31 /\ lf.var1 \in Nat /\ lf.sign \in Nat

LEMMA SettleOne ==
  ASSUME NEW lf, NEW cf, NEW af, NEW of
  PROVE  LET filled == Settle(lf, cf, af, of)
         IN  /\ filled \in [Conditions -> BOOLEAN]
             /\ filled["CF"] <=> cf
             /\ filled["AF"] <=> af
             /\ filled["OF"] <=> of
             /\ filled["ZF"] <=> lf.res = 0
             /\ filled["SF"] <=> lf.res >= lf.sign
             /\ filled["PF"] <=> EvenParity(lf.res)
  BY DEF Settle, Conditions

LEMMA FillKeeps ==
  ASSUME NEW fl \in [Conditions -> BOOLEAN], NEW lf, Pending(lf)
  PROVE  /\ FillFlags(fl, lf) \in [Conditions -> BOOLEAN]
         /\ \A f \in Conditions \ Loose(lf) : FillFlags(fl, lf)[f] = Asked(fl, lf)[f]
<1> DEFINE Agree(filled) ==
       /\ filled \in [Conditions -> BOOLEAN]
       /\ filled["CF"] <=> GetCF(fl, lf)
       /\ filled["ZF"] <=> GetZF(fl, lf)
       /\ filled["SF"] <=> GetSF(fl, lf)
       /\ filled["PF"] <=> GetPF(fl, lf)
       /\ "AF" \notin Loose(lf) => (filled["AF"] <=> GetAF(fl, lf))
       /\ "OF" \notin Loose(lf) => (filled["OF"] <=> GetOF(fl, lf))
<1>1. SUFFICES Agree(FillFlags(fl, lf))
  BY AskedOne, AskedBoolean DEF Conditions
<1>2. CASE lf.type = "UNKNOWN"
  BY <1>2 DEF FillFlags, GetCF, GetAF, GetZF, GetSF, GetOF, GetPF, Additions,
         Subtractions, Shifts, DoubleShifts, Conditions
<1>3. CASE lf.type \in Additions \cup Subtractions
  BY <1>3 DEF FillFlags, FillSums, Settle, GetCF, GetAF, GetZF, GetSF, GetOF, GetPF,
         Additions, Subtractions, Shifts, DoubleShifts, SameSign, Conditions
<1>4. CASE lf.type \in Logics
  BY <1>4 DEF FillFlags, FillLogics, Settle, GetCF, GetAF, GetZF, GetSF, GetOF, GetPF,
         Additions, Subtractions, Shifts, DoubleShifts, Logics, Conditions
<1>5. CASE lf.type \in {"INC", "DEC"}
  BY <1>5 DEF FillFlags, FillSteps, Settle, GetCF, GetAF, GetZF, GetSF, GetOF, GetPF,
         Additions, Subtractions, Shifts, DoubleShifts, Logics, Conditions
<1>6. CASE lf.type = "NEG"
  <2>1. lf.sign \in Signs /\ lf.var1 \in Operands(lf.sign)
    BY <1>6 DEF Pending
  <2>2. /\ lf.sign \in Nat /\ lf.sign > 0 /\ lf.sign % 16 = 0 /\ lf.var1 \in Nat
        /\ lf.var1 < 2 * lf.sign /\ 0 - lf.var1 - 0 = 0 - lf.var1
    BY <2>1, SignAssumption DEF Operands
  <2>3. /\ lf.res \in Nat
        /\ lf.res = -lf.var1 \/ lf.res = 2 * lf.sign - lf.var1
    BY <1>6, <2>1, NegationWraps DEF Pending
  <2>4. Nibble(lf.res) = 0 <=> Nibble(lf.var1) = 0
    BY <2>2, <2>3, NibbleStep DEF Nibble
  <2> QED
    BY <1>6, <2>4 DEF FillFlags, FillSteps, Settle, GetCF, GetAF, GetZF, GetSF, GetOF,
       GetPF, Additions, Subtractions, Shifts, DoubleShifts, Logics, Conditions
<1>7. CASE lf.type \in {"SHL", "SAR"}
  BY <1>7 DEF FillFlags, FillShifts, Settle, GetCF, GetAF, GetZF, GetSF, GetOF, GetPF,
         Additions, Subtractions, Shifts, DoubleShifts, Logics, Conditions
<1>8. CASE lf.type = "SHR"
  BY <1>8 DEF FillFlags, FillShifts, Settle, GetCF, GetAF, GetZF, GetSF, GetOF, GetPF,
         Additions, Subtractions, Shifts, DoubleShifts, Logics, Conditions, Loose, Pending
<1>9. CASE lf.type \in DoubleShifts
  BY <1>9 DEF FillFlags, FillShifts, Settle, GetCF, GetAF, GetZF, GetSF, GetOF, GetPF,
         Additions, Subtractions, Shifts, DoubleShifts, Logics, Conditions, Loose
<1> QED
  BY <1>2, <1>3, <1>4, <1>5, <1>6, <1>7, <1>8, <1>9
     DEF Pending, Types, Additions, Subtractions, Logics, Shifts, DoubleShifts

LEMMA FillNoCFOFKeeps ==
  ASSUME NEW fl \in [Conditions -> BOOLEAN], NEW lf, Pending(lf)
  PROVE  /\ FillFlagsNoCFOF(fl, lf) \in [Conditions -> BOOLEAN]
         /\ \A f \in Conditions \ (Loose(lf) \cup {"CF", "OF"}) :
              FillFlagsNoCFOF(fl, lf)[f] = Asked(fl, lf)[f]
  BY FillKeeps DEF FillFlagsNoCFOF, Conditions

-----------------------------------------------------------------------------
(* Every operation is a step of EagerFlags.                                *)

FlagInv == flags \in [Conditions -> BOOLEAN] /\ Pending(lflags)

LEMMA UnknownPending == Pending(Unknown) /\ Loose(Unknown) = {}
  BY DEF Pending, Unknown, Lazy, Types, Loose, DoubleShifts

\* What the operations note is pending, and only two kinds leave a flag
\* open.
LEMMA NotedPending ==
  ASSUME FlagInv, FlagNext
  PROVE  FlagInv'
<1> USE DEF FlagInv
<1>1. CASE PlainNoted
  BY <1>1 DEF PlainNoted, ADD, SUB, Lazy, Pending, Types, Additions, Subtractions
<1>2. CASE WithCarry
  BY <1>2 DEF WithCarry, ADC, SBB, Lazy, Pending, Types, Additions, Subtractions
<1>3. CASE StepByOne
  <2>1. flags' \in [Conditions -> BOOLEAN]
    BY <1>3 DEF StepByOne, LoadCF, GetCF, Conditions
  <2>2. Pending(lflags')
    BY <1>3 DEF StepByOne, INC, DEC, Lazy, Pending, Types
  <2> QED
    BY <2>1, <2>2
<1>4. CASE Negate
  BY <1>4 DEF Negate, InRange, NEG, Lazy, Pending, Types
<1>5. CASE Logic
  BY <1>5 DEF Logic, Pending, Types, Logics
<1>6. CASE ShiftNoted
  BY <1>6, SignAssumption
     DEF ShiftNoted, InRange, Operands, SHL, SHR, SAR, Lazy, Pending, Types, Shifts
<1>7. CASE DoubleShiftNoted
  BY <1>7 DEF DoubleShiftNoted, Pending, Types, DoubleShifts
<1>8. CASE AllFilled
  BY <1>8, FillKeeps, UnknownPending DEF AllFilled
<1>9. CASE SetOne
  <2>1. FillFlags(flags, lflags) \in [Conditions -> BOOLEAN]
    BY FillKeeps
  <2> QED
    BY <1>9, <2>1, UnknownPending DEF SetOne
<1>10. CASE Rotate
  <2>1. FillFlagsNoCFOF(flags, lflags) \in [Conditions -> BOOLEAN]
    BY FillNoCFOFKeeps
  <2> QED
    BY <1>10, <2>1, UnknownPending DEF Rotate
<1>11. CASE Product
  <2>1. FillFlagsNoCFOF(flags, lflags) \in [Conditions -> BOOLEAN]
    BY FillNoCFOFKeeps
  <2> QED
    BY <1>11, <2>1, UnknownPending DEF Product
<1>12. CASE AllLoaded
  BY <1>12, UnknownPending DEF AllLoaded
<1> QED
  BY <1>1, <1>2, <1>3, <1>4, <1>5, <1>6, <1>7, <1>8, <1>9, <1>10, <1>11, <1>12 DEF FlagNext,
     FlagKeep

LEMMA BecomesKnown ==
  ASSUME NEW given, NEW known \in SUBSET Conditions,
         \A f \in known : Asked(flags', lflags')[f] = given[f]
  PROVE  Eager!Becomes(given, known, Loose(lflags'))
  BY AskedBoolean, EagerNames DEF Eager!Becomes

\* All six are known.
LEMMA BecomesAll ==
  ASSUME NEW given, Asked(flags', lflags') = given, Loose(lflags') = {}
  PROVE  Eager!Becomes(given, Eager!Conditions, {})
  BY AskedBoolean, EagerNames DEF Eager!Becomes

LEMMA SameOperands == \A sign : Eager!Operands(sign) = Operands(sign)
  BY DEF Eager!Operands, Operands

LEMMA PlainStep ==
  ASSUME FlagInv, PlainNoted
  PROVE  Eager!Next
<1> DEFINE a == lflags'.var1
           b == lflags'.var2
           sign == lflags'.sign
<1>1. sign \in Signs /\ a \in Operands(sign) /\ b \in Operands(sign)
  BY DEF PlainNoted, InRange
<1>2. Loose(lflags') = {}
  BY DEF PlainNoted, ADD, SUB, Lazy, Loose, DoubleShifts
<1> DEFINE cf == FALSE
           c == IF cf THEN 1 ELSE 0
<1>3. cf \in BOOLEAN /\ ~cf /\ c = 0
  OBVIOUS
<1> HIDE DEF cf
<1>4. CASE lflags' = ADD(a, b, sign)
  <2>1. Asked(flags', lflags') = Eager!SumFlags(a, b, c, sign)
    BY <1>1, <1>4, <1>3, SumNoted
  <2>2. Eager!Sum(a, b, 0, sign)
    BY <1>2, <1>3, <2>1, BecomesAll DEF Eager!Sum
  <2> QED
    BY <1>1, <2>2, SameOperands DEF Eager!Next, Eager!Arithmetic
<1>5. CASE lflags' = SUB("SUB", a, b, sign) \/ lflags' = SUB("CMP", a, b, sign)
  <2>1. Asked(flags', lflags') = Eager!DifferenceFlags(a, b, c, sign)
    BY <1>1, <1>5, <1>3, DifferenceNoted
  <2>2. Eager!Difference(a, b, 0, sign)
    BY <1>2, <1>3, <2>1, BecomesAll DEF Eager!Difference
  <2> QED
    BY <1>1, <2>2, SameOperands DEF Eager!Next, Eager!Arithmetic
<1> QED
  BY <1>4, <1>5 DEF PlainNoted

LEMMA WithCarryStep ==
  ASSUME FlagInv, WithCarry
  PROVE  Eager!Next
<1> DEFINE a == lflags'.var1
           b == lflags'.var2
           sign == lflags'.sign
           cf == GetCF(flags, lflags)
           c == IF cf THEN 1 ELSE 0
<1>1. sign \in Signs /\ a \in Operands(sign) /\ b \in Operands(sign)
  BY DEF WithCarry, InRange
<1>2. Loose(lflags') = {}
  BY DEF WithCarry, ADC, SBB, Lazy, Loose, DoubleShifts
<1>3. cf \in BOOLEAN
  BY DEF GetCF
<1>4. c = Eager!Carry
  BY AskedOne DEF Eager!Carry
<1> HIDE DEF c, cf
<1>5. CASE lflags' = ADC(a, b, cf, sign)
  <2>1. Asked(flags', lflags') = Eager!SumFlags(a, b, c, sign)
    BY <1>1, <1>3, <1>5, SumNoted DEF c
  <2>2. Eager!Sum(a, b, c, sign)
    BY <1>2, <2>1, BecomesAll DEF Eager!Sum
  <2> QED
    BY <1>1, <1>4, <2>2, SameOperands DEF Eager!Next, Eager!Arithmetic
<1>6. CASE lflags' = SBB(a, b, cf, sign)
  <2>1. Asked(flags', lflags') = Eager!DifferenceFlags(a, b, c, sign)
    BY <1>1, <1>3, <1>6, DifferenceNoted DEF c
  <2>2. Eager!Difference(a, b, c, sign)
    BY <1>2, <2>1, BecomesAll DEF Eager!Difference
  <2> QED
    BY <1>1, <1>4, <2>2, SameOperands DEF Eager!Next, Eager!Arithmetic
<1> QED
  BY <1>5, <1>6 DEF WithCarry, cf

LEMMA StepByOneStep ==
  ASSUME FlagInv, StepByOne
  PROVE  Eager!Next
<1> DEFINE a == lflags'.var1
           sign == lflags'.sign
<1>1. sign \in Signs /\ a \in Operands(sign)
  BY DEF StepByOne, InRange
<1>2. Loose(lflags') = {}
  BY DEF StepByOne, INC, DEC, Lazy, Loose, DoubleShifts
<1>3. /\ flags' \in [Conditions -> BOOLEAN]
      /\ flags'["CF"] <=> GetCF(flags, lflags)
  BY DEF FlagInv, StepByOne, LoadCF, GetCF, Conditions
<1>4. flags'["CF"] = Asked(flags, lflags)["CF"]
  BY <1>3, AskedOne, AskedBoolean DEF Conditions
<1>5. CASE lflags' = INC(a, sign)
  <2>1. Asked(flags', lflags') = Eager!KeepingCarry(Eager!SumFlags(a, 1, 0, sign))
    BY <1>1, <1>3, <1>4, <1>5, IncrementNoted DEF Eager!KeepingCarry
  <2> QED
    BY <1>1, <1>2, <2>1, BecomesAll, SameOperands DEF Eager!Next, Eager!Step
<1>6. CASE lflags' = DEC(a, sign)
  <2>1. Asked(flags', lflags') = Eager!KeepingCarry(Eager!DifferenceFlags(a, 1, 0, sign))
    BY <1>1, <1>3, <1>4, <1>6, DecrementNoted DEF Eager!KeepingCarry
  <2> QED
    BY <1>1, <1>2, <2>1, BecomesAll, SameOperands DEF Eager!Next, Eager!Step
<1> QED
  BY <1>5, <1>6 DEF StepByOne

LEMMA NegateStep ==
  ASSUME FlagInv, Negate
  PROVE  Eager!Next
<1> DEFINE a == lflags'.var1
           sign == lflags'.sign
<1>1. sign \in Signs /\ a \in Operands(sign)
  BY DEF Negate, InRange
<1>2. Loose(lflags') = {}
  BY DEF Negate, NEG, Lazy, Loose, DoubleShifts
<1>3. Asked(flags', lflags') = Eager!DifferenceFlags(0, a, 0, sign)
  BY <1>1, NegationNoted DEF Negate
<1>4. Eager!Difference(0, a, 0, sign)
  BY <1>2, <1>3, BecomesAll DEF Eager!Difference
<1> QED
  BY <1>1, <1>4, SameOperands DEF Eager!Next, Eager!Negate

LEMMA LogicStep ==
  ASSUME FlagInv, Logic
  PROVE  Eager!Next
<1> DEFINE lf == lflags'
           given == Eager!OfResult(lf.res, lf.sign, FALSE, FALSE, FALSE)
<1>1. lf.sign \in Signs /\ lf.res \in Operands(lf.sign)
  BY DEF Logic, InRange
<1>2. /\ ~GetCF(flags', lf) /\ ~GetOF(flags', lf)
      /\ GetZF(flags', lf) <=> lf.res = 0
      /\ GetSF(flags', lf) <=> lf.res >= lf.sign
      /\ GetPF(flags', lf) <=> EvenParity(lf.res)
  BY DEF Logic, Logics, Additions, Subtractions, DoubleShifts,
         GetCF, GetOF, GetZF, GetSF, GetPF
<1>3. \A f \in Conditions \ {"AF"} : Asked(flags', lf)[f] = given[f]
  <2> DEFINE asked == Asked(flags', lf)
  <2>1. /\ given \in [Conditions -> BOOLEAN]
        /\ given["CF"] <=> FALSE
        /\ given["OF"] <=> FALSE
        /\ given["ZF"] <=> lf.res = 0
        /\ given["SF"] <=> lf.res >= lf.sign
        /\ given["PF"] <=> EvenParity(lf.res)
    BY EagerNames DEF Eager!OfResult, Conditions
  <2>2. /\ asked \in [Conditions -> BOOLEAN]
        /\ asked["CF"] <=> GetCF(flags', lf)
        /\ asked["OF"] <=> GetOF(flags', lf)
        /\ asked["ZF"] <=> lf.res = 0
        /\ asked["SF"] <=> lf.res >= lf.sign
        /\ asked["PF"] <=> EvenParity(lf.res)
    BY <1>2, AskedOne, AskedBoolean
  <2> HIDE DEF asked, given
  <2> SUFFICES ASSUME NEW f \in Conditions \ {"AF"}
              PROVE  asked[f] = given[f]
    BY DEF asked
  <2>3. asked[f] <=> given[f]
    BY <1>2, <2>1, <2>2 DEF Conditions
  <2> QED
    BY <2>1, <2>2, <2>3 DEF Conditions
<1>4. Loose(lf) = {}
  BY DEF Logic, Logics, Loose, DoubleShifts
<1>5. Eager!Becomes(given, Conditions \ {"AF"}, {})
  BY <1>3, <1>4, BecomesKnown
<1> QED
  BY <1>1, <1>5, SameOperands, EagerNames DEF Eager!Next, Eager!Logic

LEMMA ShiftStep ==
  ASSUME FlagInv, ShiftNoted
  PROVE  Eager!Next
<1> DEFINE lf == lflags'
           a == lf.var1
           n == lf.var2
           sign == lf.sign
<1>1. /\ sign \in Signs /\ a \in Operands(sign) /\ n \in 1 .. 31
      /\ sign \in Nat /\ a \in Nat
  BY SignAssumption DEF ShiftNoted, InRange, Operands
<1>2. /\ lf.type \in Shifts
         => /\ GetZF(flags', lf) <=> lf.res = 0
            /\ GetSF(flags', lf) <=> lf.res >= sign
            /\ GetPF(flags', lf) <=> EvenParity(lf.res)
  BY DEF Shifts, GetZF, GetSF, GetPF
<1>3. CASE lf = SHL(a, n, sign)
  <2> DEFINE given == Eager!OfResult(lf.res, sign, OutLeft(lf), FALSE,
                                 ~SameSign(lf.res, a, sign))
             known == Conditions \ (IF n = 1 THEN {"AF"} ELSE {"AF", "OF"})
  <2>1. lf.type = "SHL"
    BY <1>3 DEF SHL, Lazy
  <2>2. /\ GetCF(flags', lf) <=> OutLeft(lf)
        /\ GetOF(flags', lf) <=> ~SameSign(lf.res, a, sign)
    BY <2>1 DEF GetCF, GetOF, Additions, Subtractions
  <2>3. \A f \in known : Asked(flags', lf)[f] = given[f]
    <3> DEFINE asked == Asked(flags', lf)
    <3>1. /\ given \in [Conditions -> BOOLEAN]
          /\ given["CF"] <=> OutLeft(lf)
          /\ given["OF"] <=> ~SameSign(lf.res, a, sign)
          /\ given["ZF"] <=> lf.res = 0
          /\ given["SF"] <=> lf.res >= lf.sign
          /\ given["PF"] <=> EvenParity(lf.res)
      BY EagerNames DEF Eager!OfResult, Conditions
    <3>2. /\ asked \in [Conditions -> BOOLEAN]
          /\ asked["CF"] <=> GetCF(flags', lf)
          /\ asked["OF"] <=> GetOF(flags', lf)
          /\ asked["ZF"] <=> lf.res = 0
          /\ asked["SF"] <=> lf.res >= lf.sign
          /\ asked["PF"] <=> EvenParity(lf.res)
      BY <1>2, <2>1, <2>2, AskedOne, AskedBoolean DEF Shifts
    <3> HIDE DEF asked, given
    <3> SUFFICES ASSUME NEW f \in known
                PROVE  asked[f] = given[f]
      BY DEF asked
    <3>3. asked[f] <=> given[f]
      BY <1>2, <2>1, <2>2, <3>1, <3>2 DEF Conditions, Shifts
    <3> QED
      BY <3>1, <3>2, <3>3 DEF Conditions, Shifts
  <2>4. Loose(lf) = {}
    BY <2>1 DEF Loose, DoubleShifts
  <2>5. Eager!Becomes(given, known, {})
    BY <2>3, <2>4, BecomesKnown
  <2> QED
    BY <1>1, <1>3, <2>5, SameOperands, EagerNames DEF Eager!Next, Eager!Shift
<1>4. CASE lf = SHR(a, n, sign)
  <2> DEFINE given == Eager!OfResult(lf.res, sign, OutRight(lf), FALSE, a >= sign)
             bare == n = 1 /\ a = sign
             known == Conditions \ (IF n = 1 /\ ~bare THEN {"AF"} ELSE {"AF", "OF"})
  <2>1. lf.type = "SHR"
    BY <1>4 DEF SHR, Lazy
  <2>2. /\ GetCF(flags', lf) <=> OutRight(lf)
        /\ n = 1 /\ a # sign => (GetOF(flags', lf) <=> a >= sign)
    BY <1>1, <2>1 DEF GetCF, GetOF, Additions, Subtractions, DoubleShifts
  <2>3. \A f \in known : Asked(flags', lf)[f] = given[f]
    <3> DEFINE asked == Asked(flags', lf)
    <3>1. /\ given \in [Conditions -> BOOLEAN]
          /\ given["CF"] <=> OutRight(lf)
          /\ given["OF"] <=> a >= sign
          /\ given["ZF"] <=> lf.res = 0
          /\ given["SF"] <=> lf.res >= lf.sign
          /\ given["PF"] <=> EvenParity(lf.res)
      BY EagerNames DEF Eager!OfResult, Conditions
    <3>2. /\ asked \in [Conditions -> BOOLEAN]
          /\ asked["CF"] <=> GetCF(flags', lf)
          /\ asked["OF"] <=> GetOF(flags', lf)
          /\ asked["ZF"] <=> lf.res = 0
          /\ asked["SF"] <=> lf.res >= lf.sign
          /\ asked["PF"] <=> EvenParity(lf.res)
      BY <1>2, <2>1, <2>2, AskedOne, AskedBoolean DEF Shifts
    <3> HIDE DEF asked, given
    <3> SUFFICES ASSUME NEW f \in known
                PROVE  asked[f] = given[f]
      BY DEF asked
    <3>3. asked[f] <=> given[f]
      BY <1>2, <2>1, <2>2, <3>1, <3>2 DEF Conditions, Shifts
    <3> QED
      BY <3>1, <3>2, <3>3 DEF Conditions, Shifts
  <2>4. Loose(lf) = IF bare THEN {"OF"} ELSE {}
    BY <2>1 DEF Loose, DoubleShifts
  <2>5. Eager!Becomes(given, known, Loose(lf))
    BY <2>3, BecomesKnown
  <2> QED
    <3>1. lf = Eager!SHR(a, n, sign) /\ Eager!OutRight(lf) = OutRight(lf)
      BY <1>4, EagerNames
    <3>2. Eager!Becomes(Eager!OfResult(lf.res, sign, Eager!OutRight(lf), FALSE, a >= sign), known,
                    IF bare THEN {"OF"} ELSE {})
      BY <2>4, <2>5, <3>1
    <3>3. Eager!Shift
      BY <1>1, <3>1, <3>2, SameOperands, EagerNames DEF Eager!Shift
    <3> QED
      BY <3>3 DEF Eager!Next
<1>5. CASE lf = SAR(a, n, sign)
  <2> DEFINE given == Eager!OfResult(lf.res, sign, OutRight(lf), FALSE, FALSE)
  <2>1. lf.type = "SAR"
    BY <1>5 DEF SAR, Lazy
  <2>2. /\ GetCF(flags', lf) <=> OutRight(lf)
        /\ ~GetOF(flags', lf)
    BY <2>1 DEF GetCF, GetOF, Additions, Subtractions, DoubleShifts
  <2>3. \A f \in Conditions \ {"AF"} : Asked(flags', lf)[f] = given[f]
    <3> DEFINE asked == Asked(flags', lf)
    <3>1. /\ given \in [Conditions -> BOOLEAN]
          /\ given["CF"] <=> OutRight(lf)
          /\ given["OF"] <=> FALSE
          /\ given["ZF"] <=> lf.res = 0
          /\ given["SF"] <=> lf.res >= lf.sign
          /\ given["PF"] <=> EvenParity(lf.res)
      BY EagerNames DEF Eager!OfResult, Conditions
    <3>2. /\ asked \in [Conditions -> BOOLEAN]
          /\ asked["CF"] <=> GetCF(flags', lf)
          /\ asked["OF"] <=> GetOF(flags', lf)
          /\ asked["ZF"] <=> lf.res = 0
          /\ asked["SF"] <=> lf.res >= lf.sign
          /\ asked["PF"] <=> EvenParity(lf.res)
      BY <1>2, <2>1, <2>2, AskedOne, AskedBoolean DEF Shifts
    <3> HIDE DEF asked, given
    <3> SUFFICES ASSUME NEW f \in Conditions \ {"AF"}
                PROVE  asked[f] = given[f]
      BY DEF asked
    <3>3. asked[f] <=> given[f]
      BY <1>2, <2>1, <2>2, <3>1, <3>2 DEF Conditions, Shifts
    <3> QED
      BY <3>1, <3>2, <3>3 DEF Conditions, Shifts
  <2>4. Loose(lf) = {}
    BY <2>1 DEF Loose, DoubleShifts
  <2>5. Eager!Becomes(given, Conditions \ {"AF"}, {})
    BY <2>3, <2>4, BecomesKnown
  <2> QED
    BY <1>1, <1>5, <2>5, SameOperands, EagerNames DEF Eager!Next, Eager!Shift
<1> QED
  BY <1>3, <1>4, <1>5 DEF ShiftNoted

LEMMA DoubleShiftStep ==
  ASSUME FlagInv, DoubleShiftNoted
  PROVE  Eager!Next
<1> DEFINE lf == lflags'
           given == Eager!OfResult(lf.res, lf.sign, FALSE, FALSE, FALSE)
<1>1. lf.sign \in Signs /\ lf.res \in Operands(lf.sign)
  BY DEF DoubleShiftNoted, InRange
<1>2. /\ GetZF(flags', lf) <=> lf.res = 0
      /\ GetSF(flags', lf) <=> lf.res >= lf.sign
      /\ GetPF(flags', lf) <=> EvenParity(lf.res)
  BY DEF DoubleShiftNoted, DoubleShifts, GetZF, GetSF, GetPF
<1>3. \A f \in {"ZF", "SF", "PF"} : Asked(flags', lf)[f] = given[f]
  <2> DEFINE asked == Asked(flags', lf)
  <2>1. /\ given \in [Conditions -> BOOLEAN]
        /\ given["CF"] <=> FALSE
        /\ given["OF"] <=> FALSE
        /\ given["ZF"] <=> lf.res = 0
        /\ given["SF"] <=> lf.res >= lf.sign
        /\ given["PF"] <=> EvenParity(lf.res)
    BY EagerNames DEF Eager!OfResult, Conditions
  <2>2. /\ asked \in [Conditions -> BOOLEAN]
        /\ asked["CF"] <=> GetCF(flags', lf)
        /\ asked["OF"] <=> GetOF(flags', lf)
        /\ asked["ZF"] <=> lf.res = 0
        /\ asked["SF"] <=> lf.res >= lf.sign
        /\ asked["PF"] <=> EvenParity(lf.res)
    BY <1>2, AskedOne, AskedBoolean
  <2> HIDE DEF asked, given
  <2> SUFFICES ASSUME NEW f \in {"ZF", "SF", "PF"}
              PROVE  asked[f] = given[f]
    BY DEF asked
  <2>3. asked[f] <=> given[f]
    BY <1>2, <2>1, <2>2 DEF Conditions
  <2> QED
    BY <2>1, <2>2, <2>3 DEF Conditions
<1>4. Loose(lf) = {"AF"}
  BY DEF DoubleShiftNoted, Loose
<1>5. Eager!Becomes(given, {"ZF", "SF", "PF"}, {"AF"})
  BY <1>3, <1>4, BecomesKnown DEF Conditions
<1> QED
  BY <1>1, <1>5, SameOperands, EagerNames DEF Eager!Next, Eager!DoubleShift

\* The operations that fill: what is asked afterwards is in the register.
LEMMA FilledAsked ==
  ASSUME flags' \in [Conditions -> BOOLEAN], lflags' = Unknown
  PROVE  Asked(flags', lflags') = flags' /\ Loose(lflags') = {}
  BY AskedUnknown, UnknownPending

LEMMA FillStep ==
  ASSUME FlagInv, AllFilled
  PROVE  Eager!Next
<1>1. /\ flags' \in [Conditions -> BOOLEAN]
      /\ \A f \in Conditions \ Loose(lflags) : flags'[f] = Asked(flags, lflags)[f]
  BY FillKeeps DEF FlagInv, AllFilled
<1>2. Eager!Becomes(Asked(flags, lflags), Conditions \ Loose(lflags), {})
  BY <1>1, FilledAsked, BecomesKnown DEF AllFilled
<1> QED
  BY <1>2, EagerNames DEF Eager!Next, Eager!Settling

LEMMA SomeStep ==
  ASSUME FlagInv, SetOne \/ Rotate \/ Product
  PROVE  Eager!Next
<1>1. ASSUME NEW some \in {{"CF"}, {"ZF"}, {"CF", "OF"}, {"CF", "OF", "ZF"}},
             flags' \in [Conditions -> BOOLEAN], lflags' = Unknown,
             \A f \in Conditions \ (Loose(lflags) \cup some) :
               flags'[f] = Asked(flags, lflags)[f]
      PROVE  Eager!Next
  <2>1. Eager!Becomes(Asked(flags, lflags), Conditions \ (Loose(lflags) \cup some), {})
    BY <1>1, FilledAsked, BecomesKnown
  <2> QED
    BY <2>1, EagerNames DEF Eager!Next, Eager!SetSome
<1>2. CASE SetOne
  <2>1. PICK f \in {"CF", "ZF"}, b \in BOOLEAN :
          flags' = [FillFlags(flags, lflags) EXCEPT ![f] = b]
    BY <1>2 DEF SetOne
  <2>2. /\ flags' \in [Conditions -> BOOLEAN]
        /\ \A g \in Conditions \ (Loose(lflags) \cup {f}) :
             flags'[g] = Asked(flags, lflags)[g]
    BY <2>1, FillKeeps DEF FlagInv, Conditions
  <2> QED
    BY <1>1, <1>2, <2>2 DEF SetOne
<1>3. CASE Rotate
  <2>1. /\ flags' \in [Conditions -> BOOLEAN]
        /\ \A g \in Conditions \ (Loose(lflags) \cup {"CF", "OF"}) :
             flags'[g] = Asked(flags, lflags)[g]
    BY <1>3, FillNoCFOFKeeps DEF FlagInv, Rotate, Conditions
  <2> QED
    BY <1>1, <1>3, <2>1 DEF Rotate
<1>4. CASE Product
  <2>1. /\ flags' \in [Conditions -> BOOLEAN]
        /\ \A g \in Conditions \ (Loose(lflags) \cup {"CF", "OF", "ZF"}) :
             flags'[g] = Asked(flags, lflags)[g]
    BY <1>4, FillNoCFOFKeeps DEF FlagInv, Product, Conditions
  <2> QED
    BY <1>1, <1>4, <2>1 DEF Product
<1> QED
  BY <1>2, <1>3, <1>4

LEMMA LoadStep ==
  ASSUME FlagInv, AllLoaded
  PROVE  Eager!Next
<1>1. Eager!Becomes(Asked(flags, lflags), {}, {})
  BY FilledAsked, BecomesKnown DEF AllLoaded
<1> QED
  BY <1>1, EagerNames DEF Eager!Next, Eager!Load

-----------------------------------------------------------------------------

\* The flags register stays a value for every condition, and what is
\* pending is something FillFlags can work out.
THEOREM FlagsWellFormed == FlagSpec => []FlagInv
<1>1. FlagInit => FlagInv
  BY UnknownPending DEF FlagInit, FlagInv
<1>2. FlagInv /\ [FlagNext]_flagVars => FlagInv'
  <2>1. CASE FlagNext
    BY <2>1, NotedPending
  <2>2. CASE UNCHANGED flagVars
    BY <2>2 DEF flagVars, FlagInv, Pending
  <2> QED
    BY <2>1, <2>2
<1> QED
  BY <1>1, <1>2, PTL DEF FlagSpec

\* Flags that are computed when they are asked for are the flags that
\* computing them at once would give (get_CF .. get_PF and FillFlags
\* against the arithmetic of EagerFlags).
THEOREM LazyImplementsEager == FlagSpec => Eager!Spec
<1>1. FlagInit => Eager!Init
  BY AskedUnknown, UnknownPending, EagerNames DEF FlagInit, Eager!Init
<1>2. FlagInv /\ [FlagNext]_flagVars => [Eager!Next]_Eager!eagerVars
  <2>1. CASE FlagNext
    BY <2>1, PlainStep, WithCarryStep, StepByOneStep, NegateStep, LogicStep, ShiftStep,
       DoubleShiftStep, FillStep, SomeStep, LoadStep DEF FlagNext, FlagKeep
  <2>2. CASE UNCHANGED flagVars
    BY <2>2 DEF flagVars, Eager!eagerVars
  <2> QED
    BY <2>1, <2>2
<1> QED
  BY <1>1, <1>2, FlagsWellFormed, PTL DEF FlagSpec, Eager!Spec

-----------------------------------------------------------------------------
(* The machine.                                                            *)

Names == {"es", "cs", "ss", "ds", "fs", "gs"}
Bytes == {x \in Nat : x < 256}
Words == {x \in Nat : x < 65536}
Registers == [0 .. 7 -> Words]
SegmentRegisters == [Names -> Words]
FlagRegisters == [Conditions -> BOOLEAN]
ControlRegisters == [Controls -> BOOLEAN]

IsMemory(mem) ==
  /\ mem = [a \in DOMAIN mem |-> mem[a]]
  /\ \A a \in DOMAIN mem : mem[a] \in Bytes

IsRecord(n) ==
  n = [r |-> n.r, s |-> n.s, ip |-> n.ip, fl |-> n.fl, lf |-> n.lf, ctl |-> n.ctl,
       mem |-> n.mem, pic |-> n.pic, trap |-> n.trap, skip |-> n.skip, out |-> n.out,
       cb |-> n.cb]

IsMachine(n) ==
  /\ IsRecord(n)
  /\ n.r \in Registers
  /\ n.s \in SegmentRegisters
  /\ n.ip \in Nat
  /\ n.fl \in FlagRegisters
  /\ n.ctl \in ControlRegisters
  /\ IsMemory(n.mem)
  /\ n.pic = [asked |-> n.pic.asked, serving |-> n.pic.serving]

\* A move: flags, interrupt controllers and the way out are as they were.
Moved(n, k) ==
  IsMachine(k) /\ k.fl = n.fl /\ k.lf = n.lf /\ k.pic = n.pic /\ k.out = n.out

LEMMA MovedSelf ==
  ASSUME NEW n, IsMachine(n)
  PROVE  Moved(n, n)
  BY DEF Moved

LEMMA MovedOn ==
  ASSUME NEW n, NEW k, NEW j, Moved(n, k), Moved(k, j)
  PROVE  Moved(n, j)
  BY DEF Moved

LEMMA MovedMachine ==
  ASSUME NEW n, NEW k, Moved(n, k)
  PROVE  IsMachine(k)
  BY DEF Moved

LEMMA WithRegisters ==
  ASSUME NEW n, IsMachine(n), NEW v \in Registers
  PROVE  Moved(n, [n EXCEPT !.r = v])
  BY DEF IsMachine, Moved, IsRecord

LEMMA WithSegments ==
  ASSUME NEW n, IsMachine(n), NEW v \in SegmentRegisters
  PROVE  Moved(n, [n EXCEPT !.s = v])
  BY DEF IsMachine, Moved, IsRecord

LEMMA WithControls ==
  ASSUME NEW n, IsMachine(n), NEW v \in ControlRegisters
  PROVE  Moved(n, [n EXCEPT !.ctl = v])
  BY DEF IsMachine, Moved, IsRecord

LEMMA WithMemory ==
  ASSUME NEW n, IsMachine(n), NEW v, IsMemory(v)
  PROVE  Moved(n, [n EXCEPT !.mem = v])
  BY DEF IsMachine, Moved, IsRecord

LEMMA WithIp ==
  ASSUME NEW n, IsMachine(n), NEW v \in Nat
  PROVE  Moved(n, [n EXCEPT !.ip = v])
  BY DEF IsMachine, Moved, IsRecord

LEMMA MachineRegister ==
  ASSUME NEW n, IsMachine(n), NEW k \in 0 .. 7
  PROVE  n.r[k] \in Words
  BY DEF IsMachine, Registers

LEMMA MachineSegment ==
  ASSUME NEW n, IsMachine(n), NEW x \in Names
  PROVE  n.s[x] \in Words
  BY DEF IsMachine, SegmentRegisters

LEMMA ByteRead ==
  ASSUME NEW n, IsMachine(n), NEW a
  PROVE  ByteAt(n, a) \in Bytes
  BY DEF IsMachine, IsMemory, ByteAt, Bytes

Width(sign) == sign = B \/ sign = W

LEMMA OperandRange ==
  ASSUME NEW sign \in Nat, NEW top, top = 2 * sign
  PROVE  Operands(sign) = {x \in Nat : x < top}
  BY DEF Operands

LEMMA ByteOperands == Operands(B) = Bytes /\ Width(B) /\ B = 128 /\ B # W
  BY OperandRange DEF Width, B, W, Bytes

LEMMA WordOperands == Operands(W) = Words /\ Width(W) /\ W = 32768
  BY OperandRange DEF Width, W, Words

LEMMA Widths ==
  ASSUME NEW sign, Width(sign)
  PROVE  /\ sign = B \/ sign = W
         /\ Operands(sign) \subseteq Words
  BY ByteOperands, WordOperands DEF Width, Bytes, Words

LEMMA LoadRange ==
  ASSUME NEW n, IsMachine(n), NEW sign, Width(sign), NEW a
  PROVE  Load(n, sign, a) \in Operands(sign)
<1>1. ByteAt(n, a) \in Bytes /\ ByteAt(n, a + 1) \in Bytes
  BY ByteRead
<1>2. ByteAt(n, a) + (256 * ByteAt(n, a + 1)) \in Words
  BY <1>1 DEF Bytes, Words
<1> QED
  BY <1>1, <1>2, ByteOperands, WordOperands DEF Load, Width

LEMMA RegRange ==
  ASSUME NEW n, IsMachine(n), NEW sign, Width(sign), NEW k \in 0 .. 7
  PROVE  Reg(n, sign, k) \in Operands(sign)
<1>1. CASE sign = W
  BY <1>1, MachineRegister, ByteOperands, WordOperands DEF Reg
<1>2. CASE sign = B /\ k < 4
  <2>1. n.r[k] % 256 \in Bytes
    BY MachineRegister DEF Words, Bytes
  <2> QED
    BY <1>2, <2>1, ByteOperands, WordOperands, Widths DEF Reg
<1>3. CASE sign = B /\ ~(k < 4)
  <2>1. k - 4 \in 0 .. 7
    BY <1>3
  <2>2. n.r[k - 4] \div 256 \in Bytes
    BY <2>1, MachineRegister DEF Words, Bytes
  <2> QED
    BY <1>3, <2>2, ByteOperands, WordOperands, Widths DEF Reg
<1> QED
  BY <1>1, <1>2, <1>3 DEF Width

LEMMA SetRegMoves ==
  ASSUME NEW n, IsMachine(n), NEW sign, Width(sign), NEW k \in 0 .. 7, NEW v \in Operands(sign)
  PROVE  Moved(n, SetReg(n, sign, k, v))
<1> DEFINE r == IF sign = W THEN [n.r EXCEPT ![k] = v]
                ELSE IF k < 4 THEN [n.r EXCEPT ![k] = (@ - (@ % 256)) + v]
                ELSE [n.r EXCEPT ![k - 4] = (@ % 256) + (256 * v)]
<1>1. SetReg(n, sign, k, v) = [n EXCEPT !.r = r]
  BY DEF SetReg
<1>2. n.r \in Registers
  BY DEF IsMachine
<1>3. r \in Registers
  <2>1. CASE sign = W
    BY <1>2, <2>1, ByteOperands, WordOperands DEF Registers
  <2>2. CASE sign = B /\ k < 4
    <3>1. (n.r[k] - (n.r[k] % 256)) + v \in Words
      BY <2>2, MachineRegister, ByteOperands, WordOperands DEF Words, Bytes
    <3> QED
      BY <1>2, <2>2, <3>1, Widths DEF Registers
  <2>3. CASE sign = B /\ ~(k < 4)
    <3>1. k - 4 \in 0 .. 7
      BY <2>3
    <3>2. (n.r[k - 4] % 256) + (256 * v) \in Words
      BY <2>3, <3>1, MachineRegister, ByteOperands, WordOperands DEF Words, Bytes
    <3> QED
      BY <1>2, <2>3, <3>2, Widths DEF Registers
  <2> QED
    BY <2>1, <2>2, <2>3 DEF Width
<1> QED
  BY <1>1, <1>3, WithRegisters

LEMMA SaveMoves ==
  ASSUME NEW n, IsMachine(n), NEW sign, Width(sign), NEW a, NEW v \in Operands(sign)
  PROVE  Moved(n, Save(n, sign, a, v))
<1> DEFINE places == IF sign = B THEN {a} ELSE {a, a + 1}
           mem == [x \in DOMAIN n.mem \cup places |->
                     IF x = a THEN v % 256 ELSE IF x \in places THEN v \div 256 ELSE n.mem[x]]
<1>1. Save(n, sign, a, v) = [n EXCEPT !.mem = mem]
  BY DEF Save, IsMachine, IsRecord
<1>2. v % 256 \in Bytes /\ v \div 256 \in Bytes
  BY Widths DEF Words, Bytes
<1>3. \A x \in DOMAIN n.mem : n.mem[x] \in Bytes
  BY DEF IsMachine, IsMemory
<1>4. IsMemory(mem)
  BY <1>2, <1>3 DEF IsMemory
<1> QED
  BY <1>1, <1>4, WithMemory

LEMMA SetSegmentMoves ==
  ASSUME NEW n, IsMachine(n), NEW x, NEW v \in Words
  PROVE  Moved(n, SetSegment(n, x, v))
<1>1. [n.s EXCEPT ![x] = v] \in SegmentRegisters
  BY DEF IsMachine, SegmentRegisters
<1>2. SetSegment(n, x, v) = [n EXCEPT !.s = [n.s EXCEPT ![x] = v]]
  BY DEF SetSegment, IsMachine, IsRecord
<1> QED
  BY <1>1, <1>2, WithSegments

LEMMA SetControlMoves ==
  ASSUME NEW n, IsMachine(n), NEW f, NEW b \in BOOLEAN
  PROVE  Moved(n, SetControl(n, f, b))
<1>1. [n.ctl EXCEPT ![f] = b] \in ControlRegisters
  BY DEF IsMachine, ControlRegisters
<1>2. SetControl(n, f, b) = [n EXCEPT !.ctl = [n.ctl EXCEPT ![f] = b]]
  BY DEF SetControl, IsMachine, IsRecord
<1> QED
  BY <1>1, <1>2, WithControls

LEMMA JumpMoves ==
  ASSUME NEW n, IsMachine(n), NEW ip \in Int
  PROVE  Moved(n, Jump(n, ip))
  BY WithIp DEF Jump, Word

LEMMA JumpFarMoves ==
  ASSUME NEW n, IsMachine(n), NEW cs \in Words, NEW ip \in Words
  PROVE  Moved(n, JumpFar(n, cs, ip))
<1>1. Moved(n, SetSegment(n, "cs", cs))
  BY SetSegmentMoves
<1>2. Moved(SetSegment(n, "cs", cs), [SetSegment(n, "cs", cs) EXCEPT !.ip = ip])
  BY <1>1, MovedMachine, WithIp DEF Words
<1>3. JumpFar(n, cs, ip) = [SetSegment(n, "cs", cs) EXCEPT !.ip = ip]
  BY DEF JumpFar, SetSegment
<1> QED
  BY <1>1, <1>2, <1>3, MovedOn

-----------------------------------------------------------------------------
(* Operands and the stack.                                                 *)

LEMMA InstructionFields ==
  ASSUME NEW i, IsInstruction(i)
  PROVE  /\ Width(i.sign) /\ i.rm \in Bytes /\ i.disp \in Words /\ i.imm \in Operands(i.sign)
         /\ i.imm \in Words
<1>1. Width(i.sign) /\ i.rm \in Operands(B) /\ i.disp \in Operands(W) /\ i.imm \in Operands(i.sign)
  BY DEF IsInstruction, Width
<1> QED
  BY <1>1, ByteOperands, WordOperands, Widths

LEMMA Fields ==
  ASSUME NEW rm \in Bytes
  PROVE  RegField(rm) \in 0 .. 7 /\ EAField(rm) \in 0 .. 7
  BY DEF RegField, EAField, Bytes

LEMMA WordRange ==
  ASSUME NEW x \in Int
  PROVE  Word(x) \in Words
  BY DEF Word, Words

LEMMA ERange ==
  ASSUME NEW n, IsMachine(n), NEW i, IsInstruction(i), NEW sign, Width(sign)
  PROVE  E(n, i, sign) \in Operands(sign)
  BY InstructionFields, Fields, RegRange, LoadRange DEF E

LEMMA GRange ==
  ASSUME NEW n, IsMachine(n), NEW i, IsInstruction(i), NEW sign, Width(sign)
  PROVE  G(n, i, sign) \in Operands(sign)
  BY InstructionFields, Fields, RegRange DEF G

LEMMA SetEMoves ==
  ASSUME NEW n, IsMachine(n), NEW i, IsInstruction(i), NEW sign, Width(sign),
         NEW v \in Operands(sign)
  PROVE  Moved(n, SetE(n, i, sign, v))
  BY InstructionFields, Fields, SetRegMoves, SaveMoves DEF SetE

LEMMA SetGMoves ==
  ASSUME NEW n, IsMachine(n), NEW i, IsInstruction(i), NEW sign, Width(sign),
         NEW v \in Operands(sign)
  PROVE  Moved(n, SetG(n, i, sign, v))
  BY InstructionFields, Fields, SetRegMoves DEF SetG

LEMMA EAOffsetRange ==
  ASSUME NEW n, IsMachine(n), NEW i, IsInstruction(i)
  PROVE  EAOffset(n, i) \in Words
<1>1. EAField(i.rm) \in 0 .. 7 /\ i.disp \in Words /\ i.rm \in Bytes
  BY InstructionFields, Fields
<1>2. /\ n.r[BX] \in Nat /\ n.r[SI] \in Nat /\ n.r[DI] \in Nat /\ n.r[BP] \in Nat
  BY MachineRegister DEF BX, SI, DI, BP, Words
<1>3. EASum(n, i) \in Nat
  BY <1>1, <1>2 DEF EASum
<1> QED
  BY <1>1, <1>3, WordRange DEF EAOffset, Words

LEMMA WordMoves ==
  ASSUME NEW n, IsMachine(n), NEW k \in 0 .. 7, NEW v \in Words
  PROVE  Moved(n, SetReg(n, W, k, v))
  BY SetRegMoves, WordOperands

LEMMA ByteMoves ==
  ASSUME NEW n, IsMachine(n), NEW k \in 0 .. 7, NEW v \in Bytes
  PROVE  Moved(n, SetReg(n, B, k, v))
  BY SetRegMoves, ByteOperands

LEMMA RegisterNames ==
  AX \in 0 .. 7 /\ CX \in 0 .. 7 /\ DX \in 0 .. 7 /\ BX \in 0 .. 7
  /\ SP \in 0 .. 7 /\ BP \in 0 .. 7 /\ SI \in 0 .. 7 /\ DI \in 0 .. 7
  BY DEF AX, CX, DX, BX, SP, BP, SI, DI

LEMMA PushMoves ==
  ASSUME NEW n, IsMachine(n), NEW v \in Int
  PROVE  Moved(n, Push16(n, v))
<1> DEFINE sp == Word(n.r[SP] - 2)
           k == SetReg(n, W, SP, sp)
<1>1. sp \in Words
  BY MachineRegister, RegisterNames, WordRange DEF Words
<1>2. Moved(n, k)
  BY <1>1, WordMoves, RegisterNames
<1>3. Moved(k, Save(k, W, StackAddress(n, sp), Word(v)))
  <2> HIDE DEF k, sp
  <2> QED
    BY <1>2, MovedMachine, SaveMoves, WordOperands, WordRange
<1>4. Push16(n, v) = Save(k, W, StackAddress(n, sp), Word(v))
  BY DEF Push16
<1> HIDE DEF k, sp
<1> QED
  BY <1>2, <1>3, <1>4, MovedOn

LEMMA PopMoves ==
  ASSUME NEW n, IsMachine(n)
  PROVE  Moved(n, Pop16(n)) /\ Top16(n) \in Words
<1>1. Word(n.r[SP] + 2) \in Words
  BY MachineRegister, RegisterNames, WordRange DEF Words
<1> QED
  BY <1>1, WordMoves, RegisterNames, LoadRange, WordOperands DEF Pop16, Top16

LEMMA PopIntoMoves ==
  ASSUME NEW n, IsMachine(n), NEW k \in 0 .. 7
  PROVE  Moved(n, PopInto(n, k))
  BY PopMoves, MovedMachine, MovedOn, WordMoves DEF PopInto

LEMMA FlagsWordRange ==
  ASSUME NEW n
  PROVE  FlagsWord(n) \in Words
<1> DEFINE value(f) == IF f \in Conditions THEN n.fl[f] ELSE n.ctl[f]
           bit(f) == IF value(f) THEN Weight[f] ELSE 0
<1>1. bit("CF") \in {0, 1} /\ bit("PF") \in {0, 4} /\ bit("AF") \in {0, 16} /\ bit("ZF") \in {0, 64}
  BY DEF Weight, Conditions
<1>2. bit("SF") \in {0, 128} /\ bit("OF") \in {0, 2048}
  BY DEF Weight, Conditions
<1>3. bit("TF") \in {0, 256} /\ bit("IF") \in {0, 512} /\ bit("DF") \in {0, 1024}
  BY DEF Weight, Controls
<1>4. FlagsWord(n) = 2 + bit("CF") + bit("PF") + bit("AF") + bit("ZF") + bit("SF")
        + bit("TF") + bit("IF") + bit("DF") + bit("OF")
  BY DEF FlagsWord
<1> HIDE DEF bit
<1> QED
  BY <1>1, <1>2, <1>3, <1>4 DEF Words

-----------------------------------------------------------------------------
(* What an instruction does to the flags.                                  *)

\* It notes an operation and leaves the flags register alone ...
NotesOperation(fl, lf, lf2) ==
  LET a == lf2.var1  b == lf2.var2  sign == lf2.sign  cf == GetCF(fl, lf)
  IN  /\ InRange(lf2)
      /\ \/ lf2 = ADD(a, b, sign) \/ lf2 = SUB("SUB", a, b, sign) \/ lf2 = SUB("CMP", a, b, sign)
         \/ lf2 = ADC(a, b, cf, sign) \/ lf2 = SBB(a, b, cf, sign)
         \/ lf2 = NEG(a, sign)
         \/ lf2.type \in Logics
         \/ /\ b \in 1 .. 31
            /\ lf2 = SHL(a, b, sign) \/ lf2 = SHR(a, b, sign) \/ lf2 = SAR(a, b, sign)
         \/ b \in 1 .. 31 /\ lf2.type \in DoubleShifts

\* ... or a step by one, the carry being worked out ...
NotesByOne(lf2) ==
  InRange(lf2) /\ (lf2 = INC(lf2.var1, lf2.sign) \/ lf2 = DEC(lf2.var1, lf2.sign))

\* ... or it fills the register in and sets some flags.
FillsAll(fl, lf, fl2) == fl2 = FillFlags(fl, lf)
SetsOne(fl, lf, fl2) ==
  \E f \in {"CF", "ZF"} : \E b \in BOOLEAN : fl2 = [FillFlags(fl, lf) EXCEPT ![f] = b]
SetsTwo(fl, lf, fl2) ==
  \E cf, of \in BOOLEAN :
    fl2 = [FillFlagsNoCFOF(fl, lf) EXCEPT !["CF"] = cf, !["OF"] = of]
SetsThree(fl, lf, fl2) ==
  \E cf, of, zf \in BOOLEAN :
    fl2 = [FillFlagsNoCFOF(fl, lf) EXCEPT !["CF"] = cf, !["OF"] = of, !["ZF"] = zf]

FlagsKept(fl, lf, fl2, lf2) ==
  \/ fl2 = fl /\ lf2 = lf
  \/ fl2 = fl /\ NotesOperation(fl, lf, lf2)
  \/ fl2 = LoadCF(fl, lf) /\ NotesByOne(lf2)
  \/ lf2 = Unknown /\ FillsAll(fl, lf, fl2)
  \/ lf2 = Unknown /\ SetsOne(fl, lf, fl2)
  \/ lf2 = Unknown /\ SetsTwo(fl, lf, fl2)
  \/ lf2 = Unknown /\ SetsThree(fl, lf, fl2)

\* Module Cpu brings its own copies of the definitions of LazyFlags.
LEMMA MachineNames ==
  /\ F!Conditions = Conditions /\ F!Logics = Logics /\ F!DoubleShifts = DoubleShifts
  /\ F!Unknown = Unknown
  /\ \A a, b, s : F!ADD(a, b, s) = ADD(a, b, s)
  /\ \A t, a, b, s : F!SUB(t, a, b, s) = SUB(t, a, b, s)
  /\ \A a, b, c, s : F!ADC(a, b, c, s) = ADC(a, b, c, s)
  /\ \A a, b, c, s : F!SBB(a, b, c, s) = SBB(a, b, c, s)
  /\ \A a, s : F!INC(a, s) = INC(a, s) /\ F!DEC(a, s) = DEC(a, s) /\ F!NEG(a, s) = NEG(a, s)
  /\ \A a, n, s : F!SHL(a, n, s) = SHL(a, n, s)
  /\ \A a, n, s : F!SHR(a, n, s) = SHR(a, n, s)
  /\ \A a, n, s : F!SAR(a, n, s) = SAR(a, n, s)
<1>1. /\ F!Conditions = Conditions /\ F!Logics = Logics /\ F!DoubleShifts = DoubleShifts
  BY DEF F!Conditions, Conditions, F!Logics, Logics, F!DoubleShifts, DoubleShifts
<1>2. \A t, a, b, r, s : F!Lazy(t, a, b, r, s) = Lazy(t, a, b, r, s)
  BY DEF F!Lazy, Lazy
<1>3. F!Unknown = Unknown
  BY <1>2 DEF F!Unknown, Unknown
<1>4. \A x, s : F!Wrap(x, s) = Wrap(x, s)
  BY DEF F!Wrap, Wrap
<1>5. \A s : F!Power(s) = Power(s)
  BY DEF F!Power, Power
<1>6. \A a, b, s : F!ADD(a, b, s) = ADD(a, b, s)
  BY <1>2, <1>4 DEF F!ADD, ADD
<1>7. \A t, a, b, s : F!SUB(t, a, b, s) = SUB(t, a, b, s)
  BY <1>2, <1>4 DEF F!SUB, SUB
<1>8. \A a, b, c, s : F!ADC(a, b, c, s) = ADC(a, b, c, s)
  BY <1>2, <1>4 DEF F!ADC, ADC
<1>9. \A a, b, c, s : F!SBB(a, b, c, s) = SBB(a, b, c, s)
  BY <1>2, <1>4 DEF F!SBB, SBB
<1>10. \A a, s : F!INC(a, s) = INC(a, s) /\ F!DEC(a, s) = DEC(a, s) /\ F!NEG(a, s) = NEG(a, s)
  BY <1>2, <1>4 DEF F!INC, INC, F!DEC, DEC, F!NEG, NEG
<1>11. \A a, n, s : F!SHL(a, n, s) = SHL(a, n, s)
  BY <1>2, <1>5 DEF F!SHL, SHL
<1>12. \A a, n, s : F!SHR(a, n, s) = SHR(a, n, s)
  BY <1>2, <1>5 DEF F!SHR, SHR
<1>13. \A a, n, s : F!SAR(a, n, s) = SAR(a, n, s)
  <2> SUFFICES ASSUME NEW a, NEW n, NEW s PROVE F!SAR(a, n, s) = SAR(a, n, s)
    OBVIOUS
  <2>1. F!Power(s) = Power(s)
    BY <1>5
  <2> QED
    BY <2>1, <1>2 DEF F!SAR, SAR
<1> QED
  BY <1>1, <1>3, <1>6, <1>7, <1>8, <1>9, <1>10, <1>11, <1>12, <1>13

LEMMA AskingNames ==
  /\ \A fl, lf : F!GetCF(fl, lf) <=> GetCF(fl, lf)
  /\ \A fl, lf : F!LoadCF(fl, lf) = LoadCF(fl, lf)
<1>1. \A x, n : F!Bit(x, n) <=> Bit(x, n)
  BY DEF F!Bit, Bit
<1>2. \A s : F!Power(s) = Power(s)
  BY DEF F!Power, Power
<1>3. \A lf : F!OutLeft(lf) <=> OutLeft(lf)
  BY <1>1, <1>2 DEF F!OutLeft, OutLeft
<1>4. \A lf : F!OutRight(lf) <=> OutRight(lf)
  BY <1>1, <1>2 DEF F!OutRight, OutRight
<1>5. \A lf : F!OutDoubleLeft(lf) <=> OutDoubleLeft(lf)
  BY <1>1, <1>2 DEF F!OutDoubleLeft, OutDoubleLeft
<1>6. \A lf : F!OutDoubleRight(lf) <=> OutDoubleRight(lf)
  BY <1>1, <1>2 DEF F!OutDoubleRight, OutDoubleRight
<1>7. \A fl, lf : F!GetCF(fl, lf) <=> GetCF(fl, lf)
  BY <1>3, <1>4, <1>5, <1>6 DEF F!GetCF, GetCF
<1>8. \A fl, lf : F!GetCF(fl, lf) \in BOOLEAN /\ GetCF(fl, lf) \in BOOLEAN
  BY DEF F!GetCF, GetCF
<1>9. \A fl, lf : F!GetCF(fl, lf) = GetCF(fl, lf)
  BY <1>7, <1>8
<1>10. \A fl, lf : F!LoadCF(fl, lf) = LoadCF(fl, lf)
  BY <1>9 DEF F!LoadCF, LoadCF
<1> QED
  BY <1>7, <1>10

LEMMA FillingNames ==
  /\ \A fl, lf : F!FillFlags(fl, lf) = FillFlags(fl, lf)
  /\ \A fl, lf : F!FillFlagsNoCFOF(fl, lf) = FillFlagsNoCFOF(fl, lf)
<1>1. \A x, n : F!Bit(x, n) <=> Bit(x, n)
  BY DEF F!Bit, Bit
<1>2. \A s : F!Power(s) = Power(s)
  BY DEF F!Power, Power
<1>3. \A lf : F!OutLeft(lf) = OutLeft(lf)
  BY <1>1, <1>2 DEF F!OutLeft, OutLeft
<1>4. \A lf : F!OutRight(lf) = OutRight(lf)
  BY <1>1, <1>2 DEF F!OutRight, OutRight
<1>5. \A lf : F!OutDoubleLeft(lf) = OutDoubleLeft(lf)
  BY <1>1, <1>2 DEF F!OutDoubleLeft, OutDoubleLeft
<1>6. \A lf : F!OutDoubleRight(lf) = OutDoubleRight(lf)
  BY <1>1, <1>2 DEF F!OutDoubleRight, OutDoubleRight
<1>7. \A x, y, s : F!SameSign(x, y, s) = SameSign(x, y, s)
  BY DEF F!SameSign, SameSign
<1>8. \A x : F!Nibble(x) = Nibble(x)
  BY DEF F!Nibble, Nibble
<1>9. \A lf : F!CrossesNibble(lf) = CrossesNibble(lf)
  BY DEF F!CrossesNibble, CrossesNibble
<1>10. /\ F!Conditions = Conditions /\ F!Additions = Additions /\ F!Subtractions = Subtractions
       /\ F!Logics = Logics /\ F!Shifts = Shifts /\ F!DoubleShifts = DoubleShifts
  BY DEF F!Conditions, Conditions, F!Additions, Additions, F!Subtractions, Subtractions,
         F!Logics, Logics, F!Shifts, Shifts, F!DoubleShifts, DoubleShifts
<1>11. \A lf, cf, af, of : F!Settle(lf, cf, af, of) = Settle(lf, cf, af, of)
  <2>1. \A x : F!EvenParity(x) = EvenParity(x)
    BY DEF F!EvenParity, EvenParity
  <2> QED
    BY <1>10, <2>1 DEF F!Settle, Settle
<1>12. \A fl, lf : F!FillSums(fl, lf) = FillSums(fl, lf)
  BY <1>7, <1>9, <1>10, <1>11 DEF F!FillSums, FillSums
<1>13. \A fl, lf : F!FillLogics(fl, lf) = FillLogics(fl, lf)
  BY <1>11 DEF F!FillLogics, FillLogics
<1>14. \A fl, lf : F!FillShifts(fl, lf) = FillShifts(fl, lf)
  <2> SUFFICES ASSUME NEW fl, NEW lf PROVE F!FillShifts(fl, lf) = FillShifts(fl, lf)
    OBVIOUS
  <2>1. /\ F!OutLeft(lf) = OutLeft(lf) /\ F!OutRight(lf) = OutRight(lf)
        /\ F!OutDoubleLeft(lf) = OutDoubleLeft(lf) /\ F!OutDoubleRight(lf) = OutDoubleRight(lf)
        /\ F!SameSign(lf.res, lf.var1, lf.sign) = SameSign(lf.res, lf.var1, lf.sign)
    BY <1>3, <1>4, <1>5, <1>6, <1>7
  <2> QED
    BY <2>1, <1>10, <1>11 DEF F!FillShifts, FillShifts
<1>15. \A fl, lf : F!FillSteps(fl, lf) = FillSteps(fl, lf)
  BY <1>8, <1>11 DEF F!FillSteps, FillSteps
<1>16. \A fl, lf : F!FillFlags(fl, lf) = FillFlags(fl, lf)
  BY <1>10, <1>12, <1>13, <1>14, <1>15 DEF F!FillFlags, FillFlags
<1> QED
  BY <1>16 DEF F!FillFlagsNoCFOF, FillFlagsNoCFOF

\* What is said of two machines in these names is a step of FlagMachine.
LEMMA KeptSteps ==
  ASSUME FlagsKept(m.fl, m.lf, m'.fl, m'.lf)
  PROVE  F!FlagKeep \/ UNCHANGED F!flagVars
<1>1. \A lf : F!InRange(lf) <=> InRange(lf)
  BY DEF F!InRange, InRange, F!Operands, Operands
<1>2. CASE m'.fl = m.fl /\ m'.lf = m.lf
  BY <1>2 DEF F!flagVars
<1>3. CASE m'.fl = m.fl /\ NotesOperation(m.fl, m.lf, m'.lf)
  <2> DEFINE lf == m'.lf
             a == lf.var1
             b == lf.var2
             sign == lf.sign
  <2>1. F!InRange(lf) /\ m'.fl = m.fl
    BY <1>1, <1>3 DEF NotesOperation
  <2>2. CASE \/ lf = ADD(a, b, sign) \/ lf = SUB("SUB", a, b, sign) \/ lf = SUB("CMP", a, b, sign)
    <3>1. F!PlainNoted
      BY <2>1, <2>2, MachineNames DEF F!PlainNoted
    <3> QED
      BY <3>1 DEF F!FlagKeep
  <2>3. CASE lf = ADC(a, b, GetCF(m.fl, m.lf), sign) \/ lf = SBB(a, b, GetCF(m.fl, m.lf), sign)
    <3>1. GetCF(m.fl, m.lf) = F!GetCF(m.fl, m.lf)
      BY AskingNames DEF GetCF, F!GetCF
    <3>2. F!WithCarry
      BY <2>1, <2>3, <3>1, MachineNames DEF F!WithCarry
    <3> QED
      BY <3>2 DEF F!FlagKeep
  <2>4. CASE lf = NEG(a, sign)
    <3>1. F!Negate
      BY <2>1, <2>4, MachineNames DEF F!Negate
    <3> QED
      BY <3>1 DEF F!FlagKeep
  <2>5. CASE lf.type \in Logics
    <3>1. F!Logic
      BY <2>1, <2>5, MachineNames DEF F!Logic
    <3> QED
      BY <3>1 DEF F!FlagKeep
  <2>6. CASE b \in 1 .. 31 /\ (lf = SHL(a, b, sign) \/ lf = SHR(a, b, sign) \/ lf = SAR(a, b, sign))
    <3>1. F!ShiftNoted
      BY <2>1, <2>6, MachineNames DEF F!ShiftNoted
    <3> QED
      BY <3>1 DEF F!FlagKeep
  <2>7. CASE b \in 1 .. 31 /\ lf.type \in DoubleShifts
    <3>1. F!DoubleShiftNoted
      BY <2>1, <2>7, MachineNames DEF F!DoubleShiftNoted
    <3> QED
      BY <3>1 DEF F!FlagKeep
  <2> QED
    BY <1>3, <2>2, <2>3, <2>4, <2>5, <2>6, <2>7 DEF NotesOperation
<1>4. CASE m'.fl = LoadCF(m.fl, m.lf) /\ NotesByOne(m'.lf)
  <2>1. F!StepByOne
    BY <1>1, <1>4, MachineNames, AskingNames DEF F!StepByOne, NotesByOne
  <2> QED
    BY <2>1 DEF F!FlagKeep
<1>5. CASE m'.lf = Unknown /\ FillsAll(m.fl, m.lf, m'.fl)
  <2>1. F!AllFilled
    BY <1>5, MachineNames, FillingNames DEF F!AllFilled, FillsAll
  <2> QED
    BY <2>1 DEF F!FlagKeep
<1>6. CASE m'.lf = Unknown /\ SetsOne(m.fl, m.lf, m'.fl)
  <2>1. F!SetOne
    BY <1>6, MachineNames, FillingNames DEF F!SetOne, SetsOne
  <2> QED
    BY <2>1 DEF F!FlagKeep
<1>7. CASE m'.lf = Unknown /\ SetsTwo(m.fl, m.lf, m'.fl)
  <2>1. F!Rotate
    BY <1>7, MachineNames, FillingNames DEF F!Rotate, SetsTwo
  <2> QED
    BY <2>1 DEF F!FlagKeep
<1>8. CASE m'.lf = Unknown /\ SetsThree(m.fl, m.lf, m'.fl)
  <2>1. F!Product
    BY <1>8, MachineNames, FillingNames DEF F!Product, SetsThree
  <2> QED
    BY <2>1 DEF F!FlagKeep
<1> QED
  BY <1>2, <1>3, <1>4, <1>5, <1>6, <1>7, <1>8 DEF FlagsKept

-----------------------------------------------------------------------------
(* What an instruction leaves: a machine, its flags kept (Ran) or loaded   *)
(* (Loaded), that the decoder goes on with.                                *)

Outs == {"next", "again", "leave", "end", "call", "fatal"}

Served(pic, pic2) == pic2.asked = pic.asked /\ pic2.serving \subseteq pic.serving

Ready(n) == IsMachine(n) /\ n.out \in Outs
Sound(n, k) == Ready(k) /\ Served(n.pic, k.pic)
Ran(n, k) == Sound(n, k) /\ FlagsKept(n.fl, n.lf, k.fl, k.lf)
Loaded(n, k) == Sound(n, k) /\ k.lf = Unknown

\* After a fill, all of it or all but carry and overflow.
FilledFrom(n, k) ==
  Sound(n, k) /\ k.fl = FillFlags(n.fl, n.lf) /\ k.lf = Unknown
HalfFilledFrom(n, k) ==
  Sound(n, k) /\ k.fl = FillFlagsNoCFOF(n.fl, n.lf) /\ k.lf = Unknown

LEMMA MovedRan ==
  ASSUME NEW n, Ready(n), NEW k, Moved(n, k)
  PROVE  Ran(n, k)
  BY DEF Ready, Moved, Ran, Sound, Served, FlagsKept

LEMMA SelfRan ==
  ASSUME NEW n, Ready(n)
  PROVE  Ran(n, n)
  BY MovedSelf, MovedRan DEF Ready

LEMMA MovedReady ==
  ASSUME NEW n, Ready(n), NEW k, Moved(n, k)
  PROVE  Ready(k)
  BY DEF Ready, Moved

LEMMA RanReady ==
  ASSUME NEW n, NEW k, Ran(n, k) \/ Loaded(n, k) \/ FilledFrom(n, k) \/ HalfFilledFrom(n, k)
  PROVE  Ready(k) /\ IsMachine(k)
  BY DEF Ran, Loaded, FilledFrom, HalfFilledFrom, Sound, Ready

LEMMA RanMoved ==
  ASSUME NEW n, NEW k, NEW j, Moved(k, j)
  PROVE  /\ Ran(n, k) => Ran(n, j)
         /\ Loaded(n, k) => Loaded(n, j)
         /\ FilledFrom(n, k) => FilledFrom(n, j)
         /\ HalfFilledFrom(n, k) => HalfFilledFrom(n, j)
  BY DEF Ready, Moved, Ran, Sound, Served, Loaded, FilledFrom, HalfFilledFrom

LEMMA MovedThenRan ==
  ASSUME NEW n, NEW k, NEW j, Moved(n, k)
  PROVE  /\ Ran(k, j) => Ran(n, j)
         /\ Loaded(k, j) => Loaded(n, j)
         /\ FilledFrom(k, j) => FilledFrom(n, j)
         /\ HalfFilledFrom(k, j) => HalfFilledFrom(n, j)
  BY DEF Ready, Moved, Ran, Sound, Served, Loaded, FilledFrom, HalfFilledFrom

LEMMA FilledRan ==
  ASSUME NEW n, NEW k, FilledFrom(n, k)
  PROVE  Ran(n, k)
  BY DEF Ran, FilledFrom, FlagsKept, FillsAll

LEMMA WithOut ==
  ASSUME NEW n, NEW k, NEW x \in Outs
  PROVE  /\ Ran(n, k) => Ran(n, [k EXCEPT !.out = x])
         /\ Loaded(n, k) => Loaded(n, [k EXCEPT !.out = x])
<1>1. Sound(n, k) => /\ Sound(n, [k EXCEPT !.out = x])
                     /\ [k EXCEPT !.out = x].fl = k.fl
                     /\ [k EXCEPT !.out = x].lf = k.lf
  BY DEF Sound, Ready, IsMachine, IsRecord
<1> QED
  BY <1>1 DEF Ran, Loaded

LEMMA Left ==
  ASSUME NEW n, NEW k
  PROVE  /\ Ran(n, k) => Ran(n, Leave(k)) /\ Ran(n, End(k)) /\ Ran(n, Fatal(k)) /\ Ran(n, Shadow(k))
         /\ Loaded(n, k) => Loaded(n, Leave(k)) /\ Loaded(n, End(k))
  BY WithOut DEF Leave, End, Fatal, Shadow, Outs

LEMMA FatalRan ==
  ASSUME NEW n, Ready(n)
  PROVE  Ran(n, Fatal(n))
  BY SelfRan, Left

LEMMA TrapMoves ==
  ASSUME NEW n, IsMachine(n)
  PROVE  Moved(n, Trap(n)) /\ Moved(n, [n EXCEPT !.skip = TRUE])
<1>1. ASSUME NEW b
      PROVE  Moved(n, [n EXCEPT !.trap = b]) /\ Moved(n, [n EXCEPT !.skip = b])
  BY DEF IsMachine, Moved, IsRecord
<1> QED
  BY <1>1 DEF Trap

LEMMA FillTyped ==
  ASSUME NEW fl \in FlagRegisters, NEW lf
  PROVE  /\ FillFlags(fl, lf) \in FlagRegisters
         /\ FillFlagsNoCFOF(fl, lf) \in FlagRegisters
         /\ LoadCF(fl, lf) \in FlagRegisters
<1>1. ASSUME NEW cf, NEW af, NEW of
      PROVE  Settle(lf, cf, af, of) \in FlagRegisters
  BY DEF Settle, FlagRegisters
<1>2. FillFlags(fl, lf) \in FlagRegisters
  BY <1>1 DEF FillFlags, FillSums, FillLogics, FillShifts, FillSteps
<1>3. FillFlagsNoCFOF(fl, lf) \in FlagRegisters
  BY <1>2 DEF FillFlagsNoCFOF, FlagRegisters, Conditions
<1>4. GetCF(fl, lf) \in BOOLEAN
  BY DEF GetCF
<1>5. LoadCF(fl, lf) \in FlagRegisters
  BY <1>4 DEF LoadCF, FlagRegisters
<1> QED
  BY <1>2, <1>3, <1>5

NewFlags(n, fl, lf, k) == k = [n EXCEPT !.fl = fl, !.lf = lf]

LEMMA WithFlags ==
  ASSUME NEW n, Ready(n), NEW fl \in FlagRegisters, NEW lf,
         NEW k, NewFlags(n, fl, lf, k)
  PROVE  Sound(n, k) /\ k.fl = fl /\ k.lf = lf
<1> DEFINE j == [n EXCEPT !.fl = fl]
<1>1. IsMachine(j) /\ j.out = n.out /\ j.pic = n.pic /\ j.fl = fl
  BY DEF Ready, IsMachine, IsRecord
<1>2. k = [j EXCEPT !.lf = lf]
  BY DEF NewFlags
<1> HIDE DEF j
<1>3. IsMachine(k) /\ k.out = j.out /\ k.pic = j.pic /\ k.fl = j.fl /\ k.lf = lf
  BY <1>1, <1>2 DEF IsMachine, IsRecord
<1> QED
  BY <1>1, <1>3 DEF Sound, Ready, Served

LEMMA FillFills ==
  ASSUME NEW n, Ready(n)
  PROVE  FilledFrom(n, Fill(n)) /\ HalfFilledFrom(n, FillNoCFOF(n))
<1>1. n.fl \in FlagRegisters
  BY DEF Ready, IsMachine
<1>2. FillFlags(n.fl, n.lf) \in FlagRegisters /\ FillFlagsNoCFOF(n.fl, n.lf) \in FlagRegisters
  BY <1>1, FillTyped
<1>3. Sound(n, Fill(n)) /\ Fill(n).fl = FillFlags(n.fl, n.lf) /\ Fill(n).lf = Unknown
  <2>1. NewFlags(n, FillFlags(n.fl, n.lf), Unknown, Fill(n))
    BY DEF Fill, NewFlags
  <2> QED
    BY <1>2, <2>1, WithFlags
<1>4. /\ Sound(n, FillNoCFOF(n)) /\ FillNoCFOF(n).fl = FillFlagsNoCFOF(n.fl, n.lf)
      /\ FillNoCFOF(n).lf = Unknown
  <2>1. NewFlags(n, FillFlagsNoCFOF(n.fl, n.lf), Unknown, FillNoCFOF(n))
    BY DEF FillNoCFOF, NewFlags
  <2> QED
    BY <1>2, <2>1, WithFlags
<1> QED
  BY <1>3, <1>4 DEF FilledFrom, HalfFilledFrom

LEMMA FillRan ==
  ASSUME NEW n, Ready(n)
  PROVE  Ran(n, Fill(n))
  BY FillFills, FilledRan

LEMMA NoteRan ==
  ASSUME NEW n, Ready(n), NEW lf, NotesOperation(n.fl, n.lf, lf)
  PROVE  Ran(n, Note(n, lf))
<1>1. LET k == Note(n, lf) IN Sound(n, k) /\ k.fl = n.fl /\ k.lf = lf
  BY DEF Note, Ready, Sound, Served, IsMachine, IsRecord
<1> QED
  BY <1>1 DEF Ran, FlagsKept

LEMMA StepRan ==
  ASSUME NEW n, Ready(n), NEW lf, NotesByOne(lf)
  PROVE  Ran(n, [n EXCEPT !.fl = CarryKept(n), !.lf = lf])
<1>1. CarryKept(n) = LoadCF(n.fl, n.lf) /\ n.fl \in FlagRegisters
  BY DEF CarryKept, Ready, IsMachine
<1> DEFINE k == [n EXCEPT !.fl = CarryKept(n), !.lf = lf]
<1>2. LoadCF(n.fl, n.lf) \in FlagRegisters /\ NewFlags(n, LoadCF(n.fl, n.lf), lf, k)
  BY <1>1, FillTyped DEF NewFlags
<1> HIDE DEF k
<1>4. Sound(n, k) /\ k.fl = LoadCF(n.fl, n.lf) /\ k.lf = lf
  BY <1>2, WithFlags
<1>3. Ran(n, k)
  BY <1>4 DEF Ran, FlagsKept
<1> QED
  BY <1>3 DEF k

LEMMA WithFlag ==
  ASSUME NEW n, Ready(n), NEW f, NEW b \in BOOLEAN
  PROVE  LET k == SetFlag(n, f, b)
         IN  Sound(n, k) /\ k.fl = [n.fl EXCEPT ![f] = b] /\ k.lf = n.lf
<1>1. n.fl \in FlagRegisters
  BY DEF Ready, IsMachine
<1>2. [n.fl EXCEPT ![f] = b] \in FlagRegisters
  BY <1>1 DEF FlagRegisters
<1>3. SetFlag(n, f, b) = [n EXCEPT !.fl = [n.fl EXCEPT ![f] = b]]
  BY DEF SetFlag
<1> QED
  BY <1>2, <1>3 DEF Ready, Sound, Served, IsMachine, IsRecord

LEMMA OneSet ==
  ASSUME NEW n, NEW k, FilledFrom(n, k), NEW f \in {"CF", "ZF"}, NEW b \in BOOLEAN
  PROVE  Ran(n, SetFlag(k, f, b))
<1>1. LET j == SetFlag(k, f, b)
      IN  Sound(k, j) /\ j.fl = [k.fl EXCEPT ![f] = b] /\ j.lf = k.lf
  BY WithFlag, RanReady
<1> QED
  BY <1>1 DEF FilledFrom, Sound, Served, Ran, FlagsKept, SetsOne

LEMMA TwoSet ==
  ASSUME NEW n, NEW k, FilledFrom(n, k) \/ HalfFilledFrom(n, k),
         NEW cf \in BOOLEAN, NEW of \in BOOLEAN
  PROVE  /\ Ran(n, SetCFOF(k, cf, of))
         /\ Sound(k, SetCFOF(k, cf, of))
         /\ SetCFOF(k, cf, of).lf = Unknown
         /\ SetCFOF(k, cf, of).fl =
              [FillFlagsNoCFOF(n.fl, n.lf) EXCEPT !["CF"] = cf, !["OF"] = of]
<1> DEFINE j == SetFlag(k, "CF", cf)
           l == SetFlag(j, "OF", of)
<1>1. Sound(k, j) /\ j.fl = [k.fl EXCEPT !["CF"] = cf] /\ j.lf = k.lf
  BY WithFlag, RanReady
<1>2. Sound(j, l) /\ l.fl = [j.fl EXCEPT !["OF"] = of] /\ l.lf = j.lf
  <2> HIDE DEF j
  <2> QED
    BY <1>1, WithFlag DEF Sound
<1>3. SetCFOF(k, cf, of) = l
  BY DEF SetCFOF
<1> HIDE DEF j, l
<1>4. FillFlags(n.fl, n.lf) \in FlagRegisters \/ HalfFilledFrom(n, k)
  BY DEF FilledFrom, Sound, Ready, IsMachine
<1>5. l.fl = [FillFlagsNoCFOF(n.fl, n.lf) EXCEPT !["CF"] = cf, !["OF"] = of]
  <2>1. CASE HalfFilledFrom(n, k)
    BY <1>1, <1>2, <2>1 DEF HalfFilledFrom
  <2>2. CASE FilledFrom(n, k)
    <3>1. FillFlags(n.fl, n.lf) \in FlagRegisters
      BY <2>2 DEF FilledFrom, Sound, Ready, IsMachine
    <3> QED
      BY <1>1, <1>2, <2>2, <3>1 DEF FilledFrom, FillFlagsNoCFOF, FlagRegisters
  <2> QED
    BY <2>1, <2>2
<1>6. k.lf = Unknown /\ Sound(n, k)
  BY DEF FilledFrom, HalfFilledFrom
<1>7. Sound(k, l) /\ Sound(n, l)
  BY <1>1, <1>2, <1>6 DEF Sound, Served
<1> QED
  BY <1>1, <1>2, <1>3, <1>5, <1>6, <1>7 DEF Ran, FlagsKept, SetsTwo

LEMMA ThreeSet ==
  ASSUME NEW n, NEW k, HalfFilledFrom(n, k),
         NEW cf \in BOOLEAN, NEW of \in BOOLEAN, NEW zf \in BOOLEAN
  PROVE  Ran(n, SetFlag(SetCFOF(k, cf, of), "ZF", zf))
<1> DEFINE j == SetCFOF(k, cf, of)
           l == SetFlag(j, "ZF", zf)
<1>1. /\ Sound(k, j) /\ j.lf = Unknown /\ Sound(n, j)
      /\ j.fl = [FillFlagsNoCFOF(n.fl, n.lf) EXCEPT !["CF"] = cf, !["OF"] = of]
  BY TwoSet DEF Ran
<1>2. Sound(j, l) /\ l.fl = [j.fl EXCEPT !["ZF"] = zf] /\ l.lf = j.lf
  <2> HIDE DEF j
  <2> QED
    BY <1>1, WithFlag DEF Sound
<1> HIDE DEF j, l
<1>3. Sound(n, l)
  BY <1>1, <1>2 DEF Sound, Served
<1>4. l.fl = [FillFlagsNoCFOF(n.fl, n.lf) EXCEPT !["CF"] = cf, !["OF"] = of, !["ZF"] = zf]
  BY <1>1, <1>2
<1>5. SetsThree(n.fl, n.lf, l.fl)
  BY <1>4 DEF SetsThree
<1>6. Ran(n, l)
  BY <1>1, <1>2, <1>3, <1>5 DEF Ran, FlagsKept
<1> QED
  BY <1>6 DEF l, j

LEMMA BitRead ==
  ASSUME NEW word, NEW f
  PROVE  HasBit(word, f) \in BOOLEAN
  BY DEF HasBit

LEMMA FlagsWordLoaded ==
  ASSUME NEW n, Ready(n), NEW word
  PROVE  Loaded(n, SetFlagsWord(n, word))
<1> DEFINE fl == [f \in Conditions |-> HasBit(word, f)]
           ctl == [f \in Controls |-> HasBit(word, f)]
<1>1. fl \in FlagRegisters /\ ctl \in ControlRegisters
  BY BitRead DEF FlagRegisters, ControlRegisters
<1>2. SetFlagsWord(n, word) = [n EXCEPT !.fl = fl, !.ctl = ctl, !.lf = Unknown]
  BY DEF SetFlagsWord
<1> HIDE DEF fl, ctl
<1> QED
  BY <1>1, <1>2 DEF Loaded, Ready, Sound, Served, IsMachine, IsRecord

-----------------------------------------------------------------------------
(* Powers of two, and words cut in two.                                    *)

LEMMA Powers ==
  /\ 2^0 = 1
  /\ 2^1 = 2
  /\ 2^2 = 4
  /\ 2^3 = 8
  /\ 2^4 = 16
  /\ 2^5 = 32
  /\ 2^6 = 64
  /\ 2^7 = 128
  /\ 2^8 = 256
  /\ 2^9 = 512
  /\ 2^10 = 1024
  /\ 2^11 = 2048
  /\ 2^12 = 4096
  /\ 2^13 = 8192
  /\ 2^14 = 16384
  /\ 2^15 = 32768
  /\ 2^16 = 65536
  OBVIOUS

\* The provers take a power of two apart when they see one.
Two(k) == 2^k

LEMMA TwoPowers ==
  /\ Two(0) = 1
  /\ Two(1) = 2
  /\ Two(2) = 4
  /\ Two(3) = 8
  /\ Two(4) = 16
  /\ Two(5) = 32
  /\ Two(6) = 64
  /\ Two(7) = 128
  /\ Two(8) = 256
  /\ Two(9) = 512
  /\ Two(10) = 1024
  /\ Two(11) = 2048
  /\ Two(12) = 4096
  /\ Two(13) = 8192
  /\ Two(14) = 16384
  /\ Two(15) = 32768
  /\ Two(16) = 65536
  BY Powers DEF Two

LEMMA GreatPowers ==
  /\ Two(17) = 131072
  /\ Two(18) = 262144
  /\ Two(19) = 524288
  /\ Two(20) = 1048576
  /\ Two(21) = 2097152
  /\ Two(22) = 4194304
  /\ Two(23) = 8388608
  /\ Two(24) = 16777216
  /\ Two(25) = 33554432
  /\ Two(26) = 67108864
  /\ Two(27) = 134217728
  /\ Two(28) = 268435456
  /\ Two(29) = 536870912
  /\ Two(30) = 1073741824
  /\ Two(31) = 2147483648
  BY DEF Two

LEMMA ExponentOf ==
  ASSUME NEW n \in 0 .. 31
  PROVE  (Two(n) = 128 => n = 7) /\ (Two(n) = 32768 => n = 15)
<1>1. n = 0 \/ n = 1 \/ n = 2 \/ n = 3 \/ n = 4 \/ n = 5 \/ n = 6 \/ n = 7 \/ n = 8 \/ n = 9
        \/ n = 10 \/ n = 11 \/ n = 12 \/ n = 13 \/ n = 14 \/ n = 15 \/ n = 16 \/ n = 17
        \/ n = 18 \/ n = 19 \/ n = 20 \/ n = 21 \/ n = 22 \/ n = 23 \/ n = 24 \/ n = 25
        \/ n = 26 \/ n = 27 \/ n = 28 \/ n = 29 \/ n = 30 \/ n = 31
  OBVIOUS
<1> QED
  BY <1>1, TwoPowers, GreatPowers

LEMMA SignBits ==
  Power(128) = 7 /\ Power(32768) = 15
<1>1. ASSUME NEW n \in 0 .. 31
      PROVE  (2^n = 128 => n = 7) /\ (2^n = 32768 => n = 15)
  <2>1. Two(n) = 2^n
    BY DEF Two
  <2> QED
    BY <2>1, ExponentOf
<1>2. 7 \in 0 .. 31 /\ 2^7 = 128 /\ 15 \in 0 .. 31 /\ 2^15 = 32768
  OBVIOUS
<1> QED
  BY <1>1, <1>2 DEF Power

Halves(p, q, all) == p \in Nat /\ p > 0 /\ q \in Nat /\ q > 0 /\ p * q = all

LEMMA SplitByte ==
  ASSUME NEW k \in 0 .. 8
  PROVE  Halves(Two(k), Two(8 - k), 256)
<1>0. CASE k = 0
  <2>1. 8 - k = 8
    BY <1>0
  <2> QED
    BY <1>0, <2>1, TwoPowers DEF Halves
<1>1. CASE k = 1
  <2>1. 8 - k = 7
    BY <1>1
  <2> QED
    BY <1>1, <2>1, TwoPowers DEF Halves
<1>2. CASE k = 2
  <2>1. 8 - k = 6
    BY <1>2
  <2> QED
    BY <1>2, <2>1, TwoPowers DEF Halves
<1>3. CASE k = 3
  <2>1. 8 - k = 5
    BY <1>3
  <2> QED
    BY <1>3, <2>1, TwoPowers DEF Halves
<1>4. CASE k = 4
  <2>1. 8 - k = 4
    BY <1>4
  <2> QED
    BY <1>4, <2>1, TwoPowers DEF Halves
<1>5. CASE k = 5
  <2>1. 8 - k = 3
    BY <1>5
  <2> QED
    BY <1>5, <2>1, TwoPowers DEF Halves
<1>6. CASE k = 6
  <2>1. 8 - k = 2
    BY <1>6
  <2> QED
    BY <1>6, <2>1, TwoPowers DEF Halves
<1>7. CASE k = 7
  <2>1. 8 - k = 1
    BY <1>7
  <2> QED
    BY <1>7, <2>1, TwoPowers DEF Halves
<1>8. CASE k = 8
  <2>1. 8 - k = 0
    BY <1>8
  <2> QED
    BY <1>8, <2>1, TwoPowers DEF Halves
<1> QED
  BY <1>0, <1>1, <1>2, <1>3, <1>4, <1>5, <1>6, <1>7, <1>8

LEMMA SplitWord ==
  ASSUME NEW k \in 0 .. 16
  PROVE  Halves(Two(k), Two(16 - k), 65536)
<1>0. CASE k = 0
  <2>1. 16 - k = 16
    BY <1>0
  <2> QED
    BY <1>0, <2>1, TwoPowers DEF Halves
<1>1. CASE k = 1
  <2>1. 16 - k = 15
    BY <1>1
  <2> QED
    BY <1>1, <2>1, TwoPowers DEF Halves
<1>2. CASE k = 2
  <2>1. 16 - k = 14
    BY <1>2
  <2> QED
    BY <1>2, <2>1, TwoPowers DEF Halves
<1>3. CASE k = 3
  <2>1. 16 - k = 13
    BY <1>3
  <2> QED
    BY <1>3, <2>1, TwoPowers DEF Halves
<1>4. CASE k = 4
  <2>1. 16 - k = 12
    BY <1>4
  <2> QED
    BY <1>4, <2>1, TwoPowers DEF Halves
<1>5. CASE k = 5
  <2>1. 16 - k = 11
    BY <1>5
  <2> QED
    BY <1>5, <2>1, TwoPowers DEF Halves
<1>6. CASE k = 6
  <2>1. 16 - k = 10
    BY <1>6
  <2> QED
    BY <1>6, <2>1, TwoPowers DEF Halves
<1>7. CASE k = 7
  <2>1. 16 - k = 9
    BY <1>7
  <2> QED
    BY <1>7, <2>1, TwoPowers DEF Halves
<1>8. CASE k = 8
  <2>1. 16 - k = 8
    BY <1>8
  <2> QED
    BY <1>8, <2>1, TwoPowers DEF Halves
<1>9. CASE k = 9
  <2>1. 16 - k = 7
    BY <1>9
  <2> QED
    BY <1>9, <2>1, TwoPowers DEF Halves
<1>10. CASE k = 10
  <2>1. 16 - k = 6
    BY <1>10
  <2> QED
    BY <1>10, <2>1, TwoPowers DEF Halves
<1>11. CASE k = 11
  <2>1. 16 - k = 5
    BY <1>11
  <2> QED
    BY <1>11, <2>1, TwoPowers DEF Halves
<1>12. CASE k = 12
  <2>1. 16 - k = 4
    BY <1>12
  <2> QED
    BY <1>12, <2>1, TwoPowers DEF Halves
<1>13. CASE k = 13
  <2>1. 16 - k = 3
    BY <1>13
  <2> QED
    BY <1>13, <2>1, TwoPowers DEF Halves
<1>14. CASE k = 14
  <2>1. 16 - k = 2
    BY <1>14
  <2> QED
    BY <1>14, <2>1, TwoPowers DEF Halves
<1>15. CASE k = 15
  <2>1. 16 - k = 1
    BY <1>15
  <2> QED
    BY <1>15, <2>1, TwoPowers DEF Halves
<1>16. CASE k = 16
  <2>1. 16 - k = 0
    BY <1>16
  <2> QED
    BY <1>16, <2>1, TwoPowers DEF Halves
<1> QED
  BY <1>0, <1>1, <1>2, <1>3, <1>4, <1>5, <1>6, <1>7, <1>8, <1>9, <1>10, <1>11, <1>12, <1>13, <1>14,
     <1>15, <1>16

LEMMA TimesMore ==
  ASSUME NEW a \in Nat, NEW c \in Nat, a <= c, NEW b \in Nat
  PROVE  a * b <= c * b /\ a * b \in Nat /\ c * b \in Nat
<1>1. (c - a) \in Nat
  OBVIOUS
<1>2. (c - a) * b \in Nat
  BY <1>1
<1>3. (c - a) * b = c * b - a * b
  OBVIOUS
<1>4. a * b \in Nat /\ c * b \in Nat
  OBVIOUS
<1> QED
  BY <1>2, <1>3, <1>4

LEMMA DivMod ==
  ASSUME NEW x \in Int, NEW v \in Nat, v > 0
  PROVE  /\ x \div v \in Int /\ x % v \in Nat /\ x % v < v
         /\ x = v * (x \div v) + (x % v)
         /\ x \in Nat => x \div v \in Nat
  OBVIOUS

LEMMA QuotientBelow ==
  ASSUME NEW x \in Nat, NEW v \in Nat, v > 0, NEW c \in Nat, x < c * v
  PROVE  x \div v \in Nat /\ x \div v < c
<1> DEFINE q == x \div v
<1>1. q \in Nat /\ x % v \in Nat /\ x = v * q + (x % v)
  BY DivMod
<1> HIDE DEF q
<1>2. CASE c <= q
  <2>1. c * v <= q * v /\ q * v \in Nat /\ c * v \in Nat
    BY <1>1, <1>2, TimesMore
  <2>2. q * v = v * q
    BY <1>1
  <2> QED
    BY <1>1, <2>1, <2>2
<1>3. CASE ~(c <= q)
  BY <1>1, <1>3 DEF q
<1> QED
  BY <1>2, <1>3

\* The low part of one word moves up, the high part of another one down.
LEMMA Glue ==
  ASSUME NEW p, NEW q, NEW all \in Nat, Halves(p, q, all), NEW x \in Nat, NEW y \in Nat, y < all
  PROVE  /\ (x % q) * p + y \div q \in Nat /\ (x % q) * p + y \div q < all
         /\ (x % q) * p \in Nat /\ (x % q) * p <= all - p
         /\ y \div q \in Nat /\ y \div q < p
         /\ all \div q = p
<1>1. p \in Nat /\ p > 0 /\ q \in Nat /\ q > 0 /\ p * q = all
  BY DEF Halves
<1>2. x % q \in Nat /\ x % q <= q - 1 /\ q - 1 \in Nat
  BY <1>1, DivMod
<1>3. (x % q) * p <= (q - 1) * p /\ (x % q) * p \in Nat
  BY <1>1, <1>2, TimesMore
<1>4. (q - 1) * p = all - p
  BY <1>1
<1>5. y \div q \in Nat /\ y \div q < p
  BY <1>1, QuotientBelow
<1>6. all \div q = p
  BY <1>1
<1> QED
  BY <1>1, <1>3, <1>4, <1>5, <1>6

-----------------------------------------------------------------------------
(* What the arithmetic instructions note.                                  *)

LEMMA WidthNumbers ==
  ASSUME NEW sign, Width(sign)
  PROVE  /\ sign \in Signs /\ sign \in Nat /\ sign > 0 /\ 32 < 2 * sign
         /\ Operands(sign) = {x \in Nat : x < 2 * sign}
         /\ (sign = 128 \/ sign = 32768)
<1>1. {B, W} \subseteq Signs
  BY CpuAssumption
<1>2. sign = 128 \/ sign = 32768
  BY DEF Width, B, W
<1> QED
  BY <1>1, <1>2, OperandRange DEF Width

LEMMA WrapRange ==
  ASSUME NEW sign, Width(sign), NEW x \in Int
  PROVE  Wrap(x, sign) \in Operands(sign) /\ 0 \in Operands(sign)
<1>1. /\ sign \in Nat /\ sign > 0 /\ 2 * sign \in Nat /\ 2 * sign > 0
      /\ Operands(sign) = {y \in Nat : y < 2 * sign}
  BY WidthNumbers
<1>2. x % (2 * sign) \in Nat /\ x % (2 * sign) < 2 * sign
  BY <1>1, DivMod
<1> QED
  BY <1>1, <1>2 DEF Wrap

LEMMA OperandInt ==
  ASSUME NEW sign, Width(sign), NEW a \in Operands(sign)
  PROVE  a \in Nat /\ a < 2 * sign
  BY WidthNumbers

LEMMA DivSmall ==
  ASSUME NEW x \in Nat, NEW v \in Nat, x < v
  PROVE  x \div v = 0
<1>1. /\ x \div v \in Nat /\ x % v \in Nat /\ x = v * (x \div v) + (x % v)
  BY DivMod
<1>2. x < 1 * v
  OBVIOUS
<1> QED
  BY <1>1, <1>2, QuotientBelow

LEMMA BitsRange ==
  ASSUME NEW sign, Width(sign), NEW a \in Operands(sign), NEW b \in Operands(sign), NEW op
  PROVE  Bits(op, a, b) \in Operands(sign)
<1> DEFINE bit(k) == IF BitOfResult(op, Bit(a, k), Bit(b, k)) THEN 2^k ELSE 0
           low == bit(0) + bit(1) + bit(2) + bit(3) + bit(4) + bit(5) + bit(6) + bit(7)
           sum == low + bit(8) + bit(9) + bit(10) + bit(11) + bit(12) + bit(13) + bit(14) + bit(15)
<1>1. Bits(op, a, b) = sum
  BY DEF Bits
<1>2. ASSUME NEW k, Two(k) \in Nat
      PROVE  bit(k) \in Nat /\ bit(k) <= Two(k)
  BY <1>2 DEF Two
<1>3. a \in Nat /\ b \in Nat /\ a < 2 * sign /\ b < 2 * sign
  BY OperandInt
<1>4. ASSUME NEW k, Two(k) \in Nat, 256 <= Two(k), sign = 128
      PROVE  bit(k) = 0
  <2>1. a < Two(k) /\ b < Two(k)
    BY <1>3, <1>4
  <2>2. a \div Two(k) = 0 /\ b \div Two(k) = 0
    BY <1>3, <1>4, <2>1, DivSmall
  <2>3. (Bit(a, k) = FALSE) /\ (Bit(b, k) = FALSE)
    BY <1>4, <2>2 DEF Bit, Two
  <2>4. ~BitOfResult(op, FALSE, FALSE)
    BY DEF BitOfResult
  <2>5. ~BitOfResult(op, Bit(a, k), Bit(b, k))
    BY <2>3, <2>4
  <2> QED
    BY <2>5
<1> HIDE DEF bit
<1>5. /\ bit(0) \in Nat /\ bit(0) <= 1
      /\ bit(1) \in Nat /\ bit(1) <= 2
      /\ bit(2) \in Nat /\ bit(2) <= 4
      /\ bit(3) \in Nat /\ bit(3) <= 8
      /\ bit(4) \in Nat /\ bit(4) <= 16
      /\ bit(5) \in Nat /\ bit(5) <= 32
      /\ bit(6) \in Nat /\ bit(6) <= 64
      /\ bit(7) \in Nat /\ bit(7) <= 128
      /\ bit(8) \in Nat /\ bit(8) <= 256
      /\ bit(9) \in Nat /\ bit(9) <= 512
      /\ bit(10) \in Nat /\ bit(10) <= 1024
      /\ bit(11) \in Nat /\ bit(11) <= 2048
      /\ bit(12) \in Nat /\ bit(12) <= 4096
      /\ bit(13) \in Nat /\ bit(13) <= 8192
      /\ bit(14) \in Nat /\ bit(14) <= 16384
      /\ bit(15) \in Nat /\ bit(15) <= 32768
  BY <1>2, TwoPowers
<1>6. sum \in Nat /\ sum <= 65535 /\ low <= 255 /\ low \in Nat
  BY <1>5
<1>7. CASE sign = 128
  <2>1. /\ bit(8) = 0 /\ bit(9) = 0 /\ bit(10) = 0 /\ bit(11) = 0
        /\ bit(12) = 0 /\ bit(13) = 0 /\ bit(14) = 0 /\ bit(15) = 0
    BY <1>4, <1>7, TwoPowers
  <2>2. sum = low
    <3>1. low \in Nat
      BY <1>6
    <3> HIDE DEF low
    <3> QED
      BY <2>1, <3>1
  <2> HIDE DEF low, sum
  <2> QED
    BY <1>1, <1>6, <1>7, <2>2, WidthNumbers
<1>8. CASE sign = 32768
  <2> HIDE DEF low, sum
  <2> QED
    BY <1>1, <1>6, <1>8, WidthNumbers
<1> QED
  BY <1>7, <1>8, WidthNumbers

LEMMA CarryIn ==
  ASSUME NEW fl, NEW lf
  PROVE  GetCF(fl, lf) \in BOOLEAN
  BY DEF GetCF

LEMMA NotedNotes ==
  ASSUME NEW n, NEW sign, Width(sign), NEW a \in Operands(sign), NEW b \in Operands(sign),
         NEW op \in Ariths \cup {"TEST"}
  PROVE  /\ NotesOperation(n.fl, n.lf, Noted(n, op, a, b, sign))
         /\ Noted(n, op, a, b, sign).res \in Operands(sign)
<1> DEFINE cf == GetCF(n.fl, n.lf)
           c == IF cf THEN 1 ELSE 0
           lf == Noted(n, op, a, b, sign)
<1>1. a \in Int /\ b \in Int /\ c \in Int /\ sign \in Signs
  BY OperandInt, WidthNumbers
<1>2. /\ Wrap(a + b, sign) \in Operands(sign) /\ Wrap(a - b, sign) \in Operands(sign)
      /\ Wrap(a + b + c, sign) \in Operands(sign) /\ Wrap(a - b - c, sign) \in Operands(sign)
  BY <1>1, WrapRange
<1> HIDE DEF lf
<1>3. CASE op = "ADD"
  <2>1. lf = ADD(a, b, sign)
    BY <1>3 DEF Noted, lf, Logics
  <2> QED
    BY <1>1, <1>2, <2>1 DEF NotesOperation, InRange, ADD, Lazy, lf
<1>4. CASE op \in {"SUB", "CMP"}
  <2>1. lf = SUB(op, a, b, sign)
    BY <1>4 DEF Noted, lf, Logics
  <2>2. InRange(lf) /\ lf = SUB(op, lf.var1, lf.var2, lf.sign) /\ lf.res \in Operands(sign)
    BY <1>1, <1>2, <2>1 DEF InRange, SUB, Lazy
  <2>3. lf = SUB("SUB", lf.var1, lf.var2, lf.sign) \/ lf = SUB("CMP", lf.var1, lf.var2, lf.sign)
    BY <1>4, <2>2
  <2> QED
    BY <2>2, <2>3 DEF NotesOperation, lf
<1>5. CASE op = "ADC"
  <2>1. lf = ADC(a, b, cf, sign)
    BY <1>5 DEF Noted, lf, Logics
  <2>2. /\ lf.var1 = a /\ lf.var2 = b /\ lf.sign = sign /\ lf.res = Wrap(a + b + c, sign)
    BY <2>1 DEF ADC, Lazy
  <2>3. lf = ADC(lf.var1, lf.var2, cf, lf.sign)
    BY <2>1, <2>2
  <2> QED
    BY <1>1, <1>2, <2>2, <2>3 DEF NotesOperation, InRange, lf
<1>6. CASE op = "SBB"
  <2>1. lf = SBB(a, b, cf, sign)
    BY <1>6 DEF Noted, lf, Logics
  <2>2. /\ lf.var1 = a /\ lf.var2 = b /\ lf.sign = sign /\ lf.res = Wrap(a - b - c, sign)
    BY <2>1 DEF SBB, Lazy
  <2>3. lf = SBB(lf.var1, lf.var2, cf, lf.sign)
    BY <2>1, <2>2
  <2> QED
    BY <1>1, <1>2, <2>2, <2>3 DEF NotesOperation, InRange, lf
<1>7. CASE op \in Logics
  <2>1. lf = Lazy(op, a, b, Bits(op, a, b), sign)
    BY <1>7 DEF Noted, lf, Logics
  <2> QED
    BY <1>1, <1>7, <2>1, BitsRange DEF NotesOperation, InRange, Lazy, lf
<1> QED
  BY <1>3, <1>4, <1>5, <1>6, <1>7 DEF Ariths, Logics, lf

LEMMA NegationNotes ==
  ASSUME NEW fl, NEW lf1, NEW sign, Width(sign), NEW a \in Operands(sign)
  PROVE  /\ NotesOperation(fl, lf1, NEG(a, sign)) /\ NEG(a, sign).res \in Operands(sign)
         /\ NotesByOne(INC(a, sign)) /\ INC(a, sign).res \in Operands(sign)
         /\ NotesByOne(DEC(a, sign)) /\ DEC(a, sign).res \in Operands(sign)
<1>1. a \in Int /\ sign \in Signs
  BY OperandInt, WidthNumbers
<1>2. /\ Wrap(0 - a, sign) \in Operands(sign) /\ 0 \in Operands(sign)
      /\ Wrap(a + 1, sign) \in Operands(sign) /\ Wrap(a - 1, sign) \in Operands(sign)
  BY <1>1, WrapRange
<1>3. NotesOperation(fl, lf1, NEG(a, sign)) /\ NEG(a, sign).res \in Operands(sign)
  BY <1>1, <1>2 DEF NotesOperation, InRange, NEG, Lazy
<1>4. /\ NotesByOne(INC(a, sign)) /\ INC(a, sign).res \in Operands(sign)
      /\ NotesByOne(DEC(a, sign)) /\ DEC(a, sign).res \in Operands(sign)
  BY <1>1, <1>2 DEF NotesByOne, InRange, INC, DEC, Lazy
<1> QED
  BY <1>3, <1>4

LEMMA ComparisonNotes ==
  ASSUME NEW fl, NEW lf1, NEW sign, Width(sign), NEW a \in Operands(sign), NEW b \in Operands(sign)
  PROVE  NotesOperation(fl, lf1, SUB("CMP", a, b, sign))
<1>1. a \in Int /\ b \in Int /\ sign \in Signs
  BY OperandInt, WidthNumbers
<1>2. Wrap(a - b, sign) \in Operands(sign)
  BY <1>1, WrapRange
<1> QED
  BY <1>1, <1>2 DEF NotesOperation, InRange, SUB, Lazy

PlacesOf(sign) == IF sign = 128 THEN 8 ELSE 16

LEMMA Split ==
  ASSUME NEW sign, Width(sign), NEW k \in 0 .. PlacesOf(sign)
  PROVE  Halves(Two(k), Two(PlacesOf(sign) - k), 2 * sign)
<1>1. CASE sign = 128
  <2>1. PlacesOf(sign) = 8 /\ 2 * sign = 256
    BY <1>1 DEF PlacesOf
  <2>2. k \in 0 .. 8 /\ PlacesOf(sign) - k = 8 - k
    BY <2>1
  <2> QED
    BY <2>1, <2>2, SplitByte
<1>2. CASE sign = 32768
  <2>1. PlacesOf(sign) = 16 /\ 2 * sign = 65536
    BY <1>2 DEF PlacesOf
  <2>2. k \in 0 .. 16 /\ PlacesOf(sign) - k = 16 - k
    BY <2>1
  <2> QED
    BY <2>1, <2>2, SplitWord
<1> QED
  BY <1>1, <1>2, WidthNumbers

LEMMA Places ==
  ASSUME NEW sign, Width(sign)
  PROVE  PlacesOf(sign) = Power(sign) + 1 /\ Power(sign) \in {7, 15} /\ PlacesOf(sign) \in {8, 16}
  BY WidthNumbers, SignBits DEF PlacesOf

LEMMA SplitHalf ==
  ASSUME NEW k \in 1 .. 16
  PROVE  Two(k) = 2 * Two(k - 1)
<1>1. CASE k = 1
  <2>1. k - 1 = 0
    BY <1>1
  <2> QED
    BY <1>1, <2>1, TwoPowers
<1>2. CASE k = 2
  <2>1. k - 1 = 1
    BY <1>2
  <2> QED
    BY <1>2, <2>1, TwoPowers
<1>3. CASE k = 3
  <2>1. k - 1 = 2
    BY <1>3
  <2> QED
    BY <1>3, <2>1, TwoPowers
<1>4. CASE k = 4
  <2>1. k - 1 = 3
    BY <1>4
  <2> QED
    BY <1>4, <2>1, TwoPowers
<1>5. CASE k = 5
  <2>1. k - 1 = 4
    BY <1>5
  <2> QED
    BY <1>5, <2>1, TwoPowers
<1>6. CASE k = 6
  <2>1. k - 1 = 5
    BY <1>6
  <2> QED
    BY <1>6, <2>1, TwoPowers
<1>7. CASE k = 7
  <2>1. k - 1 = 6
    BY <1>7
  <2> QED
    BY <1>7, <2>1, TwoPowers
<1>8. CASE k = 8
  <2>1. k - 1 = 7
    BY <1>8
  <2> QED
    BY <1>8, <2>1, TwoPowers
<1>9. CASE k = 9
  <2>1. k - 1 = 8
    BY <1>9
  <2> QED
    BY <1>9, <2>1, TwoPowers
<1>10. CASE k = 10
  <2>1. k - 1 = 9
    BY <1>10
  <2> QED
    BY <1>10, <2>1, TwoPowers
<1>11. CASE k = 11
  <2>1. k - 1 = 10
    BY <1>11
  <2> QED
    BY <1>11, <2>1, TwoPowers
<1>12. CASE k = 12
  <2>1. k - 1 = 11
    BY <1>12
  <2> QED
    BY <1>12, <2>1, TwoPowers
<1>13. CASE k = 13
  <2>1. k - 1 = 12
    BY <1>13
  <2> QED
    BY <1>13, <2>1, TwoPowers
<1>14. CASE k = 14
  <2>1. k - 1 = 13
    BY <1>14
  <2> QED
    BY <1>14, <2>1, TwoPowers
<1>15. CASE k = 15
  <2>1. k - 1 = 14
    BY <1>15
  <2> QED
    BY <1>15, <2>1, TwoPowers
<1>16. CASE k = 16
  <2>1. k - 1 = 15
    BY <1>16
  <2> QED
    BY <1>16, <2>1, TwoPowers
<1> QED
  BY <1>1, <1>2, <1>3, <1>4, <1>5, <1>6, <1>7, <1>8, <1>9, <1>10, <1>11, <1>12, <1>13, <1>14, <1>15,
     <1>16

-----------------------------------------------------------------------------
(* Shifts and rotates stay in their width.                                 *)

LEMMA GlueTwo ==
  ASSUME NEW sign, Width(sign), NEW k \in 0 .. PlacesOf(sign), NEW j, j = PlacesOf(sign) - k,
         NEW x \in Operands(sign), NEW y \in Operands(sign)
  PROVE  /\ (x % Two(j)) * Two(k) \in Nat /\ (x % Two(j)) * Two(k) <= 2 * sign - Two(k)
         /\ y \div Two(j) \in Nat /\ y \div Two(j) < Two(k)
         /\ (2 * sign) \div Two(j) = Two(k)
         /\ Two(k) \in Nat /\ 2 * sign \in Nat
<1> DEFINE p == Two(k)
           q == Two(j)
           all == 2 * sign
<1>1. Halves(p, q, all)
  BY Split
<1>2. x \in Nat /\ y \in Nat /\ y < all /\ all \in Nat
  BY OperandInt, WidthNumbers
<1> HIDE DEF p, q, all
<1>3. /\ (x % q) * p \in Nat /\ (x % q) * p <= all - p
      /\ y \div q \in Nat /\ y \div q < p
      /\ all \div q = p
  BY <1>1, <1>2, Glue
<1>4. p \in Nat
  BY <1>1 DEF Halves
<1> QED
  BY <1>2, <1>3, <1>4 DEF p, q, all

LEMMA OperandOf ==
  ASSUME NEW sign, Width(sign), NEW x \in Nat, x < 2 * sign
  PROVE  x \in Operands(sign)
  BY WidthNumbers

LEMMA CountOperand ==
  ASSUME NEW sign, Width(sign), NEW n \in 1 .. 31
  PROVE  n \in Operands(sign)
  BY WidthNumbers

LEMMA SHLRange ==
  ASSUME NEW sign, Width(sign), NEW a \in Operands(sign), NEW n \in 1 .. 31
  PROVE  SHL(a, n, sign).res \in Operands(sign)
<1> DEFINE q == PlacesOf(sign) - n
           res == IF n > Power(sign) THEN 0 ELSE (a % Two(q)) * Two(n)
<1>1. PlacesOf(sign) = Power(sign) + 1 /\ Power(sign) \in Nat
  BY Places
<1>2. Power(sign) + 1 - n = q
  BY <1>1
<1>3. SHL(a, n, sign).res = res
  BY <1>2 DEF SHL, Lazy, Two
<1>4. CASE n > Power(sign)
  BY <1>3, <1>4, WrapRange
<1>5. CASE ~(n > Power(sign))
  <2>1. n \in 0 .. PlacesOf(sign) /\ q = PlacesOf(sign) - n
    BY <1>1, <1>5
  <2>2. n \in 1 .. PlacesOf(sign)
    BY <1>1, <1>5
  <2>3. Two(n) > 0
    BY <2>1, Split DEF Halves
  <2> HIDE DEF q
  <2>4. (a % Two(q)) * Two(n) \in Nat /\ (a % Two(q)) * Two(n) < 2 * sign
    BY <2>1, <2>3, GlueTwo, WidthNumbers
  <2> QED
    BY <1>3, <1>5, <2>4, OperandOf
<1> QED
  BY <1>4, <1>5

LEMMA SHRRange ==
  ASSUME NEW sign, Width(sign), NEW a \in Operands(sign), NEW n \in 1 .. 31
  PROVE  SHR(a, n, sign).res \in Operands(sign)
<1> DEFINE res == IF n > Power(sign) THEN 0 ELSE a \div Two(n)
<1>1. PlacesOf(sign) = Power(sign) + 1 /\ Power(sign) \in Nat
  BY Places
<1>3. SHR(a, n, sign).res = res
  BY DEF SHR, Lazy, Two
<1>4. CASE n > Power(sign)
  BY <1>3, <1>4, WrapRange
<1>5. CASE ~(n > Power(sign))
  <2> DEFINE k == PlacesOf(sign) - n
  <2>1. k \in 0 .. PlacesOf(sign) /\ n = PlacesOf(sign) - k
    BY <1>1, <1>5
  <2>2. Two(k) <= 2 * sign /\ Two(k) \in Nat
    <3>1. Halves(Two(n), Two(k), 2 * sign) /\ 2 * sign \in Nat
      BY <1>1, <1>5, Split, WidthNumbers
    <3>2. 1 * Two(k) <= Two(n) * Two(k)
      BY <3>1, TimesMore DEF Halves
    <3> QED
      BY <3>1, <3>2 DEF Halves
  <2> HIDE DEF k
  <2>4. a \div Two(n) \in Nat /\ a \div Two(n) < 2 * sign
    BY <2>1, <2>2, GlueTwo, WidthNumbers
  <2> QED
    BY <1>3, <1>5, <2>4, OperandOf
<1> QED
  BY <1>4, <1>5

LEMMA SARNote ==
  ASSUME NEW sign, Width(sign), NEW a \in Operands(sign), NEW n \in 1 .. 31
  PROVE  LET lf == SAR(a, n, sign)
         IN  /\ lf.res \in Operands(sign) /\ lf.var1 = a /\ lf.sign = sign /\ lf.type = "SAR"
             /\ lf.var2 \in 1 .. 31 /\ lf = SAR(a, lf.var2, sign)
<1> DEFINE k == IF n > Power(sign) THEN Power(sign) + 1 ELSE n
           ones == IF a >= sign THEN 2 * sign - ((2 * sign) \div Two(k)) ELSE 0
           lf == SAR(a, n, sign)
<1>1. PlacesOf(sign) = Power(sign) + 1 /\ Power(sign) \in {7, 15}
  BY Places
<1>2. lf.res = (a \div Two(k)) + ones
  BY DEF SAR, Lazy, Two
<1>3. lf.var1 = a /\ lf.sign = sign /\ lf.type = "SAR" /\ lf.var2 = k
  BY DEF SAR, Lazy
<1>4. k \in 1 .. 31 /\ k \in 0 .. PlacesOf(sign)
  BY <1>1
<1>5. SAR(a, k, sign) = lf
  <2>1. CASE n > Power(sign)
    <3>1. Power(sign) + 1 > Power(sign)
      BY <1>1
    <3> QED
      BY <2>1, <3>1 DEF SAR
  <2>2. CASE ~(n > Power(sign))
    BY <2>2
  <2> QED
    BY <2>1, <2>2
<1> DEFINE j == PlacesOf(sign) - k
<1>6. j \in 0 .. PlacesOf(sign) /\ k = PlacesOf(sign) - j
  BY <1>1, <1>4
<1> HIDE DEF k, lf
<1>7. /\ a \div Two(k) \in Nat /\ a \div Two(k) < Two(j)
      /\ (2 * sign) \div Two(k) = Two(j) /\ Two(j) \in Nat /\ 2 * sign \in Nat
  <2> HIDE DEF j
  <2> QED
    BY <1>6, GlueTwo
<1>8. Two(j) <= 2 * sign
  <2>1. Halves(Two(j), Two(k), 2 * sign)
    BY <1>6, Split
  <2>2. 1 * Two(j) <= Two(k) * Two(j)
    BY <2>1, TimesMore DEF Halves
  <2> QED
    BY <2>1, <2>2 DEF Halves
<1> HIDE DEF j
<1>9. (a \div Two(k)) + ones \in Nat /\ (a \div Two(k)) + ones < 2 * sign
  BY <1>7, <1>8
<1> HIDE DEF ones
<1>10. lf.res \in Operands(sign)
  BY <1>2, <1>9, OperandOf
<1> QED
  BY <1>3, <1>4, <1>5, <1>10 DEF lf

LEMMA ShiftNotes ==
  ASSUME NEW fl, NEW lf1, NEW sign, Width(sign), NEW a \in Operands(sign), NEW n \in 1 .. 31,
         NEW op \in Shifts
  PROVE  LET lf == ShiftBy(op, a, n, sign)
         IN  NotesOperation(fl, lf1, lf) /\ lf.res \in Operands(sign)
<1> DEFINE lf == ShiftBy(op, a, n, sign)
<1>1. n \in Operands(sign) /\ sign \in Signs
  BY CountOperand, WidthNumbers
<1> HIDE DEF lf
<1>2. CASE op = "SHL"
  <2>1. lf = SHL(a, n, sign)
    BY <1>2 DEF ShiftBy, lf
  <2>2. lf.var1 = a /\ lf.var2 = n /\ lf.sign = sign /\ lf.res \in Operands(sign)
    BY <2>1, SHLRange DEF SHL, Lazy
  <2> QED
    BY <1>1, <2>1, <2>2 DEF NotesOperation, InRange, lf
<1>3. CASE op = "SHR"
  <2>1. lf = SHR(a, n, sign)
    BY <1>3 DEF ShiftBy, lf
  <2>2. lf.var1 = a /\ lf.var2 = n /\ lf.sign = sign /\ lf.res \in Operands(sign)
    BY <2>1, SHRRange DEF SHR, Lazy
  <2> QED
    BY <1>1, <2>1, <2>2 DEF NotesOperation, InRange, lf
<1>4. CASE op = "SAR"
  <2>1. lf = SAR(a, n, sign)
    BY <1>4 DEF ShiftBy, lf
  <2>2. /\ lf.res \in Operands(sign) /\ lf.var1 = a /\ lf.sign = sign
        /\ lf.var2 \in 1 .. 31 /\ lf = SAR(a, lf.var2, sign)
    BY <2>1, SARNote
  <2>3. lf.var2 \in Operands(sign)
    BY <2>2, CountOperand
  <2>4. lf = SAR(lf.var1, lf.var2, lf.sign) /\ InRange(lf)
    BY <1>1, <2>2, <2>3 DEF InRange
  <2> QED
    BY <2>2, <2>4 DEF NotesOperation, lf
<1> QED
  BY <1>2, <1>3, <1>4 DEF Shifts, lf

LEMMA WordPlaces ==
  PlacesOf(W) = 16 /\ 2 * W = 65536 /\ Width(W)
  BY WordOperands DEF PlacesOf, W

LEMMA DoubleShiftNotes ==
  ASSUME NEW fl, NEW lf1, NEW a \in Words, NEW b \in Words, NEW n \in 1 .. 31
  PROVE  /\ NotesOperation(fl, lf1, DSHLW(a, b, n)) /\ DSHLW(a, b, n).res \in Words
         /\ NotesOperation(fl, lf1, DSHRW(a, b, n)) /\ DSHRW(a, b, n).res \in Words
<1>1. a \in Operands(W) /\ b \in Operands(W) /\ n \in Operands(W) /\ W \in Signs
  BY WordOperands, CountOperand, WidthNumbers
<1>2. ASSUME NEW k \in 0 .. 16, NEW x \in Words, NEW y \in Words
      PROVE  (x % Two(16 - k)) * Two(k) + (y \div Two(16 - k)) \in Words
  <2> DEFINE j == 16 - k
  <2>1. j = PlacesOf(W) - k /\ k \in 0 .. PlacesOf(W)
    BY WordPlaces
  <2>2. x \in Operands(W) /\ y \in Operands(W)
    BY WordOperands
  <2> HIDE DEF j
  <2>3. /\ (x % Two(j)) * Two(k) \in Nat /\ (x % Two(j)) * Two(k) <= 65536 - Two(k)
        /\ y \div Two(j) \in Nat /\ y \div Two(j) < Two(k) /\ Two(k) \in Nat
    BY <2>1, <2>2, GlueTwo, WordPlaces
  <2>4. (x % Two(j)) * Two(k) + (y \div Two(j)) \in Words
    BY <2>3 DEF Words
  <2> QED
    BY <2>4 DEF j
<1>3. DSHLW(a, b, n).res \in Words
  <2>1. CASE n <= 16
    <3>1. DSHLW(a, b, n).res = (a % Two(16 - n)) * Two(n) + (b \div Two(16 - n))
      BY <2>1 DEF DSHLW, Joined, Lazy, Two
    <3> QED
      BY <1>2, <2>1, <3>1
  <2>2. CASE ~(n <= 16)
    <3> DEFINE k == n - 16
    <3>1. k \in 0 .. 16 /\ 16 - k = 32 - n
      BY <2>2
    <3>2. DSHLW(a, b, n).res = (b \div Two(32 - n)) + (b % Two(32 - n)) * Two(n - 16)
      BY <2>2 DEF DSHLW, Joined, Lazy, Two
    <3>3. (b % Two(16 - k)) * Two(k) + (b \div Two(16 - k)) \in Words
      BY <1>2, <3>1
    <3>4. Two(k) \in Nat /\ Two(32 - n) \in Nat /\ Two(32 - n) > 0
      BY <3>1, SplitWord DEF Halves
    <3>5. b \div Two(32 - n) \in Int /\ (b % Two(32 - n)) * Two(k) \in Int
      BY <3>4, DivMod DEF Words
    <3> QED
      BY <3>1, <3>2, <3>3, <3>5
  <2> QED
    BY <2>1, <2>2
<1>4. DSHRW(a, b, n).res \in Words
  <2>1. CASE n <= 16
    <3> DEFINE k == 16 - n
    <3>1. k \in 0 .. 16 /\ 16 - k = n
      BY <2>1
    <3>2. DSHRW(a, b, n).res = (a \div Two(n)) + (b % Two(n)) * Two(16 - n)
      BY <2>1 DEF DSHRW, Joined, Lazy, Two
    <3>3. (b % Two(16 - k)) * Two(k) + (a \div Two(16 - k)) \in Words
      BY <1>2, <3>1
    <3>4. Two(k) \in Nat /\ Two(n) \in Nat /\ Two(n) > 0
      BY <3>1, SplitWord DEF Halves
    <3>5. a \div Two(n) \in Int /\ (b % Two(n)) * Two(k) \in Int
      BY <3>4, DivMod DEF Words
    <3> QED
      BY <3>1, <3>2, <3>3, <3>5
  <2>2. CASE ~(n <= 16)
    <3> DEFINE k == 32 - n
    <3>1. k \in 0 .. 16 /\ 16 - k = n - 16
      BY <2>2
    <3>2. DSHRW(a, b, n).res = (b \div Two(n - 16)) + (b % Two(n - 16)) * Two(32 - n)
      BY <2>2 DEF DSHRW, Joined, Lazy, Two
    <3>3. (b % Two(16 - k)) * Two(k) + (b \div Two(16 - k)) \in Words
      BY <1>2, <3>1
    <3>4. Two(k) \in Nat /\ Two(n - 16) \in Nat /\ Two(n - 16) > 0
      BY <3>1, SplitWord DEF Halves
    <3>5. b \div Two(n - 16) \in Int /\ (b % Two(n - 16)) * Two(k) \in Int
      BY <3>4, DivMod DEF Words
    <3> QED
      BY <3>1, <3>2, <3>3, <3>5
  <2> QED
    BY <2>1, <2>2
<1>5. InRange(DSHLW(a, b, n)) /\ DSHLW(a, b, n).var2 = n /\ DSHLW(a, b, n).type \in DoubleShifts
  BY <1>1, <1>3, WordOperands DEF InRange, DSHLW, Joined, Lazy, DoubleShifts, W
<1>6. InRange(DSHRW(a, b, n)) /\ DSHRW(a, b, n).var2 = n /\ DSHRW(a, b, n).type \in DoubleShifts
  BY <1>1, <1>4, WordOperands DEF InRange, DSHRW, Joined, Lazy, DoubleShifts, W
<1> QED
  BY <1>3, <1>4, <1>5, <1>6 DEF NotesOperation

RolResult(a, k, bits) == ((a % 2^(bits - k)) * 2^k) + (a \div 2^(bits - k))
RorResult(a, k, bits) == (a \div 2^k) + ((a % 2^k) * 2^(bits - k))
RclResult(a, k, bits, b) ==
  ((a % 2^(bits - k)) * 2^k) + (IF b THEN 2^(k - 1) ELSE 0) + (a \div 2^(bits + 1 - k))
RcrResult(a, k, bits, b) ==
  (a \div 2^k) + (IF b THEN 2^(bits - k) ELSE 0) + ((a % 2^(k - 1)) * 2^(bits + 1 - k))

LEMMA RotateRange ==
  ASSUME NEW sign, Width(sign), NEW a \in Operands(sign), NEW k \in 1 .. PlacesOf(sign)
  PROVE  /\ RolResult(a, k, PlacesOf(sign)) \in Operands(sign)
         /\ RorResult(a, k, PlacesOf(sign)) \in Operands(sign)
<1> DEFINE bits == PlacesOf(sign)
           j == bits - k
<1>1. bits \in {8, 16}
  BY Places
<1>2. /\ k \in 0 .. bits /\ j \in 0 .. bits /\ k = bits - j
  BY <1>1
<1>3. /\ RolResult(a, k, bits) = ((a % Two(j)) * Two(k)) + (a \div Two(j))
      /\ RorResult(a, k, bits) = (a \div Two(k)) + ((a % Two(k)) * Two(j))
  BY DEF RolResult, RorResult, Two
<1> HIDE DEF j
<1>4. /\ (a % Two(j)) * Two(k) \in Nat /\ (a % Two(j)) * Two(k) <= 2 * sign - Two(k)
      /\ a \div Two(j) \in Nat /\ a \div Two(j) < Two(k)
      /\ Two(k) \in Nat /\ 2 * sign \in Nat
  BY <1>2, GlueTwo DEF j
<1>5. /\ (a % Two(k)) * Two(j) \in Nat /\ (a % Two(k)) * Two(j) <= 2 * sign - Two(j)
      /\ a \div Two(k) \in Nat /\ a \div Two(k) < Two(j)
      /\ Two(j) \in Nat
  BY <1>2, GlueTwo
<1> HIDE DEF bits
<1>6. ((a % Two(j)) * Two(k)) + (a \div Two(j)) \in Nat
      /\ ((a % Two(j)) * Two(k)) + (a \div Two(j)) < 2 * sign
  BY <1>4
<1>7. (a \div Two(k)) + ((a % Two(k)) * Two(j)) \in Nat
      /\ (a \div Two(k)) + ((a % Two(k)) * Two(j)) < 2 * sign
  BY <1>4, <1>5
<1>8. RolResult(a, k, bits) \in Operands(sign)
  BY <1>3, <1>6, OperandOf
<1>9. RorResult(a, k, bits) \in Operands(sign)
  BY <1>3, <1>7, OperandOf
<1> QED
  BY <1>8, <1>9 DEF bits

LEMMA RotateThroughCarryRange ==
  ASSUME NEW sign, Width(sign), NEW a \in Operands(sign), NEW k \in 1 .. PlacesOf(sign), NEW b
  PROVE  /\ RclResult(a, k, PlacesOf(sign), b) \in Operands(sign)
         /\ RcrResult(a, k, PlacesOf(sign), b) \in Operands(sign)
<1> DEFINE bits == PlacesOf(sign)
           j == bits - k
           k1 == k - 1
           j1 == bits + 1 - k
           ck == IF b THEN Two(k1) ELSE 0
           cj == IF b THEN Two(j) ELSE 0
<1>1. bits \in {8, 16}
  BY Places
<1>2. /\ k \in 0 .. bits /\ j \in 0 .. bits /\ k = bits - j /\ j = bits - k
      /\ k1 \in 0 .. bits /\ j1 \in 0 .. bits /\ k1 = bits - j1 /\ j1 = bits - k1
      /\ k \in 1 .. 16 /\ j1 \in 1 .. 16 /\ k1 = k - 1 /\ j = j1 - 1
  BY <1>1
<1>3. /\ RclResult(a, k, bits, b) = ((a % Two(j)) * Two(k)) + ck + (a \div Two(j1))
      /\ RcrResult(a, k, bits, b) = (a \div Two(k)) + cj + ((a % Two(k1)) * Two(j1))
  BY DEF RclResult, RcrResult, Two
<1> HIDE DEF j, k1, j1
<1>4. /\ (a % Two(j)) * Two(k) \in Nat /\ (a % Two(j)) * Two(k) <= 2 * sign - Two(k)
      /\ Two(k) \in Nat /\ 2 * sign \in Nat
  BY <1>2, GlueTwo
<1>5. /\ a \div Two(j1) \in Nat /\ a \div Two(j1) < Two(k1) /\ Two(k1) \in Nat
  BY <1>2, GlueTwo
<1>6. /\ (a % Two(k1)) * Two(j1) \in Nat /\ (a % Two(k1)) * Two(j1) <= 2 * sign - Two(j1)
      /\ Two(j1) \in Nat
  BY <1>2, GlueTwo
<1>7. a \div Two(k) \in Nat /\ a \div Two(k) < Two(j) /\ Two(j) \in Nat
  BY <1>2, GlueTwo
<1>8. Two(k) = 2 * Two(k1) /\ Two(j1) = 2 * Two(j)
  BY <1>2, SplitHalf
<1> HIDE DEF bits
<1>9. /\ ((a % Two(j)) * Two(k)) + ck + (a \div Two(j1)) \in Nat
      /\ ((a % Two(j)) * Two(k)) + ck + (a \div Two(j1)) < 2 * sign
  BY <1>4, <1>5, <1>8
<1>10. /\ (a \div Two(k)) + cj + ((a % Two(k1)) * Two(j1)) \in Nat
       /\ (a \div Two(k)) + cj + ((a % Two(k1)) * Two(j1)) < 2 * sign
  BY <1>4, <1>6, <1>7, <1>8
<1>11. RclResult(a, k, bits, b) \in Operands(sign)
  BY <1>3, <1>9, OperandOf
<1>12. RcrResult(a, k, bits, b) \in Operands(sign)
  BY <1>3, <1>10, OperandOf
<1> QED
  BY <1>11, <1>12 DEF bits

-----------------------------------------------------------------------------
(* Arithmetic instructions.                                                *)

EForms == {"EG", "EI", "E", "E1", "EC", "EGI", "EGC"}
GForms == {"GE", "GEI"}
FirstForms == EForms \cup GForms \cup {"AI", "R"}
SecondForms == {"EG", "EGI", "EGC", "GE", "GEI", "AI", "EI"}

LEMMA NamedRegister ==
  ASSUME NEW i, IsInstruction(i), i.form \in {"R", "RI"}
  PROVE  i.rm \in 0 .. 7
<1>1. i.rm \in Bytes /\ i.rm < 8
  BY InstructionFields DEF IsInstruction
<1> QED
  BY <1>1 DEF Bytes

LEMMA FirstRange ==
  ASSUME NEW n, IsMachine(n), NEW i, IsInstruction(i), i.form \in FirstForms
  PROVE  First(n, i) \in Operands(i.sign)
<1>1. Width(i.sign)
  BY InstructionFields
<1>2. CASE i.form \in EForms
  <2>1. First(n, i) = E(n, i, i.sign)
    BY <1>2 DEF First, EForms
  <2> QED
    BY <1>1, <2>1, ERange
<1>3. CASE i.form \in GForms
  <2>1. First(n, i) = G(n, i, i.sign)
    BY <1>3 DEF First, GForms
  <2> QED
    BY <1>1, <2>1, GRange
<1>4. CASE i.form = "AI"
  <2>1. First(n, i) = Reg(n, i.sign, AX)
    BY <1>4 DEF First
  <2> QED
    BY <1>1, <2>1, RegRange, RegisterNames
<1>5. CASE i.form = "R"
  <2>1. First(n, i) = Reg(n, i.sign, i.rm)
    BY <1>5 DEF First
  <2> QED
    BY <1>1, <1>5, <2>1, RegRange, NamedRegister
<1> QED
  BY <1>2, <1>3, <1>4, <1>5 DEF FirstForms

LEMMA StoreMoves ==
  ASSUME NEW n, IsMachine(n), NEW i, IsInstruction(i), i.form \in FirstForms,
         NEW v \in Operands(i.sign)
  PROVE  Moved(n, Store(n, i, v))
<1>1. Width(i.sign)
  BY InstructionFields
<1>2. CASE i.form \in EForms
  <2>1. Store(n, i, v) = SetE(n, i, i.sign, v)
    BY <1>2 DEF Store, EForms
  <2> QED
    BY <1>1, <2>1, SetEMoves
<1>3. CASE i.form \in GForms
  <2>1. Store(n, i, v) = SetG(n, i, i.sign, v)
    BY <1>3 DEF Store, GForms
  <2> QED
    BY <1>1, <2>1, SetGMoves
<1>4. CASE i.form = "AI"
  <2>1. Store(n, i, v) = SetReg(n, i.sign, AX, v)
    BY <1>4 DEF Store
  <2> QED
    BY <1>1, <2>1, SetRegMoves, RegisterNames
<1>5. CASE i.form = "R"
  <2>1. Store(n, i, v) = SetReg(n, i.sign, i.rm, v)
    BY <1>5 DEF Store
  <2> QED
    BY <1>1, <1>5, <2>1, SetRegMoves, NamedRegister
<1> QED
  BY <1>2, <1>3, <1>4, <1>5 DEF FirstForms

LEMMA SecondRange ==
  ASSUME NEW n, IsMachine(n), NEW i, IsInstruction(i), i.form \in SecondForms
  PROVE  Second(n, i) \in Operands(i.sign)
<1>1. Width(i.sign) /\ i.imm \in Operands(i.sign)
  BY InstructionFields
<1>2. CASE i.form \in {"EG", "EGI", "EGC"}
  <2>1. Second(n, i) = G(n, i, i.sign)
    BY <1>2 DEF Second
  <2> QED
    BY <1>1, <2>1, GRange
<1>3. CASE i.form \in GForms
  <2>1. Second(n, i) = E(n, i, i.sign)
    BY <1>3 DEF Second, GForms
  <2> QED
    BY <1>1, <2>1, ERange
<1>4. CASE i.form \in {"AI", "EI"}
  <2>1. Second(n, i) = i.imm
    BY <1>4 DEF Second
  <2> QED
    BY <1>1, <2>1
<1> QED
  BY <1>2, <1>3, <1>4 DEF SecondForms, GForms

\* An operation is noted and its result stored.
LEMMA NoteStored ==
  ASSUME NEW n, Ready(n), NEW i, IsInstruction(i), i.form \in FirstForms,
         NEW lf, NotesOperation(n.fl, n.lf, lf), lf.res \in Operands(i.sign)
  PROVE  Ran(n, Store(Note(n, lf), i, lf.res))
<1>1. Ran(n, Note(n, lf))
  BY NoteRan
<1>2. IsMachine(Note(n, lf))
  BY <1>1, RanReady
<1>3. Moved(Note(n, lf), Store(Note(n, lf), i, lf.res))
  BY <1>2, StoreMoves
<1> QED
  BY <1>1, <1>3, RanMoved

LEMMA ArithmeticRan ==
  ASSUME NEW n, Ready(n), NEW i, IsInstruction(i), ArithmeticRows(i) \/ Group1(i) \/ Tests(i)
  PROVE  Ran(n, Arithmetic(n, i))
<1> DEFINE lf == Noted(n, i.op, First(n, i), Second(n, i), i.sign)
<1>1. IsMachine(n)
  BY DEF Ready
<1>2. i.form \in {"EG", "GE", "AI", "EI"} /\ i.op \in Ariths \cup {"TEST"}
  BY DEF ArithmeticRows, Group1, Tests
<1>3. i.form \in FirstForms /\ i.form \in SecondForms
  BY <1>2 DEF FirstForms, SecondForms, EForms, GForms
<1>4. First(n, i) \in Operands(i.sign) /\ Second(n, i) \in Operands(i.sign) /\ Width(i.sign)
  BY <1>1, <1>3, FirstRange, SecondRange, InstructionFields
<1>5. NotesOperation(n.fl, n.lf, lf) /\ lf.res \in Operands(i.sign)
  BY <1>2, <1>4, NotedNotes
<1>6. Arithmetic(n, i) = Note(n, lf) \/ Arithmetic(n, i) = Store(Note(n, lf), i, lf.res)
  BY DEF Arithmetic
<1> HIDE DEF lf
<1> QED
  BY <1>3, <1>5, <1>6, NoteRan, NoteStored

LEMMA IncDecRan ==
  ASSUME NEW n, Ready(n), NEW i, IsInstruction(i), Steps(i) \/ Group45Steps(i)
  PROVE  Ran(n, IncDec(n, i))
<1> DEFINE a == First(n, i)
           lf == IF i.op = "INC" THEN INC(a, i.sign) ELSE DEC(a, i.sign)
           k == [n EXCEPT !.fl = CarryKept(n), !.lf = lf]
<1>1. i.form \in FirstForms
  BY DEF Steps, Group45Steps, FirstForms, EForms
<1>2. a \in Operands(i.sign) /\ Width(i.sign)
  BY <1>1, FirstRange, InstructionFields DEF Ready
<1>3. IncDec(n, i) = Store(k, i, lf.res)
  BY DEF IncDec
<1>4. NotesByOne(lf) /\ lf.res \in Operands(i.sign)
  <2> HIDE DEF a
  <2> QED
    BY <1>2, NegationNotes
<1>5. Ran(n, k)
  <2> HIDE DEF lf
  <2> QED
    BY <1>4, StepRan
<1> HIDE DEF k, lf
<1>6. Moved(k, Store(k, i, lf.res))
  BY <1>1, <1>4, <1>5, RanReady, StoreMoves
<1> QED
  BY <1>3, <1>5, <1>6, RanMoved

LEMMA NegationRan ==
  ASSUME NEW n, Ready(n), NEW i, IsInstruction(i), Group3(i)
  PROVE  Ran(n, Negation(n, i))
<1> DEFINE a == First(n, i)
           lf == NEG(a, i.sign)
<1>1. i.form \in FirstForms /\ IsMachine(n)
  BY DEF Group3, FirstForms, EForms, Ready
<1>2. a \in Operands(i.sign) /\ Width(i.sign)
  BY <1>1, FirstRange, InstructionFields
<1>3. \/ Negation(n, i) = Store(n, i, (2 * i.sign - 1) - a)
      \/ Negation(n, i) = Store(Note(n, lf), i, lf.res)
  BY DEF Negation
<1> HIDE DEF a
<1>4. NotesOperation(n.fl, n.lf, lf) /\ lf.res \in Operands(i.sign)
  BY <1>2, NegationNotes
<1>5. (2 * i.sign - 1) - a \in Operands(i.sign)
  <2>1. /\ (2 * i.sign - 1) - a \in Nat /\ (2 * i.sign - 1) - a < 2 * i.sign
    BY <1>2, OperandInt, WidthNumbers
  <2> QED
    BY <1>2, <2>1, OperandOf
<1>6. Ran(n, Store(n, i, (2 * i.sign - 1) - a))
  BY <1>1, <1>5, StoreMoves, MovedRan
<1>7. Ran(n, Store(Note(n, lf), i, lf.res))
  <2> HIDE DEF lf
  <2> QED
    BY <1>1, <1>4, NoteStored
<1> QED
  BY <1>3, <1>6, <1>7

LEMMA CountRange ==
  ASSUME NEW n, IsMachine(n), NEW i, IsInstruction(i),
         i.form \in {"E1", "EI", "EGI", "EC", "EGC"}
  PROVE  Count(n, i) \in 0 .. 31
<1>1. i.imm \in Nat /\ CL(n) \in Nat
  BY InstructionFields, RegRange, ByteOperands DEF CL, Words, Bytes
<1>2. CASE i.form = "E1"
  BY <1>2 DEF Count
<1>3. CASE i.form \in {"EI", "EGI"}
  BY <1>1, <1>3 DEF Count
<1>4. CASE i.form \in {"EC", "EGC"}
  BY <1>1, <1>4 DEF Count
<1> QED
  BY <1>2, <1>3, <1>4

\* A rotate keeps the other flags and stores its result.
LEMMA RotatedRan ==
  ASSUME NEW n, Ready(n), NEW i, IsInstruction(i), i.form \in FirstForms,
         NEW res \in Operands(i.sign), NEW cf \in BOOLEAN, NEW of \in BOOLEAN
  PROVE  /\ Ran(n, SetCFOF(Store(FillNoCFOF(n), i, res), cf, of))
         /\ Ran(n, SetCFOF(Store(Fill(n), i, res), cf, of))
         /\ Ran(n, SetCFOF(FillNoCFOF(n), cf, of))
<1>1. FilledFrom(n, Fill(n)) /\ HalfFilledFrom(n, FillNoCFOF(n))
  BY FillFills
<1>2. IsMachine(Fill(n)) /\ IsMachine(FillNoCFOF(n))
  BY <1>1, RanReady
<1>3. /\ Moved(Fill(n), Store(Fill(n), i, res))
      /\ Moved(FillNoCFOF(n), Store(FillNoCFOF(n), i, res))
  BY <1>2, StoreMoves
<1>4. FilledFrom(n, Store(Fill(n), i, res)) /\ HalfFilledFrom(n, Store(FillNoCFOF(n), i, res))
  BY <1>1, <1>3, RanMoved
<1> QED
  BY <1>1, <1>4, TwoSet

LEMMA RotatesRan ==
  ASSUME NEW n, Ready(n), NEW i, IsInstruction(i), i.form \in FirstForms,
         NEW k \in 1 .. PlacesOf(i.sign)
  PROVE  /\ Ran(n, ROL(n, i, k)) /\ Ran(n, ROR(n, i, k))
         /\ Ran(n, RCL(n, i, k)) /\ Ran(n, RCR(n, i, k))
<1> DEFINE a == First(n, i)
           bits == Power(i.sign) + 1
           carry == Fill(n).fl["CF"]
           rol == RolResult(a, k, bits)
           ror == RorResult(a, k, bits)
           rcl == RclResult(a, k, bits, carry)
           rcr == RcrResult(a, k, bits, carry)
<1>1. a \in Operands(i.sign) /\ Width(i.sign)
  BY FirstRange, InstructionFields DEF Ready
<1>2. bits = PlacesOf(i.sign)
  BY <1>1, Places
<1>3. /\ ROL(n, i, k) =
           SetCFOF(Store(FillNoCFOF(n), i, rol), rol % 2 = 1, (rol % 2 = 1) # (rol >= i.sign))
      /\ ROR(n, i, k) =
           SetCFOF(Store(FillNoCFOF(n), i, ror), ror >= i.sign, TopBitsDiffer(ror, i.sign))
  BY DEF ROL, ROR, RolResult, RorResult
<1>4. RCL(n, i, k) =
        SetCFOF(Store(Fill(n), i, rcl), Bit(a, bits - k), Bit(a, bits - k) # (rcl >= i.sign))
  BY DEF RCL, RclResult
<1>5. RCR(n, i, k) =
        SetCFOF(Store(Fill(n), i, rcr), Bit(a, k - 1), TopBitsDiffer(rcr, i.sign))
  BY DEF RCR, RcrResult
<1> HIDE DEF a
<1>6. /\ rol \in Operands(i.sign) /\ ror \in Operands(i.sign)
      /\ rcl \in Operands(i.sign) /\ rcr \in Operands(i.sign)
  <2> HIDE DEF bits, carry
  <2>1. /\ RolResult(a, k, PlacesOf(i.sign)) \in Operands(i.sign)
        /\ RorResult(a, k, PlacesOf(i.sign)) \in Operands(i.sign)
        /\ RclResult(a, k, PlacesOf(i.sign), carry) \in Operands(i.sign)
        /\ RcrResult(a, k, PlacesOf(i.sign), carry) \in Operands(i.sign)
    BY <1>1, RotateRange, RotateThroughCarryRange
  <2> QED
    BY <1>2, <2>1
<1>7. \A x, y : Bit(x, y) \in BOOLEAN /\ TopBitsDiffer(x, y) \in BOOLEAN
  BY DEF Bit, TopBitsDiffer
<1> DEFINE odd == rol % 2 = 1
           changed == (rol % 2 = 1) # (rol >= i.sign)
           top == ror >= i.sign
           over == Bit(a, bits - k) # (rcl >= i.sign)
<1>8. /\ odd \in BOOLEAN /\ changed \in BOOLEAN /\ top \in BOOLEAN /\ over \in BOOLEAN
  OBVIOUS
<1>9. /\ ROL(n, i, k) = SetCFOF(Store(FillNoCFOF(n), i, rol), odd, changed)
      /\ ROR(n, i, k) = SetCFOF(Store(FillNoCFOF(n), i, ror), top, TopBitsDiffer(ror, i.sign))
      /\ RCL(n, i, k) = SetCFOF(Store(Fill(n), i, rcl), Bit(a, bits - k), over)
  BY <1>3, <1>4
<1> HIDE DEF rol, ror, rcl, rcr, bits, odd, changed, top, over
<1>10. Ran(n, ROL(n, i, k)) /\ Ran(n, ROR(n, i, k))
  BY <1>6, <1>7, <1>8, <1>9, RotatedRan
<1>11. Ran(n, RCL(n, i, k)) /\ Ran(n, RCR(n, i, k))
  BY <1>5, <1>6, <1>7, <1>8, <1>9, RotatedRan
<1> QED
  BY <1>10, <1>11

LEMMA WholeTurnRan ==
  ASSUME NEW n, Ready(n), NEW i, IsInstruction(i), i.form \in FirstForms
  PROVE  Ran(n, WholeTurn(n, i))
<1> DEFINE op1 == IF IsRegister(i.rm) THEN E(n, i, i.sign) ELSE EA(n, i)
           top == op1 \div i.sign
           next == (op1 \div (i.sign \div 2)) % 2
           low == op1 % 2 = 1
           ends == op1 % 2 # top
           high == top # 0
           differ == top # next
<1>1. \/ WholeTurn(n, i) = SetCFOF(FillNoCFOF(n), low, ends)
      \/ WholeTurn(n, i) = SetCFOF(FillNoCFOF(n), high, differ)
  BY DEF WholeTurn
<1>2. low \in BOOLEAN /\ ends \in BOOLEAN /\ high \in BOOLEAN /\ differ \in BOOLEAN
  OBVIOUS
<1> HIDE DEF low, ends, high, differ
<1>3. HalfFilledFrom(n, FillNoCFOF(n))
  BY FillFills
<1>4. ASSUME NEW x \in BOOLEAN, NEW y \in BOOLEAN
      PROVE  Ran(n, SetCFOF(FillNoCFOF(n), x, y))
  BY <1>3, TwoSet
<1> QED
  BY <1>1, <1>2, <1>4

LEMMA ShiftRan ==
  ASSUME NEW n, Ready(n), NEW i, IsInstruction(i), Group2(i)
  PROVE  Ran(n, Shift(n, i))
<1> DEFINE c == Count(n, i)
           bits == Power(i.sign) + 1
           turn == IF i.op \in {"ROL", "ROR"} THEN c % bits ELSE c % (bits + 1)
           lf == ShiftBy(i.op, First(n, i), c, i.sign)
<1>1. i.form \in FirstForms /\ i.form \in {"E1", "EI", "EGI", "EC", "EGC"} /\ IsMachine(n)
  BY DEF Group2, FirstForms, EForms, Ready
<1>2. Width(i.sign) /\ First(n, i) \in Operands(i.sign) /\ c \in 0 .. 31
  BY <1>1, InstructionFields, FirstRange, CountRange
<1>3. bits = PlacesOf(i.sign) /\ bits \in {8, 16}
  BY <1>2, Places
<1>4. c = 0 => Shift(n, i) = n
  BY DEF Shift
<1>5. c # 0 /\ i.op \in Shifts => Shift(n, i) = Store(Note(n, lf), i, lf.res)
  BY DEF Shift, Shifts
<1>6. c # 0 /\ i.op \in {"ROL", "ROR"} /\ turn = 0 => Shift(n, i) = WholeTurn(n, i)
  BY DEF Shift, Shifts
<1>7. c # 0 /\ i.op \in {"RCL", "RCR"} /\ turn = 0 => Shift(n, i) = n
  BY DEF Shift, Shifts
<1>8. c # 0 /\ turn # 0 =>
        /\ i.op = "ROL" => Shift(n, i) = ROL(n, i, turn)
        /\ i.op = "ROR" => Shift(n, i) = ROR(n, i, turn)
        /\ i.op = "RCL" => Shift(n, i) = RCL(n, i, turn)
        /\ i.op = "RCR" => Shift(n, i) = RCR(n, i, turn)
  BY DEF Shift, Shifts
<1> HIDE DEF c
<1>9. turn \in 0 .. PlacesOf(i.sign)
  <2>1. CASE bits = 8
    BY <1>2, <1>3, <2>1
  <2>2. CASE bits = 16
    BY <1>2, <1>3, <2>2
  <2> QED
    BY <1>3, <2>1, <2>2
<1>10. CASE c # 0 /\ i.op \in Shifts
  <2>0. c \in 1 .. 31
    BY <1>2, <1>10
  <2>1. NotesOperation(n.fl, n.lf, lf) /\ lf.res \in Operands(i.sign)
    BY <1>2, <1>10, <2>0, ShiftNotes
  <2> HIDE DEF lf
  <2> QED
    BY <1>1, <1>5, <1>10, <2>1, NoteStored
<1> HIDE DEF turn, lf
<1>11. CASE c # 0 /\ turn # 0
  <2>1. turn \in 1 .. PlacesOf(i.sign)
    BY <1>3, <1>9, <1>11
  <2>2. CASE i.op \in {"ROL", "ROR", "RCL", "RCR"}
    BY <1>1, <1>8, <1>11, <2>1, <2>2, RotatesRan
  <2>3. i.op \in {"ROL", "ROR", "RCL", "RCR"} \cup Shifts
    BY DEF Group2, ShiftOps, Shifts
  <2> QED
    BY <1>10, <1>11, <2>2, <2>3
<1>12. CASE c # 0 /\ turn = 0
  <2>1. i.op \in {"ROL", "ROR", "RCL", "RCR"} \cup Shifts
    BY DEF Group2, ShiftOps, Shifts
  <2> QED
    BY <1>1, <1>6, <1>7, <1>10, <1>12, <2>1, WholeTurnRan, SelfRan
<1> QED
  BY <1>4, <1>11, <1>12, SelfRan

LEMMA DoubleShiftRan ==
  ASSUME NEW n, Ready(n), NEW i, IsInstruction(i), DoubleShiftOps(i)
  PROVE  Ran(n, DoubleShift(n, i))
<1> DEFINE c == Count(n, i)
           lf == IF i.op = "SHLD" THEN DSHLW(First(n, i), Second(n, i), c)
                 ELSE DSHRW(First(n, i), Second(n, i), c)
<1>1. /\ i.form \in FirstForms /\ i.form \in SecondForms /\ IsMachine(n)
      /\ i.form \in {"E1", "EI", "EGI", "EC", "EGC"}
  BY DEF DoubleShiftOps, FirstForms, SecondForms, EForms, Ready
<1>2. i.sign = W
  BY DEF DoubleShiftOps, IsInstruction
<1>3. First(n, i) \in Words /\ Second(n, i) \in Words /\ c \in 0 .. 31
  BY <1>1, <1>2, FirstRange, SecondRange, CountRange, WordOperands
<1>4. DoubleShift(n, i) = IF c = 0 THEN n ELSE Store(Note(n, lf), i, lf.res)
  BY DEF DoubleShift
<1> HIDE DEF c
<1>5. CASE c # 0
  <2>1. NotesOperation(n.fl, n.lf, lf) /\ lf.res \in Operands(i.sign)
    BY <1>2, <1>3, <1>5, DoubleShiftNotes, WordOperands
  <2> HIDE DEF lf
  <2> QED
    BY <1>1, <1>4, <1>5, <2>1, NoteStored
<1> QED
  BY <1>4, <1>5, SelfRan

-----------------------------------------------------------------------------
(* Products and quotients.                                                 *)

LEMMA SmallProduct ==
  ASSUME NEW a \in Nat, NEW b \in Nat, NEW c \in Nat, NEW d \in Nat, a <= c, b <= d
  PROVE  a * b \in Nat /\ a * b <= c * d
<1>1. a * b <= c * b /\ a * b \in Nat /\ c * b \in Nat
  BY TimesMore
<1>2. b * c <= d * c /\ b * c = c * b /\ d * c = c * d
  BY TimesMore
<1> QED
  BY <1>1, <1>2

LEMMA ProductDigits ==
  ASSUME NEW a \in Words, NEW b \in Words
  PROVE  LET low == a * (b % 256)
             high == a * (b \div 256)
             sum == low + ((high % 256) * 256)
         IN  sum \in Int /\ (high \div 256) + (sum \div 65536) \in Words
<1> DEFINE low == a * (b % 256)
           high == a * (b \div 256)
           sum == low + ((high % 256) * 256)
<1>1. /\ a \in Nat /\ a <= 65535 /\ b % 256 \in Nat /\ b % 256 <= 255
      /\ b \div 256 \in Nat /\ b \div 256 <= 255
  BY DEF Words
<1>2. low \in Nat /\ low <= 65535 * 255 /\ high \in Nat /\ high <= 65535 * 255
  BY <1>1, SmallProduct
<1> HIDE DEF low, high
<1>3. high \div 256 \in Nat /\ high \div 256 < 65280
  BY <1>2
<1>4. sum \in Nat /\ sum < 16777216
  BY <1>2
<1> HIDE DEF sum
<1>5. sum \div 65536 \in Nat /\ sum \div 65536 < 256
  BY <1>4
<1>6. sum \in Int /\ (high \div 256) + (sum \div 65536) \in Words
  BY <1>3, <1>4, <1>5 DEF Words
<1> QED
  BY <1>6 DEF sum, high, low

LEMMA MultiplyRan ==
  ASSUME NEW n, Ready(n), NEW i, IsInstruction(i), Group3(i)
  PROVE  Ran(n, Multiply(n, i))
<1> DEFINE b == First(n, i)
           byte == AL(n) * b
           low == n.r[AX] * (b % 256)
           high == n.r[AX] * (b \div 256)
           sum == low + ((high % 256) * 256)
           top == (high \div 256) + (sum \div 65536)
           j == SetReg(n, W, AX, Word(sum))
           k == IF i.sign = B THEN SetReg(n, W, AX, byte) ELSE SetReg(j, W, DX, top)
           big == byte > 255
           long == k.r[DX] # 0
           large == IF i.sign = B THEN big ELSE long
           zero == Reg(k, i.sign, AX) = 0
<1>1. Multiply(n, i) = SetFlag(SetCFOF(FillNoCFOF(k), large, large), "ZF", zero)
  BY DEF Multiply
<1>2. IsMachine(n) /\ i.form \in FirstForms
  BY DEF Ready, Group3, FirstForms, EForms
<1>3. b \in Operands(i.sign) /\ Width(i.sign) /\ n.r[AX] \in Words /\ AL(n) \in Bytes
  BY <1>2, FirstRange, InstructionFields, MachineRegister, RegisterNames, RegRange, ByteOperands
     DEF AL
<1> HIDE DEF b
<1>4. ASSUME i.sign = B
      PROVE  Moved(n, k)
  <2>1. byte \in Words
    <3>1. AL(n) \in Nat /\ AL(n) <= 255 /\ b \in Nat /\ b <= 255
      BY <1>3, <1>4, ByteOperands DEF Bytes
    <3>2. byte \in Nat /\ byte <= 255 * 255
      BY <3>1, SmallProduct
    <3> QED
      BY <3>2 DEF Words
  <2>2. k = SetReg(n, W, AX, byte)
    BY <1>4
  <2> HIDE DEF byte
  <2> QED
    BY <1>2, <2>1, <2>2, WordMoves, RegisterNames
<1>5. ASSUME i.sign # B
      PROVE  Moved(n, k)
  <2>1. b \in Words
    BY <1>3, Widths
  <2>2. sum \in Int /\ top \in Words
    BY <1>3, <2>1, ProductDigits
  <2>3. k = SetReg(j, W, DX, top)
    BY <1>5
  <2> HIDE DEF sum, top
  <2>4. Moved(n, j)
    BY <1>2, <2>2, WordRange, WordMoves, RegisterNames
  <2> HIDE DEF j
  <2>5. Moved(j, SetReg(j, W, DX, top))
    BY <2>2, <2>4, MovedMachine, WordMoves, RegisterNames
  <2> QED
    BY <2>3, <2>4, <2>5, MovedOn
<1>6. Moved(n, k)
  BY <1>4, <1>5
<1> HIDE DEF k, byte
<1>7. big \in BOOLEAN /\ long \in BOOLEAN /\ zero \in BOOLEAN
  OBVIOUS
<1> HIDE DEF big, long
<1>9. large \in BOOLEAN
  BY <1>7
<1> HIDE DEF large, zero
<1>8. HalfFilledFrom(n, FillNoCFOF(k))
  BY <1>6, MovedReady, FillFills, MovedThenRan
<1> QED
  BY <1>1, <1>7, <1>8, <1>9, ThreeSet

LEMMA SignedRange ==
  ASSUME NEW sign, Width(sign), NEW x \in Operands(sign)
  PROVE  /\ Signed(x, sign) \in Int /\ Signed(x, sign) <= 32768 /\ -32768 <= Signed(x, sign)
  BY WidthNumbers DEF Signed

\* Results are stored, then carry and overflow set and the other flags kept.
LEMMA MovedTwoSet ==
  ASSUME NEW n, Ready(n), NEW k, Moved(n, k), NEW b \in BOOLEAN
  PROVE  Ran(n, SetCFOF(FillNoCFOF(k), b, b))
<1>1. HalfFilledFrom(n, FillNoCFOF(k))
  BY MovedReady, FillFills, MovedThenRan
<1> QED
  BY <1>1, TwoSet

LEMMA SignedMultiplyRan ==
  ASSUME NEW n, Ready(n), NEW i, IsInstruction(i), Group3(i)
  PROVE  Ran(n, SignedMultiply(n, i))
<1> DEFINE x == Signed(Reg(n, i.sign, AX), i.sign) * Signed(First(n, i), i.sign)
           j == SetReg(n, W, AX, Word(x))
           k == IF i.sign = B THEN j ELSE SetReg(j, W, DX, Word(x \div 65536))
           large == x < -i.sign \/ x >= i.sign
<1>1. SignedMultiply(n, i) = SetCFOF(FillNoCFOF(k), large, large)
  BY DEF SignedMultiply
<1>2. IsMachine(n) /\ i.form \in FirstForms
  BY DEF Ready, Group3, FirstForms, EForms
<1>3. First(n, i) \in Operands(i.sign) /\ Width(i.sign) /\ Reg(n, i.sign, AX) \in Operands(i.sign)
  BY <1>2, FirstRange, InstructionFields, RegisterNames, RegRange
<1>4. Signed(Reg(n, i.sign, AX), i.sign) \in Int /\ Signed(First(n, i), i.sign) \in Int
  BY <1>3, SignedRange
<1>5. x \in Int
  BY <1>4
<1>6. large \in BOOLEAN
  OBVIOUS
<1> HIDE DEF x, large
<1>7. Word(x) \in Words /\ Word(x \div 65536) \in Words
  <2>1. x \div 65536 \in Int
    BY <1>5
  <2> QED
    BY <1>5, <2>1, WordRange
<1>8. Moved(n, j)
  BY <1>2, <1>7, WordMoves, RegisterNames
<1> HIDE DEF j
<1>9. Moved(j, SetReg(j, W, DX, Word(x \div 65536)))
  BY <1>7, <1>8, MovedMachine, WordMoves, RegisterNames
<1>10. Moved(n, k)
  BY <1>8, <1>9, MovedOn
<1> HIDE DEF k
<1> QED
  BY <1>1, <1>6, <1>10, MovedTwoSet

LEMMA SignedMultiplyIntoRan ==
  ASSUME NEW n, Ready(n), NEW i, IsInstruction(i)
  PROVE  Ran(n, SignedMultiplyInto(n, i))
<1> DEFINE b == IF i.form = "GEI" THEN i.imm ELSE G(n, i, W)
           x == Signed(E(n, i, W), W) * Signed(b, W)
           k == SetG(n, i, W, Word(x))
<1>1. SignedMultiplyInto(n, i) = SetCFOF(FillNoCFOF(k), TRUE, TRUE)
  BY DEF SignedMultiplyInto
<1>2. IsMachine(n)
  BY DEF Ready
<1>3. b \in Operands(W) /\ E(n, i, W) \in Operands(W)
  BY <1>2, InstructionFields, GRange, ERange, WordOperands
<1> HIDE DEF b
<1>4. Signed(E(n, i, W), W) \in Int /\ Signed(b, W) \in Int
  BY <1>3, SignedRange, WordOperands
<1>5. Word(x) \in Operands(W)
  BY <1>4, WordRange, WordOperands
<1> HIDE DEF x
<1>6. Moved(n, k)
  BY <1>2, <1>5, SetGMoves, WordOperands
<1> HIDE DEF k
<1> QED
  BY <1>1, <1>6, MovedTwoSet

LEMMA ResultMoves ==
  ASSUME NEW n, IsMachine(n), NEW sign, Width(sign), NEW quo \in Operands(sign),
         NEW rem \in Operands(sign)
  PROVE  Moved(n, Result(n, sign, quo, rem))
<1>1. CASE sign = B
  <2>1. Moved(n, SetReg(n, B, 0, quo))
    BY <1>1, SetRegMoves
  <2>2. Moved(SetReg(n, B, 0, quo), SetReg(SetReg(n, B, 0, quo), B, 4, rem))
    BY <1>1, <2>1, MovedMachine, SetRegMoves
  <2>3. Result(n, sign, quo, rem) = SetReg(SetReg(n, B, 0, quo), B, 4, rem)
    BY <1>1 DEF Result
  <2> QED
    BY <2>1, <2>2, <2>3, MovedOn
<1>2. CASE sign = W
  <2>1. Moved(n, SetReg(n, W, AX, quo))
    BY <1>2, SetRegMoves, RegisterNames
  <2>2. Moved(SetReg(n, W, AX, quo), SetReg(SetReg(n, W, AX, quo), W, DX, rem))
    BY <1>2, <2>1, MovedMachine, SetRegMoves, RegisterNames
  <2>3. Result(n, sign, quo, rem) = SetReg(SetReg(n, W, AX, quo), W, DX, rem)
    BY <1>2, ByteOperands DEF Result
  <2> QED
    BY <2>1, <2>2, <2>3, MovedOn
<1> QED
  BY <1>1, <1>2 DEF Width

LEMMA LongDivisionRange ==
  ASSUME NEW high \in Nat, NEW low \in Words, NEW v \in Nat, high < v, v < 65536
  PROVE  LongDivision(high, low, v).quo \in Words /\ LongDivision(high, low, v).rem \in Words
<1> DEFINE r1 == (high * 256) + (low \div 256)
           q1 == r1 \div v
           m1 == r1 % v
           r2 == (m1 * 256) + (low % 256)
           q2 == r2 \div v
<1>1. low \div 256 \in Nat /\ low \div 256 < 256 /\ low % 256 \in Nat /\ low % 256 < 256
  BY DEF Words
<1>2. r1 \in Nat /\ r1 < 256 * v
  BY <1>1
<1>3. LongDivision(high, low, v).quo = (q1 * 256) + q2 /\ LongDivision(high, low, v).rem = r2 % v
  BY DEF LongDivision
<1> HIDE DEF r1
<1>4. q1 \in Nat /\ q1 < 256
  BY <1>2, QuotientBelow
<1>5. m1 \in Nat /\ m1 < v
  BY <1>2, DivMod
<1> HIDE DEF q1, m1
<1>6. r2 \in Nat /\ r2 < 256 * v
  BY <1>1, <1>5
<1> HIDE DEF r2
<1>7. q2 \in Nat /\ q2 < 256
  BY <1>6, QuotientBelow
<1>8. r2 % v \in Nat /\ r2 % v < v
  BY <1>6, DivMod
<1> HIDE DEF q2
<1>9. (q1 * 256) + q2 \in Words
  BY <1>4, <1>7 DEF Words
<1>10. r2 % v \in Words
  BY <1>8 DEF Words
<1> QED
  BY <1>3, <1>9, <1>10

LEMMA DivideRan ==
  ASSUME NEW n, Ready(n), NEW i, IsInstruction(i), Group3(i)
  PROVE  Ran(n, Divide(n, i))
<1> DEFINE v == First(n, i)
           d == LongDivision(n.r[DX], n.r[AX], v)
<1>1. IsMachine(n) /\ i.form \in FirstForms
  BY DEF Ready, Group3, FirstForms, EForms
<1>2. v \in Operands(i.sign) /\ Width(i.sign) /\ n.r[AX] \in Words /\ n.r[DX] \in Words
  BY <1>1, FirstRange, InstructionFields, RegisterNames, MachineRegister
<1>3. \/ Divide(n, i) = Fatal(n)
      \/ /\ v # 0 /\ i.sign = B /\ ~(n.r[AX] \div v > 255)
         /\ Divide(n, i) = Result(n, B, n.r[AX] \div v, n.r[AX] % v)
      \/ /\ v # 0 /\ i.sign # B /\ ~(n.r[DX] >= v)
         /\ Divide(n, i) = Result(n, W, d.quo, d.rem)
  BY DEF Divide
<1> HIDE DEF v
<1>4. ASSUME v # 0, i.sign = B, ~(n.r[AX] \div v > 255)
      PROVE  Ran(n, Result(n, B, n.r[AX] \div v, n.r[AX] % v))
  <2>1. v \in Nat /\ v > 0 /\ v < 256 /\ n.r[AX] \in Nat
    BY <1>2, <1>4, ByteOperands DEF Bytes, Words
  <2>2. n.r[AX] \div v \in Nat /\ n.r[AX] % v \in Nat /\ n.r[AX] % v < v
    BY <2>1, DivMod
  <2>3. n.r[AX] \div v \in Operands(B) /\ n.r[AX] % v \in Operands(B)
    BY <1>4, <2>1, <2>2, ByteOperands DEF Bytes
  <2> QED
    BY <1>1, <2>3, ResultMoves, MovedRan, ByteOperands
<1>5. ASSUME v # 0, i.sign # B, ~(n.r[DX] >= v)
      PROVE  Ran(n, Result(n, W, d.quo, d.rem))
  <2>1. v \in Nat /\ v < 65536 /\ n.r[DX] \in Nat
    BY <1>2, Widths DEF Words
  <2>2. d.quo \in Operands(W) /\ d.rem \in Operands(W)
    BY <1>2, <1>5, <2>1, LongDivisionRange, WordOperands
  <2> HIDE DEF d
  <2> QED
    BY <1>1, <2>2, ResultMoves, MovedRan, WordOperands
<1> QED
  BY <1>3, <1>4, <1>5, FatalRan

LEMMA UnsignedRange ==
  ASSUME NEW sign, Width(sign), NEW x \in Int
  PROVE  Unsigned(x, sign) \in Operands(sign)
  BY WrapRange DEF Unsigned, Wrap

LEMMA SignedDivideRan ==
  ASSUME NEW n, Ready(n), NEW i, IsInstruction(i), Group3(i)
  PROVE  Ran(n, SignedDivide(n, i))
<1> DEFINE divisor == Signed(First(n, i), i.sign)
           v == IF divisor < 0 THEN -divisor ELSE divisor
           negative == (IF i.sign = B THEN n.r[AX] ELSE n.r[DX]) >= W
           low == IF negative THEN Word(-n.r[AX]) ELSE n.r[AX]
           high == IF i.sign = B THEN 0
                   ELSE IF negative THEN Word(65535 - n.r[DX] + (IF low = 0 THEN 1 ELSE 0))
                   ELSE n.r[DX]
           d == LongDivision(high, low, v)
           quo == IF negative = (divisor < 0) THEN d.quo ELSE -d.quo
           rem == IF negative THEN -d.rem ELSE d.rem
           k == Result(n, i.sign, Unsigned(quo, i.sign), Unsigned(rem, i.sign))
<1>1. \/ SignedDivide(n, i) = Fatal(n)
      \/ ~(high >= v) /\ SignedDivide(n, i) = k
  BY DEF SignedDivide
<1>2. IsMachine(n) /\ i.form \in FirstForms
  BY DEF Ready, Group3, FirstForms, EForms
<1>3. /\ First(n, i) \in Operands(i.sign) /\ Width(i.sign) /\ n.r[AX] \in Words /\ n.r[DX] \in Words
  BY <1>2, FirstRange, InstructionFields, RegisterNames, MachineRegister
<1>4. divisor \in Int /\ divisor <= 32768 /\ -32768 <= divisor
  BY <1>3, SignedRange
<1> HIDE DEF divisor
<1>5. v \in Nat /\ v < 65536
  BY <1>4
<1> HIDE DEF v, negative
<1>6. low \in Words
  <2>1. -n.r[AX] \in Int
    BY <1>3 DEF Words
  <2> QED
    BY <1>3, <2>1, WordRange
<1> HIDE DEF low
<1>7. high \in Nat
  <2>1. 65535 - n.r[DX] + (IF low = 0 THEN 1 ELSE 0) \in Int
    BY <1>3 DEF Words
  <2>2. Word(65535 - n.r[DX] + (IF low = 0 THEN 1 ELSE 0)) \in Words
    BY <2>1, WordRange
  <2> QED
    BY <1>3, <2>2 DEF Words
<1> HIDE DEF high
<1>8. ASSUME ~(high >= v)
      PROVE  Ran(n, k)
  <2>1. d.quo \in Words /\ d.rem \in Words
    BY <1>5, <1>6, <1>7, <1>8, LongDivisionRange
  <2> HIDE DEF d
  <2>2. quo \in Int /\ rem \in Int
    BY <2>1 DEF Words
  <2> HIDE DEF quo, rem
  <2>3. Unsigned(quo, i.sign) \in Operands(i.sign) /\ Unsigned(rem, i.sign) \in Operands(i.sign)
    BY <1>3, <2>2, UnsignedRange
  <2>4. Moved(n, k)
    BY <1>2, <1>3, <2>3, ResultMoves
  <2> QED
    BY <2>4, MovedRan
<1> HIDE DEF k
<1> QED
  BY <1>1, <1>8, FatalRan

-----------------------------------------------------------------------------
(* Decimal adjustments.                                                    *)

\* It keeps the flags, or loads all of them.
Done(n, k) == Ran(n, k) \/ Loaded(n, k)

Booleans(f) == \A x \in DOMAIN f : f[x] \in BOOLEAN

LEMMA LoadedOn ==
  ASSUME NEW n, NEW k, NEW j, Loaded(n, k) \/ Moved(n, k), Loaded(k, j)
  PROVE  Loaded(n, j)
<1>1. CASE Loaded(n, k)
  BY <1>1 DEF Loaded, Sound, Served
<1>2. CASE Moved(n, k)
  BY <1>2, MovedThenRan
<1> QED
  BY <1>1, <1>2

LEMMA FlagsLoaded ==
  ASSUME NEW n, Ready(n), NEW f, Booleans(f)
  PROVE  Loaded(n, SetFlags(n, f))
<1> DEFINE fl == [x \in Conditions |-> IF x \in DOMAIN f THEN f[x] ELSE n.fl[x]]
<1>1. n.fl \in FlagRegisters
  BY DEF Ready, IsMachine
<1>2. \A x \in Conditions : (IF x \in DOMAIN f THEN f[x] ELSE n.fl[x]) \in BOOLEAN
  BY <1>1 DEF Booleans, FlagRegisters
<1>3. fl \in FlagRegisters
  BY <1>2 DEF FlagRegisters
<1>4. NewFlags(n, fl, Unknown, SetFlags(n, f))
  BY DEF SetFlags, NewFlags
<1> HIDE DEF fl
<1> QED
  BY <1>3, <1>4, WithFlags DEF Loaded

LEMMA ThreeBooleans ==
  ASSUME NEW a \in BOOLEAN, NEW b \in BOOLEAN, NEW c \in BOOLEAN
  PROVE  Booleans([SF |-> a, ZF |-> b, PF |-> c])
  BY DEF Booleans

LEMMA SixBooleans ==
  ASSUME NEW a \in BOOLEAN, NEW b \in BOOLEAN, NEW c \in BOOLEAN,
         NEW d \in BOOLEAN, NEW e \in BOOLEAN, NEW f \in BOOLEAN
  PROVE  Booleans([SF |-> a, OF |-> b, ZF |-> c, CF |-> d, AF |-> e, PF |-> f])
  BY DEF Booleans

LEMMA CarryBooleans ==
  ASSUME NEW a \in BOOLEAN, NEW b \in BOOLEAN, NEW c \in BOOLEAN
  PROVE  /\ Booleans([CF |-> a, AF |-> b]) /\ Booleans([CF |-> a, AF |-> b, OF |-> c])
         /\ Booleans([CF |-> a, OF |-> b, AF |-> c])
  BY DEF Booleans

LEMMA AskedBooleans ==
  ASSUME NEW n
  PROVE  Adjusts(n) \in BOOLEAN /\ HighAdjusts(n) \in BOOLEAN
<1>1. GetAF(n.fl, n.lf) \in BOOLEAN /\ GetCF(n.fl, n.lf) \in BOOLEAN
  BY DEF GetAF, GetCF
<1>2. (AL(n) % 16 > 9) \in BOOLEAN /\ (AL(n) > 153) \in BOOLEAN
  OBVIOUS
<1> QED
  BY <1>1, <1>2 DEF Adjusts, HighAdjusts

LEMMA ResultFlagsLoaded ==
  ASSUME NEW n, Ready(n), NEW x
  PROVE  Loaded(n, SetResultFlags(n, x))
<1> DEFINE a == x >= 128
           b == x = 0
           c == EvenParity(x)
<1>1. a \in BOOLEAN /\ b \in BOOLEAN /\ c \in BOOLEAN
  BY DEF EvenParity
<1>2. SetResultFlags(n, x) = SetFlags(n, [SF |-> a, ZF |-> b, PF |-> c])
  BY DEF SetResultFlags
<1> HIDE DEF a, b, c
<1>3. Booleans([SF |-> a, ZF |-> b, PF |-> c])
  BY <1>1, ThreeBooleans
<1> QED
  BY <1>2, <1>3, FlagsLoaded

\* Flags are loaded, further ones too, and a byte goes to a register.
LEMMA LoadedThenByte ==
  ASSUME NEW n, NEW k, Loaded(n, k), NEW r \in 0 .. 7, NEW v \in Bytes
  PROVE  Loaded(n, SetReg(k, B, r, v))
<1>1. Moved(k, SetReg(k, B, r, v))
  BY RanReady, ByteMoves
<1> QED
  BY <1>1, RanMoved

LEMMA LoadedThenFlags ==
  ASSUME NEW n, NEW k, Loaded(n, k), NEW f, Booleans(f)
  PROVE  Loaded(n, SetFlags(k, f))
<1>1. Loaded(k, SetFlags(k, f))
  BY RanReady, FlagsLoaded
<1> QED
  BY <1>1, LoadedOn

LEMMA LowByte ==
  ASSUME NEW n, IsMachine(n)
  PROVE  AL(n) \in Bytes /\ AH(n) \in Bytes
  BY RegRange, ByteOperands DEF AL, AH

LEMMA ByteOf ==
  ASSUME NEW x \in Int
  PROVE  x % 256 \in Bytes /\ x % 16 \in Bytes
  BY DEF Bytes

LEMMA DAALoads ==
  ASSUME NEW n, Ready(n)
  PROVE  Loaded(n, DAA(n))
<1> DEFINE x == (AL(n) + (IF HighAdjusts(n) THEN 96 ELSE 0) + (IF Adjusts(n) THEN 6 ELSE 0)) % 256
           f == [CF |-> HighAdjusts(n), AF |-> Adjusts(n)]
<1>1. DAA(n) = SetReg(SetFlags(SetResultFlags(n, x), f), B, 0, x)
  BY DEF DAA
<1>2. AL(n) + (IF HighAdjusts(n) THEN 96 ELSE 0) + (IF Adjusts(n) THEN 6 ELSE 0) \in Int
  BY LowByte DEF Ready, Bytes
<1>3. x \in Bytes
  BY <1>2, ByteOf
<1>4. Booleans(f)
  BY AskedBooleans, CarryBooleans
<1> HIDE DEF x, f
<1>5. Loaded(n, SetFlags(SetResultFlags(n, x), f))
  BY <1>4, ResultFlagsLoaded, LoadedThenFlags
<1> QED
  BY <1>1, <1>3, <1>5, LoadedThenByte

LEMMA DASLoads ==
  ASSUME NEW n, Ready(n)
  PROVE  Loaded(n, DAS(n))
<1> DEFINE x == (AL(n) - (IF HighAdjusts(n) THEN 96 ELSE 0) - (IF Adjusts(n) THEN 6 ELSE 0)) % 256
           few == AL(n) <= 5
           cf == HighAdjusts(n) \/ (Adjusts(n) /\ few)
           of == AL(n) >= 128 /\ x < 128
           f == [CF |-> cf, AF |-> Adjusts(n), OF |-> of]
<1>1. DAS(n) = SetReg(SetFlags(SetResultFlags(n, x), f), B, 0, x)
  BY DEF DAS
<1>2. AL(n) - (IF HighAdjusts(n) THEN 96 ELSE 0) - (IF Adjusts(n) THEN 6 ELSE 0) \in Int
  BY LowByte DEF Ready, Bytes
<1>3. x \in Bytes
  BY <1>2, ByteOf
<1> HIDE DEF x
<1>4. of \in BOOLEAN /\ few \in BOOLEAN
  OBVIOUS
<1> HIDE DEF of, few
<1>5. cf \in BOOLEAN
  BY <1>4, AskedBooleans
<1> HIDE DEF cf
<1>6. Booleans(f)
  BY <1>4, <1>5, AskedBooleans, CarryBooleans
<1> HIDE DEF f
<1>7. Loaded(n, SetFlags(SetResultFlags(n, x), f))
  BY <1>6, ResultFlagsLoaded, LoadedThenFlags
<1> QED
  BY <1>1, <1>3, <1>7, LoadedThenByte

\* AAA and AAS: an adjustment of AX, six flags, a digit.
LEMMA DigitLoads ==
  ASSUME NEW n, Ready(n), NEW x \in Int, NEW k, k = SetReg(n, W, AX, Word(x)) \/ k = n,
         NEW f, Booleans(f)
  PROVE  Loaded(n, SetReg(SetFlags(k, f), B, 0, AL(k) % 16))
<1>1. Moved(n, k)
  BY WordRange, WordMoves, RegisterNames, MovedSelf DEF Ready
<1>2. Ready(k) /\ IsMachine(k)
  BY <1>1, MovedReady DEF Ready
<1>3. Loaded(n, SetFlags(k, f))
  BY <1>1, <1>2, FlagsLoaded, LoadedOn
<1>4. AL(k) % 16 \in Bytes
  <2>1. AL(k) \in Int
    BY <1>2, LowByte DEF Bytes
  <2> QED
    BY <2>1, ByteOf
<1> QED
  BY <1>3, <1>4, LoadedThenByte

LEMMA AAALoads ==
  ASSUME NEW n, Ready(n)
  PROVE  Loaded(n, AAA(n))
<1> DEFINE al == AL(n)
           byDigit == al % 16 > 9
           k == IF Adjusts(n) THEN SetReg(n, W, AX, Word(n.r[AX] + 262)) ELSE n
           none == AL(k) = 0
           empty == al = 0
           zf == IF byDigit THEN none ELSE ~Adjusts(n) /\ empty
           of == byDigit /\ al \div 16 = 7
           sf == 122 <= al /\ al <= 249
           pf == EvenParity(AL(k))
           f == [SF |-> sf, OF |-> of, ZF |-> zf, CF |-> Adjusts(n), AF |-> Adjusts(n), PF |-> pf]
<1>1. AAA(n) = SetReg(SetFlags(k, f), B, 0, AL(k) % 16)
  BY DEF AAA
<1>2. n.r[AX] + 262 \in Int
  BY MachineRegister, RegisterNames DEF Ready, Words
<1>3. k = SetReg(n, W, AX, Word(n.r[AX] + 262)) \/ k = n
  OBVIOUS
<1> HIDE DEF k
<1>4. none \in BOOLEAN /\ empty \in BOOLEAN /\ of \in BOOLEAN /\ sf \in BOOLEAN /\ pf \in BOOLEAN
  BY DEF EvenParity
<1> HIDE DEF none, empty, of, sf, pf
<1>5. zf \in BOOLEAN
  BY <1>4, AskedBooleans
<1> HIDE DEF zf
<1>6. Booleans(f)
  BY <1>4, <1>5, AskedBooleans, SixBooleans
<1> HIDE DEF f
<1> QED
  BY <1>1, <1>2, <1>3, <1>6, DigitLoads

LEMMA AASLoads ==
  ASSUME NEW n, Ready(n)
  PROVE  Loaded(n, AAS(n))
<1> DEFINE al == AL(n)
           byDigit == al % 16 > 9
           k == IF Adjusts(n) THEN SetReg(n, W, AX, Word(n.r[AX] - 262)) ELSE n
           low == al < 6
           high == al > 133
           half == al >= 128
           bare == 128 <= al /\ al <= 133
           zf == AL(k) = 0
           sf == IF byDigit THEN high ELSE IF Adjusts(n) THEN low \/ high ELSE half
           of == ~byDigit /\ Adjusts(n) /\ bare
           pf == EvenParity(AL(k))
           f == [SF |-> sf, OF |-> of, ZF |-> zf, CF |-> Adjusts(n), AF |-> Adjusts(n), PF |-> pf]
<1>1. AAS(n) = SetReg(SetFlags(k, f), B, 0, AL(k) % 16)
  BY DEF AAS
<1>2. n.r[AX] - 262 \in Int
  BY MachineRegister, RegisterNames DEF Ready, Words
<1>3. k = SetReg(n, W, AX, Word(n.r[AX] - 262)) \/ k = n
  OBVIOUS
<1> HIDE DEF k
<1>4. /\ low \in BOOLEAN /\ high \in BOOLEAN /\ half \in BOOLEAN /\ bare \in BOOLEAN
      /\ zf \in BOOLEAN /\ pf \in BOOLEAN /\ byDigit \in BOOLEAN
  BY DEF EvenParity
<1> HIDE DEF low, high, half, bare, zf, pf, byDigit
<1>5. sf \in BOOLEAN /\ of \in BOOLEAN
  BY <1>4, AskedBooleans
<1> HIDE DEF sf, of
<1>6. Booleans(f)
  BY <1>4, <1>5, AskedBooleans, SixBooleans
<1> HIDE DEF f
<1> QED
  BY <1>1, <1>2, <1>3, <1>6, DigitLoads

LEMMA NoCarriesBooleans ==
  Booleans(NoCarries)
  BY CarryBooleans DEF NoCarries

LEMMA DigitsOf ==
  ASSUME NEW a \in Bytes, NEW v \in Nat, v > 0
  PROVE  a % v \in Bytes /\ a \div v \in Bytes
<1> DEFINE q == a \div v
           r == a % v
<1>1. a \in Nat /\ a < 256
  BY DEF Bytes
<1>2. q \in Nat /\ r \in Nat /\ a = v * q + r
  BY <1>1, DivMod
<1> HIDE DEF q, r
<1>3. 1 * q <= v * q /\ v * q \in Nat
  BY <1>2, TimesMore
<1>4. q \in Bytes /\ r \in Bytes
  BY <1>1, <1>2, <1>3 DEF Bytes
<1> QED
  BY <1>4 DEF q, r

LEMMA AAMDone ==
  ASSUME NEW n, Ready(n), NEW i, IsInstruction(i)
  PROVE  Done(n, AAM(n, i))
<1> DEFINE x == AL(n) % i.imm
           q == AL(n) \div i.imm
           k == SetFlags(SetResultFlags(n, x), NoCarries)
<1>1. AAM(n, i) = Fatal(n) \/ (i.imm # 0 /\ AAM(n, i) = SetReg(SetReg(k, B, 4, q), B, 0, x))
  BY DEF AAM
<1>2. ASSUME i.imm # 0
      PROVE  Loaded(n, SetReg(SetReg(k, B, 4, q), B, 0, x))
  <2>1. i.imm \in Nat /\ i.imm > 0 /\ AL(n) \in Bytes
    BY <1>2, InstructionFields, LowByte DEF Ready, Words
  <2>4. x \in Bytes /\ q \in Bytes
    BY <2>1, DigitsOf
  <2> HIDE DEF x, q
  <2>5. Loaded(n, k)
    BY ResultFlagsLoaded, LoadedThenFlags, NoCarriesBooleans
  <2> HIDE DEF k
  <2> QED
    BY <2>4, <2>5, LoadedThenByte
<1> HIDE DEF k, x, q
<1> QED
  BY <1>1, <1>2, FatalRan DEF Done

LEMMA AADLoads ==
  ASSUME NEW n, Ready(n), NEW i, IsInstruction(i)
  PROVE  Loaded(n, AAD(n, i))
<1> DEFINE x == ((AH(n) * i.imm) + AL(n)) % 256
           k == SetFlags(SetResultFlags(n, x), NoCarries)
<1>1. AAD(n, i) = SetReg(k, W, AX, x)
  BY DEF AAD
<1>2. (AH(n) * i.imm) + AL(n) \in Int
  <2>1. AH(n) \in Int /\ AL(n) \in Int /\ i.imm \in Int
    BY InstructionFields, LowByte DEF Ready, Words, Bytes
  <2> QED
    BY <2>1
<1>3. x \in Words
  BY <1>2, ByteOf DEF Bytes, Words
<1>4. Loaded(n, k)
  BY ResultFlagsLoaded, LoadedThenFlags, NoCarriesBooleans
<1> HIDE DEF k, x
<1>5. Moved(k, SetReg(k, W, AX, x))
  BY <1>3, <1>4, RanReady, WordMoves, RegisterNames
<1> QED
  BY <1>1, <1>4, <1>5, RanMoved

LEMMA DecimalDone ==
  ASSUME NEW n, Ready(n), NEW i, IsInstruction(i), Decimal(i)
  PROVE  Done(n, DecimalAdjust(n, i))
<1>1. /\ i.op = "DAA" => DecimalAdjust(n, i) = DAA(n)
      /\ i.op = "DAS" => DecimalAdjust(n, i) = DAS(n)
      /\ i.op = "AAA" => DecimalAdjust(n, i) = AAA(n)
      /\ i.op = "AAS" => DecimalAdjust(n, i) = AAS(n)
      /\ i.op = "AAM" => DecimalAdjust(n, i) = AAM(n, i)
      /\ i.op = "AAD" => DecimalAdjust(n, i) = AAD(n, i)
  BY DEF DecimalAdjust
<1>2. i.op \in {"DAA", "DAS", "AAA", "AAS", "AAM", "AAD"}
  BY DEF Decimal, Decimals
<1> QED
  BY <1>1, <1>2, DAALoads, DASLoads, AAALoads, AASLoads, AAMDone, AADLoads DEF Done

-----------------------------------------------------------------------------
(* Moves.                                                                  *)

LEMMA MoveMoves ==
  ASSUME NEW n, IsMachine(n), NEW i, IsInstruction(i),
         i.form \in {"EG", "GE", "RI", "EI", "AO", "OA"}
  PROVE  Moved(n, Move(n, i))
<1>1. Width(i.sign) /\ i.imm \in Operands(i.sign)
  BY InstructionFields
<1>2. CASE i.form = "EG"
  <2>1. Move(n, i) = SetE(n, i, i.sign, G(n, i, i.sign))
    BY <1>2 DEF Move
  <2> QED
    BY <1>1, <2>1, GRange, SetEMoves
<1>3. CASE i.form = "GE"
  <2>1. Move(n, i) = SetG(n, i, i.sign, E(n, i, i.sign))
    BY <1>3 DEF Move
  <2> QED
    BY <1>1, <2>1, ERange, SetGMoves
<1>4. CASE i.form = "RI"
  <2>1. Move(n, i) = SetReg(n, i.sign, i.rm, i.imm)
    BY <1>4 DEF Move
  <2> QED
    BY <1>1, <1>4, <2>1, SetRegMoves, NamedRegister
<1>5. CASE i.form = "EI"
  <2>1. Move(n, i) = SetE(n, i, i.sign, i.imm)
    BY <1>5 DEF Move
  <2> QED
    BY <1>1, <2>1, SetEMoves
<1>6. CASE i.form = "AO"
  <2>1. Move(n, i) = SetReg(n, i.sign, AX, Load(n, i.sign, DirectAddress(n, i)))
    BY <1>6 DEF Move
  <2> QED
    BY <1>1, <2>1, SetRegMoves, LoadRange, RegisterNames
<1>7. CASE i.form = "OA"
  <2>1. Move(n, i) = Save(n, i.sign, DirectAddress(n, i), Reg(n, i.sign, AX))
    BY <1>7 DEF Move
  <2> QED
    BY <1>1, <2>1, SaveMoves, RegRange, RegisterNames
<1> QED
  BY <1>2, <1>3, <1>4, <1>5, <1>6, <1>7

LEMMA MoveRan ==
  ASSUME NEW n, Ready(n), NEW i, IsInstruction(i),
         Moves(i) \/ MovesImmediate(i) \/ MovesImmediateE(i) \/ MovesOffset(i)
  PROVE  Ran(n, Move(n, i))
<1>1. i.form \in {"EG", "GE", "RI", "EI", "AO", "OA"}
  BY DEF Moves, MovesImmediate, MovesImmediateE, MovesOffset
<1> QED
  BY <1>1, MoveMoves, MovedRan DEF Ready

LEMMA SegmentNames ==
  ASSUME NEW k \in 0 .. 5
  PROVE  Segments[k + 1] \in Names
  BY DEF Segments, Names

LEMMA MoveSegmentRan ==
  ASSUME NEW n, Ready(n), NEW i, IsInstruction(i), MovesSegment(i)
  PROVE  Ran(n, MoveSegment(n, i))
<1> DEFINE k == RegField(i.rm)
           x == Segments[SegmentField(i)]
           j == SetSegment(n, x, E(n, i, W))
<1>1. IsMachine(n) /\ i.form \in {"ES", "SE"} /\ k \in 0 .. 7
  BY InstructionFields, Fields DEF Ready, MovesSegment
<1>2. \/ MoveSegment(n, i) = Fatal(n)
      \/ k <= 5 /\ MoveSegment(n, i) = SetE(n, i, W, n.s[x])
      \/ MoveSegment(n, i) = Shadow(j)
      \/ MoveSegment(n, i) = j
  <2>1. CASE i.form = "ES" /\ k > 5
    BY <2>1 DEF MoveSegment
  <2>2. CASE i.form = "ES" /\ k <= 5
    BY <1>1, <2>2 DEF MoveSegment
  <2>3. CASE i.form = "SE" /\ k \in {1, 6, 7}
    BY <2>3 DEF MoveSegment, StackSegment
  <2>4. CASE i.form = "SE" /\ k = 2
    BY <2>4 DEF MoveSegment, StackSegment
  <2>5. CASE i.form = "SE" /\ k \in {0, 3, 4, 5}
    BY <2>5 DEF MoveSegment, StackSegment
  <2> QED
    BY <1>1, <2>1, <2>2, <2>3, <2>4, <2>5
<1>3. ASSUME k <= 5
      PROVE  Moved(n, SetE(n, i, W, n.s[x]))
  <2>1. x \in Names
    BY <1>1, <1>3, SegmentNames DEF SegmentField
  <2> HIDE DEF x
  <2> QED
    BY <1>1, <2>1, MachineSegment, WordOperands, SetEMoves
<1>4. Moved(n, j)
  BY <1>1, ERange, WordOperands, SetSegmentMoves
<1> HIDE DEF k, x, j
<1>5. Ran(n, Shadow(j))
  BY <1>4, MovedRan, Left
<1> QED
  BY <1>2, <1>3, <1>4, <1>5, FatalRan, MovedRan

LEMMA LoadAddressRan ==
  ASSUME NEW n, Ready(n), NEW i, IsInstruction(i)
  PROVE  Ran(n, LoadAddress(n, i))
<1>1. Moved(n, SetG(n, i, W, EAOffset(n, i)))
  BY EAOffsetRange, WordOperands, SetGMoves DEF Ready
<1> QED
  BY <1>1, FatalRan, MovedRan DEF LoadAddress

LEMMA ExchangeRan ==
  ASSUME NEW n, Ready(n), NEW i, IsInstruction(i)
  PROVE  Ran(n, Exchange(n, i))
<1> DEFINE k == SetE(n, i, i.sign, G(n, i, i.sign))
           v == E(n, i, i.sign)
<1>1. IsMachine(n) /\ Width(i.sign)
  BY InstructionFields DEF Ready
<1>2. Moved(n, k) /\ v \in Operands(i.sign)
  BY <1>1, GRange, ERange, SetEMoves
<1>3. Exchange(n, i) = SetG(k, i, i.sign, v)
  BY DEF Exchange
<1> HIDE DEF k, v
<1>4. Moved(k, SetG(k, i, i.sign, v))
  BY <1>1, <1>2, MovedMachine, SetGMoves
<1> QED
  BY <1>2, <1>3, <1>4, MovedOn, MovedRan

LEMMA ExchangeAXRan ==
  ASSUME NEW n, Ready(n), NEW i, IsInstruction(i), ExchangesAX(i)
  PROVE  Ran(n, ExchangeAX(n, i))
<1> DEFINE k == SetReg(n, W, AX, n.r[i.rm])
<1>1. IsMachine(n) /\ i.rm \in 0 .. 7
  BY NamedRegister DEF Ready, ExchangesAX
<1>2. n.r[i.rm] \in Words /\ n.r[AX] \in Words
  BY <1>1, MachineRegister, RegisterNames
<1>3. Moved(n, k)
  BY <1>1, <1>2, WordMoves, RegisterNames
<1>4. ExchangeAX(n, i) = SetReg(k, W, i.rm, n.r[AX])
  BY DEF ExchangeAX
<1> HIDE DEF k
<1>5. Moved(k, SetReg(k, W, i.rm, n.r[AX]))
  BY <1>1, <1>2, <1>3, MovedMachine, WordMoves
<1> QED
  BY <1>3, <1>4, <1>5, MovedOn, MovedRan

LEMMA LoadFarRan ==
  ASSUME NEW n, Ready(n), NEW i, IsInstruction(i)
  PROVE  Ran(n, LoadFar(n, i))
<1> DEFINE v == Load(n, W, EA(n, i) + 2)
           w == Load(n, W, EA(n, i))
           k == SetSegment(n, FarPointers[i.op], v)
<1>1. IsMachine(n)
  BY DEF Ready
<1>2. v \in Words /\ w \in Words
  BY <1>1, LoadRange, WordOperands
<1>3. LoadFar(n, i) = Fatal(n) \/ LoadFar(n, i) = SetG(k, i, W, w)
  BY DEF LoadFar
<1> HIDE DEF v, w
<1>4. Moved(n, k)
  BY <1>1, <1>2, SetSegmentMoves
<1> HIDE DEF k
<1>5. Moved(k, SetG(k, i, W, w))
  BY <1>2, <1>4, MovedMachine, WordOperands, SetGMoves
<1> QED
  BY <1>3, <1>4, <1>5, MovedOn, MovedRan, FatalRan

LEMMA WidenRan ==
  ASSUME NEW n, Ready(n), NEW i
  PROVE  Ran(n, Widen(n, i))
<1>1. IsMachine(n)
  BY DEF Ready
<1>2. Word(Signed(AL(n), B)) \in Words
  <2>1. Signed(AL(n), B) \in Int
    BY <1>1, LowByte, SignedRange, ByteOperands
  <2> QED
    BY <2>1, WordRange
<1>3. (IF n.r[AX] >= W THEN 65535 ELSE 0) \in Words
  BY DEF Words
<1> QED
  BY <1>1, <1>2, <1>3, WordMoves, RegisterNames, MovedRan DEF Widen

LEMMA ExtendRan ==
  ASSUME NEW n, Ready(n), NEW i, IsInstruction(i)
  PROVE  Ran(n, Extend(n, i))
<1> DEFINE v == E(n, i, i.sign)
           w == IF i.op = "MOVZX" THEN v ELSE Word(Signed(v, i.sign))
<1>1. IsMachine(n) /\ Width(i.sign) /\ v \in Operands(i.sign)
  BY InstructionFields, ERange DEF Ready
<1>2. Extend(n, i) = SetG(n, i, W, w)
  BY DEF Extend
<1> HIDE DEF v
<1>3. v \in Words /\ Word(Signed(v, i.sign)) \in Words
  BY <1>1, Widths, SignedRange, WordRange
<1>4. w \in Operands(W)
  BY <1>3, WordOperands
<1> HIDE DEF w
<1> QED
  BY <1>1, <1>2, <1>4, WordOperands, SetGMoves, MovedRan

LEMMA TranslateRan ==
  ASSUME NEW n, Ready(n), NEW i
  PROVE  Ran(n, Translate(n, i))
<1> DEFINE v == ByteAt(n, Phys(n, DataSegment(i)) + Word(n.r[BX] + AL(n)))
           w == IF GetCF(n.fl, n.lf) THEN 255 ELSE 0
<1>1. IsMachine(n)
  BY DEF Ready
<1>2. v \in Bytes /\ w \in Bytes
  <2>1. v \in Bytes
    BY <1>1, ByteRead
  <2> HIDE DEF v
  <2> QED
    BY <2>1 DEF Bytes
<1>3. Translate(n, i) = SetReg(n, B, 0, v) \/ Translate(n, i) = SetReg(n, B, 0, w)
  BY DEF Translate
<1> HIDE DEF v, w
<1> QED
  BY <1>1, <1>2, <1>3, ByteMoves, MovedRan

LEMMA SwapRan ==
  ASSUME NEW n, Ready(n), NEW i
  PROVE  Ran(n, Swap(n, i))
<1>0. n.r \in [0 .. 7 -> Words] /\ 0 \in Words
  BY DEF Ready, IsMachine, Registers, Words
<1>1. [n.r EXCEPT ![i.rm] = 0] \in Registers
  BY <1>0 DEF Registers
<1>2. Swap(n, i) = [n EXCEPT !.r = [n.r EXCEPT ![i.rm] = 0]]
  BY DEF Swap, SetReg
<1> QED
  BY <1>1, <1>2, WithRegisters, MovedRan DEF Ready

LEMMA SetByteRan ==
  ASSUME NEW n, Ready(n), NEW i, IsInstruction(i)
  PROVE  Ran(n, SetByte(n, i))
<1> DEFINE v == IF Condition(n, i.imm) THEN 1 ELSE 0
<1>1. v \in Operands(B)
  BY ByteOperands DEF Bytes
<1>2. SetByte(n, i) = SetE(n, i, B, v)
  BY DEF SetByte
<1> HIDE DEF v
<1> QED
  BY <1>1, <1>2, SetEMoves, MovedRan, ByteOperands DEF Ready

LEMMA ExchangeAddRan ==
  ASSUME NEW n, Ready(n), NEW i, IsInstruction(i)
  PROVE  Ran(n, ExchangeAdd(n, i))
<1> DEFINE v == E(n, i, i.sign)
           old == G(n, i, i.sign)
           sum == (v + old) % (2 * i.sign)
           k == SetG(n, i, i.sign, v)
<1>1. IsMachine(n) /\ Width(i.sign)
  BY InstructionFields DEF Ready
<1>2. v \in Operands(i.sign) /\ old \in Operands(i.sign)
  BY <1>1, ERange, GRange
<1>3. ExchangeAdd(n, i) = SetE(k, i, i.sign, sum)
  BY DEF ExchangeAdd
<1> HIDE DEF v, old
<1>4. sum \in Operands(i.sign)
  <2>1. v + old \in Int
    BY <1>1, <1>2, OperandInt
  <2> QED
    BY <1>1, <2>1, WrapRange DEF Wrap
<1> HIDE DEF sum
<1>5. Moved(n, k)
  BY <1>1, <1>2, SetGMoves
<1> HIDE DEF k
<1>6. Moved(k, SetE(k, i, i.sign, sum))
  BY <1>1, <1>4, <1>5, MovedMachine, SetEMoves
<1> QED
  BY <1>3, <1>5, <1>6, MovedOn, MovedRan

LEMMA CompareExchangeRan ==
  ASSUME NEW n, Ready(n), NEW i, IsInstruction(i)
  PROVE  Ran(n, CompareExchange(n, i))
<1> DEFINE v == E(n, i, i.sign)
           g == G(n, i, i.sign)
           equal == Reg(n, i.sign, AX) = v
           k == SetFlag(Fill(n), "ZF", equal)
<1>1. IsMachine(n) /\ Width(i.sign)
  BY InstructionFields DEF Ready
<1>2. v \in Operands(i.sign) /\ g \in Operands(i.sign)
  BY <1>1, ERange, GRange
<1>3. \/ CompareExchange(n, i) = SetE(k, i, i.sign, g)
      \/ CompareExchange(n, i) = SetReg(SetE(k, i, i.sign, v), i.sign, AX, v)
  BY DEF CompareExchange
<1>4. equal \in BOOLEAN
  OBVIOUS
<1> HIDE DEF v, g, equal
<1>5. Ran(n, k)
  BY <1>4, FillFills, OneSet
<1> HIDE DEF k
<1>6. /\ Moved(k, SetE(k, i, i.sign, g))
      /\ Moved(k, SetE(k, i, i.sign, v))
  BY <1>1, <1>2, <1>5, RanReady, SetEMoves
<1>7. Moved(SetE(k, i, i.sign, v), SetReg(SetE(k, i, i.sign, v), i.sign, AX, v))
  BY <1>1, <1>2, <1>6, MovedMachine, SetRegMoves, RegisterNames
<1> QED
  BY <1>3, <1>5, <1>6, <1>7, MovedOn, RanMoved

-----------------------------------------------------------------------------
(* Single bits.                                                            *)

\* Clearing a bit that is set, or setting one that is not, leaves a word.
LEMMA PlaceChanges ==
  ASSUME NEW v \in Words,
         NEW p \in {1, 2, 4, 8, 16, 32, 64, 128, 256, 512, 1024, 2048, 4096, 8192, 16384, 32768}
  PROVE  /\ (v \div p) % 2 = 1 => v - p \in Words
         /\ (v \div p) % 2 # 1 => v + p \in Words
<1>1. CASE p = 1
  BY <1>1 DEF Words
<1>2. CASE p = 2
  BY <1>2 DEF Words
<1>3. CASE p = 4
  BY <1>3 DEF Words
<1>4. CASE p = 8
  BY <1>4 DEF Words
<1>5. CASE p = 16
  BY <1>5 DEF Words
<1>6. CASE p = 32
  BY <1>6 DEF Words
<1>7. CASE p = 64
  BY <1>7 DEF Words
<1>8. CASE p = 128
  BY <1>8 DEF Words
<1>9. CASE p = 256
  BY <1>9 DEF Words
<1>10. CASE p = 512
  BY <1>10 DEF Words
<1>11. CASE p = 1024
  BY <1>11 DEF Words
<1>12. CASE p = 2048
  BY <1>12 DEF Words
<1>13. CASE p = 4096
  BY <1>13 DEF Words
<1>14. CASE p = 8192
  BY <1>14 DEF Words
<1>15. CASE p = 16384
  BY <1>15 DEF Words
<1>16. CASE p = 32768
  BY <1>16 DEF Words
<1> QED
  BY <1>1, <1>2, <1>3, <1>4, <1>5, <1>6, <1>7, <1>8, <1>9, <1>10, <1>11, <1>12, <1>13, <1>14, <1>15,
     <1>16

LEMMA BitChanges ==
  ASSUME NEW v \in Words, NEW k \in 0 .. 15
  PROVE  /\ Bit(v, k) => v - Two(k) \in Words
         /\ ~Bit(v, k) => v + Two(k) \in Words
<1> DEFINE p == Two(k)
<1>1. p \in {1, 2, 4, 8, 16, 32, 64, 128, 256, 512, 1024, 2048, 4096, 8192, 16384, 32768}
  BY TwoPowers
<1>2. Bit(v, k) = ((v \div p) % 2 = 1)
  BY DEF Bit, Two
<1> HIDE DEF p
<1>3. /\ (v \div p) % 2 = 1 => v - p \in Words
      /\ (v \div p) % 2 # 1 => v + p \in Words
  BY <1>1, PlaceChanges
<1>4. (Bit(v, k) => v - p \in Words) /\ (~Bit(v, k) => v + p \in Words)
  BY <1>2, <1>3
<1> QED
  BY <1>4 DEF p

LEMMA BitOfRange ==
  ASSUME NEW v \in Words, NEW k \in 0 .. 15, NEW op \in BitOps
  PROVE  BitOf(op, v, k) \in Words
<1> DEFINE less == v - 2^k
           more == v + 2^k
           set == Bit(v, k)
<1>1. /\ op = "BT" => BitOf(op, v, k) = v
      /\ op = "BTS" => BitOf(op, v, k) = IF set THEN v ELSE more
      /\ op = "BTR" => BitOf(op, v, k) = IF set THEN less ELSE v
      /\ op = "BTC" => BitOf(op, v, k) = IF set THEN less ELSE more
  BY DEF BitOf
<1>2. less = v - Two(k) /\ more = v + Two(k)
  BY DEF Two
<1>3. (set => less \in Words) /\ (~set => more \in Words)
  <2> HIDE DEF less, more
  <2> QED
    BY <1>2, BitChanges
<1> HIDE DEF less, more, set
<1> QED
  BY <1>1, <1>3 DEF BitOps

LEMMA TestBitRan ==
  ASSUME NEW n, Ready(n), NEW i, IsInstruction(i), TestsBit(i)
  PROVE  Ran(n, TestBit(n, i))
<1> DEFINE k == G(n, i, W) % 16
           a == EA(n, i) + ((Signed(G(n, i, W), W) \div 16) * 2)
           v == IF IsRegister(i.rm) THEN E(n, i, W) ELSE Load(n, W, a)
           set == Bit(v, k)
           j == SetFlag(Fill(n), "CF", set)
           new == BitOf(i.op, v, k)
<1>1. IsMachine(n) /\ i.op \in BitOps
  BY DEF Ready, TestsBit
<1>2. \/ TestBit(n, i) = j \/ TestBit(n, i) = SetE(j, i, W, new)
      \/ TestBit(n, i) = Save(j, W, a, new)
  <2>1. CASE i.op = "BT"
    BY <2>1 DEF TestBit
  <2>2. CASE i.op # "BT" /\ IsRegister(i.rm)
    BY <2>2 DEF TestBit
  <2>3. CASE i.op # "BT" /\ ~IsRegister(i.rm)
    BY <2>3 DEF TestBit
  <2> QED
    BY <2>1, <2>2, <2>3
<1>3. k \in 0 .. 15
  BY <1>1, GRange, WordOperands DEF Words
<1>4. v \in Words
  BY <1>1, ERange, LoadRange, WordOperands
<1>5. set \in BOOLEAN
  BY DEF Bit
<1> HIDE DEF k, a, v
<1>6. new \in Words
  BY <1>1, <1>3, <1>4, BitOfRange
<1> HIDE DEF set, new
<1>7. Ran(n, j)
  BY <1>5, FillFills, OneSet
<1> HIDE DEF j
<1>8. Moved(j, SetE(j, i, W, new)) /\ Moved(j, Save(j, W, a, new))
  BY <1>6, <1>7, RanReady, SetEMoves, SaveMoves, WordOperands
<1> QED
  BY <1>2, <1>7, <1>8, RanMoved

LEMMA TestBitImmediateRan ==
  ASSUME NEW n, Ready(n), NEW i, IsInstruction(i), Group8(i)
  PROVE  Ran(n, TestBitImmediate(n, i))
<1> DEFINE k == i.imm % 16
           v == E(n, i, W)
           set == Bit(v, k)
           j == SetFlag(Fill(n), "CF", set)
           new == BitOf(i.op, v, k)
<1>1. IsMachine(n) /\ i.op \in BitOps
  BY DEF Ready, Group8
<1>2. TestBitImmediate(n, i) = j \/ TestBitImmediate(n, i) = SetE(j, i, W, new)
  BY DEF TestBitImmediate
<1>3. k \in 0 .. 15
  BY InstructionFields DEF Words
<1>4. v \in Words
  BY <1>1, ERange, WordOperands
<1>5. set \in BOOLEAN
  BY DEF Bit
<1> HIDE DEF k, v
<1>6. new \in Words
  BY <1>1, <1>3, <1>4, BitOfRange
<1> HIDE DEF set, new
<1>7. Ran(n, j)
  BY <1>5, FillFills, OneSet
<1> HIDE DEF j
<1>8. Moved(j, SetE(j, i, W, new))
  BY <1>6, <1>7, RanReady, SetEMoves, WordOperands
<1> QED
  BY <1>2, <1>7, <1>8, RanMoved

\* Every set of numbers has a least one.
LEMMA LeastOfNaturals ==
  ASSUME NEW T \in SUBSET Nat, T # {}
  PROVE  \E n \in T : \A k \in T : n <= k
<1> DEFINE R == {ss \in Nat \X Nat : ss[1] < ss[2]}
<1>1. IsWellFoundedOn(R, Nat)
  BY NatLessThanWellFounded DEF OpToRel
<1>2. PICK n \in T : \A k \in T : <<k, n>> \notin R
  <2> HIDE DEF R
  <2> QED
    BY <1>1, WFMin
<1>3. \A k \in T : k \in Nat /\ n \in Nat /\ ~(k < n)
  BY <1>2
<1> QED
  BY <1>3

LEMMA LeastIsMember ==
  ASSUME NEW T \in SUBSET Nat, T # {}
  PROVE  Min(T) \in T
<1>1. PICK n \in T : \A k \in T : n <= k
  BY LeastOfNaturals
<1> QED
  BY <1>1 DEF Min

LEMMA GreatestIsMember ==
  ASSUME NEW T \in SUBSET (0 .. 15), T # {}
  PROVE  Max(T) \in T
<1> DEFINE from == {15 - k : k \in T}
<1>1. from \in SUBSET Nat /\ from # {}
  <2>1. \A k \in T : k \in 0 .. 15 /\ 15 - k \in Nat
    OBVIOUS
  <2>2. PICK k \in T : TRUE
    OBVIOUS
  <2>3. 15 - k \in from
    OBVIOUS
  <2>4. \A e \in from : \E j \in T : e = 15 - j
    OBVIOUS
  <2>5. \A e \in from : e \in Nat
    BY <2>1, <2>4
  <2> HIDE DEF from
  <2> QED
    BY <2>3, <2>5
<1>2. PICK d \in from : \A e \in from : d <= e
  <2> HIDE DEF from
  <2> QED
    BY <1>1, LeastOfNaturals
<1>3. PICK x \in T : d = 15 - x
  OBVIOUS
<1>4. \A y \in T : 15 - x <= 15 - y
  BY <1>2, <1>3
<1>5. \A y \in T : x >= y
  <2> TAKE y \in T
  <2>1. x \in 0 .. 15 /\ y \in 0 .. 15 /\ 15 - x <= 15 - y
    BY <1>4
  <2> QED
    BY <2>1
<1> QED
  BY <1>5 DEF Max

\* A word without a set bit is zero.
LEMMA SomeBit ==
  ASSUME NEW v \in Words, \A k \in 0 .. 15 : ~Bit(v, k)
  PROVE  v = 0
<1>1. \A k \in 0 .. 15 : (v \div Two(k)) % 2 # 1
  BY DEF Bit, Two
<1>2. v \in Nat /\ v < 65536
  BY DEF Words
<1>3. v < 32768
  <2>1. (v \div 32768) % 2 # 1
    BY <1>1, TwoPowers
  <2> QED
    BY <1>2, <2>1
<1>4. v < 16384
  <2>1. (v \div 16384) % 2 # 1
    BY <1>1, TwoPowers
  <2> QED
    BY <1>2, <1>3, <2>1
<1>5. v < 8192
  <2>1. (v \div 8192) % 2 # 1
    BY <1>1, TwoPowers
  <2> QED
    BY <1>2, <1>4, <2>1
<1>6. v < 4096
  <2>1. (v \div 4096) % 2 # 1
    BY <1>1, TwoPowers
  <2> QED
    BY <1>2, <1>5, <2>1
<1>7. v < 2048
  <2>1. (v \div 2048) % 2 # 1
    BY <1>1, TwoPowers
  <2> QED
    BY <1>2, <1>6, <2>1
<1>8. v < 1024
  <2>1. (v \div 1024) % 2 # 1
    BY <1>1, TwoPowers
  <2> QED
    BY <1>2, <1>7, <2>1
<1>9. v < 512
  <2>1. (v \div 512) % 2 # 1
    BY <1>1, TwoPowers
  <2> QED
    BY <1>2, <1>8, <2>1
<1>10. v < 256
  <2>1. (v \div 256) % 2 # 1
    BY <1>1, TwoPowers
  <2> QED
    BY <1>2, <1>9, <2>1
<1>11. v < 128
  <2>1. (v \div 128) % 2 # 1
    BY <1>1, TwoPowers
  <2> QED
    BY <1>2, <1>10, <2>1
<1>12. v < 64
  <2>1. (v \div 64) % 2 # 1
    BY <1>1, TwoPowers
  <2> QED
    BY <1>2, <1>11, <2>1
<1>13. v < 32
  <2>1. (v \div 32) % 2 # 1
    BY <1>1, TwoPowers
  <2> QED
    BY <1>2, <1>12, <2>1
<1>14. v < 16
  <2>1. (v \div 16) % 2 # 1
    BY <1>1, TwoPowers
  <2> QED
    BY <1>2, <1>13, <2>1
<1>15. v < 8
  <2>1. (v \div 8) % 2 # 1
    BY <1>1, TwoPowers
  <2> QED
    BY <1>2, <1>14, <2>1
<1>16. v < 4
  <2>1. (v \div 4) % 2 # 1
    BY <1>1, TwoPowers
  <2> QED
    BY <1>2, <1>15, <2>1
<1>17. v < 2
  <2>1. (v \div 2) % 2 # 1
    BY <1>1, TwoPowers
  <2> QED
    BY <1>2, <1>16, <2>1
<1>18. v < 1
  <2>1. (v \div 1) % 2 # 1
    BY <1>1, TwoPowers
  <2> QED
    BY <1>2, <1>17, <2>1
<1> QED
  BY <1>2, <1>18

LEMMA ScanLoads ==
  ASSUME NEW n, Ready(n), NEW i, IsInstruction(i)
  PROVE  Loaded(n, Scan(n, i))
<1> DEFINE v == E(n, i, W)
           ones == {k \in 0 .. 15 : Bit(v, k)}
           zf == v = 0
           j == [n EXCEPT !.lf = Unknown]
           l == SetFlag(j, "ZF", zf)
<1>1. v \in Words
  BY ERange, WordOperands DEF Ready
<1>2. zf \in BOOLEAN
  OBVIOUS
<1>3. \/ Scan(n, i) = l
      \/ v # 0 /\ Scan(n, i) = SetG(l, i, W, Min(ones))
      \/ v # 0 /\ Scan(n, i) = SetG(l, i, W, Max(ones))
  BY DEF Scan
<1> HIDE DEF v, zf
<1>4. v # 0 => Min(ones) \in Words /\ Max(ones) \in Words
  <2> SUFFICES ASSUME v # 0
               PROVE  Min(ones) \in Words /\ Max(ones) \in Words
    OBVIOUS
  <2>1. ones # {} /\ ones \in SUBSET Nat /\ ones \in SUBSET (0 .. 15)
    BY <1>1, SomeBit
  <2>2. \A x \in ones : x \in Words
    BY DEF Words
  <2> HIDE DEF ones
  <2> QED
    BY <2>1, <2>2, LeastIsMember, GreatestIsMember
<1> HIDE DEF ones
<1>5. Loaded(n, j) /\ Ready(j) /\ j.lf = Unknown
  BY DEF Loaded, Ready, Sound, Served, IsMachine, IsRecord
<1> HIDE DEF j
<1>6. Sound(j, l) /\ l.lf = Unknown
  BY <1>2, <1>5, WithFlag
<1>7. Loaded(n, l)
  BY <1>5, <1>6 DEF Loaded, Sound, Served
<1> HIDE DEF l
<1>8. v # 0 => Moved(l, SetG(l, i, W, Min(ones))) /\ Moved(l, SetG(l, i, W, Max(ones)))
  BY <1>4, <1>7, RanReady, SetGMoves, WordOperands
<1> QED
  BY <1>3, <1>7, <1>8, RanMoved

-----------------------------------------------------------------------------
(* Ports and strings.                                                      *)

LEMMA PortRange ==
  ASSUME NEW port \in Words, NEW sign, Width(sign)
  PROVE  In(port) \in Bytes /\ PortWord(port) \in Words /\ Port(port, sign) \in Operands(sign)
<1>1. port \in 0 .. 2 * W /\ port + 1 \in 0 .. 2 * W
  <2> DEFINE top == 2 * W
  <2>1. top = 65536
    BY WordPlaces
  <2> HIDE DEF top
  <2>2. port \in Nat /\ port < top /\ top \in Nat
    BY <2>1 DEF Words
  <2>3. port \in 0 .. top /\ port + 1 \in 0 .. top
    BY <2>2
  <2> QED
    BY <2>3 DEF top
<1>2. In(port) \in Bytes /\ In(port + 1) \in Bytes
  BY <1>1, CpuAssumption, ByteOperands
<1>3. PortWord(port) \in Words
  BY <1>2 DEF PortWord, Bytes, Words
<1> QED
  BY <1>2, <1>3, ByteOperands, WordOperands DEF Port, Width

LEMMA AdvanceMoves ==
  ASSUME NEW n, IsMachine(n), NEW i
  PROVE  Moved(n, Advance(n, i))
<1> DEFINE d == Delta(n, i)
           si == IF i.op \in FromSource THEN Word(n.r[SI] + d) ELSE n.r[SI]
           di == IF i.op \in ToTarget THEN Word(n.r[DI] + d) ELSE n.r[DI]
           k == SetReg(n, W, SI, si)
<1>1. d \in Int
  BY DEF Delta
<1>2. n.r[SI] \in Words /\ n.r[DI] \in Words
  BY MachineRegister, RegisterNames
<1>3. Advance(n, i) = SetReg(k, W, DI, di)
  <2> HIDE DEF d
  <2>1. Advance(n, i) = [n EXCEPT !.r[SI] = si, !.r[DI] = di]
    BY DEF Advance, SI, DI, d
  <2> HIDE DEF si, di
  <2> QED
    BY <2>1 DEF SetReg
<1> HIDE DEF d
<1>4. n.r[SI] + d \in Int /\ n.r[DI] + d \in Int
  BY <1>1, <1>2 DEF Words
<1>5. si \in Words /\ di \in Words
  BY <1>2, <1>4, WordRange
<1> HIDE DEF si, di
<1>6. Moved(n, k)
  BY <1>5, WordMoves, RegisterNames
<1> HIDE DEF k
<1>7. Moved(k, SetReg(k, W, DI, di))
  BY <1>5, <1>6, MovedMachine, WordMoves, RegisterNames
<1> QED
  BY <1>3, <1>6, <1>7, MovedOn

LEMMA StringStepMoves ==
  ASSUME NEW n, IsMachine(n), NEW i, IsInstruction(i)
  PROVE  Moved(n, StringStep(n, i))
<1> DEFINE k == CASE i.op = "MOVS" -> Save(n, i.sign, TargetAddress(n), Source(n, i))
             [] i.op = "STOS" -> Save(n, i.sign, TargetAddress(n), Reg(n, i.sign, AX))
             [] i.op = "INS" -> Save(n, i.sign, TargetAddress(n), Port(n.r[DX], i.sign))
             [] i.op = "LODS" -> SetReg(n, i.sign, AX, Source(n, i))
             [] OTHER -> n
<1>1. Width(i.sign)
  BY InstructionFields
<1>2. /\ Source(n, i) \in Operands(i.sign) /\ Reg(n, i.sign, AX) \in Operands(i.sign)
      /\ Port(n.r[DX], i.sign) \in Operands(i.sign)
  BY <1>1, LoadRange, RegRange, RegisterNames, MachineRegister, PortRange DEF Source
<1>3. \/ k = Save(n, i.sign, TargetAddress(n), Source(n, i))
      \/ k = Save(n, i.sign, TargetAddress(n), Reg(n, i.sign, AX))
      \/ k = Save(n, i.sign, TargetAddress(n), Port(n.r[DX], i.sign))
      \/ k = SetReg(n, i.sign, AX, Source(n, i))
      \/ k = n
  OBVIOUS
<1>4. StringStep(n, i) = Advance(k, i)
  BY DEF StringStep
<1> HIDE DEF k
<1>5. Moved(n, k)
  BY <1>1, <1>2, <1>3, SaveMoves, SetRegMoves, RegisterNames, MovedSelf
<1>6. Moved(k, Advance(k, i))
  BY <1>5, MovedMachine, AdvanceMoves
<1> QED
  BY <1>4, <1>5, <1>6, MovedOn

LEMMA ComparedNotes ==
  ASSUME NEW n, IsMachine(n), NEW i, IsInstruction(i), NEW fl, NEW lf
  PROVE  NotesOperation(fl, lf, Compared(n, i))
<1> DEFINE a == IF i.op = "CMPS" THEN Source(n, i) ELSE Reg(n, i.sign, AX)
           b == Load(n, i.sign, TargetAddress(n))
<1>1. Width(i.sign)
  BY InstructionFields
<1>2. a \in Operands(i.sign) /\ b \in Operands(i.sign)
  BY <1>1, LoadRange, RegRange, RegisterNames DEF Source
<1>3. Compared(n, i) = SUB("CMP", a, b, i.sign)
  BY DEF Compared
<1> HIDE DEF a, b
<1> QED
  BY <1>1, <1>2, <1>3, ComparisonNotes

\* How far a repetition is: until a comparison ends it, it only moves.
Repeated(n, i, k, run) ==
  /\ run.left \in Nat /\ run.left <= Times(n, i)
  /\ run.done \in BOOLEAN
  /\ run.done => Ran(n, run.m)
  /\ ~run.done => Moved(n, run.m) /\ run.left = Times(n, i) - k

LEMMA RepeatKeeps ==
  ASSUME NEW n, Ready(n), NEW i, IsInstruction(i), Times(n, i) \in Nat,
         NEW k \in 1 .. Times(n, i), NEW run, Repeated(n, i, k - 1, run)
  PROVE  Repeated(n, i, k, Repeat(run, i))
<1> DEFINE lf == Compared(run.m, i)
           ends == i.op \in {"SCAS", "CMPS"}
                     /\ (run.left = 1 \/ (lf.var1 = lf.var2) # (i.rep = "Z"))
           next == StringStep(run.m, i)
           after == IF ends THEN Note(next, lf) ELSE next
<1>1. CASE run.done
  BY <1>1 DEF Repeat, Repeated
<1>2. CASE ~run.done
  <2>1. Moved(n, run.m) /\ run.left = Times(n, i) - (k - 1)
    BY <1>2 DEF Repeated
  <2>2. Repeat(run, i) = [m |-> after, left |-> run.left - 1, done |-> ends]
    BY <1>2 DEF Repeat
  <2>3. Moved(run.m, next) /\ NotesOperation(next.fl, next.lf, lf)
    BY <2>1, MovedMachine, StringStepMoves, ComparedNotes
  <2>4. ends \in BOOLEAN
    OBVIOUS
  <2>5. run.left - 1 \in Nat /\ run.left - 1 <= Times(n, i) /\ run.left - 1 = Times(n, i) - k
    BY <2>1
  <2> HIDE DEF lf, ends, next
  <2>6. Moved(n, next)
    BY <2>1, <2>3, MovedOn
  <2>7. Ran(n, Note(next, lf))
    <3>1. Ready(next)
      BY <2>6, MovedReady
    <3>2. Ran(next, Note(next, lf))
      BY <2>3, <3>1, NoteRan
    <3> QED
      BY <2>6, <3>2, MovedThenRan
  <2>8. (ends => Ran(n, after)) /\ (~ends => Moved(n, after))
    BY <2>6, <2>7
  <2> HIDE DEF after
  <2> QED
    BY <2>2, <2>4, <2>5, <2>8 DEF Repeated
<1> QED
  BY <1>1, <1>2 DEF Repeated

Start(n, i) == [m |-> n, left |-> Times(n, i), done |-> FALSE]

\* The first rounds of a repetition, one after the other.
Rounds(rounds, n, i, length) ==
  /\ rounds[0] = Start(n, i)
  /\ \A k \in 1 .. length : rounds[k] = Repeat(rounds[k - 1], i)

LEMMA OneMoreRound ==
  ASSUME NEW n, NEW i, NEW length \in Nat, NEW rounds, Rounds(rounds, n, i, length)
  PROVE  \E longer : Rounds(longer, n, i, length + 1)
<1> DEFINE longer == [k \in 0 .. length + 1 |->
                        IF k = length + 1 THEN Repeat(rounds[length], i) ELSE rounds[k]]
<1>1. longer[0] = Start(n, i)
  BY DEF Rounds
<1>2. ASSUME NEW k \in 1 .. length + 1
      PROVE  longer[k] = Repeat(longer[k - 1], i)
  <2>1. k - 1 \in 0 .. length + 1 /\ k - 1 # length + 1 /\ k \in 0 .. length + 1
    OBVIOUS
  <2>2. longer[k - 1] = rounds[k - 1]
    BY <2>1
  <2>3. CASE k = length + 1
    <3>1. longer[k] = Repeat(rounds[length], i) /\ k - 1 = length
      BY <2>1, <2>3
    <3> QED
      BY <2>2, <3>1
  <2>4. CASE k # length + 1
    <3>1. longer[k] = rounds[k] /\ k \in 1 .. length
      BY <2>1, <2>4
    <3> QED
      BY <2>2, <3>1 DEF Rounds
  <2> QED
    BY <2>3, <2>4
<1> HIDE DEF longer
<1> QED
  BY <1>1, <1>2 DEF Rounds

LEMMA RoundsExist ==
  ASSUME NEW n, NEW i, NEW length \in Nat
  PROVE  \E rounds : Rounds(rounds, n, i, length)
<1> DEFINE without == {k \in Nat : ~\E rounds : Rounds(rounds, n, i, k)}
<1>1. CASE without # {}
  <2>1. PICK k \in without : \A j \in without : k <= j
    <3>1. without \in SUBSET Nat
      OBVIOUS
    <3> HIDE DEF without
    <3> QED
      BY <1>1, <3>1, LeastOfNaturals
  <2>2. k # 0
    <3>1. Rounds([j \in {0} |-> Start(n, i)], n, i, 0)
      BY DEF Rounds
    <3> QED
      BY <2>1, <3>1
  <2>3. k - 1 \in Nat /\ k - 1 \notin without /\ (k - 1) + 1 = k
    BY <2>1, <2>2
  <2>4. PICK rounds : Rounds(rounds, n, i, k - 1)
    BY <2>3
  <2>5. \E longer : Rounds(longer, n, i, (k - 1) + 1)
    BY <2>3, <2>4, OneMoreRound
  <2> QED
    BY <2>1, <2>3, <2>5
<1>2. CASE without = {}
  BY <1>2
<1> QED
  BY <1>1, <1>2

LEMMA RoundsKeep ==
  ASSUME NEW n, Ready(n), NEW i, IsInstruction(i), Times(n, i) \in Nat,
         NEW rounds, Rounds(rounds, n, i, Times(n, i))
  PROVE  Repeated(n, i, Times(n, i), rounds[Times(n, i)])
<1> DEFINE length == Times(n, i)
           wrong == {k \in 0 .. length : ~Repeated(n, i, k, rounds[k])}
<1> HIDE DEF length
<1>0. length \in Nat
  BY DEF length
<1>1. CASE wrong # {}
  <2>1. PICK k \in wrong : \A j \in wrong : k <= j
    <3>1. wrong \in SUBSET Nat
      BY <1>0
    <3> HIDE DEF wrong
    <3> QED
      BY <1>1, <3>1, LeastOfNaturals
  <2>2. k # 0
    <3>1. Repeated(n, i, 0, Start(n, i))
      BY MovedSelf DEF Repeated, Start, Ready
    <3> QED
      BY <2>1, <3>1 DEF Rounds
  <2>3. k \in 1 .. length /\ k - 1 \in 0 .. length /\ k - 1 \notin wrong
    BY <1>0, <2>1, <2>2
  <2>4. Repeated(n, i, k - 1, rounds[k - 1]) /\ rounds[k] = Repeat(rounds[k - 1], i)
    BY <2>3 DEF Rounds, length
  <2>5. Repeated(n, i, k, rounds[k])
    BY <2>3, <2>4, RepeatKeeps DEF length
  <2> QED
    BY <2>1, <2>5
<1>2. CASE wrong = {}
  <2>1. length \in 0 .. length
    BY <1>0
  <2> QED
    BY <1>2, <2>1 DEF length
<1> QED
  BY <1>1, <1>2

LEMMA DoStringRan ==
  ASSUME NEW n, Ready(n), NEW i, IsInstruction(i)
  PROVE  Ran(n, DoString(n, i))
<1> DEFINE length == Times(n, i)
           IsRun(f) == f = [k \in 0 .. length |->
                              IF k = 0 THEN [m |-> n, left |-> length, done |-> FALSE]
                              ELSE Repeat(f[k - 1], i)]
           run == CHOOSE f : IsRun(f)
           end == run[length]
<1>1. length \in Nat /\ length \in Words
  <2>1. n.r[CX] \in Words
    BY MachineRegister, RegisterNames DEF Ready
  <2>2. length = 1 \/ length = n.r[CX]
    BY DEF Times
  <2> QED
    BY <2>1, <2>2 DEF Words
<1>2. DoString(n, i) = IF i.rep = "" THEN end.m ELSE SetReg(end.m, W, CX, end.left)
  BY DEF DoString
<1> HIDE DEF length
<1>3. PICK rounds : Rounds(rounds, n, i, length)
  BY <1>1, RoundsExist
<1>4. IsRun([k \in 0 .. length |-> rounds[k]])
  <2> DEFINE cut == [k \in 0 .. length |-> rounds[k]]
             next == [k \in 0 .. length |->
                        IF k = 0 THEN [m |-> n, left |-> length, done |-> FALSE]
                        ELSE Repeat(cut[k - 1], i)]
  <2>1. ASSUME NEW k \in 0 .. length
        PROVE  cut[k] = next[k]
    <3>1. CASE k = 0
      BY <1>3, <3>1 DEF Rounds, Start, length
    <3>2. CASE k # 0
      <4>1. k \in 1 .. length /\ k - 1 \in 0 .. length
        BY <1>1, <3>2
      <4>2. rounds[k] = Repeat(rounds[k - 1], i)
        BY <1>3, <4>1 DEF Rounds
      <4>3. cut[k] = rounds[k] /\ cut[k - 1] = rounds[k - 1] /\ next[k] = Repeat(cut[k - 1], i)
        BY <3>2, <4>1
      <4> QED
        BY <4>2, <4>3
    <3> QED
      BY <3>1, <3>2
  <2> QED
    BY <2>1
<1>5. IsRun(run)
  <2>1. \E f : IsRun(f)
    BY <1>4
  <2> HIDE DEF IsRun
  <2> QED
    BY <2>1
<1>6. Rounds(run, n, i, length)
  <2> HIDE DEF run
  <2>1. run[0] = Start(n, i)
    BY <1>1, <1>5 DEF Start, length
  <2>2. ASSUME NEW k \in 1 .. length
        PROVE  run[k] = Repeat(run[k - 1], i)
    <3>1. k \in 0 .. length /\ k # 0
      BY <1>1
    <3> QED
      BY <1>5, <3>1
  <2> QED
    BY <2>1, <2>2 DEF Rounds
<1> HIDE DEF run
<1>7. Repeated(n, i, length, end)
  BY <1>1, <1>6, RoundsKeep DEF length
<1> HIDE DEF end
<1>8. Ran(n, end.m)
  BY <1>7, MovedRan DEF Repeated
<1>9. end.left \in Words
  <2>1. end.left \in Nat /\ end.left <= length
    BY <1>7 DEF Repeated, length
  <2> QED
    BY <1>1, <2>1 DEF Words
<1>10. Moved(end.m, SetReg(end.m, W, CX, end.left))
  BY <1>8, <1>9, RanReady, WordMoves, RegisterNames
<1> QED
  BY <1>2, <1>8, <1>10, RanMoved

-----------------------------------------------------------------------------
(* One instruction that computes or moves data.                            *)

\* It keeps the flags, unless it is one of those that load them anew.
Executed(n, i, k) == Ran(n, k) \/ (i.op \in LoadsFlagsAnew /\ Loaded(n, k))

LEMMA RanExecuted ==
  ASSUME NEW n, NEW i, NEW k, Ran(n, k)
  PROVE  Executed(n, i, k)
  BY DEF Executed

LEMMA FormsByOp ==
  ASSUME NEW i, IsInstruction(i)
  PROVE  /\ i.op \in Ariths => i.form \in {"EG", "GE", "AI", "EI"}
         /\ i.op = "TEST" => i.form \in {"EG", "AI", "EI"}
         /\ i.op \in {"INC", "DEC"} => i.form \in {"R", "E"}
         /\ i.op \in {"NOT", "NEG", "MUL", "DIV", "IDIV"} => i.form \in {"E"}
         /\ i.op = "IMUL" => i.form \in {"E", "GE", "GEI"}
         /\ i.op \in ShiftOps => i.form \in {"E1", "EI", "EC"}
         /\ i.op \in {"SHLD", "SHRD"} => i.form \in {"EGI", "EGC"}
         /\ i.op = "MOV" => i.form \in {"EG", "GE", "RI", "EI", "AO", "OA", "ES", "SE"}
         /\ i.op = "LEA" => i.form \in {"GE"}
         /\ i.op = "XCHG" => i.form \in {"EG", "R"}
         /\ i.op \in BitOps => i.form \in {"EG", "EI"}
<1> DEFINE op == i.op
<1>0. i.form \in FormsOf(op)
  BY DEF IsInstruction
<1> HIDE DEF op
<1>1. op \in Ariths => FormsOf(op) = {"EG", "GE", "AI", "EI"}
  BY DEF FormsOf, Ariths, ShiftOps, BitOps
<1>2. op = "TEST" => FormsOf(op) = {"EG", "AI", "EI"}
  BY DEF FormsOf, Ariths, ShiftOps, BitOps
<1>3. op \in {"INC", "DEC"} => FormsOf(op) = {"R", "E"}
  BY DEF FormsOf, Ariths, ShiftOps, BitOps
<1>4. op \in {"NOT", "NEG", "MUL", "DIV", "IDIV"} => FormsOf(op) = {"E"}
  BY DEF FormsOf, Ariths, ShiftOps, BitOps
<1>5. op = "IMUL" => FormsOf(op) = {"E", "GE", "GEI"}
  BY DEF FormsOf, Ariths, ShiftOps, BitOps
<1>6. op \in ShiftOps => FormsOf(op) = {"E1", "EI", "EC"}
  BY DEF FormsOf, Ariths, ShiftOps, BitOps
<1>7. op \in {"SHLD", "SHRD"} => FormsOf(op) = {"EGI", "EGC"}
  BY DEF FormsOf, Ariths, ShiftOps, BitOps
<1>8. op = "MOV" => FormsOf(op) = {"EG", "GE", "RI", "EI", "AO", "OA", "ES", "SE"}
  BY DEF FormsOf, Ariths, ShiftOps, BitOps
<1>9. op = "LEA" => FormsOf(op) = {"GE"}
  BY DEF FormsOf, Ariths, ShiftOps, BitOps
<1>10. op = "XCHG" => FormsOf(op) = {"EG", "R"}
  BY DEF FormsOf, Ariths, ShiftOps, BitOps
<1>11. op \in BitOps => FormsOf(op) = {"EG", "EI"}
  BY DEF FormsOf, Ariths, ShiftOps, BitOps
<1>12. /\ op \in Ariths => i.form \in {"EG", "GE", "AI", "EI"}
       /\ op = "TEST" => i.form \in {"EG", "AI", "EI"}
       /\ op \in {"INC", "DEC"} => i.form \in {"R", "E"}
       /\ op \in {"NOT", "NEG", "MUL", "DIV", "IDIV"} => i.form \in {"E"}
       /\ op = "IMUL" => i.form \in {"E", "GE", "GEI"}
       /\ op \in ShiftOps => i.form \in {"E1", "EI", "EC"}
  BY <1>0, <1>1, <1>2, <1>3, <1>4, <1>5, <1>6
<1>13. /\ op \in {"SHLD", "SHRD"} => i.form \in {"EGI", "EGC"}
       /\ op = "MOV" => i.form \in {"EG", "GE", "RI", "EI", "AO", "OA", "ES", "SE"}
       /\ op = "LEA" => i.form \in {"GE"}
       /\ op = "XCHG" => i.form \in {"EG", "R"}
       /\ op \in BitOps => i.form \in {"EG", "EI"}
  BY <1>0, <1>7, <1>8, <1>9, <1>10, <1>11
<1> QED
  BY <1>12, <1>13 DEF op

ArithmeticGuards(i) ==
  \/ ArithmeticRows(i) \/ Group1(i) \/ Tests(i)
  \/ Steps(i) \/ Group45Steps(i)
  \/ Group3(i) /\ i.op \in {"NOT", "NEG"}
  \/ Group3(i) /\ i.op = "MUL"
  \/ Group3(i) /\ i.op = "IMUL"
  \/ Group3(i) /\ i.op = "DIV"
  \/ Group3(i) /\ i.op = "IDIV"
  \/ Group2(i) \/ DoubleShiftOps(i) \/ MultiplyInto(i) \/ Decimal(i)

OtherGuards(i) ==
  \/ Moves(i) \/ MovesImmediate(i) \/ MovesImmediateE(i) \/ MovesOffset(i)
  \/ MovesSegment(i) \/ Lea(i) \/ Exchanges(i) \/ ExchangesAX(i) \/ LoadsFar(i)
  \/ Widens(i) \/ Extends(i) \/ Translates(i) \/ Swaps(i) \/ Sets(i)
  \/ ComparesAndExchanges(i) \/ ExchangesAndAdds(i) \/ TestsBit(i) \/ Group8(i)
  \/ Scans(i) \/ String(i)

\* The switch has a case for each of them.
LEMMA DataDecoded ==
  ASSUME NEW i, IsInstruction(i), i.op \in DataOps
  PROVE  ArithmeticGuards(i) \/ OtherGuards(i)
<1>1. CASE i.op \in Ariths \cup {"TEST", "INC", "DEC"}
  <2>1. \/ ArithmeticRows(i) \/ Group1(i) \/ Tests(i) \/ Steps(i) \/ Group45Steps(i)
    BY <1>1, FormsByOp DEF ArithmeticRows, Group1, Tests, Steps, Group45Steps
  <2> QED
    BY <2>1 DEF ArithmeticGuards
<1>2. CASE i.op \in {"NOT", "NEG", "MUL", "DIV", "IDIV", "IMUL"}
  <2>1. Group3(i) \/ MultiplyInto(i)
    BY <1>2, FormsByOp DEF Group3, MultiplyInto
  <2> QED
    BY <1>2, <2>1 DEF ArithmeticGuards
<1>3. CASE i.op \in ShiftOps \cup {"SHLD", "SHRD"} \cup Decimals
  <2>1. Group2(i) \/ DoubleShiftOps(i) \/ Decimal(i)
    BY <1>3, FormsByOp DEF Group2, DoubleShiftOps, Decimal
  <2> QED
    BY <2>1 DEF ArithmeticGuards
<1>4. CASE i.op = "MOV"
  <2>1. Moves(i) \/ MovesImmediate(i) \/ MovesImmediateE(i) \/ MovesOffset(i) \/ MovesSegment(i)
    BY <1>4, FormsByOp DEF Moves, MovesImmediate, MovesImmediateE, MovesOffset, MovesSegment
  <2> QED
    BY <2>1 DEF OtherGuards
<1>5. CASE i.op \in {"LEA", "XCHG"} \cup BitOps
  <2>1. Lea(i) \/ Exchanges(i) \/ ExchangesAX(i) \/ TestsBit(i) \/ Group8(i)
    BY <1>5, FormsByOp DEF Lea, Exchanges, ExchangesAX, TestsBit, Group8
  <2> QED
    BY <2>1 DEF OtherGuards
<1>6. CASE i.op \in Strings \cup DOMAIN FarPointers
  <2>1. String(i) \/ LoadsFar(i)
    BY <1>6 DEF String, LoadsFar
  <2> QED
    BY <2>1 DEF OtherGuards
<1>7. CASE i.op \in {"CBW", "CWD", "MOVZX", "MOVSX", "XLAT", "SALC", "BSWAP", "SETcc",
                     "CMPXCHG", "XADD", "BSF", "BSR"}
  <2>1. \/ Widens(i) \/ Extends(i) \/ Translates(i) \/ Swaps(i) \/ Sets(i)
        \/ ComparesAndExchanges(i) \/ ExchangesAndAdds(i) \/ Scans(i)
    BY <1>7 DEF Widens, Extends, Translates, Swaps, Sets, ComparesAndExchanges,
         ExchangesAndAdds, Scans
  <2> QED
    BY <2>1 DEF OtherGuards
<1> QED
  BY <1>1, <1>2, <1>3, <1>4, <1>5, <1>6, <1>7 DEF DataOps

LEMMA ExecuteDataExecuted ==
  ASSUME NEW n, Ready(n), NEW i, IsInstruction(i), i.op \in DataOps
  PROVE  Executed(n, i, ExecuteData(n, i))
<1>1. ArithmeticRows(i) \/ Group1(i) \/ Tests(i) => Executed(n, i, Arithmetic(n, i))
  BY ArithmeticRan, RanExecuted
<1>2. Steps(i) \/ Group45Steps(i) => Executed(n, i, IncDec(n, i))
  BY IncDecRan, RanExecuted
<1>3. /\ Group3(i) => Executed(n, i, Negation(n, i))
      /\ Group3(i) => Executed(n, i, Multiply(n, i))
      /\ Group3(i) => Executed(n, i, SignedMultiply(n, i))
      /\ Group3(i) => Executed(n, i, Divide(n, i))
      /\ Group3(i) => Executed(n, i, SignedDivide(n, i))
  BY NegationRan, MultiplyRan, SignedMultiplyRan, DivideRan, SignedDivideRan, RanExecuted
<1>4. /\ Group2(i) => Executed(n, i, Shift(n, i))
      /\ DoubleShiftOps(i) => Executed(n, i, DoubleShift(n, i))
      /\ MultiplyInto(i) => Executed(n, i, SignedMultiplyInto(n, i))
  BY ShiftRan, DoubleShiftRan, SignedMultiplyIntoRan, RanExecuted
<1>5. Decimal(i) => Executed(n, i, DecimalAdjust(n, i))
  BY DecimalDone DEF Executed, Done, Decimal, LoadsFlagsAnew
<1>6. Moves(i) \/ MovesImmediate(i) \/ MovesImmediateE(i) \/ MovesOffset(i)
        => Executed(n, i, Move(n, i))
  BY MoveRan, RanExecuted
<1>7. /\ MovesSegment(i) => Executed(n, i, MoveSegment(n, i))
      /\ Lea(i) => Executed(n, i, LoadAddress(n, i))
      /\ Exchanges(i) => Executed(n, i, Exchange(n, i))
      /\ ExchangesAX(i) => Executed(n, i, ExchangeAX(n, i))
      /\ LoadsFar(i) => Executed(n, i, LoadFar(n, i))
  BY MoveSegmentRan, LoadAddressRan, ExchangeRan, ExchangeAXRan, LoadFarRan, RanExecuted
<1>8. /\ Widens(i) => Executed(n, i, Widen(n, i))
      /\ Extends(i) => Executed(n, i, Extend(n, i))
      /\ Translates(i) => Executed(n, i, Translate(n, i))
      /\ Swaps(i) => Executed(n, i, Swap(n, i))
      /\ Sets(i) => Executed(n, i, SetByte(n, i))
  BY WidenRan, ExtendRan, TranslateRan, SwapRan, SetByteRan, RanExecuted
<1>9. /\ ComparesAndExchanges(i) => Executed(n, i, CompareExchange(n, i))
      /\ ExchangesAndAdds(i) => Executed(n, i, ExchangeAdd(n, i))
      /\ TestsBit(i) => Executed(n, i, TestBit(n, i))
      /\ Group8(i) => Executed(n, i, TestBitImmediate(n, i))
      /\ String(i) => Executed(n, i, DoString(n, i))
  BY CompareExchangeRan, ExchangeAddRan, TestBitRan, TestBitImmediateRan, DoStringRan, RanExecuted
<1>10. Scans(i) => Executed(n, i, Scan(n, i))
  BY ScanLoads DEF Executed, Scans, LoadsFlagsAnew
<1>11. ArithmeticGuards(i) \/ OtherGuards(i)
  BY DataDecoded
<1> QED
  BY <1>1, <1>2, <1>3, <1>4, <1>5, <1>6, <1>7, <1>8, <1>9, <1>10, <1>11
  DEF ExecuteData, ArithmeticGuards, OtherGuards

-----------------------------------------------------------------------------
(* The stack.                                                              *)

LEMMA PushOn ==
  ASSUME NEW n, NEW k, Moved(n, k), NEW v \in Int
  PROVE  Moved(n, Push16(k, v))
  BY MovedMachine, PushMoves, MovedOn

LEMMA PopOn ==
  ASSUME NEW n, NEW k, Moved(n, k)
  PROVE  Moved(n, Pop16(k)) /\ \A x \in 0 .. 7 : Moved(n, PopInto(k, x))
  BY MovedMachine, PopMoves, PopIntoMoves, MovedOn

LEMMA WordIsInt ==
  ASSUME NEW x \in Words
  PROVE  x \in Int
  BY DEF Words

LEMMA PushRegisterRan ==
  ASSUME NEW n, Ready(n), NEW i, IsInstruction(i), PushesRegister(i)
  PROVE  Ran(n, PushRegister(n, i))
<1>1. IsMachine(n) /\ i.rm \in 0 .. 7
  BY NamedRegister DEF Ready, PushesRegister
<1>2. Moved(n, Push16(n, n.r[i.rm])) /\ Moved(n, PopInto(n, i.rm))
  BY <1>1, MachineRegister, WordIsInt, PushMoves, PopIntoMoves
<1> QED
  BY <1>2, MovedRan DEF PushRegister

LEMMA PushSegmentRan ==
  ASSUME NEW n, Ready(n), NEW i, IsInstruction(i), PushesSegment(i)
  PROVE  Ran(n, PushSegment(n, i))
<1> DEFINE k == Pop16(n)
           j == SetSegment(k, i.seg, Top16(n))
<1>1. IsMachine(n) /\ i.seg \in Names
  <2>1. i.seg \in {Segments[x] : x \in 1 .. 6}
    BY DEF PushesSegment, IsInstruction
  <2>2. PICK x \in 1 .. 6 : i.seg = Segments[x]
    BY <2>1
  <2>3. x - 1 \in 0 .. 5 /\ (x - 1) + 1 = x
    OBVIOUS
  <2> QED
    BY <2>2, <2>3, SegmentNames DEF Ready
<1>2. Moved(n, Push16(n, n.s[i.seg]))
  BY <1>1, MachineSegment, WordIsInt, PushMoves
<1>3. Moved(n, k) /\ Top16(n) \in Words
  BY <1>1, PopMoves
<1> HIDE DEF k
<1>4. Moved(k, j)
  BY <1>3, MovedMachine, SetSegmentMoves
<1>5. \/ PushSegment(n, i) = Push16(n, n.s[i.seg])
      \/ PushSegment(n, i) = j \/ PushSegment(n, i) = Shadow(j)
  BY DEF PushSegment, k
<1> HIDE DEF j
<1>6. Ran(n, j) /\ Ran(n, Shadow(j))
  BY <1>3, <1>4, MovedOn, MovedRan, Left
<1> QED
  BY <1>2, <1>5, <1>6, MovedRan

LEMMA PushImmediateRan ==
  ASSUME NEW n, Ready(n), NEW i, IsInstruction(i)
  PROVE  Ran(n, PushImmediate(n, i))
  BY InstructionFields, WordIsInt, PushMoves, MovedRan DEF PushImmediate, Ready

LEMMA PopERan ==
  ASSUME NEW n, Ready(n), NEW i, IsInstruction(i)
  PROVE  Ran(n, PopE(n, i))
<1>1. Moved(n, Pop16(n)) /\ Top16(n) \in Words
  BY PopMoves DEF Ready
<1>2. Moved(Pop16(n), SetE(Pop16(n), i, W, Top16(n)))
  BY <1>1, MovedMachine, SetEMoves, WordOperands
<1> QED
  BY <1>1, <1>2, MovedOn, MovedRan DEF PopE

LEMMA PushAllRan ==
  ASSUME NEW n, Ready(n)
  PROVE  Ran(n, PushAll(n))
<1> DEFINE k1 == Push16(n, n.r[AX])
           k2 == Push16(k1, n.r[CX])
           k3 == Push16(k2, n.r[DX])
           k4 == Push16(k3, n.r[BX])
           k5 == Push16(k4, n.r[SP])
           k6 == Push16(k5, n.r[BP])
           k7 == Push16(k6, n.r[SI])
           k8 == Push16(k7, n.r[DI])
<1>1. \A x \in 0 .. 7 : n.r[x] \in Int
  BY MachineRegister, WordIsInt DEF Ready
<1>2. /\ n.r[AX] \in Int /\ n.r[CX] \in Int /\ n.r[DX] \in Int /\ n.r[BX] \in Int
      /\ n.r[SP] \in Int /\ n.r[BP] \in Int /\ n.r[SI] \in Int /\ n.r[DI] \in Int
  BY <1>1, RegisterNames
<1>3. PushAll(n) = k8
  BY DEF PushAll
<1>4. Moved(n, k1)
  BY <1>2, PushMoves DEF Ready
<1> HIDE DEF k1
<1>5. Moved(n, k2)
  BY <1>2, <1>4, PushOn
<1> HIDE DEF k2
<1>6. Moved(n, k3)
  BY <1>2, <1>5, PushOn
<1> HIDE DEF k3
<1>7. Moved(n, k4)
  BY <1>2, <1>6, PushOn
<1> HIDE DEF k4
<1>8. Moved(n, k5)
  BY <1>2, <1>7, PushOn
<1> HIDE DEF k5
<1>9. Moved(n, k6)
  BY <1>2, <1>8, PushOn
<1> HIDE DEF k6
<1>10. Moved(n, k7)
  BY <1>2, <1>9, PushOn
<1> HIDE DEF k7
<1>11. Moved(n, k8)
  BY <1>2, <1>10, PushOn
<1> QED
  BY <1>3, <1>11, MovedRan

LEMMA PopAllRan ==
  ASSUME NEW n, Ready(n)
  PROVE  Ran(n, PopAll(n))
<1> DEFINE k1 == PopInto(n, DI)
           k2 == PopInto(k1, SI)
           k3 == PopInto(k2, BP)
           k4 == Pop16(k3)
           k5 == PopInto(k4, BX)
           k6 == PopInto(k5, DX)
           k7 == PopInto(k6, CX)
           k8 == PopInto(k7, AX)
<1>1. PopAll(n) = k8
  BY DEF PopAll
<1>2. Moved(n, k1)
  BY PopIntoMoves, RegisterNames DEF Ready
<1> HIDE DEF k1
<1>3. Moved(n, k2)
  BY <1>2, PopOn, RegisterNames
<1> HIDE DEF k2
<1>4. Moved(n, k3)
  BY <1>3, PopOn, RegisterNames
<1> HIDE DEF k3
<1>5. Moved(n, k4)
  BY <1>4, PopOn
<1> HIDE DEF k4
<1>6. Moved(n, k5)
  BY <1>5, PopOn, RegisterNames
<1> HIDE DEF k5
<1>7. Moved(n, k6)
  BY <1>6, PopOn, RegisterNames
<1> HIDE DEF k6
<1>8. Moved(n, k7)
  BY <1>7, PopOn, RegisterNames
<1> HIDE DEF k7
<1>9. Moved(n, k8)
  BY <1>8, PopOn, RegisterNames
<1> QED
  BY <1>1, <1>9, MovedRan

LEMMA PushFlagsRan ==
  ASSUME NEW n, Ready(n)
  PROVE  Ran(n, PushFlags(n))
<1> DEFINE k == Push16(n, FlagsWord(n))
<1>1. Moved(n, k)
  BY FlagsWordRange, WordIsInt, PushMoves DEF Ready
<1>2. PushFlags(n) = Fill(k)
  BY DEF PushFlags
<1> HIDE DEF k
<1>3. Ran(k, Fill(k))
  BY <1>1, MovedReady, FillRan
<1> QED
  BY <1>1, <1>2, <1>3, MovedThenRan

LEMMA PopFlagsLoads ==
  ASSUME NEW n, Ready(n)
  PROVE  Loaded(n, PopFlags(n))
<1> DEFINE k == Pop16(n)
           j == SetFlagsWord(k, Top16(n))
<1>1. Moved(n, k)
  BY PopMoves DEF Ready
<1>2. PopFlags(n) = End(Trap(j)) \/ PopFlags(n) = End(j) \/ PopFlags(n) = j
  BY DEF PopFlags
<1> HIDE DEF k
<1>3. Loaded(k, j)
  BY <1>1, MovedReady, FlagsWordLoaded
<1> HIDE DEF j
<1>4. Loaded(n, j)
  BY <1>1, <1>3, MovedThenRan
<1>5. Loaded(n, Trap(j))
  BY <1>4, RanReady, TrapMoves, RanMoved
<1> QED
  BY <1>2, <1>4, <1>5, Left

LEMMA LoadFlagsRan ==
  ASSUME NEW n, Ready(n), NEW i
  PROVE  Ran(n, LoadFlags(n, i))
<1> DEFINE k == Fill(n)
           v == FlagsWord(k) % 256
<1>1. LoadFlags(n, i) = Fatal(n) \/ LoadFlags(n, i) = SetReg(k, B, 4, v)
  BY DEF LoadFlags
<1>2. Ran(n, k)
  BY FillRan
<1> HIDE DEF k
<1>3. v \in Bytes
  BY FlagsWordRange, WordIsInt, ByteOf
<1> HIDE DEF v
<1>4. Moved(k, SetReg(k, B, 4, v))
  BY <1>2, <1>3, RanReady, ByteMoves
<1> QED
  BY <1>1, <1>2, <1>4, RanMoved, FatalRan

LEMMA LeaveFrameRan ==
  ASSUME NEW n, Ready(n), NEW i
  PROVE  Ran(n, LeaveFrame(n, i))
<1> DEFINE k == SetReg(n, W, SP, n.r[BP])
<1>1. LeaveFrame(n, i) = Fatal(n) \/ LeaveFrame(n, i) = PopInto(k, BP)
  BY DEF LeaveFrame
<1>2. Moved(n, k)
  BY MachineRegister, WordMoves, RegisterNames DEF Ready
<1> HIDE DEF k
<1>3. Moved(n, PopInto(k, BP))
  BY <1>2, PopOn, RegisterNames
<1> QED
  BY <1>1, <1>3, MovedRan, FatalRan

LEMMA CheckBoundRan ==
  ASSUME NEW n, Ready(n), NEW i
  PROVE  Ran(n, CheckBound(n, i))
<1>1. CheckBound(n, i) = Fatal(n) \/ CheckBound(n, i) = n
  BY DEF CheckBound
<1> QED
  BY <1>1, FatalRan, SelfRan

-----------------------------------------------------------------------------
(* Ports.                                                                  *)

LEMMA InputRan ==
  ASSUME NEW n, Ready(n), NEW i, IsInstruction(i)
  PROVE  Ran(n, Input(n, i))
<1> DEFINE port == IF i.form = "I" THEN i.imm ELSE n.r[DX]
<1>1. port \in Words
  BY InstructionFields, MachineRegister, RegisterNames DEF Ready
<1>2. Input(n, i) = SetReg(n, W, AX, PortWord(port)) \/ Input(n, i) = SetReg(n, B, 0, In(port))
  BY DEF Input
<1> HIDE DEF port
<1>3. In(port) \in Bytes /\ PortWord(port) \in Words
  BY <1>1, PortRange, ByteOperands
<1>4. Moved(n, SetReg(n, W, AX, PortWord(port))) /\ Moved(n, SetReg(n, B, 0, In(port)))
  BY <1>3, WordMoves, ByteMoves, RegisterNames DEF Ready
<1> QED
  BY <1>2, <1>4, MovedRan

LEMMA OutputRan ==
  ASSUME NEW n, Ready(n), NEW i
  PROVE  Ran(n, Output(n, i))
<1> DEFINE pic == EndOfInterrupt(n.pic)
           k == [n EXCEPT !.pic = pic]
<1>1. Output(n, i) = k \/ Output(n, i) = n
  BY DEF Output
<1>2. n.pic = [asked |-> n.pic.asked, serving |-> n.pic.serving]
  BY DEF Ready, IsMachine
<1>3. \E s : s \subseteq n.pic.serving /\ pic = [n.pic EXCEPT !.serving = s]
  BY <1>2 DEF EndOfInterrupt
<1>4. pic = [asked |-> pic.asked, serving |-> pic.serving] /\ Served(n.pic, pic)
  BY <1>2, <1>3 DEF Served
<1> HIDE DEF pic
<1>5. Sound(n, k) /\ k.fl = n.fl /\ k.lf = n.lf
  BY <1>4 DEF Sound, Ready, IsMachine, IsRecord
<1>6. Ran(n, k)
  BY <1>5 DEF Ran, FlagsKept
<1> QED
  BY <1>1, <1>6, SelfRan

-----------------------------------------------------------------------------
(* Transfers of control.                                                   *)

LEMMA JumpIfMoves ==
  ASSUME NEW n, IsMachine(n), NEW i, IsInstruction(i), NEW taken
  PROVE  Moved(n, JumpIf(n, i, taken))
<1>1. n.ip + i.disp \in Int
  BY InstructionFields DEF IsMachine, Words
<1> QED
  BY <1>1, JumpMoves, MovedSelf DEF JumpIf

LEMMA ConditionalJumpRan ==
  ASSUME NEW n, Ready(n), NEW i, IsInstruction(i)
  PROVE  Ran(n, ConditionalJump(n, i))
  BY JumpIfMoves, MovedRan DEF ConditionalJump, Ready

LEMMA LoopRan ==
  ASSUME NEW n, Ready(n), NEW i, IsInstruction(i), Loops(i)
  PROVE  Ran(n, Loop(n, i))
<1> DEFINE cx == Word(n.r[CX] - 1)
           zf == GetZF(n.fl, n.lf)
           k == SetReg(n, W, CX, cx)
           last == n.r[CX] = 0
<1>1. \/ \E taken : Loop(n, i) = JumpIf(k, i, taken)
      \/ Loop(n, i) = JumpIf(n, i, last)
  <2>1. /\ i.op = "LOOPNZ" => Loop(n, i) = JumpIf(k, i, cx # 0 /\ ~zf)
        /\ i.op = "LOOPZ" => Loop(n, i) = JumpIf(k, i, cx # 0 /\ zf)
        /\ i.op = "LOOP" => Loop(n, i) = JumpIf(k, i, cx # 0)
        /\ i.op = "JCXZ" => Loop(n, i) = JumpIf(n, i, last)
    BY DEF Loop
  <2> HIDE DEF cx, zf, k, last
  <2> QED
    BY <2>1 DEF Loops
<1>2. cx \in Words
  BY MachineRegister, RegisterNames, WordRange DEF Ready, Words
<1>3. Moved(n, k)
  BY <1>2, WordMoves, RegisterNames DEF Ready
<1> HIDE DEF cx, k, last
<1>4. \A taken : Moved(n, JumpIf(k, i, taken))
  BY <1>3, MovedMachine, JumpIfMoves, MovedOn
<1>5. Moved(n, JumpIf(n, i, last))
  BY JumpIfMoves DEF Ready
<1> QED
  BY <1>1, <1>4, <1>5, MovedRan

\* A call's return address goes to the stack.
LEMMA CalledMoves ==
  ASSUME NEW n, IsMachine(n), NEW i, NEW ip \in Int
  PROVE  Moved(n, Jump(IF i.op = "CALL" THEN Push16(n, n.ip) ELSE n, ip))
<1> DEFINE k == IF i.op = "CALL" THEN Push16(n, n.ip) ELSE n
<1>1. Moved(n, k)
  BY PushMoves, MovedSelf DEF IsMachine
<1> HIDE DEF k
<1>2. Moved(k, Jump(k, ip))
  BY <1>1, MovedMachine, JumpMoves
<1>3. Moved(n, Jump(k, ip))
  BY <1>1, <1>2, MovedOn
<1> QED
  BY <1>3 DEF k

LEMMA JumpRelativeRan ==
  ASSUME NEW n, Ready(n), NEW i, IsInstruction(i)
  PROVE  Ran(n, JumpRelative(n, i))
<1>1. n.ip + i.disp \in Int
  BY InstructionFields DEF Ready, IsMachine, Words
<1> QED
  BY <1>1, CalledMoves, MovedRan DEF JumpRelative, Ready

LEMMA FarTransferRan ==
  ASSUME NEW n, Ready(n), NEW i, NEW cs \in Words, NEW ip \in Words
  PROVE  Ran(n, FarTransfer(n, i, cs, ip))
<1> DEFINE full == Fill(n)
           k == Push16(full, n.s["cs"])
           j == Push16(k, n.ip)
           l == IF i.op = "CALL" THEN j ELSE full
           x == JumpFar(l, cs, ip)
<1>1. FarTransfer(n, i, cs, ip) = Leave(Trap(x)) \/ FarTransfer(n, i, cs, ip) = x
  BY DEF FarTransfer
<1>2. Ran(n, full) /\ IsMachine(full)
  BY FillRan, RanReady
<1>3. n.s["cs"] \in Int /\ n.ip \in Int
  <2>1. n.s["cs"] \in Words
    BY MachineSegment DEF Ready, Names
  <2> QED
    BY <2>1, WordIsInt DEF Ready, IsMachine
<1> HIDE DEF full
<1>4. Moved(full, k)
  BY <1>2, <1>3, PushMoves
<1> HIDE DEF k
<1>5. Moved(full, j)
  BY <1>3, <1>4, PushOn
<1>6. Moved(full, l)
  BY <1>2, <1>5, MovedSelf
<1> HIDE DEF j, l
<1>7. Moved(full, x)
  BY <1>6, MovedMachine, JumpFarMoves, MovedOn
<1> HIDE DEF x
<1>8. Ran(n, x)
  BY <1>2, <1>7, RanMoved
<1>9. Ran(n, Trap(x))
  BY <1>8, RanReady, TrapMoves, RanMoved
<1> QED
  BY <1>1, <1>8, <1>9, Left

LEMMA FarDirectRan ==
  ASSUME NEW n, Ready(n), NEW i, IsInstruction(i)
  PROVE  Ran(n, FarDirect(n, i))
  BY InstructionFields, FarTransferRan DEF FarDirect

LEMMA Grouped5Ran ==
  ASSUME NEW n, Ready(n), NEW i, IsInstruction(i), Group5(i)
  PROVE  Ran(n, Grouped5(n, i))
<1> DEFINE v == E(n, i, W)
           cs == Load(n, W, EA(n, i) + 2)
           ip == Load(n, W, EA(n, i))
<1>1. IsMachine(n) /\ v \in Words /\ cs \in Words /\ ip \in Words
  BY ERange, LoadRange, WordOperands DEF Ready
<1>2. \/ Grouped5(n, i) = Push16(n, v) \/ Grouped5(n, i) = JumpIndirect(n, i)
      \/ Grouped5(n, i) = FarIndirect(n, i)
  <2>1. /\ i.op = "PUSH" => Grouped5(n, i) = Push16(n, v)
        /\ i.op # "PUSH" /\ i.form = "E" => Grouped5(n, i) = JumpIndirect(n, i)
        /\ i.op # "PUSH" /\ i.form = "Ep" => Grouped5(n, i) = FarIndirect(n, i)
    BY DEF Grouped5
  <2> HIDE DEF v
  <2> QED
    BY <2>1 DEF Group5
<1>3. FarIndirect(n, i) = Fatal(n) \/ FarIndirect(n, i) = FarTransfer(n, i, cs, ip)
  BY DEF FarIndirect
<1> HIDE DEF cs, ip
<1>4. Ran(n, FarTransfer(n, i, cs, ip))
  BY <1>1, FarTransferRan
<1>5. Moved(n, JumpIndirect(n, i))
  BY <1>1, WordIsInt, CalledMoves DEF JumpIndirect
<1> HIDE DEF v
<1>6. Moved(n, Push16(n, v))
  BY <1>1, WordIsInt, PushMoves
<1> QED
  BY <1>2, <1>3, <1>4, <1>5, <1>6, MovedRan, FatalRan

-----------------------------------------------------------------------------
(* Returns, interrupts and single flags.                                   *)

\* The stack pointer moves up over the arguments.
LEMMA ArgumentsMove ==
  ASSUME NEW n, IsMachine(n), NEW i, IsInstruction(i)
  PROVE  Moved(n, SetReg(n, W, SP, Word(n.r[SP] + i.imm)))
<1>1. n.r[SP] + i.imm \in Int
  BY MachineRegister, RegisterNames, InstructionFields DEF Words
<1> QED
  BY <1>1, WordRange, WordMoves, RegisterNames

LEMMA ReturnRan ==
  ASSUME NEW n, Ready(n), NEW i, IsInstruction(i)
  PROVE  Ran(n, Return(n, i))
<1> DEFINE k == Pop16(n)
           j == Jump(k, Top16(n))
<1>1. Return(n, i) = SetReg(j, W, SP, Word(j.r[SP] + i.imm))
  BY DEF Return
<1>2. Moved(n, k) /\ Top16(n) \in Int
  BY PopMoves, WordIsInt DEF Ready
<1> HIDE DEF k
<1>3. Moved(n, j)
  BY <1>2, MovedMachine, JumpMoves, MovedOn
<1> HIDE DEF j
<1> QED
  BY <1>1, <1>3, MovedMachine, ArgumentsMove, MovedOn, MovedRan

LEMMA ReturnFarRan ==
  ASSUME NEW n, Ready(n), NEW i, IsInstruction(i)
  PROVE  Ran(n, ReturnFar(n, i))
<1> DEFINE full == Fill(n)
           k == Pop16(full)
           j == Pop16(k)
           cs == Top16(k)
           ip == Top16(full)
           x == JumpFar(j, cs, ip)
           y == SetReg(x, W, SP, Word(j.r[SP] + i.imm))
<1>1. ReturnFar(n, i) = y
  BY DEF ReturnFar
<1>2. Ran(n, full) /\ IsMachine(full)
  BY FillRan, RanReady
<1> HIDE DEF full
<1>3. Moved(full, k) /\ ip \in Words
  BY <1>2, PopMoves
<1> HIDE DEF k, ip
<1>4. Moved(k, j) /\ cs \in Words
  BY <1>3, MovedMachine, PopMoves
<1> HIDE DEF cs, j
<1>5. Moved(j, x) /\ Moved(full, x)
  BY <1>3, <1>4, MovedMachine, JumpFarMoves, MovedOn
<1>6. Word(j.r[SP] + i.imm) \in Words
  <2>1. j.r[SP] \in Words
    BY <1>4, MovedMachine, MachineRegister, RegisterNames
  <2>2. j.r[SP] + i.imm \in Int
    BY <2>1, InstructionFields DEF Words
  <2> QED
    BY <2>2, WordRange
<1> HIDE DEF x
<1>7. Moved(full, y)
  BY <1>5, <1>6, MovedMachine, WordMoves, RegisterNames, MovedOn
<1> QED
  BY <1>1, <1>2, <1>7, RanMoved

\* An interrupt fills the flags in, and changes no flag that a program sees.
LEMMA InterruptFills ==
  ASSUME NEW n, Ready(n), NEW num
  PROVE  FilledFrom(n, Interrupt(n, num))
<1> DEFINE full == Fill(n)
           frame == Frame(n)
           k1 == Push16(full, frame[1])
           k2 == Push16(k1, frame[2])
           k3 == Push16(k2, frame[3])
           k4 == SetControl(k3, "IF", FALSE)
           k5 == SetControl(k4, "TF", TRUE)
           cs == Load(k3, W, (4 * num) + 2)
           ip == Load(k3, W, 4 * num)
<1>1. Interrupt(n, num) = JumpFar(k5, cs, ip)
  BY DEF Interrupt
<1>2. FilledFrom(n, full) /\ IsMachine(full)
  BY FillFills, RanReady
<1>3. frame[1] \in Int /\ frame[2] \in Int /\ frame[3] \in Int
  <2>1. n.s["cs"] \in Words /\ FlagsWord(Fill(n)) \in Words /\ n.ip \in Int
    BY MachineSegment, FlagsWordRange DEF Ready, Names, IsMachine
  <2>2. frame[1] = FlagsWord(Fill(n)) /\ frame[2] = n.s["cs"] /\ frame[3] = n.ip
    BY DEF Frame
  <2> QED
    BY <2>1, <2>2, WordIsInt
<1> HIDE DEF full, frame
<1>4. Moved(full, k1)
  BY <1>2, <1>3, PushMoves
<1> HIDE DEF k1
<1>5. Moved(full, k2)
  BY <1>3, <1>4, PushOn
<1> HIDE DEF k2
<1>6. Moved(full, k3)
  BY <1>3, <1>5, PushOn
<1>7. cs \in Words /\ ip \in Words
  BY <1>6, MovedMachine, LoadRange, WordOperands
<1> HIDE DEF cs, ip, k3
<1>8. Moved(full, k4)
  BY <1>6, MovedMachine, SetControlMoves, MovedOn
<1> HIDE DEF k4
<1>9. Moved(full, k5)
  BY <1>8, MovedMachine, SetControlMoves, MovedOn
<1> HIDE DEF k5
<1>10. Moved(full, JumpFar(k5, cs, ip))
  BY <1>7, <1>9, MovedMachine, JumpFarMoves, MovedOn
<1> QED
  BY <1>1, <1>2, <1>10, RanMoved

LEMMA SoftwareInterruptRan ==
  ASSUME NEW n, Ready(n), NEW i
  PROVE  Ran(n, SoftwareInterrupt(n, i))
<1>1. \/ SoftwareInterrupt(n, i) = n
      \/ \E num : SoftwareInterrupt(n, i) = [Interrupt(n, num) EXCEPT !.skip = TRUE]
  BY DEF SoftwareInterrupt
<1>2. ASSUME NEW num
      PROVE  Ran(n, [Interrupt(n, num) EXCEPT !.skip = TRUE])
  <2>1. Ran(n, Interrupt(n, num)) /\ IsMachine(Interrupt(n, num))
    BY InterruptFills, FilledRan, RanReady
  <2> QED
    BY <2>1, TrapMoves, RanMoved
<1> QED
  BY <1>1, <1>2, SelfRan

LEMMA InterruptReturnLoads ==
  ASSUME NEW n, Ready(n)
  PROVE  Loaded(n, InterruptReturn(n))
<1> DEFINE k1 == Pop16(n)
           k2 == Pop16(k1)
           k3 == Pop16(k2)
           x == JumpFar(k3, Top16(k1), Top16(n))
           j == SetFlagsWord(x, Top16(k2))
<1>1. \/ InterruptReturn(n) = Leave(Trap(j)) \/ InterruptReturn(n) = Leave(j)
      \/ InterruptReturn(n) = j
  BY DEF InterruptReturn
<1>2. Moved(n, k1) /\ Top16(n) \in Words
  BY PopMoves DEF Ready
<1> HIDE DEF k1
<1>3. Moved(n, k2) /\ Top16(k1) \in Words
  BY <1>2, MovedMachine, PopMoves, MovedOn
<1> HIDE DEF k2
<1>4. Moved(n, k3)
  BY <1>3, PopOn
<1> HIDE DEF k3
<1>5. Moved(n, x)
  BY <1>2, <1>3, <1>4, MovedMachine, JumpFarMoves, MovedOn
<1> HIDE DEF x
<1>6. Loaded(n, j)
  BY <1>5, MovedReady, FlagsWordLoaded, MovedThenRan
<1> HIDE DEF j
<1>7. Loaded(n, Trap(j))
  BY <1>6, RanReady, TrapMoves, RanMoved
<1> QED
  BY <1>1, <1>6, <1>7, Left

LEMMA SetCarryRan ==
  ASSUME NEW n, Ready(n), NEW i
  PROVE  Ran(n, SetCarry(n, i))
<1> DEFINE full == Fill(n)
           b == IF i.op = "CMC" THEN ~full.fl["CF"] ELSE i.op = "STC"
<1>1. SetCarry(n, i) = SetFlag(full, "CF", b)
  BY DEF SetCarry
<1>2. FilledFrom(n, full)
  BY FillFills
<1> HIDE DEF full
<1>3. b \in BOOLEAN
  OBVIOUS
<1> HIDE DEF b
<1> QED
  BY <1>1, <1>2, <1>3, OneSet

LEMMA SetControlsRan ==
  ASSUME NEW n, Ready(n), NEW i
  PROVE  Ran(n, SetControls(n, i))
<1> DEFINE b == i.op \in {"STI", "STD"}
           f == IF i.op \in {"CLI", "STI"} THEN "IF" ELSE "DF"
           k == SetControl(n, f, b)
<1>1. SetControls(n, i) = k \/ SetControls(n, i) = End(k)
  BY DEF SetControls
<1>2. b \in BOOLEAN
  OBVIOUS
<1> HIDE DEF b, f
<1>3. Ran(n, k)
  BY <1>2, SetControlMoves, MovedRan DEF Ready
<1> HIDE DEF k
<1> QED
  BY <1>1, <1>3, Left

LEMMA CallBackRan ==
  ASSUME NEW n, Ready(n), NEW i
  PROVE  Ran(n, CallBack(n, i))
<1> DEFINE full == Fill(n)
           k == [full EXCEPT !.out = "call"]
<1>1. CallBack(n, i) = [k EXCEPT !.cb = i.imm]
  BY DEF CallBack
<1>2. Ran(n, full)
  BY FillRan
<1> HIDE DEF full
<1>3. Ran(n, k)
  BY <1>2, WithOut DEF Outs
<1> HIDE DEF k
<1>4. Moved(k, [k EXCEPT !.cb = i.imm])
  <2>1. IsMachine(k)
    BY <1>3, RanReady
  <2> QED
    BY <2>1 DEF IsMachine, Moved, IsRecord
<1> QED
  BY <1>1, <1>3, <1>4, RanMoved

LEMMA ExecuteControlExecuted ==
  ASSUME NEW n, Ready(n), NEW i, IsInstruction(i)
  PROVE  Executed(n, i, ExecuteControl(n, i))
<1>1. /\ PushesRegister(i) => Executed(n, i, PushRegister(n, i))
      /\ PushesSegment(i) => Executed(n, i, PushSegment(n, i))
      /\ PushesImmediate(i) => Executed(n, i, PushImmediate(n, i))
      /\ PopsE(i) => Executed(n, i, PopE(n, i))
  BY PushRegisterRan, PushSegmentRan, PushImmediateRan, PopERan, RanExecuted
<1>2. /\ Executed(n, i, PushAll(n)) /\ Executed(n, i, PopAll(n))
      /\ Executed(n, i, PushFlags(n)) /\ Executed(n, i, LoadFlags(n, i))
      /\ Executed(n, i, LeaveFrame(n, i)) /\ Executed(n, i, CheckBound(n, i))
  BY PushAllRan, PopAllRan, PushFlagsRan, LoadFlagsRan, LeaveFrameRan, CheckBoundRan, RanExecuted
<1>3. PopsFlags(i) => Executed(n, i, PopFlags(n))
  BY PopFlagsLoads DEF Executed, PopsFlags, LoadsFlagsAnew
<1>4. InterruptReturns(i) => Executed(n, i, InterruptReturn(n))
  BY InterruptReturnLoads DEF Executed, InterruptReturns, LoadsFlagsAnew
<1>5. /\ Executed(n, i, Input(n, i)) /\ Executed(n, i, Output(n, i))
      /\ Executed(n, i, ConditionalJump(n, i)) /\ (Loops(i) => Executed(n, i, Loop(n, i)))
      /\ Executed(n, i, JumpRelative(n, i)) /\ (Group5(i) => Executed(n, i, Grouped5(n, i)))
      /\ Executed(n, i, FarDirect(n, i))
  BY InputRan, OutputRan, ConditionalJumpRan, LoopRan, JumpRelativeRan, Grouped5Ran, FarDirectRan,
     RanExecuted
<1>6. /\ Executed(n, i, Return(n, i)) /\ Executed(n, i, ReturnFar(n, i))
      /\ Executed(n, i, SoftwareInterrupt(n, i)) /\ Executed(n, i, SetCarry(n, i))
      /\ Executed(n, i, SetControls(n, i)) /\ Executed(n, i, CallBack(n, i))
      /\ Executed(n, i, n) /\ Executed(n, i, Fatal(n))
  BY ReturnRan, ReturnFarRan, SoftwareInterruptRan, SetCarryRan, SetControlsRan, CallBackRan,
     SelfRan, FatalRan, RanExecuted
<1> QED
  BY <1>1, <1>2, <1>3, <1>4, <1>5, <1>6 DEF ExecuteControl

-----------------------------------------------------------------------------
(* Whatever is in memory.                                                  *)

LEMMA NothingDecoded ==
  ASSUME NEW n
  PROVE  Execute(n, Plain("")) = Fatal(Past(n))
<1> DEFINE i == Plain("")
<1>1. i.op = "" /\ i.form = ""
  BY DEF Plain, Instruction
<1> HIDE DEF i
<1>2. i.op \notin DataOps
  BY <1>1 DEF DataOps, Ariths, ShiftOps, Decimals, Strings, BitOps, FarPointers
<1>3. /\ ~PushesRegister(i) /\ ~PushesSegment(i) /\ ~PushesImmediate(i) /\ ~PopsE(i)
      /\ ~PushesAll(i) /\ ~PushesFlags(i) /\ ~PopsFlags(i) /\ ~LoadsFlags(i) /\ ~Leaves(i)
      /\ ~Bounds(i) /\ ~Inputs(i) /\ ~Outputs(i)
  BY <1>1 DEF PushesRegister, PushesSegment, PushesImmediate, PopsE, PushesAll, PushesFlags,
     PopsFlags, LoadsFlags, Leaves, Bounds, Inputs, Outputs
<1>4. /\ ~JumpsShort(i) /\ ~JumpsNear(i) /\ ~Loops(i) /\ ~JumpsRelative(i) /\ ~Group5(i)
      /\ ~CallsFar(i) /\ ~JumpsFar(i) /\ ~Returns(i) /\ ~ReturnsFar(i)
  BY <1>1 DEF JumpsShort, JumpsNear, Loops, JumpsRelative, Group5, CallsFar, JumpsFar, Returns,
     ReturnsFar
<1>5. /\ ~Interrupts(i) /\ ~Breakpoints(i) /\ ~InterruptReturns(i) /\ ~CarryOps(i)
      /\ ~Complements(i) /\ ~SetsControls(i) /\ ~Idles(i) /\ ~CallsBack(i)
  BY <1>1 DEF Interrupts, Breakpoints, InterruptReturns, CarryOps, Complements, SetsControls,
     Idles, CallsBack
<1>6. ExecuteControl(Past(n), i) = Fatal(Past(n))
  BY <1>3, <1>4, <1>5 DEF ExecuteControl
<1>7. Execute(n, i) = Fatal(Past(n))
  BY <1>2, <1>6 DEF Execute
<1> QED
  BY <1>7 DEF i

Decodes(i) == IsInstruction(i) \/ i = Plain("")

LEMMA CodeDecodes ==
  ASSUME program \in DOMAIN Programs, NEW a
  PROVE  Decodes(Code(a))
<1> DEFINE k == (a - (16 * CodeSegment)) + 1
<1>1. \/ k \in DOMAIN Programs[program] /\ Code(a) = Programs[program][k]
      \/ a \in DOMAIN Callbacks.code /\ Code(a) = Callbacks.code[a]
      \/ Code(a) = Plain("")
  BY DEF Code
<1>2. CASE k \in DOMAIN Programs[program] /\ Code(a) = Programs[program][k]
  BY <1>2, CpuAssumption DEF Decodes
<1>3. CASE a \in DOMAIN Callbacks.code /\ Code(a) = Callbacks.code[a]
  BY <1>3, CallbacksAssumption DEF Decodes
<1>4. CASE Code(a) = Plain("")
  BY <1>4 DEF Decodes
<1> QED
  BY <1>1, <1>2, <1>3, <1>4

LEMMA PastIsReady ==
  ASSUME NEW n, IsMachine(n)
  PROVE  Ready(Past(n)) /\ Past(n).fl = n.fl /\ Past(n).lf = n.lf /\ Past(n).pic = n.pic
<1> DEFINE k == [n EXCEPT !.ip = n.ip + 1]
<1>1. Past(n) = [k EXCEPT !.out = "next"]
  BY DEF Past
<1>2. Moved(n, k)
  BY WithIp DEF IsMachine
<1> HIDE DEF k
<1>3. IsMachine(k) /\ k.fl = n.fl /\ k.lf = n.lf /\ k.pic = n.pic
  BY <1>2 DEF Moved
<1> QED
  BY <1>1, <1>3 DEF Ready, Outs, IsMachine, IsRecord

LEMMA ExecuteExecuted ==
  ASSUME NEW n, IsMachine(n), NEW i, Decodes(i)
  PROVE  Executed(n, i, Execute(n, i))
<1> DEFINE k == Past(n)
           j == Execute(n, i)
<1>1. Ready(k) /\ k.fl = n.fl /\ k.lf = n.lf /\ k.pic = n.pic
  BY PastIsReady
<1>2. Executed(k, i, j)
  <2>1. CASE IsInstruction(i)
    <3>1. j = IF i.op \in DataOps THEN ExecuteData(k, i) ELSE ExecuteControl(k, i)
      BY DEF Execute
    <3> HIDE DEF k, j
    <3> QED
      BY <1>1, <2>1, <3>1, ExecuteDataExecuted, ExecuteControlExecuted
  <2>2. CASE i = Plain("")
    <3>1. j = Fatal(k)
      BY <2>2, NothingDecoded
    <3> HIDE DEF k, j
    <3> QED
      BY <1>1, <3>1, FatalRan, RanExecuted
  <2> QED
    BY <2>1, <2>2 DEF Decodes
<1> HIDE DEF k, j
<1>3. Executed(n, i, j)
  BY <1>1, <1>2 DEF Executed, Ran, Loaded, Sound, Served
<1> QED
  BY <1>3 DEF j

-----------------------------------------------------------------------------
(* The callbacks.                                                          *)

Answered(n, k) ==
  /\ IsMachine(k) /\ k.fl = n.fl /\ k.lf = n.lf /\ k.pic = n.pic
  /\ k.out \in {"next", "stop", "fatal"}

LEMMA MovedAnswered ==
  ASSUME NEW n, IsMachine(n), n.out = "next", NEW k, Moved(n, k)
  PROVE  Answered(n, k)
  BY DEF Moved, Answered

LEMMA LeftAnswered ==
  ASSUME NEW n, IsMachine(n), n.out = "next"
  PROVE  Answered(n, n) /\ Answered(n, Stop(n)) /\ Answered(n, Fatal(n))
<1>1. ASSUME NEW x \in {"stop", "fatal"}
      PROVE  Answered(n, [n EXCEPT !.out = x])
  BY DEF Answered, IsMachine, IsRecord
<1> QED
  BY <1>1 DEF Stop, Fatal, Answered

LEMMA SetFrameMoves ==
  ASSUME NEW n, IsMachine(n), NEW f \in {"CF", "IF", "ZF"}, NEW b \in BOOLEAN
  PROVE  Moved(n, SetFrame(n, f, b))
<1> DEFINE a == FrameAddress(n)
           word == Load(n, W, a)
           weight == Weight[f]
           bit == HasBit(word, f)
           v == IF b THEN word + weight ELSE word - weight
<1>1. word \in Words
  BY LoadRange, WordOperands
<1>2. weight \in {1, 64, 512}
  BY DEF Weight, Conditions, Controls
<1>3. bit = ((word \div weight) % 2 = 1)
  BY DEF HasBit
<1>4. SetFrame(n, f, b) = IF bit = b THEN n ELSE Save(n, W, a, v)
  BY DEF SetFrame
<1> HIDE DEF a, word, weight, bit
<1>5. bit # b => v \in Words
  <2>1. CASE weight = 1
    BY <1>1, <1>3, <2>1 DEF Words
  <2>2. CASE weight = 64
    BY <1>1, <1>3, <2>2 DEF Words
  <2>3. CASE weight = 512
    BY <1>1, <1>3, <2>3 DEF Words
  <2> QED
    BY <1>2, <2>1, <2>2, <2>3
<1> HIDE DEF v
<1>6. bit # b => Moved(n, Save(n, W, a, v))
  BY <1>5, SaveMoves, WordOperands
<1> QED
  BY <1>4, <1>6, MovedSelf

LEMMA VectorMoves ==
  ASSUME NEW n, IsMachine(n)
  PROVE  Moved(n, SetVector(n)) /\ Moved(n, GetVector(n))
<1> DEFINE a == 4 * AL(n)
           k == Save(n, W, a, n.r[DX])
           j == SetReg(n, W, BX, Load(n, W, a))
           v == Load(n, W, a + 2)
<1>1. n.r[DX] \in Words /\ n.s["ds"] \in Words /\ Load(n, W, a) \in Words /\ v \in Words
  BY MachineRegister, RegisterNames, MachineSegment, LoadRange, WordOperands DEF Names
<1>2. SetVector(n) = Save(k, W, a + 2, n.s["ds"]) /\ GetVector(n) = SetSegment(j, "es", v)
  BY DEF SetVector, GetVector
<1> HIDE DEF a, v
<1>3. Moved(n, k) /\ Moved(n, j)
  BY <1>1, SaveMoves, WordMoves, WordOperands, RegisterNames
<1> HIDE DEF k, j
<1>4. Moved(k, Save(k, W, a + 2, n.s["ds"])) /\ Moved(j, SetSegment(j, "es", v))
  BY <1>1, <1>3, MovedMachine, SaveMoves, SetSegmentMoves, WordOperands
<1> QED
  BY <1>2, <1>3, <1>4, MovedOn

LEMMA GetVersionMoves ==
  ASSUME NEW n, IsMachine(n)
  PROVE  Moved(n, GetVersion(n))
<1> DEFINE bh == IF AL(n) = 0 THEN 255 ELSE IF AL(n) = 1 THEN 16 ELSE Reg(n, B, 7)
           v == 256 * bh
           k == SetReg(n, W, AX, 5)
           j == SetReg(k, W, BX, v)
<1>1. GetVersion(n) = SetReg(j, W, CX, 0)
  BY DEF GetVersion
<1>2. bh \in Bytes
  <2>1. Reg(n, B, 7) \in Bytes
    BY RegRange, ByteOperands
  <2> QED
    BY <2>1 DEF Bytes
<1> HIDE DEF bh
<1>3. v \in Words /\ 5 \in Words /\ 0 \in Words
  BY <1>2 DEF Bytes, Words
<1> HIDE DEF v
<1>4. Moved(n, k)
  BY <1>3, WordMoves, RegisterNames
<1> HIDE DEF k
<1>5. Moved(n, j)
  BY <1>3, <1>4, MovedMachine, WordMoves, RegisterNames, MovedOn
<1> HIDE DEF j
<1> QED
  BY <1>1, <1>3, <1>5, MovedMachine, WordMoves, RegisterNames, MovedOn

LEMMA Int16Answers ==
  ASSUME NEW n, IsMachine(n), n.out = "next"
  PROVE  Answered(n, Int16(n))
<1> DEFINE k == SetFrame(n, "IF", TRUE)
<1>1. \/ Int16(n) = SetReg(n, W, AX, 0) \/ Int16(n) = SetFrame(k, "ZF", TRUE)
      \/ Int16(n) = Fatal(n)
  <2> DEFINE waits == SetReg(n, W, AX, 0)
             asks == SetFrame(k, "ZF", TRUE)
  <2>1. Int16(n) = CASE AH(n) = 0 -> waits [] AH(n) = 1 -> asks [] OTHER -> Fatal(n)
    BY DEF Int16
  <2> HIDE DEF waits, asks
  <2>2. Int16(n) = waits \/ Int16(n) = asks \/ Int16(n) = Fatal(n)
    BY <2>1
  <2> QED
    BY <2>2 DEF waits, asks
<1>2. Moved(n, SetReg(n, W, AX, 0))
  BY WordMoves, RegisterNames DEF Words
<1>3. Moved(n, k)
  BY SetFrameMoves
<1> HIDE DEF k
<1>4. Moved(n, SetFrame(k, "ZF", TRUE))
  BY <1>3, MovedMachine, SetFrameMoves, MovedOn
<1> QED
  BY <1>1, <1>2, <1>4, MovedAnswered, LeftAnswered

LEMMA Int21Answers ==
  ASSUME NEW n, IsMachine(n), n.out = "next"
  PROVE  Answered(n, Int21(n))
<1> DEFINE opened == SetReg(n, W, AX, 5)
           read == SetReg(n, W, AX, 0)
           k1 == SetFrame(opened, "CF", FALSE)
           k2 == SetFrame(n, "CF", FALSE)
           k3 == SetFrame(read, "CF", FALSE)
<1>1. Int21(n) \in {SetVector(n), GetVersion(n), GetVector(n), k1, k2, k3, n, Stop(n), Fatal(n)}
  <2>1. Int21(n) = CASE AH(n) = 37 -> SetVector(n)
                     [] AH(n) = 48 -> GetVersion(n)
                     [] AH(n) = 53 -> GetVector(n)
                     [] AH(n) = 61 -> k1
                     [] AH(n) \in {62, 68} -> k2
                     [] AH(n) = 63 -> k3
                     [] AH(n) = 64 -> n
                     [] AH(n) \in {66, 76} -> Stop(n)
                     [] OTHER -> Fatal(n)
    BY DEF Int21
  <2> HIDE DEF k1, k2, k3
  <2> QED
    BY <2>1
<1>2. Moved(n, opened) /\ Moved(n, read)
  BY WordMoves, RegisterNames DEF Words
<1> HIDE DEF opened, read
<1>3. Moved(n, k1) /\ Moved(n, k2) /\ Moved(n, k3)
  BY <1>2, MovedMachine, SetFrameMoves, MovedOn
<1> HIDE DEF k1, k2, k3
<1> QED
  BY <1>1, <1>3, VectorMoves, GetVersionMoves, MovedAnswered, LeftAnswered

LEMMA HandlersAnswer ==
  ASSUME NEW n, IsMachine(n), n.out = "next", NEW handler
  PROVE  Answered(n, Handle(n, handler))
<1>1. \/ Handle(n, handler) \in {n, Stop(n), Fatal(n), Int15(n), Int16(n), Int21(n)}
  BY DEF Handle, Int1a
<1>2. Answered(n, Int15(n))
  <2>1. Int15(n) = SetFrame(n, "CF", TRUE) \/ Int15(n) = Fatal(n)
    BY DEF Int15
  <2> QED
    BY <2>1, SetFrameMoves, MovedAnswered, LeftAnswered
<1> QED
  BY <1>1, <1>2, Int16Answers, Int21Answers, LeftAnswered

LEMMA AnswerAnswers ==
  ASSUME NEW n, IsMachine(n)
  PROVE  Answered(n, Answer(n))
<1> DEFINE k == [n EXCEPT !.out = "next"]
<1>1. IsMachine(k) /\ k.out = "next" /\ k.fl = n.fl /\ k.lf = n.lf /\ k.pic = n.pic
  BY DEF IsMachine, IsRecord
<1>2. Answer(n) = Handle(k, Callbacks.handlers[n.cb])
  BY DEF Answer
<1> HIDE DEF k
<1>3. Answered(k, Answer(n))
  BY <1>1, <1>2, HandlersAnswer
<1> QED
  BY <1>1, <1>3 DEF Answered

-----------------------------------------------------------------------------
(* The invariant.                                                          *)

\* TypeOK with what the steps need of it: the machine is a machine, the round
\* has room for one more instruction after each fetch, and only a program that
\* has stopped has a way out that is not one of the decoder's.
CpuInv ==
  /\ IsMachine(m)
  /\ program \in DOMAIN Programs
  /\ phase \in Phases
  /\ phase # "stopped" => m.out \in Outs
  /\ count \in 0 .. Round
  /\ phase = "fetch" => count < Round
  /\ todo \subseteq Lines
  /\ m.pic.asked \cup m.pic.serving \subseteq Lines \ todo

\* What a step does to the flags.
FlagStep ==
  FlagsKept(m.fl, m.lf, m'.fl, m'.lf) \/ (MayLoad /\ m'.lf = Unknown)

LEMMA FlagsSame ==
  ASSUME NEW n, NEW k, k.fl = n.fl, k.lf = n.lf
  PROVE  FlagsKept(n.fl, n.lf, k.fl, k.lf)
  BY DEF FlagsKept

LEMMA InitCpuInv == Init => CpuInv
<1> SUFFICES ASSUME Init
             PROVE  CpuInv
  OBVIOUS
<1> DEFINE mem == VectorBytes(Callbacks.vectors)
<1>1. /\ m = Machine /\ program \in DOMAIN Programs /\ phase = "host" /\ count = 0
      /\ todo = Lines
  BY DEF Init
<1>2. IsMachine(Machine) /\ Machine.out = "next" /\ Machine.pic = [asked |-> {}, serving |-> {}]
  <2> DEFINE r == [k \in 0 .. 7 |-> IF k = SP THEN StackTop ELSE 0]
             s == [es |-> DataSegmentOfProgram, cs |-> CodeSegment, ss |-> StackSegmentOfProgram,
                   ds |-> DataSegmentOfProgram, fs |-> DataSegmentOfProgram,
                   gs |-> DataSegmentOfProgram]
             fl == [f \in Conditions |-> FALSE]
             ctl == [f \in Controls |-> f = "IF"]
  <2>1. r \in Registers
    BY DEF Registers, Words, StackTop
  <2>2. s \in SegmentRegisters
    <3>1. DOMAIN s = Names /\ s = [x \in Names |-> s[x]]
      BY DEF Names
    <3>2. /\ s["es"] \in Words /\ s["cs"] \in Words /\ s["ss"] \in Words /\ s["ds"] \in Words
          /\ s["fs"] \in Words /\ s["gs"] \in Words
      BY DEF Words, DataSegmentOfProgram, CodeSegment, StackSegmentOfProgram
    <3>3. \A x \in Names : s[x] \in Words
      BY <3>2 DEF Names
    <3> HIDE DEF s
    <3> QED
      BY <3>1, <3>3 DEF SegmentRegisters
  <2>3. fl \in FlagRegisters /\ ctl \in ControlRegisters
    BY DEF FlagRegisters, ControlRegisters
  <2>4. IsMemory(mem)
    <3>1. mem = [a \in DOMAIN mem |-> mem[a]]
      BY DEF VectorBytes
    <3>2. \A a \in DOMAIN mem : mem[a] \in Bytes
      BY CallbacksAssumption, ByteOperands
    <3> HIDE DEF mem
    <3> QED
      BY <3>1, <3>2 DEF IsMemory
  <2> DEFINE k == [r |-> r, s |-> s, ip |-> 0, fl |-> fl, lf |-> Unknown, ctl |-> ctl,
                   mem |-> mem, pic |-> [asked |-> {}, serving |-> {}],
                   trap |-> FALSE, skip |-> FALSE, out |-> "next", cb |-> 0]
  <2>5. Machine = k
    BY DEF Machine
  <2> HIDE DEF r, s, fl, ctl, mem
  <2>6. IsMachine(k)
    BY <2>1, <2>2, <2>3, <2>4 DEF IsMachine, IsRecord
  <2> QED
    BY <2>5, <2>6
<1>3. m.out \in Outs /\ m.pic.asked \cup m.pic.serving \subseteq Lines \ todo
  BY <1>1, <1>2 DEF Outs
<1>4. count \in 0 .. Round
  BY <1>1, CpuAssumption
<1> QED
  BY <1>1, <1>2, <1>3, <1>4 DEF CpuInv, Phases

LEMMA SkipMoves ==
  ASSUME NEW n, IsMachine(n), NEW b
  PROVE  Moved(n, [n EXCEPT !.skip = b])
  BY DEF IsMachine, Moved, IsRecord

LEMMA StartRoundStep ==
  ASSUME CpuInv, StartRound
  PROVE  CpuInv' /\ FlagStep
<1>1. Moved(m, m')
  <2>1. Moved(m, [m EXCEPT !.skip = FALSE])
    BY SkipMoves DEF CpuInv
  <2> QED
    BY <2>1, MovedSelf DEF CpuInv, StartRound
<1>2. IsMachine(m') /\ m'.out = m.out /\ m'.pic = m.pic /\ m'.fl = m.fl /\ m'.lf = m.lf
  BY <1>1 DEF Moved
<1>3. /\ phase = "host" /\ phase' = "top" /\ count' = Round /\ UNCHANGED <<program, todo>>
  BY DEF StartRound
<1>4. count' \in 0 .. Round
  BY <1>3, CpuAssumption
<1>5. FlagStep
  BY <1>2, FlagsSame DEF FlagStep
<1> QED
  BY <1>2, <1>3, <1>4, <1>5 DEF CpuInv, Phases

LEMMA LoopTopStep ==
  ASSUME CpuInv, LoopTop
  PROVE  CpuInv' /\ FlagStep
<1>1. /\ phase = "top" /\ phase' = "fetch" /\ count' = count - 1 /\ count > 0
      /\ UNCHANGED <<program, todo>>
  BY DEF LoopTop, Accept
<1>2. count' \in 0 .. Round /\ count' < Round
  BY <1>1, CpuAssumption DEF CpuInv
<1>3. m.out \in Outs /\ IsMachine(m)
  BY <1>1 DEF CpuInv
<1> DEFINE good == /\ IsMachine(m') /\ m'.out \in Outs
                   /\ m'.pic.asked \cup m'.pic.serving \subseteq Lines \ todo
                   /\ FlagsKept(m.fl, m.lf, m'.fl, m'.lf)
<1>4. ASSUME m' = m
      PROVE  good
  BY <1>3, <1>4, FlagsSame DEF CpuInv
<1>5. ASSUME Startable(m.pic) # {}, Accept(Min(Startable(m.pic)))
      PROVE  good
  <2> DEFINE line == Min(Startable(m.pic))
             pic == [asked |-> m.pic.asked \ {line}, serving |-> m.pic.serving \cup {line}]
             k == [m EXCEPT !.pic = pic]
  <2>1. line \in m.pic.asked
    <3>1. Startable(m.pic) \subseteq m.pic.asked
      BY DEF Startable
    <3>2. m.pic.asked \subseteq Nat
      BY CpuAssumption DEF CpuInv
    <3>3. Startable(m.pic) \in SUBSET Nat
      BY <3>1, <3>2
    <3> QED
      BY <1>5, <3>1, <3>3, LeastIsMember
  <2>2. m' = Interrupt(k, 8 + line)
    BY <1>5 DEF Accept, Disturb
  <2>3. pic.asked \cup pic.serving \subseteq m.pic.asked \cup m.pic.serving
    BY <2>1
  <2>4. pic = [asked |-> pic.asked, serving |-> pic.serving]
    OBVIOUS
  <2> HIDE DEF pic, line
  <2>5. Ready(k) /\ k.fl = m.fl /\ k.lf = m.lf /\ k.pic = pic
    BY <1>3, <2>4 DEF Ready, IsMachine, IsRecord
  <2> HIDE DEF k
  <2>6. Ran(k, m')
    BY <2>2, <2>5, InterruptFills, FilledRan
  <2>7. FlagsKept(m.fl, m.lf, m'.fl, m'.lf)
    BY <2>5, <2>6 DEF Ran
  <2>8. IsMachine(m') /\ m'.out \in Outs /\ Served(pic, m'.pic)
    BY <2>5, <2>6 DEF Ran, Sound, Ready
  <2>9. m'.pic.asked \cup m'.pic.serving \subseteq Lines \ todo
    BY <2>3, <2>8 DEF Served, CpuInv
  <2> QED
    BY <2>7, <2>8, <2>9
<1> HIDE DEF good
<1>6. good
  <2>1. m' = m \/ (Startable(m.pic) # {} /\ Accept(Min(Startable(m.pic))))
    BY DEF LoopTop
  <2> QED
    BY <1>4, <1>5, <2>1
<1> USE DEF good
<1>7. CpuInv'
  BY <1>1, <1>2, <1>6 DEF CpuInv, Phases
<1> QED
  BY <1>6, <1>7 DEF FlagStep

LEMMA RaiseStep ==
  ASSUME CpuInv, Raise
  PROVE  CpuInv' /\ FlagStep
<1>1. PICK line \in todo : todo' = todo \ {line} /\ m' = [m EXCEPT !.pic.asked = @ \cup {line}]
  BY DEF Raise
<1>2. phase \in {"fetch", "host"} /\ UNCHANGED <<program, phase, count>>
  BY DEF Raise
<1> DEFINE pic == [asked |-> m.pic.asked \cup {line}, serving |-> m.pic.serving]
<1>3. m.pic = [asked |-> m.pic.asked, serving |-> m.pic.serving]
  BY DEF CpuInv, IsMachine
<1>4. m' = [m EXCEPT !.pic = pic]
  BY <1>1, <1>3
<1>5. pic = [asked |-> pic.asked, serving |-> pic.serving]
  OBVIOUS
<1>6. pic.asked \cup pic.serving \subseteq Lines \ todo'
  BY <1>1 DEF CpuInv
<1> HIDE DEF pic
<1>7. IsMachine(m') /\ m'.fl = m.fl /\ m'.lf = m.lf /\ m'.pic = pic /\ m'.out = m.out
  BY <1>4, <1>5 DEF CpuInv, IsMachine, IsRecord
<1>8. FlagStep
  BY <1>7, FlagsSame DEF FlagStep
<1>9. todo' \subseteq Lines
  BY <1>1 DEF CpuInv
<1> QED
  BY <1>2, <1>6, <1>7, <1>8, <1>9 DEF CpuInv

LEMMA DecodeStep ==
  ASSUME CpuInv, Decode
  PROVE  CpuInv' /\ FlagStep
<1> DEFINE i == Current(m)
           k == Execute(m, i)
<1>1. /\ phase = "fetch" /\ m' = k
      /\ phase' = CASE k.out \in {"next", "again"} -> "top"
                    [] k.out \in {"leave", "end", "call"} -> "ended"
                    [] k.out = "fatal" -> "stopped"
      /\ count' = IF k.out = "again" THEN count + 1 ELSE count
      /\ UNCHANGED <<program, todo>>
  BY DEF Decode
<1>2. Executed(m, i, k)
  BY CodeDecodes, ExecuteExecuted DEF CpuInv, Current
<1>3. MayLoad <=> i.op \in LoadsFlagsAnew
  BY <1>1 DEF MayLoad
<1> HIDE DEF i, k
<1>4. IsMachine(k) /\ k.out \in Outs /\ Served(m.pic, k.pic)
  BY <1>2 DEF Executed, Ran, Loaded, Sound, Ready
<1>5. phase' \in {"top", "ended", "stopped"}
  BY <1>1, <1>4 DEF Outs
<1>6. count' \in 0 .. Round
  BY <1>1, CpuAssumption DEF CpuInv
<1>7. k.pic.asked \cup k.pic.serving \subseteq Lines \ todo
  BY <1>4 DEF Served, CpuInv
<1>8. FlagStep
  BY <1>1, <1>2, <1>3 DEF FlagStep, Executed, Ran, Loaded
<1>9. CpuInv'
  BY <1>1, <1>4, <1>5, <1>6, <1>7 DEF CpuInv, Phases
<1> QED
  BY <1>8, <1>9

\* Filling in twice is filling in once.
LEMMA FilledTwice ==
  ASSUME NEW n, NEW k, NEW j,
         FilledFrom(n, k) \/ (k.fl = n.fl /\ k.lf = n.lf /\ Ready(k) /\ k.pic = n.pic),
         FilledFrom(k, j)
  PROVE  FilledFrom(n, j)
<1>1. CASE k.fl = n.fl /\ k.lf = n.lf /\ Ready(k) /\ k.pic = n.pic
  BY <1>1 DEF FilledFrom, Sound
<1>2. CASE FilledFrom(n, k)
  <2>1. k.lf = Unknown /\ Unknown.type = "UNKNOWN"
    BY <1>2 DEF FilledFrom, Unknown, Lazy
  <2>2. FillFlags(k.fl, k.lf) = k.fl
    BY <2>1 DEF FillFlags
  <2> QED
    BY <1>2, <2>2 DEF FilledFrom, Sound, Served
<1> QED
  BY <1>1, <1>2

LEMMA EndRoundStep ==
  ASSUME CpuInv, EndRound
  PROVE  CpuInv' /\ FlagStep
<1> DEFINE filled == Filled(m)
           trap == IF trapping THEN FALSE ELSE filled.trap
           k == [filled EXCEPT !.trap = trap]
<1>1. /\ phase \in {"ended", "top"} /\ phase' \in {"callback", "host"}
      /\ UNCHANGED <<program, count, todo>>
  BY DEF EndRound
<1>2. m' = Interrupt(k, 1) \/ m' = k
  BY DEF EndRound, Disturb
<1>3. Ready(m)
  BY <1>1 DEF CpuInv, Ready
<1>4. filled = m \/ filled = Fill(m)
  BY DEF Filled
<1> HIDE DEF trap, filled
<1>5. FilledFrom(m, filled) \/ filled = m
  BY <1>3, <1>4, FillFills
<1>6. IsMachine(filled)
  BY <1>3, <1>5, RanReady DEF Ready
<1>7. Moved(filled, k)
  BY <1>6 DEF IsMachine, Moved, IsRecord
<1> HIDE DEF k
<1>8. FilledFrom(m, k) \/ (k.fl = m.fl /\ k.lf = m.lf /\ Ready(k) /\ k.pic = m.pic)
  BY <1>3, <1>5, <1>7, RanMoved DEF Moved, Ready
<1>9. Ready(k)
  BY <1>8, RanReady
<1>10. FilledFrom(m, Interrupt(k, 1))
  BY <1>8, <1>9, InterruptFills, FilledTwice
<1>11. Ran(m, m')
  <2>1. CASE m' = Interrupt(k, 1)
    BY <1>10, <2>1, FilledRan
  <2>2. CASE m' = k
    <3>1. FilledFrom(m, k) => Ran(m, k)
      BY FilledRan
    <3>2. k.fl = m.fl /\ k.lf = m.lf /\ Ready(k) /\ k.pic = m.pic => Ran(m, k)
      BY FlagsSame DEF Ran, Sound, Served
    <3> QED
      BY <1>8, <2>2, <3>1, <3>2
  <2> QED
    BY <1>2, <2>1, <2>2
<1>12. IsMachine(m') /\ m'.out \in Outs /\ Served(m.pic, m'.pic)
  BY <1>11 DEF Ran, Sound, Ready
<1>13. m'.pic.asked \cup m'.pic.serving \subseteq Lines \ todo
  BY <1>12 DEF Served, CpuInv
<1>14. CpuInv'
  BY <1>1, <1>12, <1>13 DEF CpuInv, Phases
<1> QED
  BY <1>11, <1>14 DEF FlagStep, Ran

LEMMA CallbackStep ==
  ASSUME CpuInv, Callback
  PROVE  CpuInv' /\ FlagStep
<1>1. /\ phase = "callback" /\ m' = Answer(m)
      /\ phase' = IF m'.out \in {"stop", "fatal"} THEN "stopped" ELSE "host"
      /\ UNCHANGED <<program, count, todo>>
  BY DEF Callback
<1>2. Answered(m, m')
  BY <1>1, AnswerAnswers DEF CpuInv
<1>3. /\ IsMachine(m') /\ m'.fl = m.fl /\ m'.lf = m.lf /\ m'.pic = m.pic
      /\ m'.out \in {"next", "stop", "fatal"}
  BY <1>2 DEF Answered
<1>4. phase' \in {"stopped", "host"} /\ (phase' # "stopped" => m'.out \in Outs)
  BY <1>1, <1>3 DEF Outs
<1>5. FlagStep
  BY <1>3, FlagsSame DEF FlagStep
<1>6. CpuInv'
  BY <1>1, <1>3, <1>4 DEF CpuInv, Phases
<1> QED
  BY <1>5, <1>6

LEMMA NextCpuInv ==
  ASSUME CpuInv, [Next]_vars
  PROVE  CpuInv' /\ FlagStep
<1>1. CASE Next
  BY <1>1, StartRoundStep, LoopTopStep, RaiseStep, DecodeStep, EndRoundStep, CallbackStep DEF Next
<1>2. CASE UNCHANGED vars
  <2>1. CpuInv' = CpuInv
    BY <1>2 DEF CpuInv, vars
  <2>2. m' = m
    BY <1>2 DEF vars
  <2> QED
    BY <2>1, <2>2, FlagsSame DEF FlagStep
<1> QED
  BY <1>1, <1>2

LEMMA CpuInvHolds == Spec => []CpuInv
<1>1. CpuInv /\ [Next]_vars => CpuInv'
  BY NextCpuInv
<1> QED
  BY <1>1, InitCpuInv, PTL DEF Spec

LEMMA CpuInvTyped == CpuInv => TypeOK
<1> SUFFICES ASSUME CpuInv
             PROVE  TypeOK
  OBVIOUS
<1>1. m.r \in [0 .. 7 -> Operands(W)]
  BY WordOperands DEF CpuInv, IsMachine, Registers
<1>2. \A x \in DOMAIN m.s : m.s[x] \in Operands(W)
  BY WordOperands DEF CpuInv, IsMachine, SegmentRegisters
<1>3. \A a \in DOMAIN m.mem : m.mem[a] \in Operands(B)
  BY ByteOperands DEF CpuInv, IsMachine, IsMemory
<1>4. m.fl \in [Conditions -> BOOLEAN] /\ m.ctl \in [Controls -> BOOLEAN] /\ m.ip \in Nat
  BY DEF CpuInv, IsMachine, FlagRegisters, ControlRegisters
<1> QED
  BY <1>1, <1>2, <1>3, <1>4 DEF CpuInv, TypeOK

\* Whatever the programs and the devices do, registers, segments and memory
\* stay in their widths, an interrupt that is served was raised by its device,
\* and a round never grows beyond its length, though a load of ss adds an
\* instruction to it.
THEOREM CpuTypeCorrect == Spec => []TypeOK
<1>1. CpuInv => TypeOK
  BY CpuInvTyped
<1> QED
  BY <1>1, CpuInvHolds, PTL

LEMMA FlagStepSteps ==
  ASSUME CpuInv', FlagStep
  PROVE  [F!FlagKeep \/ (MayLoad /\ F!AllLoaded)]_F!flagVars
<1>1. CASE FlagsKept(m.fl, m.lf, m'.fl, m'.lf)
  BY <1>1, KeptSteps
<1>2. CASE MayLoad /\ m'.lf = Unknown
  <2>1. m'.fl \in [Conditions -> BOOLEAN]
    BY DEF CpuInv, IsMachine, FlagRegisters
  <2>2. F!AllLoaded
    BY <1>2, <2>1, MachineNames DEF F!AllLoaded
  <2> QED
    BY <1>2, <2>2
<1> QED
  BY <1>1, <1>2 DEF FlagStep

\* The processor implements the machine of the lazy flags: every instruction,
\* interrupt, end of a round and callback does to them what one of
\* FlagMachine's operations does, and only POPF, IRET, the decimal and the
\* scanning instructions may load all of them anew.
THEOREM CpuImplementsFlagMachine == Spec => ImplementsFlagMachine
<1>1. Init => F!FlagInit
  <2> SUFFICES ASSUME Init
               PROVE  F!FlagInit
    OBVIOUS
  <2>1. m.fl = [f \in Conditions |-> FALSE] /\ m.lf = Unknown
    BY DEF Init, Machine
  <2> QED
    BY <2>1, MachineNames DEF F!FlagInit
<1>2. CpuInv /\ [Next]_vars => [F!FlagKeep \/ (MayLoad /\ F!AllLoaded)]_F!flagVars
  BY NextCpuInv, FlagStepSteps
<1> QED
  BY <1>1, <1>2, CpuInvHolds, PTL DEF Spec, ImplementsFlagMachine

-----------------------------------------------------------------------------
(* An interrupt and its return.                                            *)

\* A word v is written at address a, and nothing else.
Written(n, k, a, v) ==
  \A x : ByteAt(k, x) = IF x = a THEN v % 256 ELSE IF x = a + 1 THEN v \div 256 ELSE ByteAt(n, x)

\* A word is on top of the stack, and nothing but that is new.
Pushed(n, k, v) ==
  LET sp == Word(n.r[SP] - 2)
  IN  /\ k.r = [n.r EXCEPT ![SP] = sp] /\ k.s = n.s /\ k.ip = n.ip /\ k.ctl = n.ctl
      /\ Written(n, k, StackAddress(n, sp), Word(v))

LEMMA SaveWrites ==
  ASSUME NEW n, IsMachine(n), NEW a, NEW v
  PROVE  /\ Written(n, Save(n, W, a, v), a, v)
         /\ Save(n, W, a, v) = [n EXCEPT !.mem = Save(n, W, a, v).mem]
<1> DEFINE mem == [x \in DOMAIN n.mem \cup {a, a + 1} |->
                     IF x = a THEN v % 256 ELSE IF x \in {a, a + 1} THEN v \div 256 ELSE n.mem[x]]
           k == [n EXCEPT !.mem = mem]
<1>1. Save(n, W, a, v) = k
  BY WordOperands, ByteOperands DEF Save, IsMachine, IsRecord
<1>2. k.mem = mem
  BY DEF IsMachine, IsRecord
<1> HIDE DEF k
<1>3. Written(n, k, a, v)
  <2> SUFFICES ASSUME NEW x
               PROVE  ByteAt(k, x) = IF x = a THEN v % 256
                                     ELSE IF x = a + 1 THEN v \div 256 ELSE ByteAt(n, x)
    BY DEF Written
  <2>1. DOMAIN mem = DOMAIN n.mem \cup {a, a + 1}
    OBVIOUS
  <2>2. CASE x \in {a, a + 1}
    BY <1>2, <2>1, <2>2 DEF ByteAt
  <2>3. CASE x \notin {a, a + 1}
    BY <1>2, <2>1, <2>3 DEF ByteAt
  <2> QED
    BY <2>2, <2>3
<1> QED
  BY <1>1, <1>2, <1>3 DEF k

LEMMA PushWrites ==
  ASSUME NEW n, IsMachine(n), NEW v
  PROVE  Pushed(n, Push16(n, v), v)
<1> DEFINE sp == Word(n.r[SP] - 2)
           j == SetReg(n, W, SP, sp)
           a == StackAddress(n, sp)
           k == Save(j, W, a, Word(v))
<1>1. Push16(n, v) = k
  BY DEF Push16
<1>2. sp \in Words
  BY MachineRegister, RegisterNames, WordRange DEF Words
<1>3. IsMachine(j)
  BY <1>2, WordMoves, RegisterNames, MovedMachine
<1>4. /\ j.r = [n.r EXCEPT ![SP] = sp] /\ j.s = n.s /\ j.ip = n.ip /\ j.ctl = n.ctl
      /\ j.mem = n.mem
  <2> HIDE DEF sp
  <2>1. j = [n EXCEPT !.r = [n.r EXCEPT ![SP] = sp]]
    BY DEF SetReg, IsMachine, IsRecord
  <2> HIDE DEF j
  <2> QED
    BY <2>1 DEF IsMachine, IsRecord
<1> HIDE DEF sp, j, a
<1>5. Written(j, k, a, Word(v)) /\ k = [j EXCEPT !.mem = k.mem]
  BY <1>3, SaveWrites
<1> HIDE DEF k
<1>6. k.r = j.r /\ k.s = j.s /\ k.ip = j.ip /\ k.ctl = j.ctl
  BY <1>3, <1>5 DEF IsMachine, IsRecord
<1>7. Written(n, k, a, Word(v))
  BY <1>4, <1>5 DEF Written, ByteAt
<1> QED
  BY <1>1, <1>4, <1>6, <1>7 DEF Pushed, a, sp

\* A written word is read back, ...
LEMMA WordRead ==
  ASSUME NEW n, NEW k, NEW a \in Int, NEW v \in Words, Written(n, k, a, v)
  PROVE  Load(k, W, a) = v
<1>1. ByteAt(k, a) = v % 256 /\ ByteAt(k, a + 1) = v \div 256
  BY DEF Written
<1>2. (v % 256) + (256 * (v \div 256)) = v
  BY DEF Words
<1> QED
  BY <1>1, <1>2, WordOperands, ByteOperands DEF Load

\* ... and a word that is written elsewhere leaves it.
LEMMA WordKept ==
  ASSUME NEW n, NEW k, NEW a \in Int, NEW b \in Int, NEW v, Written(n, k, a, v),
         b # a, b # a + 1, b + 1 # a
  PROVE  Load(k, W, b) = Load(n, W, b)
<1>1. ByteAt(k, b) = ByteAt(n, b) /\ ByteAt(k, b + 1) = ByteAt(n, b + 1)
  BY DEF Written
<1> QED
  BY <1>1, WordOperands, ByteOperands DEF Load

\* Three words below a stack pointer do not overlap, and it comes back to
\* where it was, whether it wraps or not.
LEMMA StackPlaces ==
  ASSUME NEW sp \in Words, NEW a, NEW b, NEW c,
         a = Word(sp - 2), b = Word(a - 2), c = Word(b - 2)
  PROVE  /\ a \in Words /\ b \in Words /\ c \in Words
         /\ b # a /\ b # a + 1 /\ b + 1 # a
         /\ c # a /\ c # a + 1 /\ c + 1 # a
         /\ c # b /\ c # b + 1 /\ c + 1 # b
         /\ Word(c + 2) = b /\ Word(b + 2) = a /\ Word(a + 2) = sp
<1>1. a = IF sp >= 2 THEN sp - 2 ELSE sp + 65534
  BY DEF Word, Words
<1>2. a \in Words
  BY <1>1 DEF Words
<1>3. b = IF a >= 2 THEN a - 2 ELSE a + 65534
  BY <1>2 DEF Word, Words
<1>4. b \in Words
  BY <1>2, <1>3 DEF Words
<1>5. c = IF b >= 2 THEN b - 2 ELSE b + 65534
  BY <1>4 DEF Word, Words
<1>6. c \in Words
  BY <1>4, <1>5 DEF Words
<1>7. Word(c + 2) = b
  BY <1>4, <1>5 DEF Word, Words
<1>8. Word(b + 2) = a
  BY <1>2, <1>3 DEF Word, Words
<1>9. Word(a + 2) = sp
  BY <1>1 DEF Word, Words
<1>10. /\ b # a /\ b # a + 1 /\ b + 1 # a
       /\ c # a /\ c # a + 1 /\ c + 1 # a
       /\ c # b /\ c # b + 1 /\ c + 1 # b
  BY <1>1, <1>3, <1>5 DEF Words
<1> QED
  BY <1>2, <1>4, <1>6, <1>7, <1>8, <1>9, <1>10

\* A machine's flags in the word of the flags register, and back.
LEMMA FlagsRoundTrip ==
  ASSUME NEW n, IsMachine(n), NEW w, w = FlagsWord(n)
  PROVE  /\ [f \in Conditions |-> HasBit(w, f)] = n.fl
         /\ [f \in Controls |-> HasBit(w, f)] = n.ctl
<1> DEFINE value(f) == IF f \in Conditions THEN n.fl[f] ELSE n.ctl[f]
           bit(f) == IF value(f) THEN Weight[f] ELSE 0
           one(f) == IF value(f) THEN 1 ELSE 0
<1>1. /\ bit("CF") = one("CF") /\ bit("PF") = 4 * one("PF") /\ bit("AF") = 16 * one("AF")
      /\ bit("ZF") = 64 * one("ZF") /\ bit("SF") = 128 * one("SF")
      /\ bit("TF") = 256 * one("TF") /\ bit("IF") = 512 * one("IF")
      /\ bit("DF") = 1024 * one("DF") /\ bit("OF") = 2048 * one("OF")
  BY DEF Weight, Conditions, Controls
<1>2. w = 2 + bit("CF") + bit("PF") + bit("AF") + bit("ZF") + bit("SF")
        + bit("TF") + bit("IF") + bit("DF") + bit("OF")
  BY DEF FlagsWord
<1>3. \A f : one(f) \in {0, 1} /\ (value(f) \in BOOLEAN => ((one(f) = 1) = value(f)))
  OBVIOUS
<1> HIDE DEF bit, one
<1> DEFINE c == one("CF")
           p == one("PF")
           a == one("AF")
           z == one("ZF")
           s == one("SF")
           t == one("TF")
           i == one("IF")
           d == one("DF")
           o == one("OF")
<1>4. /\ c \in {0, 1} /\ p \in {0, 1} /\ a \in {0, 1} /\ z \in {0, 1} /\ s \in {0, 1}
      /\ t \in {0, 1} /\ i \in {0, 1} /\ d \in {0, 1} /\ o \in {0, 1}
  BY <1>3
<1>5. w = 2 + c + 4 * p + 16 * a + 64 * z + 128 * s + 256 * t + 512 * i + 1024 * d + 2048 * o
  BY <1>1, <1>2, <1>4
<1> HIDE DEF c, p, a, z, s, t, i, d, o
<1>6. (w \div 1) % 2 = c /\ (w \div 4) % 2 = p /\ (w \div 16) % 2 = a
  BY <1>4, <1>5
<1>7. (w \div 64) % 2 = z /\ (w \div 128) % 2 = s /\ (w \div 256) % 2 = t
  BY <1>4, <1>5
<1>8. (w \div 512) % 2 = i /\ (w \div 1024) % 2 = d /\ (w \div 2048) % 2 = o
  BY <1>4, <1>5
<1>9. n.fl \in FlagRegisters /\ n.ctl \in ControlRegisters
  BY DEF IsMachine
<1>10. ASSUME NEW f \in Conditions \cup Controls
       PROVE  HasBit(w, f) = value(f)
  <2>1. (w \div Weight[f]) % 2 = one(f)
    BY <1>6, <1>7, <1>8 DEF Weight, Conditions, Controls, c, p, a, z, s, t, i, d, o
  <2>2. value(f) \in BOOLEAN
    BY <1>9 DEF FlagRegisters, ControlRegisters
  <2> QED
    BY <1>3, <2>1, <2>2 DEF HasBit
<1>11. \A f \in Controls : f \notin Conditions
  BY DEF Controls, Conditions
<1> QED
  BY <1>9, <1>10, <1>11 DEF FlagRegisters, ControlRegisters

LEMMA SetControlKeeps ==
  ASSUME NEW n, IsMachine(n), NEW f, NEW b \in BOOLEAN, NEW k, k = SetControl(n, f, b)
  PROVE  IsMachine(k) /\ k.r = n.r /\ k.s = n.s /\ k.mem = n.mem
<1>1. IsMachine(k)
  BY SetControlMoves, MovedMachine
<1>2. k.r = n.r /\ k.s = n.s /\ k.mem = n.mem
  BY DEF SetControl, IsMachine, IsRecord
<1> QED
  BY <1>1, <1>2

LEMMA JumpFarKeeps ==
  ASSUME NEW n, IsMachine(n), NEW cs, NEW ip, NEW k, k = JumpFar(n, cs, ip)
  PROVE  /\ IsRecord(k) /\ k.r = n.r /\ k.s = [n.s EXCEPT !["cs"] = cs] /\ k.ip = ip
         /\ k.mem = n.mem
<1> DEFINE s == [n.s EXCEPT !["cs"] = cs]
           j == [n EXCEPT !.s = s]
<1>1. k = [j EXCEPT !.ip = ip]
  BY DEF JumpFar, IsMachine, IsRecord
<1> HIDE DEF s
<1>2. IsRecord(j) /\ j.r = n.r /\ j.s = s /\ j.mem = n.mem
  BY DEF IsMachine, IsRecord
<1> HIDE DEF j
<1> QED
  BY <1>1, <1>2 DEF IsRecord, s

LEMMA FlagsWordSets ==
  ASSUME NEW n, IsRecord(n), NEW word, NEW k, k = SetFlagsWord(n, word)
  PROVE  /\ IsRecord(k) /\ k.r = n.r /\ k.s = n.s /\ k.ip = n.ip /\ k.mem = n.mem
         /\ k.fl = [f \in Conditions |-> HasBit(word, f)]
         /\ k.ctl = [f \in Controls |-> HasBit(word, f)]
         /\ k.lf = Unknown
<1> DEFINE fl == [f \in Conditions |-> HasBit(word, f)]
           ctl == [f \in Controls |-> HasBit(word, f)]
           j == [n EXCEPT !.fl = fl]
           l == [j EXCEPT !.ctl = ctl]
<1>1. k = [l EXCEPT !.lf = Unknown]
  BY DEF SetFlagsWord
<1> HIDE DEF fl, ctl
<1>2. /\ IsRecord(j) /\ j.r = n.r /\ j.s = n.s /\ j.ip = n.ip /\ j.mem = n.mem
      /\ j.fl = fl
  BY DEF IsRecord
<1> HIDE DEF j
<1>3. /\ IsRecord(l) /\ l.r = j.r /\ l.s = j.s /\ l.ip = j.ip /\ l.mem = j.mem
      /\ l.fl = j.fl /\ l.ctl = ctl
  BY <1>2 DEF IsRecord
<1> HIDE DEF l
<1>4. /\ IsRecord(k) /\ k.r = l.r /\ k.s = l.s /\ k.ip = l.ip /\ k.mem = l.mem
      /\ k.fl = l.fl /\ k.ctl = l.ctl /\ k.lf = Unknown
  BY <1>1, <1>3 DEF IsRecord
<1> QED
  BY <1>2, <1>3, <1>4 DEF fl, ctl

LEMMA FillKeepsTheRest ==
  ASSUME NEW n, IsMachine(n), NEW k, k = Fill(n)
  PROVE  /\ k.r = n.r /\ k.s = n.s /\ k.ip = n.ip /\ k.ctl = n.ctl /\ k.mem = n.mem
         /\ k.fl = FillFlags(n.fl, n.lf)
<1> DEFINE fl == FillFlags(n.fl, n.lf)
           j == [n EXCEPT !.fl = fl]
<1>1. k = [j EXCEPT !.lf = Unknown]
  BY DEF Fill
<1> HIDE DEF fl
<1>2. /\ j.r = n.r /\ j.s = n.s /\ j.ip = n.ip /\ j.ctl = n.ctl /\ j.mem = n.mem /\ j.fl = fl
      /\ IsRecord(j)
  BY DEF IsMachine, IsRecord
<1> HIDE DEF j
<1> QED
  BY <1>1, <1>2 DEF IsRecord, fl

\* Where an interrupt pushes its three words: at a, b and c.
FramePlaces(n, a, b, c) ==
  a = Word(n.r[SP] - 2) /\ b = Word(a - 2) /\ c = Word(b - 2)

\* The interrupt's frame is complete and the rest of the machine as it was,
\* but for where it goes on.
Framed(n, k, a, b, c) ==
  /\ k.r = [n.r EXCEPT ![SP] = c]
  /\ \A x \in Names \ {"cs"} : k.s[x] = n.s[x]
  /\ Load(k, W, StackAddress(n, a)) = FlagsWord(Fill(n))
  /\ Load(k, W, StackAddress(n, b)) = n.s["cs"]
  /\ Load(k, W, StackAddress(n, c)) = Word(n.ip)

\* The bytes of the frame on top of a machine's stack.
FrameBytes(k) == {StackAddress(k, Word(k.r[SP] + d)) + b : d \in {0, 2, 4}, b \in {0, 1}}

BytesAt(n, a, b, c) == {StackAddress(n, a), StackAddress(n, a) + 1, StackAddress(n, b),
                        StackAddress(n, b) + 1, StackAddress(n, c), StackAddress(n, c) + 1}

LEMMA FrameBytesOf ==
  ASSUME NEW n, IsMachine(n), NEW k, NEW a, NEW b, NEW c, FramePlaces(n, a, b, c),
         k.r[SP] = c, k.s["ss"] = n.s["ss"]
  PROVE  FrameBytes(k) = BytesAt(n, a, b, c)
<1>1. n.r[SP] \in Words /\ n.s["ss"] \in Words
  BY MachineRegister, RegisterNames, MachineSegment DEF Names
<1>2. /\ a \in Words /\ b \in Words /\ c \in Words
      /\ Word(c + 2) = b /\ Word(b + 2) = a
  BY <1>1, StackPlaces DEF FramePlaces
<1>3. Word(c + 0) = c /\ Word(c + 4) = a
  BY <1>2 DEF Word, Words
<1>4. \A x : StackAddress(k, x) = StackAddress(n, x)
  BY DEF StackAddress, Phys
<1>5. \A x \in Words : StackAddress(n, x) \in Int
  BY <1>1 DEF StackAddress, Phys, Words
<1> DEFINE at(x) == StackAddress(n, x)
<1>6. FrameBytes(k) = {at(Word(c + d)) + e : d \in {0, 2, 4}, e \in {0, 1}}
  BY <1>4 DEF FrameBytes
<1>7. at(a) + 0 = at(a) /\ at(b) + 0 = at(b) /\ at(c) + 0 = at(c)
  BY <1>2, <1>5
<1> HIDE DEF at
<1> QED
  BY <1>2, <1>3, <1>6, <1>7 DEF at, BytesAt

LEMMA InterruptFrames ==
  ASSUME NEW n, Ready(n), NEW num, NEW a, NEW b, NEW c, FramePlaces(n, a, b, c)
  PROVE  /\ Framed(n, Interrupt(n, num), a, b, c)
         /\ \A x : x \notin FrameBytes(Interrupt(n, num))
                     => ByteAt(Interrupt(n, num), x) = ByteAt(n, x)
<1> DEFINE full == Fill(n)
           word == FlagsWord(full)
           k1 == Push16(full, word)
           k2 == Push16(k1, n.s["cs"])
           k3 == Push16(k2, n.ip)
           k4 == SetControl(k3, "IF", FALSE)
           k5 == SetControl(k4, "TF", TRUE)
           cs == Load(k3, W, (4 * num) + 2)
           ip == Load(k3, W, 4 * num)
           k6 == JumpFar(k5, cs, ip)
<1>1. Interrupt(n, num) = k6
  BY DEF Interrupt, Frame
<1> HIDE DEF cs, ip
<1>2. IsMachine(n) /\ IsMachine(full) /\ word \in Words /\ n.s["cs"] \in Words /\ n.ip \in Nat
  BY FillFills, RanReady, FlagsWordRange, MachineSegment DEF Ready, Names, IsMachine
<1>3. /\ full.r = n.r /\ full.s = n.s /\ full.mem = n.mem
  BY <1>2, FillKeepsTheRest
<1> HIDE DEF full, word
<1>4. IsMachine(k1) /\ Pushed(full, k1, word)
  BY <1>2, PushMoves, MovedMachine, PushWrites DEF Words
<1> HIDE DEF k1
<1>5. IsMachine(k2) /\ Pushed(k1, k2, n.s["cs"])
  BY <1>2, <1>4, PushMoves, MovedMachine, PushWrites DEF Words
<1> HIDE DEF k2
<1>6. IsMachine(k3) /\ Pushed(k2, k3, n.ip)
  BY <1>2, <1>5, PushMoves, MovedMachine, PushWrites
<1> HIDE DEF k3
<1>7. k6.r = k3.r /\ k6.mem = k3.mem /\ \A x \in Names \ {"cs"} : k6.s[x] = k3.s[x]
  <2>1. IsMachine(k4) /\ k4.r = k3.r /\ k4.mem = k3.mem /\ k4.s = k3.s
    BY <1>6, SetControlKeeps
  <2> HIDE DEF k4
  <2>2. IsMachine(k4)
    BY <2>1
  <2>3. IsMachine(k5) /\ k5.r = k4.r /\ k5.mem = k4.mem /\ k5.s = k4.s
    BY <2>2, SetControlKeeps, Zenon
  <2>4. k5.s \in SegmentRegisters
    BY <2>3 DEF IsMachine
  <2> HIDE DEF k5
  <2>5. k6.r = k5.r /\ k6.mem = k5.mem /\ \A x \in Names \ {"cs"} : k6.s[x] = k5.s[x]
    <3>1. k6.r = k5.r /\ k6.mem = k5.mem
          /\ k6.s = [k5.s EXCEPT !["cs"] = cs]
      BY <2>3, JumpFarKeeps
    <3> HIDE DEF k6
    <3> QED
      BY <2>4, <3>1 DEF SegmentRegisters
  <2> QED
    BY <2>1, <2>3, <2>5
<1> HIDE DEF k6
<1>8. n.r[SP] \in Words /\ n.s["ss"] \in Words /\ n.r \in Registers
  BY <1>2, MachineRegister, RegisterNames, MachineSegment DEF Names, IsMachine
<1>9. /\ a \in Words /\ b \in Words /\ c \in Words
      /\ b # a /\ b # a + 1 /\ b + 1 # a
      /\ c # a /\ c # a + 1 /\ c + 1 # a
      /\ c # b /\ c # b + 1 /\ c + 1 # b
  BY <1>8, StackPlaces DEF FramePlaces
<1> DEFINE top == 16 * n.s["ss"]
           pa == StackAddress(n, a)
           pb == StackAddress(n, b)
           pc == StackAddress(n, c)
<1>10. pa = top + a /\ pb = top + b /\ pc = top + c /\ top \in Int
  BY <1>8 DEF StackAddress, Phys, Words
<1> HIDE DEF top
<1>11. /\ pa \in Int /\ pb \in Int /\ pc \in Int
       /\ pb # pa /\ pb # pa + 1 /\ pb + 1 # pa
       /\ pc # pa /\ pc # pa + 1 /\ pc + 1 # pa
       /\ pc # pb /\ pc # pb + 1 /\ pc + 1 # pb
  BY <1>9, <1>10 DEF Words
<1>12. k1.r = [n.r EXCEPT ![SP] = a] /\ k1.s = n.s /\ Written(full, k1, pa, Word(word))
  BY <1>3, <1>4 DEF Pushed, FramePlaces, StackAddress, Phys
<1>13. k1.r[SP] = a
  BY <1>8, <1>12, RegisterNames DEF Registers
<1>14. /\ k2.r = [n.r EXCEPT ![SP] = b] /\ k2.s = n.s
       /\ Written(k1, k2, pb, Word(n.s["cs"]))
  <2>1. k2.r = [k1.r EXCEPT ![SP] = b] /\ k2.s = n.s /\ Written(k1, k2, pb, Word(n.s["cs"]))
    BY <1>5, <1>12, <1>13 DEF Pushed, FramePlaces, StackAddress, Phys
  <2> QED
    BY <1>8, <1>12, <2>1 DEF Registers
<1>15. k2.r[SP] = b
  BY <1>8, <1>14, RegisterNames DEF Registers
<1>16. k3.r = [n.r EXCEPT ![SP] = c] /\ k3.s = n.s /\ Written(k2, k3, pc, Word(n.ip))
  <2>1. k3.r = [k2.r EXCEPT ![SP] = c] /\ k3.s = n.s /\ Written(k2, k3, pc, Word(n.ip))
    BY <1>6, <1>14, <1>15 DEF Pushed, FramePlaces, StackAddress, Phys
  <2> QED
    BY <1>8, <1>14, <2>1 DEF Registers
<1>17. Word(word) = word /\ Word(n.s["cs"]) = n.s["cs"] /\ Word(n.ip) \in Words
  BY <1>2, WordRange DEF Word, Words
<1> HIDE DEF pa, pb, pc
<1>18. Load(k1, W, pa) = word /\ Load(k2, W, pb) = n.s["cs"] /\ Load(k3, W, pc) = Word(n.ip)
  BY <1>2, <1>11, <1>12, <1>14, <1>16, <1>17, WordRead
<1>19. /\ Load(k2, W, pa) = Load(k1, W, pa) /\ Load(k3, W, pa) = Load(k2, W, pa)
       /\ Load(k3, W, pb) = Load(k2, W, pb)
  <2>1. pa # pb /\ pa # pb + 1 /\ pa + 1 # pb /\ pa # pc /\ pa # pc + 1 /\ pa + 1 # pc
        /\ pb # pc /\ pb # pc + 1 /\ pb + 1 # pc
    BY <1>11
  <2> QED
    BY <1>11, <1>14, <1>16, <2>1, WordKept
<1>20. \A p : Load(k6, W, p) = Load(k3, W, p)
  BY <1>7 DEF Load, ByteAt
<1>21. Framed(n, k6, a, b, c)
  BY <1>7, <1>16, <1>18, <1>19, <1>20 DEF Framed, pa, pb, pc, word, full
<1>22. FrameBytes(k6) = {pa, pa + 1, pb, pb + 1, pc, pc + 1}
  <2>1. k6.r[SP] = c /\ k6.s["ss"] = n.s["ss"]
    BY <1>7, <1>8, <1>16, RegisterNames DEF Registers, Names
  <2>2. FrameBytes(k6) = BytesAt(n, a, b, c)
    BY <1>2, <2>1, FrameBytesOf
  <2> QED
    BY <2>2 DEF BytesAt, pa, pb, pc
<1>23. ASSUME NEW x, x \notin {pa, pa + 1, pb, pb + 1, pc, pc + 1}
       PROVE  ByteAt(k6, x) = ByteAt(n, x)
  <2>1. ByteAt(k6, x) = ByteAt(k3, x) /\ ByteAt(full, x) = ByteAt(n, x)
    BY <1>3, <1>7 DEF ByteAt
  <2>2. ByteAt(k3, x) = ByteAt(k2, x) /\ ByteAt(k2, x) = ByteAt(k1, x) /\ ByteAt(k1, x) = ByteAt(full, x)
    BY <1>12, <1>14, <1>16, <1>23 DEF Written
  <2> QED
    BY <2>1, <2>2
<1> QED
  BY <1>1, <1>21, <1>22, <1>23

LEMMA PopKeeps ==
  ASSUME NEW n, IsMachine(n), NEW k, k = Pop16(n)
  PROVE  /\ IsMachine(k) /\ k.r = [n.r EXCEPT ![SP] = Word(n.r[SP] + 2)] /\ k.s = n.s
         /\ k.mem = n.mem
<1>1. IsMachine(k)
  BY PopMoves, MovedMachine
<1>2. k = [n EXCEPT !.r = [n.r EXCEPT ![SP] = Word(n.r[SP] + 2)]]
  BY DEF Pop16, SetReg, IsMachine, IsRecord
<1>3. /\ k.r = [n.r EXCEPT ![SP] = Word(n.r[SP] + 2)] /\ k.s = n.s
      /\ k.mem = n.mem
  BY <1>2 DEF IsMachine, IsRecord
<1> QED
  BY <1>1, <1>3

\* A handler is at its IRET: its stack is where the interrupt k left it, with
\* the frame as it was pushed.
HandlerEnds(k, j) ==
  /\ IsMachine(j)
  /\ j.s["ss"] = k.s["ss"] /\ j.r[SP] = k.r[SP]
  /\ \A x \in FrameBytes(k) : ByteAt(j, x) = ByteAt(k, x)

\* Back where machine n was interrupted, from the handler's end j.
Restored(n, j, back) ==
  /\ back.r = [j.r EXCEPT ![SP] = n.r[SP]]
  /\ back.s = [j.s EXCEPT !["cs"] = n.s["cs"]]
  /\ back.ip = Word(n.ip)
  /\ back.fl = FillFlags(n.fl, n.lf) /\ back.lf = Unknown /\ back.ctl = n.ctl
  /\ back.mem = j.mem

LEMMA LoadSame ==
  ASSUME NEW k, NEW j, NEW a, ByteAt(j, a) = ByteAt(k, a), ByteAt(j, a + 1) = ByteAt(k, a + 1)
  PROVE  Load(j, W, a) = Load(k, W, a)
  BY DEF Load

\* IRET restores what the interrupt pushed, wherever the stack pointer is (it
\* wraps in 16 bits) and whatever the handler did above and below the frame.
THEOREM InterruptReturnRestores ==
  ASSUME NEW n, Ready(n), NEW num, NEW j, HandlerEnds(Interrupt(n, num), j)
  PROVE  Restored(n, j, InterruptReturn(j))
<1> DEFINE k == Interrupt(n, num)
           a == Word(n.r[SP] - 2)
           b == Word(a - 2)
           c == Word(b - 2)
           word == FlagsWord(Fill(n))
           pa == StackAddress(n, a)
           pb == StackAddress(n, b)
           pc == StackAddress(n, c)
<1>1. FramePlaces(n, a, b, c)
  BY DEF FramePlaces
<1>2. IsMachine(n) /\ n.r[SP] \in Words /\ n.r \in Registers /\ IsMachine(Fill(n))
  BY MachineRegister, RegisterNames, FillFills, RanReady DEF Ready, IsMachine
<1>3. /\ a \in Words /\ b \in Words /\ c \in Words
      /\ Word(c + 2) = b /\ Word(b + 2) = a /\ Word(a + 2) = n.r[SP]
  BY <1>2, StackPlaces
<1> HIDE DEF a, b, c
<1>4. Framed(n, k, a, b, c)
  BY <1>1, InterruptFrames
<1> HIDE DEF k
<1>5. k.r[SP] = c /\ k.s["ss"] = n.s["ss"]
  BY <1>2, <1>4, RegisterNames DEF Framed, Registers, Names
<1>6. FrameBytes(k) = {pa, pa + 1, pb, pb + 1, pc, pc + 1}
  <2>1. FrameBytes(k) = BytesAt(n, a, b, c)
    BY <1>1, <1>2, <1>5, FrameBytesOf
  <2> QED
    BY <2>1 DEF BytesAt
<1>7. /\ IsMachine(j) /\ j.s["ss"] = n.s["ss"] /\ j.r[SP] = c
      /\ \A x \in {pa, pa + 1, pb, pb + 1, pc, pc + 1} : ByteAt(j, x) = ByteAt(k, x)
  BY <1>5, <1>6 DEF HandlerEnds, k
<1> HIDE DEF pa, pb, pc
<1>8. Load(j, W, pa) = word /\ Load(j, W, pb) = n.s["cs"] /\ Load(j, W, pc) = Word(n.ip)
  <2>1. /\ Load(j, W, pa) = Load(k, W, pa) /\ Load(j, W, pb) = Load(k, W, pb)
        /\ Load(j, W, pc) = Load(k, W, pc)
    BY <1>7, LoadSame
  <2>2. /\ Load(k, W, pa) = word /\ Load(k, W, pb) = n.s["cs"]
        /\ Load(k, W, pc) = Word(n.ip)
    BY <1>4 DEF Framed, pa, pb, pc
  <2> QED
    BY <2>1, <2>2
<1> DEFINE k1 == Pop16(j)
           k2 == Pop16(k1)
           k3 == Pop16(k2)
           x == JumpFar(k3, Top16(k1), Top16(j))
           y == SetFlagsWord(x, Top16(k2))
<1>9. \/ InterruptReturn(j) = Leave(Trap(y)) \/ InterruptReturn(j) = Leave(y)
      \/ InterruptReturn(j) = y
  BY DEF InterruptReturn
<1>10. j.r \in Registers /\ SP \in 0 .. 7
  BY <1>7, RegisterNames DEF IsMachine
<1>11. Top16(j) = Word(n.ip)
  BY <1>7, <1>8 DEF Top16, StackAddress, Phys, pc
<1>12. IsMachine(k1) /\ k1.r = [j.r EXCEPT ![SP] = b] /\ k1.s = j.s /\ k1.mem = j.mem
  BY <1>3, <1>7, PopKeeps
<1> HIDE DEF k1
<1>13. k1.r[SP] = b
  BY <1>10, <1>12 DEF Registers
<1>14. Top16(k1) = n.s["cs"]
  <2>1. Top16(k1) = Load(k1, W, pb)
    BY <1>7, <1>12, <1>13 DEF Top16, StackAddress, Phys, pb
  <2> QED
    BY <1>8, <1>12, <2>1 DEF Load, ByteAt
<1>15. IsMachine(k2) /\ k2.r = [j.r EXCEPT ![SP] = a] /\ k2.s = j.s /\ k2.mem = j.mem
  <2>1. IsMachine(k2) /\ k2.r = [k1.r EXCEPT ![SP] = a] /\ k2.s = k1.s /\ k2.mem = k1.mem
    BY <1>3, <1>12, <1>13, PopKeeps
  <2> HIDE DEF k2
  <2> QED
    BY <1>10, <1>12, <2>1 DEF Registers
<1> HIDE DEF k2
<1>16. k2.r[SP] = a
  BY <1>10, <1>15 DEF Registers
<1>17. Top16(k2) = word
  <2>1. Top16(k2) = Load(k2, W, pa)
    BY <1>7, <1>15, <1>16 DEF Top16, StackAddress, Phys, pa
  <2> QED
    BY <1>8, <1>15, <2>1 DEF Load, ByteAt
<1>18. IsMachine(k3) /\ k3.r = [j.r EXCEPT ![SP] = n.r[SP]] /\ k3.s = j.s /\ k3.mem = j.mem
  <2>1. IsMachine(k3) /\ k3.r = [k2.r EXCEPT ![SP] = n.r[SP]] /\ k3.s = k2.s /\ k3.mem = k2.mem
    BY <1>3, <1>15, <1>16, PopKeeps
  <2> HIDE DEF k3
  <2> QED
    BY <1>10, <1>15, <2>1 DEF Registers
<1> HIDE DEF k3
<1>19. /\ x.r = k3.r /\ x.s = [j.s EXCEPT !["cs"] = n.s["cs"]] /\ x.ip = Word(n.ip)
       /\ x.mem = k3.mem /\ IsRecord(x)
  BY <1>11, <1>14, <1>18, JumpFarKeeps
<1> HIDE DEF x
<1>20. /\ y.r = x.r /\ y.s = x.s /\ y.ip = x.ip /\ y.mem = x.mem
       /\ y.fl = [f \in Conditions |-> HasBit(word, f)]
       /\ y.ctl = [f \in Controls |-> HasBit(word, f)]
       /\ y.lf = Unknown /\ IsRecord(y)
  BY <1>17, <1>19, FlagsWordSets
<1> HIDE DEF y
<1>21. Fill(n).fl = FillFlags(n.fl, n.lf) /\ Fill(n).ctl = n.ctl
  BY <1>2, FillKeepsTheRest
<1>22. y.fl = FillFlags(n.fl, n.lf) /\ y.ctl = n.ctl
  BY <1>2, <1>20, <1>21, FlagsRoundTrip
<1>23. Restored(n, j, y)
  BY <1>18, <1>19, <1>20, <1>22 DEF Restored
<1>24. Restored(n, j, Leave(y)) /\ Restored(n, j, Leave(Trap(y)))
  BY <1>20, <1>23 DEF Restored, Leave, Trap, IsRecord
<1> QED
  BY <1>9, <1>23, <1>24

\* The handler also gives back the other registers, and writes elsewhere.
HandlerKeeps(k, j, written) ==
  /\ HandlerEnds(k, j)
  /\ j.r = k.r /\ \A x \in Names \ {"cs"} : j.s[x] = k.s[x]
  /\ \A x : x \notin written => ByteAt(j, x) = ByteAt(k, x)

\* A program cannot tell where an interrupt came in: after a handler that
\* keeps the registers, IRET gives it the registers, the segments, the place
\* and the controls it had, its flags filled in, and every byte that is
\* neither the handler's nor in the six of the frame.
THEOREM InterruptIsTransparent ==
  ASSUME NEW n, Ready(n), NEW num, NEW written, NEW j,
         HandlerKeeps(Interrupt(n, num), j, written),
         NEW back, back = InterruptReturn(j)
  PROVE  /\ back.r = n.r /\ back.s = n.s /\ back.ip = Word(n.ip) /\ back.ctl = n.ctl
         /\ back.fl = FillFlags(n.fl, n.lf) /\ back.lf = Unknown
         /\ \A x : x \notin written \cup FrameBytes(Interrupt(n, num))
                     => ByteAt(back, x) = ByteAt(n, x)
<1> DEFINE k == Interrupt(n, num)
           a == Word(n.r[SP] - 2)
           b == Word(a - 2)
           c == Word(b - 2)
<1>1. FramePlaces(n, a, b, c)
  BY DEF FramePlaces
<1> HIDE DEF a, b, c
<1>2. /\ Framed(n, k, a, b, c)
      /\ \A x : x \notin FrameBytes(k) => ByteAt(k, x) = ByteAt(n, x)
  BY <1>1, InterruptFrames
<1>3. Restored(n, j, back)
  BY InterruptReturnRestores DEF HandlerKeeps
<1>4. /\ IsMachine(j) /\ j.r = k.r /\ \A x \in Names \ {"cs"} : j.s[x] = k.s[x]
      /\ \A x : x \notin written => ByteAt(j, x) = ByteAt(k, x)
  BY DEF HandlerKeeps, HandlerEnds
<1>5. n.r \in Registers /\ n.s \in SegmentRegisters /\ j.s \in SegmentRegisters
  BY <1>4 DEF Ready, IsMachine
<1> HIDE DEF k
<1>6. back.r = n.r
  BY <1>2, <1>3, <1>4, <1>5, RegisterNames DEF Restored, Framed, Registers
<1>7. back.s = n.s
  BY <1>2, <1>3, <1>4, <1>5 DEF Restored, Framed, SegmentRegisters, Names
<1>8. ASSUME NEW x, x \notin written \cup FrameBytes(k)
      PROVE  ByteAt(back, x) = ByteAt(n, x)
  <2>1. ByteAt(back, x) = ByteAt(j, x)
    BY <1>3 DEF Restored, ByteAt
  <2> QED
    BY <1>2, <1>4, <1>8, <2>1
<1> QED
  BY <1>3, <1>6, <1>7, <1>8 DEF Restored, k

=============================================================================
