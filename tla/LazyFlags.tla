----------------------------- MODULE LazyFlags ------------------------------
(* The condition flags of the decoder (core/cpu_decode.c).  An arithmetic  *)
(* instruction does not compute them: it notes its type, operands and      *)
(* result in lflags, and a flag is worked out when an instruction asks for *)
(* it (get_CF .. get_PF) or when all of them have to be in the flags       *)
(* register (FillFlags).  The two are separate code for the same promise.  *)
(*                                                                         *)
(* An operand's width is its sign bit: 16#80, 16#8000 or 16#80000000.      *)
EXTENDS Integers

CONSTANT Signs                   \* the widths in use

ASSUME SignAssumption == \A s \in Signs : s \in Nat /\ s > 0 /\ s % 16 = 0

Conditions == {"CF", "PF", "AF", "ZF", "SF", "OF"}

Additions == {"ADD", "ADC"}
Subtractions == {"SUB", "CMP", "SBB"}
Logics == {"OR", "AND", "XOR", "TEST"}
Shifts == {"SHL", "SHR", "SAR"}
DoubleShifts == {"DSHL", "DSHR"}
Types == {"UNKNOWN", "INC", "DEC", "NEG"} \cup Additions \cup Subtractions
           \cup Logics \cup Shifts \cup DoubleShifts

(* struct lflags: top is the upper word of var1 in a double shift, whose   *)
(* first operand is twice as wide as its result.                           *)
Lazy(type, var1, var2, res, sign) ==
  [type |-> type, var1 |-> var1, var2 |-> var2, res |-> res, sign |-> sign,
   oldcf |-> FALSE, top |-> 0]

Operands(sign) == 0 .. 2 * sign - 1

Unknown == Lazy("UNKNOWN", 0, 0, 0, 128)

-----------------------------------------------------------------------------
(* Bits of a word.                                                         *)

Bit(x, n) == (x \div 2^n) % 2 = 1
SameSign(x, y, sign) == (x >= sign) = (y >= sign)
Nibble(x) == x % 16
Power(sign) == CHOOSE n \in 0 .. 31 : 2^n = sign       \* the sign bit's place

\* parity_lookup: an even number of ones in the low byte.
EvenParity(x) ==
  (x + x \div 2 + x \div 4 + x \div 8 + x \div 16 + x \div 32 + x \div 64
     + x \div 128) % 2 = 0

\* Bit 4 of var1 ^ var2 ^ res: what crossed from the low nibble.
CrossesNibble(lf) ==
  (lf.var1 \div 16 + lf.var2 \div 16 + lf.res \div 16) % 2 = 1

\* The last bit shifted out.
OutLeft(lf) ==
  lf.var2 <= Power(lf.sign) + 1 /\ Bit(lf.var1, Power(lf.sign) + 1 - lf.var2)
OutRight(lf) == Bit(lf.var1, lf.var2 - 1)
OutDoubleLeft(lf) ==
  IF lf.var2 <= 16 THEN Bit(lf.top, 16 - lf.var2) ELSE Bit(lf.var1, 32 - lf.var2)
OutDoubleRight(lf) ==
  IF lf.var2 <= 16 THEN Bit(lf.var1, lf.var2 - 1) ELSE Bit(lf.top, lf.var2 - 17)

-----------------------------------------------------------------------------
(* Asking for one flag.                                                    *)

GetCF(fl, lf) ==
  \/ lf.type \in {"UNKNOWN", "INC", "DEC"} /\ fl["CF"]
  \/ lf.type = "ADD" /\ lf.res < lf.var1
  \/ lf.type = "ADC" /\ (lf.res < lf.var1 \/ (lf.oldcf /\ lf.res = lf.var1))
  \/ lf.type = "SBB" /\ (lf.var1 < lf.res \/ (lf.oldcf /\ lf.var2 = 2 * lf.sign - 1))
  \/ lf.type \in {"SUB", "CMP"} /\ lf.var1 < lf.var2
  \/ lf.type = "SHL" /\ OutLeft(lf)
  \/ lf.type \in {"SHR", "SAR"} /\ OutRight(lf)
  \/ lf.type = "DSHL" /\ OutDoubleLeft(lf)
  \/ lf.type = "DSHR" /\ OutDoubleRight(lf)
  \/ lf.type = "NEG" /\ lf.var1 # 0

GetAF(fl, lf) ==
  \/ lf.type = "UNKNOWN" /\ fl["AF"]
  \/ lf.type \in Additions \cup Subtractions /\ CrossesNibble(lf)
  \/ lf.type = "INC" /\ Nibble(lf.res) = 0
  \/ lf.type = "DEC" /\ Nibble(lf.res) = 15
  \/ lf.type = "NEG" /\ Nibble(lf.var1) # 0
  \/ lf.type \in Shifts /\ lf.var2 % 32 # 0

GetZF(fl, lf) == IF lf.type = "UNKNOWN" THEN fl["ZF"] ELSE lf.res = 0

GetSF(fl, lf) == IF lf.type = "UNKNOWN" THEN fl["SF"] ELSE lf.res >= lf.sign

GetOF(fl, lf) ==
  \/ lf.type = "UNKNOWN" /\ fl["OF"]
  \/ /\ lf.type \in Additions
     /\ SameSign(lf.var1, lf.var2, lf.sign)
     /\ ~SameSign(lf.res, lf.var2, lf.sign)
  \/ /\ lf.type \in Subtractions
     /\ ~SameSign(lf.var1, lf.var2, lf.sign)
     /\ ~SameSign(lf.var1, lf.res, lf.sign)
  \/ lf.type = "INC" /\ lf.res = lf.sign
  \/ lf.type = "DEC" /\ lf.res = lf.sign - 1
  \/ lf.type = "NEG" /\ lf.var1 = lf.sign
  \/ lf.type \in {"SHL"} \cup DoubleShifts /\ ~SameSign(lf.res, lf.var1, lf.sign)
  \/ lf.type = "SHR" /\ lf.var2 % 32 = 1 /\ lf.var1 > lf.sign

GetPF(fl, lf) == IF lf.type = "UNKNOWN" THEN fl["PF"] ELSE EvenParity(lf.res)

\* What a program sees of the flags.
Asked(fl, lf) ==
  [f \in Conditions |->
    \/ f = "CF" /\ GetCF(fl, lf)
    \/ f = "AF" /\ GetAF(fl, lf)
    \/ f = "ZF" /\ GetZF(fl, lf)
    \/ f = "SF" /\ GetSF(fl, lf)
    \/ f = "OF" /\ GetOF(fl, lf)
    \/ f = "PF" /\ GetPF(fl, lf)]

-----------------------------------------------------------------------------
(* Working out all the flags at once.                                      *)

Settle(lf, cf, af, of) ==
  [f \in Conditions |->
    \/ f = "CF" /\ cf
    \/ f = "AF" /\ af
    \/ f = "OF" /\ of
    \/ f = "ZF" /\ lf.res = 0
    \/ f = "SF" /\ lf.res >= lf.sign
    \/ f = "PF" /\ EvenParity(lf.res)]

FillSums(fl, lf) ==
  Settle(lf,
    \/ lf.type = "ADD" /\ lf.res < lf.var1
    \/ lf.type = "ADC" /\ (lf.res < lf.var1 \/ (lf.oldcf /\ lf.res = lf.var1))
    \/ lf.type = "SBB" /\ (lf.var1 < lf.res \/ (lf.oldcf /\ lf.var2 = 2 * lf.sign - 1))
    \/ lf.type \in {"SUB", "CMP"} /\ lf.var1 < lf.var2,
    CrossesNibble(lf),
    /\ SameSign(lf.var1, lf.var2, lf.sign) = (lf.type \in Additions)
    /\ ~SameSign(lf.res, lf.var1, lf.sign))

FillLogics(fl, lf) == Settle(lf, FALSE, FALSE, FALSE)

FillShifts(fl, lf) ==
  Settle(lf,
    \/ lf.type = "SHL" /\ OutLeft(lf)
    \/ lf.type \in {"SHR", "SAR"} /\ OutRight(lf)
    \/ lf.type = "DSHL" /\ OutDoubleLeft(lf)
    \/ lf.type = "DSHR" /\ OutDoubleRight(lf),
    IF lf.type \in Shifts THEN lf.var2 % 32 # 0 ELSE fl["AF"],
    \/ lf.type \in {"SHL"} \cup DoubleShifts /\ ~SameSign(lf.res, lf.var1, lf.sign)
    \/ lf.type = "SHR" /\ lf.var2 % 32 = 1 /\ lf.var1 >= lf.sign)

FillSteps(fl, lf) ==
  Settle(lf,
    IF lf.type = "NEG" THEN lf.var1 # 0 ELSE fl["CF"],
    \/ lf.type = "INC" /\ Nibble(lf.res) = 0
    \/ lf.type = "DEC" /\ Nibble(lf.res) = 15
    \/ lf.type = "NEG" /\ Nibble(lf.res) # 0,
    \/ lf.type = "INC" /\ lf.res = lf.sign
    \/ lf.type = "DEC" /\ lf.res = lf.sign - 1
    \/ lf.type = "NEG" /\ lf.var1 = lf.sign)

\* The flags register after FillFlags; lflags becomes Unknown.
FillFlags(fl, lf) ==
  IF lf.type = "UNKNOWN" THEN fl
  ELSE IF lf.type \in Additions \cup Subtractions THEN FillSums(fl, lf)
  ELSE IF lf.type \in Logics THEN FillLogics(fl, lf)
  ELSE IF lf.type \in {"INC", "DEC", "NEG"} THEN FillSteps(fl, lf)
  ELSE FillShifts(fl, lf)

\* Before a rotate or a product, which set CF and OF themselves.
FillFlagsNoCFOF(fl, lf) ==
  [FillFlags(fl, lf) EXCEPT !["CF"] = fl["CF"], !["OF"] = fl["OF"]]

-----------------------------------------------------------------------------
(* What an instruction notes.                                              *)

Wrap(x, sign) == x % (2 * sign)

ADD(a, b, sign) == Lazy("ADD", a, b, Wrap(a + b, sign), sign)
ADC(a, b, cf, sign) ==
  [Lazy("ADC", a, b, Wrap(a + b + (IF cf THEN 1 ELSE 0), sign), sign)
     EXCEPT !.oldcf = cf]
SUB(type, a, b, sign) == Lazy(type, a, b, Wrap(a - b, sign), sign)
SBB(a, b, cf, sign) ==
  [Lazy("SBB", a, b, Wrap(a - b - (IF cf THEN 1 ELSE 0), sign), sign)
     EXCEPT !.oldcf = cf]
INC(a, sign) == Lazy("INC", a, 0, Wrap(a + 1, sign), sign)
DEC(a, sign) == Lazy("DEC", a, 0, Wrap(a - 1, sign), sign)
NEG(a, sign) == Lazy("NEG", a, 0, Wrap(0 - a, sign), sign)

\* Shifts by 1 .. 31; a shift by 0 is no instruction at all.
SHL(a, n, sign) ==
  Lazy("SHL", a, n, IF n > Power(sign) THEN 0 ELSE (a % 2^(Power(sign) + 1 - n)) * 2^n, sign)
SHR(a, n, sign) ==
  Lazy("SHR", a, n, IF n > Power(sign) THEN 0 ELSE a \div 2^n, sign)
SAR(a, n, sign) ==
  LET k == IF n > Power(sign) THEN Power(sign) + 1 ELSE n
      ones == IF a >= sign THEN 2 * sign - (2 * sign) \div 2^k ELSE 0
  IN  Lazy("SAR", a, k, a \div 2^k + ones, sign)

\* Double shifts of words: the bits that enter come from b.
Joined(type, low, high, n, res) ==
  [Lazy(type, low, n, res, 32768) EXCEPT !.top = high]
DSHLW(a, b, n) ==
  Joined("DSHL", b, a, n,
    IF n <= 16 THEN (a % 2^(16 - n)) * 2^n + b \div 2^(16 - n)
               ELSE b \div 2^(32 - n) + (b % 2^(32 - n)) * 2^(n - 16))
DSHRW(a, b, n) ==
  Joined("DSHR", a, b, n,
    IF n <= 16 THEN a \div 2^n + (b % 2^n) * 2^(16 - n)
               ELSE b \div 2^(n - 16) + (b % 2^(n - 16)) * 2^(32 - n))

\* INC and DEC keep the carry: it is worked out before lflags is lost.
LoadCF(fl, lf) == [fl EXCEPT !["CF"] = GetCF(fl, lf)]

=============================================================================
