--------------------------- MODULE CpuArithmetic ----------------------------
(* The arithmetic instructions of core/cpu_decode.c, bytes and words.  A   *)
(* predicate on instructions says what a part of the switch in             *)
(* dp_cpu_decode_normal_run decodes, an operator what it does; the machine *)
(* they get is already past the instruction.                               *)
EXTENDS CpuOperands

-----------------------------------------------------------------------------
(* Operand forms: E and G of the mod/rm byte, A the accumulator, I an      *)
(* immediate, C the register CL, R a register named by the opcode, S a     *)
(* segment register, O a memory offset.                                    *)

First(m, i) ==
  CASE i.form \in {"EG", "EI", "E", "E1", "EC", "EGI", "EGC"} -> E(m, i, i.sign)
    [] i.form \in {"GE", "GEI"} -> G(m, i, i.sign)
    [] i.form = "AI" -> Reg(m, i.sign, AX)
    [] i.form = "R" -> Reg(m, i.sign, i.rm)

Second(m, i) ==
  CASE i.form \in {"EG", "EGI", "EGC"} -> G(m, i, i.sign)
    [] i.form \in {"GE", "GEI"} -> E(m, i, i.sign)
    [] i.form \in {"AI", "EI"} -> i.imm

Store(m, i, v) ==
  CASE i.form \in {"EG", "EI", "E", "E1", "EC", "EGI", "EGC"} -> SetE(m, i, i.sign, v)
    [] i.form \in {"GE", "GEI"} -> SetG(m, i, i.sign, v)
    [] i.form = "AI" -> SetReg(m, i.sign, AX, v)
    [] i.form = "R" -> SetReg(m, i.sign, i.rm, v)

-----------------------------------------------------------------------------
(* Sums and logic.                                                         *)

Ariths == {"ADD", "OR", "ADC", "SBB", "AND", "SUB", "XOR", "CMP"}

ArithmeticRows(i) == i.op \in Ariths /\ i.form \in {"EG", "GE", "AI"}
Group1(i) == i.op \in Ariths /\ i.form = "EI"
Tests(i) == i.op = "TEST" /\ i.form \in {"EG", "AI", "EI"}

BitOfResult(op, x, y) ==
  CASE op = "OR" -> x \/ y
    [] op = "XOR" -> x # y
    [] OTHER -> x /\ y

Bits(op, a, b) ==
  LET bit(k) == IF BitOfResult(op, Bit(a, k), Bit(b, k)) THEN 2^k ELSE 0
  IN  bit(0) + bit(1) + bit(2) + bit(3) + bit(4) + bit(5) + bit(6) + bit(7)
        + bit(8) + bit(9) + bit(10) + bit(11) + bit(12) + bit(13) + bit(14) + bit(15)

Noted(m, op, a, b, sign) ==
  CASE op = "ADD" -> ADD(a, b, sign)
    [] op = "ADC" -> ADC(a, b, GetCF(m.fl, m.lf), sign)
    [] op = "SBB" -> SBB(a, b, GetCF(m.fl, m.lf), sign)
    [] op \in {"SUB", "CMP"} -> SUB(op, a, b, sign)
    [] op \in Logics -> Lazy(op, a, b, Bits(op, a, b), sign)

Arithmetic(m, i) ==
  LET lf == Noted(m, i.op, First(m, i), Second(m, i), i.sign)
      n == Note(m, lf)
  IN  IF i.op \in {"CMP", "TEST"} THEN n ELSE Store(n, i, lf.res)

Steps(i) == i.op \in {"INC", "DEC"} /\ i.form = "R"
Group45Steps(i) == i.op \in {"INC", "DEC"} /\ i.form = "E"

\* INC and DEC keep the carry that the last operation noted.
CarryForgotten(m) == m.fl
CarryKept(m) == LoadCF(m.fl, m.lf)

IncDec(m, i) ==
  LET a == First(m, i)
      lf == IF i.op = "INC" THEN INC(a, i.sign) ELSE DEC(a, i.sign)
  IN  Store([m EXCEPT !.fl = CarryKept(m), !.lf = lf], i, lf.res)

\* GRP3: NOT touches no flag.
Group3(i) == i.op \in {"NOT", "NEG", "MUL", "IMUL", "DIV", "IDIV"} /\ i.form = "E"

Negation(m, i) ==
  LET a == First(m, i)
      lf == NEG(a, i.sign)
  IN  IF i.op = "NOT" THEN Store(m, i, (2 * i.sign - 1) - a)
      ELSE Store(Note(m, lf), i, lf.res)

-----------------------------------------------------------------------------
(* Shifts and rotates.                                                     *)

ShiftOps == {"ROL", "ROR", "RCL", "RCR", "SHL", "SHR", "SAR"}
Group2(i) == i.op \in ShiftOps /\ i.form \in {"E1", "EI", "EC"}

Count(m, i) ==
  (CASE i.form = "E1" -> 1
     [] i.form \in {"EI", "EGI"} -> i.imm
     [] i.form \in {"EC", "EGC"} -> CL(m)) % 32

SetCFOF(m, cf, of) == SetFlag(SetFlag(m, "CF", cf), "OF", of)
TopBitsDiffer(x, sign) == (x >= sign) # Bit(x, Power(sign) - 1)

\* A rotate by a multiple of the width looks at op1 itself, which for a
\* memory operand is its address.
WholeTurn(m, i) ==
  LET op1 == IF IsRegister(i.rm) THEN E(m, i, i.sign) ELSE EA(m, i)
      top == op1 \div i.sign
      next == (op1 \div (i.sign \div 2)) % 2
  IN  IF i.op = "ROL" THEN SetCFOF(FillNoCFOF(m), op1 % 2 = 1, op1 % 2 # top)
      ELSE SetCFOF(FillNoCFOF(m), top # 0, top # next)

ROL(m, i, k) ==
  LET a == First(m, i)
      bits == Power(i.sign) + 1
      res == ((a % 2^(bits - k)) * 2^k) + (a \div 2^(bits - k))
  IN  SetCFOF(Store(FillNoCFOF(m), i, res), res % 2 = 1, (res % 2 = 1) # (res >= i.sign))

ROR(m, i, k) ==
  LET a == First(m, i)
      bits == Power(i.sign) + 1
      res == (a \div 2^k) + ((a % 2^k) * 2^(bits - k))
  IN  SetCFOF(Store(FillNoCFOF(m), i, res), res >= i.sign, TopBitsDiffer(res, i.sign))

RCL(m, i, k) ==
  LET a == First(m, i)
      bits == Power(i.sign) + 1
      full == Fill(m)
      cf == IF full.fl["CF"] THEN 2^(k - 1) ELSE 0
      res == ((a % 2^(bits - k)) * 2^k) + cf + (a \div 2^(bits + 1 - k))
      out == Bit(a, bits - k)
  IN  SetCFOF(Store(full, i, res), out, out # (res >= i.sign))

RCR(m, i, k) ==
  LET a == First(m, i)
      bits == Power(i.sign) + 1
      full == Fill(m)
      cf == IF full.fl["CF"] THEN 2^(bits - k) ELSE 0
      res == (a \div 2^k) + cf + ((a % 2^(k - 1)) * 2^(bits + 1 - k))
  IN  SetCFOF(Store(full, i, res), Bit(a, k - 1), TopBitsDiffer(res, i.sign))

ShiftBy(op, a, n, sign) ==
  CASE op = "SHL" -> SHL(a, n, sign)
    [] op = "SHR" -> SHR(a, n, sign)
    [] op = "SAR" -> SAR(a, n, sign)

Shift(m, i) ==
  LET n == Count(m, i)
      bits == Power(i.sign) + 1
      turn == IF i.op \in {"ROL", "ROR"} THEN n % bits ELSE n % (bits + 1)
      lf == ShiftBy(i.op, First(m, i), n, i.sign)
  IN  IF n = 0 THEN m
      ELSE CASE i.op \in Shifts -> Store(Note(m, lf), i, lf.res)
             [] i.op \in {"ROL", "ROR"} /\ turn = 0 -> WholeTurn(m, i)
             [] i.op \in {"RCL", "RCR"} /\ turn = 0 -> m
             [] i.op = "ROL" /\ turn # 0 -> ROL(m, i, turn)
             [] i.op = "ROR" /\ turn # 0 -> ROR(m, i, turn)
             [] i.op = "RCL" /\ turn # 0 -> RCL(m, i, turn)
             [] i.op = "RCR" /\ turn # 0 -> RCR(m, i, turn)

DoubleShiftOps(i) == i.op \in {"SHLD", "SHRD"} /\ i.form \in {"EGI", "EGC"}

DoubleShift(m, i) ==
  LET n == Count(m, i)
      lf == IF i.op = "SHLD" THEN DSHLW(First(m, i), Second(m, i), n)
            ELSE DSHRW(First(m, i), Second(m, i), n)
  IN  IF n = 0 THEN m ELSE Store(Note(m, lf), i, lf.res)

-----------------------------------------------------------------------------
(* Products and quotients.  A quotient that does not fit, or a division by *)
(* zero, raises an exception that the program does not implement.          *)

Multiply(m, i) ==
  LET b == First(m, i)
      byte == AL(m) * b
      low == m.r[AX] * (b % 256)
      high == m.r[AX] * (b \div 256)
      sum == low + ((high % 256) * 256)
      n == IF i.sign = B THEN SetReg(m, W, AX, byte)
           ELSE SetReg(SetReg(m, W, AX, Word(sum)), W, DX,
                       (high \div 256) + (sum \div 65536))
      large == IF i.sign = B THEN byte > 255 ELSE n.r[DX] # 0
  IN  SetFlag(SetCFOF(FillNoCFOF(n), large, large), "ZF", Reg(n, i.sign, AX) = 0)

SignedMultiply(m, i) ==
  LET x == Signed(Reg(m, i.sign, AX), i.sign) * Signed(First(m, i), i.sign)
      n == SetReg(m, W, AX, Word(x))
      large == x < -i.sign \/ x >= i.sign
  IN  SetCFOF(FillNoCFOF(IF i.sign = B THEN n
                         ELSE SetReg(n, W, DX, Word(x \div 65536))), large, large)

\* IMUL with two or three operands compares an unsigned result with
\* -32768: carry and overflow are always set.
SignedMultiplyInto(m, i) ==
  LET b == IF i.form = "GEI" THEN i.imm ELSE G(m, i, W)
      x == Signed(E(m, i, W), W) * Signed(b, W)
  IN  SetCFOF(FillNoCFOF(SetG(m, i, W, Word(x))), TRUE, TRUE)

MultiplyInto(i) == i.op = "IMUL" /\ i.form \in {"GE", "GEI"}

\* Quotient and remainder in the low and the high half of the accumulator.
Result(m, sign, quo, rem) ==
  IF sign = B THEN SetReg(SetReg(m, B, 0, quo), B, 4, rem)
  ELSE SetReg(SetReg(m, W, AX, quo), W, DX, rem)

\* (high * 65536 + low) divided by v, for high < v: in two digits.
LongDivision(high, low, v) ==
  LET r1 == (high * 256) + (low \div 256)
      r2 == ((r1 % v) * 256) + (low % 256)
  IN  [quo |-> ((r1 \div v) * 256) + (r2 \div v), rem |-> r2 % v]

Divide(m, i) ==
  LET v == First(m, i)
      d == LongDivision(m.r[DX], m.r[AX], v)
  IN  IF v = 0 THEN Fatal(m)
      ELSE IF i.sign = B
      THEN IF m.r[AX] \div v > 255 THEN Fatal(m)
           ELSE Result(m, B, m.r[AX] \div v, m.r[AX] % v)
      ELSE IF m.r[DX] >= v THEN Fatal(m) ELSE Result(m, W, d.quo, d.rem)

\* C divides magnitudes; the remainder has the sign of the dividend.
SignedDivide(m, i) ==
  LET divisor == Signed(First(m, i), i.sign)
      v == IF divisor < 0 THEN -divisor ELSE divisor
      negative == (IF i.sign = B THEN m.r[AX] ELSE m.r[DX]) >= W
      low == IF negative THEN Word(-m.r[AX]) ELSE m.r[AX]
      high == IF i.sign = B THEN 0
              ELSE IF negative THEN Word(65535 - m.r[DX] + (IF low = 0 THEN 1 ELSE 0))
              ELSE m.r[DX]
      d == LongDivision(high, low, v)
      quo == IF negative = (divisor < 0) THEN d.quo ELSE -d.quo
      rem == IF negative THEN -d.rem ELSE d.rem
  IN  IF v = 0 THEN Fatal(m)
      ELSE IF high >= v \/ quo < -i.sign \/ quo >= i.sign THEN Fatal(m)
      ELSE Result(m, i.sign, Unsigned(quo, i.sign), Unsigned(rem, i.sign))

-----------------------------------------------------------------------------
(* Decimal adjustments: they set the flags register themselves, and what   *)
(* they leave alone keeps whatever was there.                              *)

Decimals == {"DAA", "DAS", "AAA", "AAS", "AAM", "AAD"}
Decimal(i) == i.op \in Decimals

SetFlags(m, f) ==
  [m EXCEPT !.fl = [x \in Conditions |-> IF x \in DOMAIN f THEN f[x] ELSE m.fl[x]],
            !.lf = Unknown]

Adjusts(m) == AL(m) % 16 > 9 \/ GetAF(m.fl, m.lf)
HighAdjusts(m) == AL(m) > 153 \/ GetCF(m.fl, m.lf)
SetResultFlags(m, x) ==
  SetFlags(m, [SF |-> x >= 128, ZF |-> x = 0, PF |-> EvenParity(x)])

DAA(m) ==
  LET x == (AL(m) + (IF HighAdjusts(m) THEN 96 ELSE 0)
                  + (IF Adjusts(m) THEN 6 ELSE 0)) % 256
  IN  SetReg(SetFlags(SetResultFlags(m, x), [CF |-> HighAdjusts(m), AF |-> Adjusts(m)]),
             B, 0, x)

DAS(m) ==
  LET x == (AL(m) - (IF HighAdjusts(m) THEN 96 ELSE 0)
                  - (IF Adjusts(m) THEN 6 ELSE 0)) % 256
      cf == HighAdjusts(m) \/ (Adjusts(m) /\ AL(m) <= 5)
  IN  SetReg(SetFlags(SetResultFlags(m, x), [CF |-> cf, AF |-> Adjusts(m),
                                             OF |-> AL(m) >= 128 /\ x < 128]),
             B, 0, x)

AAA(m) ==
  LET al == AL(m)
      byDigit == al % 16 > 9
      n == IF Adjusts(m) THEN SetReg(m, W, AX, Word(m.r[AX] + 262)) ELSE m
      zf == IF byDigit THEN AL(n) = 0 ELSE ~Adjusts(m) /\ al = 0
      of == byDigit /\ al \div 16 = 7
  IN  SetReg(SetFlags(n, [SF |-> 122 <= al /\ al <= 249, OF |-> of, ZF |-> zf,
                          CF |-> Adjusts(m), AF |-> Adjusts(m),
                          PF |-> EvenParity(AL(n))]),
             B, 0, AL(n) % 16)

AAS(m) ==
  LET al == AL(m)
      byDigit == al % 16 > 9
      n == IF Adjusts(m) THEN SetReg(m, W, AX, Word(m.r[AX] - 262)) ELSE m
      sf == IF byDigit THEN al > 133
            ELSE IF Adjusts(m) THEN al < 6 \/ al > 133 ELSE al >= 128
      of == ~byDigit /\ Adjusts(m) /\ 128 <= al /\ al <= 133
  IN  SetReg(SetFlags(n, [SF |-> sf, OF |-> of, ZF |-> AL(n) = 0,
                          CF |-> Adjusts(m), AF |-> Adjusts(m),
                          PF |-> EvenParity(AL(n))]),
             B, 0, AL(n) % 16)

NoCarries == [CF |-> FALSE, OF |-> FALSE, AF |-> FALSE]

AAM(m, i) ==
  LET x == AL(m) % i.imm
  IN  IF i.imm = 0 THEN Fatal(m)
      ELSE SetReg(SetReg(SetFlags(SetResultFlags(m, x), NoCarries), B, 4, AL(m) \div i.imm),
                  B, 0, x)

AAD(m, i) ==
  LET x == ((AH(m) * i.imm) + AL(m)) % 256
  IN  SetReg(SetFlags(SetResultFlags(m, x), NoCarries), W, AX, x)

DecimalAdjust(m, i) ==
  CASE i.op = "DAA" -> DAA(m)
    [] i.op = "DAS" -> DAS(m)
    [] i.op = "AAA" -> AAA(m)
    [] i.op = "AAS" -> AAS(m)
    [] i.op = "AAM" -> AAM(m, i)
    [] i.op = "AAD" -> AAD(m, i)

=============================================================================
