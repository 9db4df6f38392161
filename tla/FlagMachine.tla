---------------------------- MODULE FlagMachine -----------------------------
(* How the instructions use the lazy flags: the flags register and lflags  *)
(* under every sequence of operations the decoder performs on them, for    *)
(* every operand.  It implements EagerFlags (theorem in CpuProofs); the    *)
(* processor of module Cpu implements it.                                  *)
EXTENDS LazyFlags

VARIABLES flags, lflags

flagVars == <<flags, lflags>>

\* Flags the pending operation makes no promise about: get_OF and FillFlags
\* disagree on a right shift by one of the bare sign bit, get_AF and
\* FillFlags on a double shift.
Loose(lf) ==
  IF lf.type \in DoubleShifts THEN {"AF"}
  ELSE IF lf.type = "SHR" /\ lf.var2 = 1 /\ lf.var1 = lf.sign THEN {"OF"}
  ELSE {}

Eager == INSTANCE EagerFlags WITH flag <- Asked(flags, lflags), open <- Loose(lflags)

\* What an instruction noted, read off the lflags it leaves.
InRange(lf) ==
  /\ lf.sign \in Signs
  /\ lf.var1 \in Operands(lf.sign)
  /\ lf.var2 \in Operands(lf.sign)
  /\ lf.res \in Operands(lf.sign)

PlainNoted ==
  LET a == lflags'.var1  b == lflags'.var2  sign == lflags'.sign
  IN  /\ InRange(lflags')
      /\ \/ lflags' = ADD(a, b, sign)
         \/ lflags' = SUB("SUB", a, b, sign)
         \/ lflags' = SUB("CMP", a, b, sign)
      /\ UNCHANGED flags

\* The carry that goes in is asked for, whoever left it.
WithCarry ==
  LET a == lflags'.var1  b == lflags'.var2  sign == lflags'.sign
      cf == GetCF(flags, lflags)
  IN  /\ InRange(lflags')
      /\ lflags' = ADC(a, b, cf, sign) \/ lflags' = SBB(a, b, cf, sign)
      /\ UNCHANGED flags

StepByOne ==
  LET a == lflags'.var1  sign == lflags'.sign
  IN  /\ InRange(lflags')
      /\ lflags' = INC(a, sign) \/ lflags' = DEC(a, sign)
      /\ flags' = LoadCF(flags, lflags)

Negate ==
  /\ InRange(lflags')
  /\ lflags' = NEG(lflags'.var1, lflags'.sign)
  /\ UNCHANGED flags

Logic ==
  /\ InRange(lflags')
  /\ lflags'.type \in Logics
  /\ UNCHANGED flags

ShiftNoted ==
  LET a == lflags'.var1  n == lflags'.var2  sign == lflags'.sign
  IN  /\ InRange(lflags')
      /\ n \in 1 .. 31
      /\ \/ lflags' = SHL(a, n, sign)
         \/ lflags' = SHR(a, n, sign)
         \/ lflags' = SAR(a, n, sign)
      /\ UNCHANGED flags

DoubleShiftNoted ==
  /\ InRange(lflags')
  /\ lflags'.type \in DoubleShifts
  /\ lflags'.var2 \in 1 .. 31
  /\ UNCHANGED flags

\* PUSHF, LAHF, far calls and jumps, interrupts, and the end of a round.
AllFilled ==
  /\ flags' = FillFlags(flags, lflags)
  /\ lflags' = Unknown

\* CLC, STC, CMC, the bit tests and CMPXCHG, after a fill.
SetOne ==
  \E f \in {"CF", "ZF"} : \E b \in BOOLEAN :
    /\ flags' = [FillFlags(flags, lflags) EXCEPT ![f] = b]
    /\ lflags' = Unknown

\* Rotates keep all but CF and OF, products all but CF, OF and ZF.
Rotate ==
  \E cf, of \in BOOLEAN :
    /\ flags' = [FillFlagsNoCFOF(flags, lflags) EXCEPT !["CF"] = cf, !["OF"] = of]
    /\ lflags' = Unknown

Product ==
  \E cf, of, zf \in BOOLEAN :
    /\ flags' = [FillFlagsNoCFOF(flags, lflags)
                    EXCEPT !["CF"] = cf, !["OF"] = of, !["ZF"] = zf]
    /\ lflags' = Unknown

\* POPF, IRET, the decimal instructions and the bit scans.
AllLoaded ==
  /\ flags' \in [Conditions -> BOOLEAN]
  /\ lflags' = Unknown

FlagInit == flags = [f \in Conditions |-> FALSE] /\ lflags = Unknown

\* What keeps the flags that the instruction does not set.
FlagKeep ==
  \/ PlainNoted \/ WithCarry \/ StepByOne \/ Negate \/ Logic \/ ShiftNoted \/ DoubleShiftNoted
  \/ AllFilled \/ SetOne \/ Rotate \/ Product

FlagNext == FlagKeep \/ AllLoaded

FlagSpec == FlagInit /\ [][FlagNext]_flagVars

=============================================================================
