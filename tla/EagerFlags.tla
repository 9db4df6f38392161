----------------------------- MODULE EagerFlags -----------------------------
(* What a program may expect of the condition flags: every instruction     *)
(* leaves them as arithmetic defines them, at once.  flag holds them; a    *)
(* flag in open is one the last instruction made no promise about.         *)
EXTENDS LazyFlags

VARIABLES flag, open

eagerVars == <<flag, open>>

Signed(x, sign) == IF x >= sign THEN x - 2 * sign ELSE x
Fits(x, sign) == -sign <= x /\ x < sign

OfResult(res, sign, cf, af, of) ==
  [f \in Conditions |->
    \/ f = "CF" /\ cf
    \/ f = "AF" /\ af
    \/ f = "OF" /\ of
    \/ f = "ZF" /\ res = 0
    \/ f = "SF" /\ res >= sign
    \/ f = "PF" /\ EvenParity(res)]

\* Carry is the carry out of the word, AF out of the nibble; overflow is a
\* signed sum that does not fit the word.
SumFlags(a, b, c, sign) ==
  OfResult(Wrap(a + b + c, sign), sign,
    a + b + c >= 2 * sign,
    Nibble(a) + Nibble(b) + c >= 16,
    ~Fits(Signed(a, sign) + Signed(b, sign) + c, sign))

DifferenceFlags(a, b, c, sign) ==
  OfResult(Wrap(a - b - c, sign), sign,
    a < b + c,
    Nibble(a) < Nibble(b) + c,
    ~Fits(Signed(a, sign) - Signed(b, sign) - c, sign))

-----------------------------------------------------------------------------

\* New flags: those in known are as given, the rest is not promised; all
\* but those in loose stay until the next instruction.
Becomes(given, known, loose) ==
  /\ flag' \in [Conditions -> BOOLEAN]
  /\ \A f \in known : flag'[f] = given[f]
  /\ open' = loose

Carry == IF flag["CF"] THEN 1 ELSE 0

Sum(a, b, c, sign) == Becomes(SumFlags(a, b, c, sign), Conditions, {})
Difference(a, b, c, sign) ==
  Becomes(DifferenceFlags(a, b, c, sign), Conditions, {})
KeepingCarry(given) == [given EXCEPT !["CF"] = flag["CF"]]

Arithmetic ==
  \E sign \in Signs : \E a, b \in Operands(sign) :
    \E c \in {0, Carry} : Sum(a, b, c, sign) \/ Difference(a, b, c, sign)

Step ==
  \E sign \in Signs : \E a \in Operands(sign) :
    \/ Becomes(KeepingCarry(SumFlags(a, 1, 0, sign)), Conditions, {})
    \/ Becomes(KeepingCarry(DifferenceFlags(a, 1, 0, sign)), Conditions, {})

Negate ==
  \E sign \in Signs : \E a \in Operands(sign) : Difference(0, a, 0, sign)

Logic ==
  \E sign \in Signs : \E res \in Operands(sign) :
    Becomes(OfResult(res, sign, FALSE, FALSE, FALSE), Conditions \ {"AF"}, {})

\* Overflow of a shift by one: the sign changed (left), or was set (right).
\* A right shift of the bare sign bit leaves it open.
Shift ==
  \E sign \in Signs : \E a \in Operands(sign) : \E n \in 1 .. 31 :
    \/ LET lf == SHL(a, n, sign)
       IN  Becomes(OfResult(lf.res, sign, OutLeft(lf), FALSE,
                            ~SameSign(lf.res, a, sign)),
                   Conditions \ (IF n = 1 THEN {"AF"} ELSE {"AF", "OF"}), {})
    \/ LET lf == SHR(a, n, sign)
           bare == n = 1 /\ a = sign
       IN  Becomes(OfResult(lf.res, sign, OutRight(lf), FALSE, a >= sign),
                   Conditions \ (IF n = 1 /\ ~bare THEN {"AF"} ELSE {"AF", "OF"}),
                   IF bare THEN {"OF"} ELSE {})
    \/ LET lf == SAR(a, n, sign)
       IN  Becomes(OfResult(lf.res, sign, OutRight(lf), FALSE, FALSE),
                   Conditions \ {"AF"}, {})

\* A double shift promises only what follows from its result and leaves AF
\* open.
DoubleShift ==
  \E sign \in Signs : \E res \in Operands(sign) :
    Becomes(OfResult(res, sign, FALSE, FALSE, FALSE), {"ZF", "SF", "PF"}, {"AF"})

\* A flag left open settles, the others keep their values.
Settling == Becomes(flag, Conditions \ open, {})

\* Rotates, products, CLC, STC, CMC and the bit tests set a few flags.
SetSome ==
  \E some \in {{"CF"}, {"ZF"}, {"CF", "OF"}, {"CF", "OF", "ZF"}} :
    Becomes(flag, Conditions \ (open \cup some), {})

\* POPF, IRET and the decimal instructions load all of them.
Load == Becomes(flag, {}, {})

Init == flag \in [Conditions -> BOOLEAN] /\ open = {}

Next ==
  \/ Arithmetic \/ Step \/ Negate \/ Logic \/ Shift \/ DoubleShift
  \/ Settling \/ SetSome \/ Load

Spec == Init /\ [][Next]_eagerVars

=============================================================================
