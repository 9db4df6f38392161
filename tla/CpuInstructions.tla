-------------------------- MODULE CpuInstructions ---------------------------
(* The other instructions of core/cpu_decode.c (moves, the stack, strings, *)
(* ports and control transfers) and Execute, what one instruction does to  *)
(* the machine.  Operands are words unless sign says otherwise; a relative *)
(* displacement counts instructions, each of which takes one place.        *)
EXTENDS CpuArithmetic

CONSTANT In(_)                    \* what a read of a port returns, a byte

-----------------------------------------------------------------------------
(* Moves.                                                                  *)

Moves(i) == i.op = "MOV" /\ i.form \in {"EG", "GE"}
MovesImmediate(i) == i.op = "MOV" /\ i.form = "RI"
MovesImmediateE(i) == i.op = "MOV" /\ i.form = "EI"
MovesOffset(i) == i.op = "MOV" /\ i.form \in {"AO", "OA"}

Move(m, i) ==
  CASE i.form = "EG" -> SetE(m, i, i.sign, G(m, i, i.sign))
    [] i.form = "GE" -> SetG(m, i, i.sign, E(m, i, i.sign))
    [] i.form = "RI" -> SetReg(m, i.sign, i.rm, i.imm)
    [] i.form = "EI" -> SetE(m, i, i.sign, i.imm)
    [] i.form = "AO" -> SetReg(m, i.sign, AX, Load(m, i.sign, DirectAddress(m, i)))
    [] i.form = "OA" -> Save(m, i.sign, DirectAddress(m, i), Reg(m, i.sign, AX))

MovesSegment(i) == i.op = "MOV" /\ i.form \in {"ES", "SE"}

SegmentField(i) == RegField(i.rm) + 1
StackSegment == 2                              \* dp_seg_ss

SetSegment(m, segment, v) == [m EXCEPT !.s[segment] = v]

\* MOV SS wants one more instruction before the round may end.
MoveSegment(m, i) ==
  LET k == RegField(i.rm)
      n == SetSegment(m, Segments[SegmentField(i)], E(m, i, W))
  IN  CASE i.form = "ES" /\ k > 5 -> Fatal(m)
        [] i.form = "ES" /\ k <= 5 -> SetE(m, i, W, m.s[Segments[SegmentField(i)]])
        [] i.form = "SE" /\ k \in {1, 6, 7} -> Fatal(m)
        [] i.form = "SE" /\ k = StackSegment -> Shadow(n)
        [] i.form = "SE" /\ k \in {0, 3, 4, 5} -> n

\* A register operand has no address: lookup table of addresses, no entry.
Lea(i) == i.op = "LEA" /\ i.form = "GE"
LoadAddress(m, i) ==
  IF IsRegister(i.rm) THEN Fatal(m) ELSE SetG(m, i, W, EAOffset(m, i))

Exchanges(i) == i.op = "XCHG" /\ i.form = "EG"
Exchange(m, i) ==
  SetG(SetE(m, i, i.sign, G(m, i, i.sign)), i, i.sign, E(m, i, i.sign))

ExchangesAX(i) == i.op = "XCHG" /\ i.form = "R"
ExchangeAX(m, i) == SetReg(SetReg(m, W, AX, m.r[i.rm]), W, i.rm, m.r[AX])

\* LES, LDS; LSS, LFS, LGS: the segment first, the register then.
FarPointers == [LES |-> "es", LDS |-> "ds", LSS |-> "ss", LFS |-> "fs", LGS |-> "gs"]
LoadsFar(i) == i.op \in DOMAIN FarPointers
LoadFar(m, i) ==
  IF IsRegister(i.rm) THEN Fatal(m)
  ELSE SetG(SetSegment(m, FarPointers[i.op], Load(m, W, EA(m, i) + 2)), i, W,
            Load(m, W, EA(m, i)))

Widens(i) == i.op \in {"CBW", "CWD"}
Widen(m, i) ==
  IF i.op = "CBW" THEN SetReg(m, W, AX, Word(Signed(AL(m), B)))
  ELSE SetReg(m, W, DX, IF m.r[AX] >= W THEN 65535 ELSE 0)

Extends(i) == i.op \in {"MOVZX", "MOVSX"}
Extend(m, i) ==
  LET v == E(m, i, i.sign)
  IN  SetG(m, i, W, IF i.op = "MOVZX" THEN v ELSE Word(Signed(v, i.sign)))

Translates(i) == i.op \in {"XLAT", "SALC"}
Translate(m, i) ==
  IF i.op = "XLAT"
  THEN SetReg(m, B, 0, ByteAt(m, Phys(m, DataSegment(i)) + Word(m.r[BX] + AL(m))))
  ELSE SetReg(m, B, 0, IF GetCF(m.fl, m.lf) THEN 255 ELSE 0)

\* BSWAP of a word register clears it.
Swaps(i) == i.op = "BSWAP"
Swap(m, i) == SetReg(m, W, i.rm, 0)

-----------------------------------------------------------------------------
(* Conditions, bits.                                                       *)

Condition(m, cc) ==
  LET cf == GetCF(m.fl, m.lf)
      zf == GetZF(m.fl, m.lf)
      sf == GetSF(m.fl, m.lf)
      of == GetOF(m.fl, m.lf)
      holds == <<of, cf, zf, cf \/ zf, sf, GetPF(m.fl, m.lf), sf # of, zf \/ (sf # of)>>
  IN  holds[(cc \div 2) + 1] # (cc % 2 = 1)

Sets(i) == i.op = "SETcc"
SetByte(m, i) == SetE(m, i, B, IF Condition(m, i.imm) THEN 1 ELSE 0)

\* A mismatch writes the destination back.
ComparesAndExchanges(i) == i.op = "CMPXCHG"
CompareExchange(m, i) ==
  LET full == Fill(m)
      v == E(m, i, i.sign)
      equal == Reg(m, i.sign, AX) = v
      n == SetFlag(full, "ZF", equal)
  IN  IF equal THEN SetE(n, i, i.sign, G(m, i, i.sign))
      ELSE SetReg(SetE(n, i, i.sign, v), i.sign, AX, v)

\* XADD leaves the flags alone.
ExchangesAndAdds(i) == i.op = "XADD"
ExchangeAdd(m, i) ==
  LET v == E(m, i, i.sign)
      old == G(m, i, i.sign)
  IN  SetE(SetG(m, i, i.sign, v), i, i.sign, (v + old) % (2 * i.sign))

BitOps == {"BT", "BTS", "BTR", "BTC"}
BitOf(op, v, k) ==
  LET set == Bit(v, k)
  IN  CASE op = "BT" -> v
        [] op = "BTS" -> IF set THEN v ELSE v + 2^k
        [] op = "BTR" -> IF set THEN v - 2^k ELSE v
        [] op = "BTC" -> IF set THEN v - 2^k ELSE v + 2^k

\* A bit offset in a register may reach past the operand in memory.
TestsBit(i) == i.op \in BitOps /\ i.form = "EG"
TestBit(m, i) ==
  LET k == G(m, i, W) % 16
      a == EA(m, i) + ((Signed(G(m, i, W), W) \div 16) * 2)
      v == IF IsRegister(i.rm) THEN E(m, i, W) ELSE Load(m, W, a)
      n == SetFlag(Fill(m), "CF", Bit(v, k))
  IN  CASE i.op = "BT" -> n
        [] i.op # "BT" /\ IsRegister(i.rm) -> SetE(n, i, W, BitOf(i.op, v, k))
        [] i.op # "BT" /\ ~IsRegister(i.rm) -> Save(n, W, a, BitOf(i.op, v, k))

Group8(i) == i.op \in BitOps /\ i.form = "EI"
TestBitImmediate(m, i) ==
  LET v == E(m, i, W)
      n == SetFlag(Fill(m), "CF", Bit(v, i.imm % 16))
  IN  IF i.op = "BT" THEN n ELSE SetE(n, i, W, BitOf(i.op, v, i.imm % 16))

\* The scans forget what the last operation noted: all flags but ZF are
\* those that were last filled in.
Scans(i) == i.op \in {"BSF", "BSR"}
Scan(m, i) ==
  LET v == E(m, i, W)
      ones == {k \in 0 .. 15 : Bit(v, k)}
      n == SetFlag([m EXCEPT !.lf = Unknown], "ZF", v = 0)
  IN  IF v = 0 THEN n
      ELSE SetG(n, i, W, IF i.op = "BSF" THEN Min(ones) ELSE Max(ones))

-----------------------------------------------------------------------------
(* The stack.                                                              *)

PushesRegister(i) == i.op \in {"PUSH", "POP"} /\ i.form = "R"
PopInto(m, k) == SetReg(Pop16(m), W, k, Top16(m))
PushRegister(m, i) ==
  IF i.op = "PUSH" THEN Push16(m, m.r[i.rm]) ELSE PopInto(m, i.rm)

PushesSegment(i) == i.op \in {"PUSH", "POP"} /\ i.form = "S"
PushSegment(m, i) ==
  LET n == SetSegment(Pop16(m), i.seg, Top16(m))
  IN  IF i.op = "PUSH" THEN Push16(m, m.s[i.seg])
      ELSE IF i.seg = "ss" THEN Shadow(n) ELSE n

PushesImmediate(i) == i.op = "PUSH" /\ i.form = "I"
PushImmediate(m, i) == Push16(m, i.imm)

PopsE(i) == i.op = "POP" /\ i.form = "E"
PopE(m, i) == SetE(Pop16(m), i, W, Top16(m))

PushesAll(i) == i.op \in {"PUSHA", "POPA"}
PushAll(m) ==
  LET first == Push16(Push16(Push16(Push16(m, m.r[AX]), m.r[CX]), m.r[DX]), m.r[BX])
  IN  Push16(Push16(Push16(Push16(first, m.r[SP]), m.r[BP]), m.r[SI]), m.r[DI])
PopAll(m) ==
  LET first == Pop16(PopInto(PopInto(PopInto(m, DI), SI), BP))
  IN  PopInto(PopInto(PopInto(PopInto(first, BX), DX), CX), AX)

\* PUSHF pushes the flags register as it stands and fills it in afterwards.
PushesFlags(i) == i.op = "PUSHF"
PushFlags(m) == Fill(Push16(m, FlagsWord(m)))

\* Interrupts that wait, or a trap flag, end the round.
PopsFlags(i) == i.op = "POPF"
PopFlags(m) ==
  LET n == SetFlagsWord(Pop16(m), Top16(m))
  IN  IF Traps(n) THEN End(Trap(n))
      ELSE IF n.ctl["IF"] /\ IrqCheck(n) THEN End(n) ELSE n

LoadsFlags(i) == i.op \in {"LAHF", "SAHF"}
LoadFlags(m, i) ==
  IF i.op = "SAHF" THEN Fatal(m) ELSE SetReg(Fill(m), B, 4, FlagsWord(Fill(m)) % 256)

Leaves(i) == i.op \in {"LEAVE", "ENTER"}
LeaveFrame(m, i) ==
  LET n == SetReg(m, W, SP, m.r[BP])
  IN  IF i.op = "ENTER" THEN Fatal(m) ELSE PopInto(n, BP)

Bounds(i) == i.op = "BOUND"
CheckBound(m, i) ==
  LET v == Signed(G(m, i, W), W)
      a == EA(m, i)
  IN  IF v < Signed(Load(m, W, a), W) \/ v > Signed(Load(m, W, a + 2), W)
      THEN Fatal(m) ELSE m

-----------------------------------------------------------------------------
(* Strings (DoString).                                                     *)

Strings == {"MOVS", "STOS", "LODS", "SCAS", "CMPS", "INS", "OUTS"}
String(i) == i.op \in Strings

FromSource == {"MOVS", "LODS", "CMPS", "OUTS"}
ToTarget == {"MOVS", "STOS", "SCAS", "CMPS", "INS"}

PortWord(port) == In(port) + (256 * In(port + 1))
Port(port, sign) == IF sign = B THEN In(port) ELSE PortWord(port)

Delta(m, i) == (IF i.sign = B THEN 1 ELSE 2) * (IF m.ctl["DF"] THEN -1 ELSE 1)
Source(m, i) == Load(m, i.sign, Phys(m, DataSegment(i)) + m.r[SI])
TargetAddress(m) == Phys(m, "es") + m.r[DI]

Advance(m, i) ==
  [m EXCEPT !.r[SI] = IF i.op \in FromSource THEN Word(@ + Delta(m, i)) ELSE @,
            !.r[DI] = IF i.op \in ToTarget THEN Word(@ + Delta(m, i)) ELSE @]

StringStep(m, i) ==
  LET n == CASE i.op = "MOVS" -> Save(m, i.sign, TargetAddress(m), Source(m, i))
             [] i.op = "STOS" -> Save(m, i.sign, TargetAddress(m), Reg(m, i.sign, AX))
             [] i.op = "INS" -> Save(m, i.sign, TargetAddress(m), Port(m.r[DX], i.sign))
             [] i.op = "LODS" -> SetReg(m, i.sign, AX, Source(m, i))
             [] OTHER -> m
  IN  Advance(n, i)

Compared(m, i) ==
  LET a == IF i.op = "CMPS" THEN Source(m, i) ELSE Reg(m, i.sign, AX)
  IN  SUB("CMP", a, Load(m, i.sign, TargetAddress(m)), i.sign)

\* One repetition; a comparison ends the loop when it fails or is the last one,
\* and is noted then.
Repeat(run, i) ==
  LET lf == Compared(run.m, i)
      ends == i.op \in {"SCAS", "CMPS"}
                /\ (run.left = 1 \/ (lf.var1 = lf.var2) # (i.rep = "Z"))
      next == StringStep(run.m, i)
  IN  IF run.done THEN run
      ELSE [m |-> IF ends THEN Note(next, lf) ELSE next, left |-> run.left - 1, done |-> ends]

Times(m, i) == IF i.rep = "" THEN 1 ELSE m.r[CX]

DoString(m, i) ==
  LET run[n \in 0 .. Times(m, i)] ==
        IF n = 0 THEN [m |-> m, left |-> Times(m, i), done |-> FALSE] ELSE Repeat(run[n - 1], i)
      end == run[Times(m, i)]
  IN  IF i.rep = "" THEN end.m ELSE SetReg(end.m, W, CX, end.left)

-----------------------------------------------------------------------------
(* Ports.  IN AX, imm stores the low byte only.  The end of interrupt is   *)
(* the one write this module knows: the interrupt being served of highest  *)
(* priority ends.                                                          *)

Inputs(i) == i.op = "IN"
Input(m, i) ==
  LET port == IF i.form = "I" THEN i.imm ELSE m.r[DX]
  IN  IF i.sign = W /\ i.form # "I" THEN SetReg(m, W, AX, PortWord(port))
      ELSE SetReg(m, B, 0, In(port))

EndOfInterrupt(pic) ==
  [pic EXCEPT !.serving = IF @ = {} THEN {} ELSE @ \ {Min(@)}]

Outputs(i) == i.op = "OUT"
Output(m, i) ==
  LET port == IF i.form = "I" THEN i.imm ELSE m.r[DX]
  IN  IF port = 32 /\ AL(m) = 32 THEN [m EXCEPT !.pic = EndOfInterrupt(@)] ELSE m

-----------------------------------------------------------------------------
(* Control.                                                                *)

JumpsShort(i) == i.op = "Jcc" /\ i.form = "b"
JumpsNear(i) == i.op = "Jcc" /\ i.form = "w"
JumpIf(m, i, taken) == IF taken THEN Jump(m, m.ip + i.disp) ELSE m
ConditionalJump(m, i) == JumpIf(m, i, Condition(m, i.imm))

Loops(i) == i.op \in {"LOOPNZ", "LOOPZ", "LOOP", "JCXZ"}
Loop(m, i) ==
  LET cx == Word(m.r[CX] - 1)
      zf == GetZF(m.fl, m.lf)
      n == SetReg(m, W, CX, cx)
  IN  CASE i.op = "LOOPNZ" -> JumpIf(n, i, cx # 0 /\ ~zf)
        [] i.op = "LOOPZ" -> JumpIf(n, i, cx # 0 /\ zf)
        [] i.op = "LOOP" -> JumpIf(n, i, cx # 0)
        [] i.op = "JCXZ" -> JumpIf(m, i, m.r[CX] = 0)

JumpsRelative(i) == i.op \in {"CALL", "JMP"} /\ i.form = "J"
JumpRelative(m, i) ==
  Jump(IF i.op = "CALL" THEN Push16(m, m.ip) ELSE m, m.ip + i.disp)

\* The rest of GRP5.
Group5(i) == (i.op \in {"CALL", "JMP"} /\ i.form \in {"E", "Ep"}) \/ (i.op = "PUSH" /\ i.form = "E")
JumpIndirect(m, i) == Jump(IF i.op = "CALL" THEN Push16(m, m.ip) ELSE m, E(m, i, W))

FarTransfer(m, i, cs, ip) ==
  LET full == Fill(m)
      n == JumpFar(IF i.op = "CALL" THEN Push16(Push16(full, m.s["cs"]), m.ip) ELSE full,
                   cs, ip)
  IN  IF Traps(n) THEN Leave(Trap(n)) ELSE n

FarIndirect(m, i) ==
  IF IsRegister(i.rm) THEN Fatal(m)
  ELSE FarTransfer(m, i, Load(m, W, EA(m, i) + 2), Load(m, W, EA(m, i)))

Grouped5(m, i) ==
  CASE i.op = "PUSH" -> Push16(m, E(m, i, W))
    [] i.op # "PUSH" /\ i.form = "E" -> JumpIndirect(m, i)
    [] i.op # "PUSH" /\ i.form = "Ep" -> FarIndirect(m, i)

CallsFar(i) == i.op = "CALL" /\ i.form = "A"
JumpsFar(i) == i.op = "JMP" /\ i.form = "A"
FarDirect(m, i) == FarTransfer(m, i, i.imm, i.disp)

Returns(i) == i.op = "RETN"
Return(m, i) == LET n == Jump(Pop16(m), Top16(m)) IN SetReg(n, W, SP, Word(n.r[SP] + i.imm))

ReturnsFar(i) == i.op = "RETF"
ReturnFar(m, i) ==
  LET full == Fill(m)
      n == Pop16(Pop16(full))
  IN  SetReg(JumpFar(n, Top16(Pop16(full)), Top16(full)), W, SP, Word(n.r[SP] + i.imm))

\* dp_cpu_interrupt: the flags are filled in for the frame; the handler
\* starts with the trap flag set.
FrameOfStaleFlags(m) == <<FlagsWord(m), m.s["cs"], m.ip>>
FrameOfUnsavedIp(m) == <<FlagsWord(Fill(m)), m.s["cs"], Word(m.ip - 1)>>
Frame(m) == <<FlagsWord(Fill(m)), m.s["cs"], m.ip>>

Interrupt(m, num) ==
  LET frame == Frame(m)
      n == Push16(Push16(Push16(Fill(m), frame[1]), frame[2]), frame[3])
      off == SetControl(SetControl(n, "IF", FALSE), "TF", TRUE)
  IN  JumpFar(off, Load(n, W, (4 * num) + 2), Load(n, W, 4 * num))

\* INT3, INT, INTO, ICEBP: the round that ran one raises no debug interrupt.
Interrupts(i) == i.op \in {"INT3", "INT", "INTO"}
Breakpoints(i) == i.op = "ICEBP"
SoftwareInterrupt(m, i) ==
  LET num == CASE i.op = "INT" -> i.imm
               [] i.op = "INT3" -> 3
               [] i.op = "INTO" -> 4
               [] i.op = "ICEBP" -> 1
  IN  IF i.op = "INTO" /\ ~GetOF(m.fl, m.lf) THEN m
      ELSE [Interrupt(m, num) EXCEPT !.skip = TRUE]

InterruptReturns(i) == i.op = "IRET"
InterruptReturn(m) ==
  LET m1 == Pop16(m)
      m2 == Pop16(m1)
      n == SetFlagsWord(JumpFar(Pop16(m2), Top16(m1), Top16(m)), Top16(m2))
  IN  IF Traps(n) THEN Leave(Trap(n))
      ELSE IF n.ctl["IF"] /\ IrqCheck(n) THEN Leave(n) ELSE n

CarryOps(i) == i.op \in {"CLC", "STC"}
Complements(i) == i.op = "CMC"
SetCarry(m, i) ==
  LET full == Fill(m)
  IN  SetFlag(full, "CF", IF i.op = "CMC" THEN ~full.fl["CF"] ELSE i.op = "STC")

SetsControls(i) == i.op \in {"CLI", "STI", "CLD", "STD"}
SetControls(m, i) ==
  LET n == SetControl(m, IF i.op \in {"CLI", "STI"} THEN "IF" ELSE "DF",
                      i.op \in {"STI", "STD"})
  IN  IF i.op = "STI" /\ IrqCheck(m) THEN End(n) ELSE n

\* NOP, WAIT, LOCK and the coprocessor's instructions do nothing.
Idles(i) == i.op \in {"NOP", "WAIT", "LOCK", "ESC"}

\* FE 38 leaves the loop with the number of a callback.
CallsBack(i) == i.op = "CALLBACK"
CallBack(m, i) == [Fill(m) EXCEPT !.out = "call", !.cb = i.imm]

-----------------------------------------------------------------------------
(* One instruction: the machine past it, then what it does.                *)

Past(m) == [m EXCEPT !.ip = @ + 1, !.out = "next"]

ExecuteData(m, i) ==
  CASE ArithmeticRows(i) \/ Group1(i) \/ Tests(i) -> Arithmetic(m, i)
    [] Steps(i) \/ Group45Steps(i) -> IncDec(m, i)
    [] Group3(i) /\ i.op \in {"NOT", "NEG"} -> Negation(m, i)
    [] Group3(i) /\ i.op = "MUL" -> Multiply(m, i)
    [] Group3(i) /\ i.op = "IMUL" -> SignedMultiply(m, i)
    [] Group3(i) /\ i.op = "DIV" -> Divide(m, i)
    [] Group3(i) /\ i.op = "IDIV" -> SignedDivide(m, i)
    [] Group2(i) -> Shift(m, i)
    [] DoubleShiftOps(i) -> DoubleShift(m, i)
    [] MultiplyInto(i) -> SignedMultiplyInto(m, i)
    [] Decimal(i) -> DecimalAdjust(m, i)
    [] Moves(i) \/ MovesImmediate(i) \/ MovesImmediateE(i) \/ MovesOffset(i) -> Move(m, i)
    [] MovesSegment(i) -> MoveSegment(m, i)
    [] Lea(i) -> LoadAddress(m, i)
    [] Exchanges(i) -> Exchange(m, i)
    [] ExchangesAX(i) -> ExchangeAX(m, i)
    [] LoadsFar(i) -> LoadFar(m, i)
    [] Widens(i) -> Widen(m, i)
    [] Extends(i) -> Extend(m, i)
    [] Translates(i) -> Translate(m, i)
    [] Swaps(i) -> Swap(m, i)
    [] Sets(i) -> SetByte(m, i)
    [] ComparesAndExchanges(i) -> CompareExchange(m, i)
    [] ExchangesAndAdds(i) -> ExchangeAdd(m, i)
    [] TestsBit(i) -> TestBit(m, i)
    [] Group8(i) -> TestBitImmediate(m, i)
    [] Scans(i) -> Scan(m, i)
    [] String(i) -> DoString(m, i)

ExecuteControl(m, i) ==
  CASE PushesRegister(i) -> PushRegister(m, i)
    [] PushesSegment(i) -> PushSegment(m, i)
    [] PushesImmediate(i) -> PushImmediate(m, i)
    [] PopsE(i) -> PopE(m, i)
    [] PushesAll(i) -> IF i.op = "PUSHA" THEN PushAll(m) ELSE PopAll(m)
    [] PushesFlags(i) -> PushFlags(m)
    [] PopsFlags(i) -> PopFlags(m)
    [] LoadsFlags(i) -> LoadFlags(m, i)
    [] Leaves(i) -> LeaveFrame(m, i)
    [] Bounds(i) -> CheckBound(m, i)
    [] Inputs(i) -> Input(m, i)
    [] Outputs(i) -> Output(m, i)
    [] JumpsShort(i) \/ JumpsNear(i) -> ConditionalJump(m, i)
    [] Loops(i) -> Loop(m, i)
    [] JumpsRelative(i) -> JumpRelative(m, i)
    [] Group5(i) -> Grouped5(m, i)
    [] CallsFar(i) \/ JumpsFar(i) -> FarDirect(m, i)
    [] Returns(i) -> Return(m, i)
    [] ReturnsFar(i) -> ReturnFar(m, i)
    [] Interrupts(i) \/ Breakpoints(i) -> SoftwareInterrupt(m, i)
    [] InterruptReturns(i) -> InterruptReturn(m)
    [] CarryOps(i) \/ Complements(i) -> SetCarry(m, i)
    [] SetsControls(i) -> SetControls(m, i)
    [] Idles(i) -> m
    [] CallsBack(i) -> CallBack(m, i)
    [] OTHER -> Fatal(m)

DataOps ==
  Ariths \cup ShiftOps \cup Decimals \cup Strings \cup BitOps \cup DOMAIN FarPointers \cup
  {"TEST", "INC", "DEC", "NOT", "NEG", "MUL", "IMUL", "DIV", "IDIV", "SHLD", "SHRD", "MOV",
   "LEA", "XCHG", "CBW", "CWD", "MOVZX", "MOVSX", "XLAT", "SALC", "BSWAP", "SETcc",
   "CMPXCHG", "XADD", "BSF", "BSR"}

\* The instructions there are: an operand is one of those the opcode can have,
\* a number fits its field.
FormsOf(op) ==
  CASE op \in Ariths -> {"EG", "GE", "AI", "EI"}
    [] op = "TEST" -> {"EG", "AI", "EI"}
    [] op \in {"INC", "DEC"} -> {"R", "E"}
    [] op \in {"NOT", "NEG", "MUL", "DIV", "IDIV"} -> {"E"}
    [] op = "IMUL" -> {"E", "GE", "GEI"}
    [] op \in ShiftOps -> {"E1", "EI", "EC"}
    [] op \in {"SHLD", "SHRD"} -> {"EGI", "EGC"}
    [] op = "MOV" -> {"EG", "GE", "RI", "EI", "AO", "OA", "ES", "SE"}
    [] op = "LEA" -> {"GE"}
    [] op = "XCHG" -> {"EG", "R"}
    [] op \in BitOps -> {"EG", "EI"}
    [] OTHER -> {"", "R", "S", "I", "E", "Ep", "EG", "GE", "J", "A", "b", "w"}

IsInstruction(i) ==
  /\ i.sign \in {B, W}
  /\ i.form \in FormsOf(i.op)
  /\ i.rm \in Operands(B) /\ i.disp \in Operands(W) /\ i.imm \in Operands(i.sign)
  /\ i.seg \in {""} \cup {Segments[k] : k \in 1 .. 6}
  /\ i.form \in {"R", "RI"} => i.rm < 8
  /\ i.form = "S" => i.seg # ""
  /\ i.op \in {"Jcc", "SETcc"} => i.imm < 16
  /\ i.op \in {"SHLD", "SHRD"} => i.sign = W

Execute(m, i) ==
  IF i.op \in DataOps THEN ExecuteData(Past(m), i) ELSE ExecuteControl(Past(m), i)

=============================================================================
