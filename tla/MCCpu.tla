------------------------------- MODULE MCCpu --------------------------------
(* Programs for Cpu: each takes a group of instructions through jumps and  *)
(* memory that show what they did, and ends by INT 21h, AH = 4Ch.          *)
EXTENDS Cpu

\* Operands: registers, memory at an offset, memory at BX, memory at BP + d.
RegReg(g, e) == [rm |-> 192 + (8 * g) + e, disp |-> 0]
At(g, offset) == [rm |-> (8 * g) + 6, disp |-> offset]
AtBX(g) == [rm |-> (8 * g) + 7, disp |-> 0]
AtBP(g, d) == [rm |-> 64 + (8 * g) + 6, disp |-> d]
AH_ == 4

With(op, form, sign, x) ==
  [Plain(op) EXCEPT !.form = form, !.sign = sign, !.rm = x.rm, !.disp = x.disp]
WithImm(op, form, sign, x, v) == [With(op, form, sign, x) EXCEPT !.imm = v]
Acc(op, sign, v) == [Plain(op) EXCEPT !.form = "AI", !.sign = sign, !.imm = v]
MovW(k, v) == [OfRegister("MOV", k) EXCEPT !.form = "RI", !.imm = v]
MovAH(v) == ByteImmediate(AH_, v)
J(cc, d) == [Plain("Jcc") EXCEPT !.form = "b", !.imm = cc, !.disp = d]
Invoke(n) == OfImmediate("INT", n)
Str(op, sign, rep) == [Plain(op) EXCEPT !.sign = sign, !.rep = rep]
Rel(op, d) == [Plain(op) EXCEPT !.form = "J", !.disp = d]
Far(op, ip) == [Plain(op) EXCEPT !.form = "A", !.imm = CodeSegment, !.disp = ip]
Exit == <<MovAH(76), Invoke(33)>>

Sums ==
  <<MovW(AX, 65535), Acc("ADD", W, 1), J(3, 1), WithImm("ADC", "EI", W, At(2, 0), 7),
    With("SBB", "EG", B, RegReg(0, 3)), Acc("CMP", B, 254), J(7, 1),
    With("INC", "E", W, At(0, 0)), J(4, 0), WithImm("SETcc", "E", B, At(0, 4), 2)>> \o Exit

Logic ==
  <<MovW(AX, 240), Plain("STC"), With("NEG", "E", B, RegReg(3, 0)), OfRegister("DEC", CX),
    J(3, 1), Acc("OR", W, 15), Acc("TEST", B, 1), J(5, 1), With("NOT", "E", W, RegReg(2, 0)),
    Plain("CMC"), Plain("SALC"), With("XOR", "EG", W, At(0, 0))>> \o Exit

Turns ==
  <<MovW(AX, 33025), MovW(CX, 3), With("SHL", "E1", W, RegReg(4, 0)), With("RCL", "EC", W, RegReg(2, 0)),
    WithImm("ROL", "EI", B, At(0, 3), 8), J(2, 1), With("RCR", "E1", W, At(3, 0)),
    With("SHRD", "EGC", W, RegReg(1, 0)), J(2, 0), WithImm("SAR", "EI", W, RegReg(7, 0), 2),
    WithImm("ROR", "EI", B, RegReg(1, 0), 9), Acc("ADC", W, 0)>> \o Exit

Products ==
  <<MovW(AX, 700), MovW(BX, 300), With("MUL", "E", W, RegReg(4, 3)), J(2, 1), Plain("NOP"),
    With("DIV", "E", W, RegReg(6, 3)), Plain("CWD"), With("IDIV", "E", W, RegReg(7, 3)),
    WithImm("IMUL", "GEI", W, RegReg(0, 3), 3), J(0, 1), With("IMUL", "E", B, RegReg(5, 3)),
    Plain("CBW")>> \o Exit

Digits ==
  <<MovW(AX, 57), Acc("ADD", B, 72), Plain("DAA"), J(3, 1), Acc("SUB", B, 5), Plain("DAS"),
    Acc("ADD", B, 9), Plain("AAA"), [Plain("AAM") EXCEPT !.imm = 10], [Plain("AAD") EXCEPT !.imm = 10],
    Plain("AAS"), Acc("ADC", W, 0)>> \o Exit

Stack ==
  <<Plain("PUSHA"), OfRegister("PUSH", SP), With("POP", "E", W, At(0, 2)), Plain("CLC"),
    Plain("PUSHF"), OfImmediate("PUSH", 9), OfRegister("POP", BX), Plain("POPF"), J(2, 1),
    MovW(BP, 248), Plain("LEAVE"), OfSegment("PUSH", "ds"), OfSegment("POP", "es"),
    With("XCHG", "EG", W, AtBP(0, 2))>> \o Exit

Copies ==
  <<MovW(AX, 513), With("MOV", "EG", W, At(0, 1)), MovW(DI, 9), MovW(CX, 3), Str("MOVS", B, "Z"),
    Plain("STD"), MovW(CX, 4), Str("SCAS", B, "NZ"), J(5, 1), Plain("CLD"), Str("CMPS", W, ""),
    Str("LODS", B, ""), Str("STOS", W, "")>> \o Exit

Calls ==
  <<MovW(CX, 2), Rel("CALL", 6), Plain("LOOP"), Far("CALL", 10), MovW(BX, 6), With("JMP", "E", W, RegReg(4, 3))>>
  \o Exit \o
  <<Plain("NOP"), Plain("RETN"), Acc("CMP", W, 1), Plain("RETF")>>

LoopsBack == [Calls EXCEPT ![3].disp = 65534]

\* The flag set before the call must come back clear.
Files ==
  <<Acc("CMP", W, 1), MovAH(61), Invoke(33), J(2, 3), MovAH(62), Invoke(33), J(3, 0)>> \o Exit

\* A hook on the timer interrupt that passes it on.
Hook ==
  <<MovW(AX, 13576), Invoke(33), With("MOV", "EG", W, At(3, 0)), With("MOV", "ES", W, At(0, 2)),
    OfSegment("PUSH", "cs"), OfSegment("POP", "ds"), MovW(DX, 12), MovW(AX, 9480), Invoke(33), Plain("NOP")>>
  \o Exit \o
  <<OfRegister("PUSH", AX), OfRegister("POP", AX), [With("JMP", "Ep", W, At(5, 0)) EXCEPT !.seg = "fs"]>>

BitOpsProgram ==
  <<MovW(AX, 40), With("BTS", "EG", W, At(0, 0)), J(2, 1), With("BSF", "GE", W, RegReg(2, 0)), J(5, 1),
    With("XADD", "EG", W, RegReg(2, 0)), With("CMPXCHG", "EG", B, At(2, 5)), J(5, 1),
    With("MOVSX", "GE", B, At(3, 5)), WithImm("BTC", "EI", W, RegReg(7, 3), 2), Plain("XLAT"),
    With("LES", "GE", W, At(6, 4)), OfRegister("BSWAP", DI)>> \o Exit

\* PUSHF with flags pending.
Saves == <<Acc("CMP", W, 1), Plain("PUSHF"), OfRegister("POP", BX)>> \o Exit

\* A stack switch with interrupts off, and software interrupts.
Switches ==
  <<Plain("CLI"), OfSegment("PUSH", "ss"), OfSegment("POP", "ss"), MovW(SP, 320), Plain("STI"),
    Plain("INT3"), Plain("INTO"), Plain("ICEBP"), [OfImmediate("IN", 64) EXCEPT !.sign = B],
    With("LEA", "GE", W, AtBP(6, 5)), With("BOUND", "GE", W, At(1, 40))>> \o Exit

Keys ==
  <<MovAH(1), Invoke(22), J(5, 2), MovAH(79), Invoke(21), J(2, 1), OfRegister("INC", BX), MovAH(0), Invoke(22)>> \o Exit

\* The moves and tests the other programs leave out.
Mixed ==
  <<MovW(AX, 4660), [With("MOV", "OA", W, At(0, 2)) EXCEPT !.rm = 0], OfRegister("XCHG", CX),
    [With("MOV", "AO", B, At(0, 3)) EXCEPT !.rm = 0], WithImm("MOV", "EI", W, At(0, 8), 200),
    With("MOV", "SE", W, RegReg(0, 1)), With("MOVZX", "GE", B, At(2, 2)), Acc("SUB", B, 34), Plain("LAHF"),
    Plain("PUSHA"), With("INC", "E", W, At(0, 8)), Plain("POPA"), WithImm("BT", "EI", W, At(4, 8), 3),
    J(2, 0), With("BTR", "EG", W, RegReg(2, 1)), With("BSR", "GE", W, At(3, 8)), J(4, 0),
    With("PUSH", "E", W, At(6, 8)), Str("INS", B, ""), WithImm("SETcc", "E", B, At(0, 4), 3)>> \o Exit

Branches ==
  <<MovW(CX, 3), Acc("CMP", B, 0), [Plain("LOOPZ") EXCEPT !.disp = 65535], [Plain("LOOPNZ") EXCEPT !.disp = 0],
    [Plain("JCXZ") EXCEPT !.disp = 1], MovAH(48), Invoke(33), MovAH(0), Invoke(26), MovW(BX, 16),
    With("CALL", "E", W, RegReg(2, 3)), J(2, 1), Plain("NOP"), Plain("WAIT")>> \o Exit \o
  <<Plain("STC"), MovW(DX, 96), [Plain("IN") EXCEPT !.sign = W], Plain("RETN")>>

MCPrograms ==
  <<Sums, Logic, Turns, Products, Digits, Stack, Copies, LoopsBack, Files, Hook, BitOpsProgram,
    Switches, Keys, Mixed, Branches, Saves>>

\* Another stack while interrupts are on: ss first, sp next.
MCSwitchPrograms ==
  <<<<MovW(AX, StackSegmentOfProgram + 16), With("MOV", "SE", W, RegReg(2, 0)), MovW(SP, 64)>> \o Exit,
    <<OfImmediate("PUSH", StackSegmentOfProgram + 16), OfSegment("POP", "ss"), MovW(SP, 64)>> \o Exit>>

MCFilePrograms == <<Files>>

MCIn(port) == IF port = 96 THEN 30 ELSE 255
=============================================================================
