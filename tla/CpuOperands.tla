---------------------------- MODULE CpuOperands -----------------------------
(* The registers, the memory and the operands of an instruction, in real   *)
(* mode with 16 bit operands and addresses (core/cpu_decode.c, core/cpu.c).*)
(*                                                                         *)
(* A machine m is a record:                                                *)
(*   r    word registers, AX CX DX BX SP BP SI DI = 0 .. 7                 *)
(*   s    segment registers                                                *)
(*   ip   the next instruction in segment cs; an instruction is one place  *)
(*   fl   the condition flags; lf what the last operation noted of them    *)
(*   ctl  IF, DF and TF                                                    *)
(*   mem  the bytes written so far, by physical address; 0 elsewhere       *)
(*   pic  lines that ask for an interrupt, lines in service                *)
(*   trap the decoder runs CPU_Core_Normal_Trap_Run; skip its trap_skip    *)
(*   out  how the instruction left the loop, cb the callback it asked for  *)
(*                                                                         *)
(* An instruction i (IntCallback) says op, sign (its width), form (which   *)
(* operands), rm (the mod/rm byte, or the register in the opcode), disp    *)
(* (the displacement), imm, seg and rep (the prefixes, "" for none).       *)
EXTENDS LazyFlags, IntCallback, FiniteSets, FiniteSetsExt

B == 128                          \* byte and word operands, by sign bit
W == 32768

Controls == {"IF", "DF", "TF"}
Segments == <<"es", "cs", "ss", "ds", "fs", "gs">>

AX == 0
CX == 1
DX == 2
BX == 3
SP == 4
BP == 5
SI == 6
DI == 7

Word(x) == x % 65536
Signed(x, sign) == IF x >= sign THEN x - 2 * sign ELSE x
Unsigned(x, sign) == x % (2 * sign)

-----------------------------------------------------------------------------
(* Registers and memory.                                                   *)

\* Byte registers: AL CL DL BL, then AH CH DH BH.
Reg(m, sign, k) ==
  IF sign = W THEN m.r[k]
  ELSE IF k < 4 THEN m.r[k] % 256
  ELSE m.r[k - 4] \div 256

SetReg(m, sign, k, v) ==
  IF sign = W THEN [m EXCEPT !.r[k] = v]
  ELSE IF k < 4 THEN [m EXCEPT !.r[k] = (m.r[k] - (m.r[k] % 256)) + v]
  ELSE [m EXCEPT !.r[k - 4] = (m.r[k - 4] % 256) + (256 * v)]

AL(m) == Reg(m, B, 0)
AH(m) == Reg(m, B, 4)
CL(m) == Reg(m, B, 1)

Phys(m, segment) == 16 * m.s[segment]

ByteAt(m, a) == IF a \in DOMAIN m.mem THEN m.mem[a] ELSE 0

Load(m, sign, a) ==
  IF sign = B THEN ByteAt(m, a) ELSE ByteAt(m, a) + (256 * ByteAt(m, a + 1))

SaveUnsplit(m, sign, a, v) ==
  [m EXCEPT !.mem = [x \in DOMAIN @ \cup {a} |-> IF x = a THEN v ELSE @[x]]]

Save(m, sign, a, v) ==
  LET places == IF sign = B THEN {a} ELSE {a, a + 1}
  IN  [m EXCEPT !.mem =
        [x \in DOMAIN @ \cup places |->
          IF x = a THEN v % 256 ELSE IF x \in places THEN v \div 256 ELSE @[x]]]

-----------------------------------------------------------------------------
(* The stack.                                                              *)

StackAddress(m, sp) == Phys(m, "ss") + sp

Push16(m, v) ==
  LET sp == Word(m.r[SP] - 2)
  IN  Save(SetReg(m, W, SP, sp), W, StackAddress(m, sp), Word(v))

Top16(m) == Load(m, W, StackAddress(m, m.r[SP]))
Pop16(m) == SetReg(m, W, SP, Word(m.r[SP] + 2))

-----------------------------------------------------------------------------
(* The mod/rm byte.                                                        *)

RegField(rm) == (rm \div 8) % 8            \* lookupRMreg
EAField(rm) == rm % 8                      \* lookupRMEAreg
IsRegister(rm) == rm >= 192

\* EA_16_mm_n: what is added up, and whether BP makes it a stack address.
EASum(m, i) ==
  LET e == EAField(i.rm)
      r == m.r
  IN  CASE e = 0 -> r[BX] + r[SI]
        [] e = 1 -> r[BX] + r[DI]
        [] e = 2 -> r[BP] + r[SI]
        [] e = 3 -> r[BP] + r[DI]
        [] e = 4 -> r[SI]
        [] e = 5 -> r[DI]
        [] e = 6 -> IF i.rm < 64 THEN 0 ELSE r[BP]
        [] e = 7 -> r[BX]

EAOffset(m, i) ==
  Word(EASum(m, i) + (IF i.rm >= 64 \/ EAField(i.rm) = 6 THEN i.disp ELSE 0))

\* A segment prefix stands for both base segments.
EASegment(i) ==
  IF i.seg # "" THEN i.seg
  ELSE IF EAField(i.rm) \in {2, 3} \/ (EAField(i.rm) = 6 /\ i.rm >= 64) THEN "ss"
  ELSE "ds"

EA(m, i) == Phys(m, EASegment(i)) + EAOffset(m, i)

DataSegment(i) == IF i.seg # "" THEN i.seg ELSE "ds"
DirectAddress(m, i) == Phys(m, DataSegment(i)) + i.disp        \* GetEADirect

\* The E operand of width `sign`, and the G operand.
E(m, i, sign) ==
  IF IsRegister(i.rm) THEN Reg(m, sign, EAField(i.rm)) ELSE Load(m, sign, EA(m, i))
SetE(m, i, sign, v) ==
  IF IsRegister(i.rm) THEN SetReg(m, sign, EAField(i.rm), v)
  ELSE Save(m, sign, EA(m, i), v)

G(m, i, sign) == Reg(m, sign, RegField(i.rm))
SetG(m, i, sign, v) == SetReg(m, sign, RegField(i.rm), v)

-----------------------------------------------------------------------------
(* The flags register as a word, and what makes an instruction leave the   *)
(* loop.                                                                   *)

Weight ==
  [f \in Conditions \cup Controls |->
    CASE f = "CF" -> 1 [] f = "PF" -> 4 [] f = "AF" -> 16 [] f = "ZF" -> 64 [] f = "SF" -> 128
      [] f = "TF" -> 256 [] f = "IF" -> 512 [] f = "DF" -> 1024 [] f = "OF" -> 2048]

\* dcr_reg_flags as it stands: lflags is not looked at.
FlagsWord(m) ==
  LET value(f) == IF f \in Conditions THEN m.fl[f] ELSE m.ctl[f]
      bit(f) == IF value(f) THEN Weight[f] ELSE 0
  IN  2 + bit("CF") + bit("PF") + bit("AF") + bit("ZF") + bit("SF")
        + bit("TF") + bit("IF") + bit("DF") + bit("OF")

HasBit(word, f) == (word \div Weight[f]) % 2 = 1

\* dp_cpu_set_flags, then dp_destroy_condition_flags.
SetFlagsWord(m, word) ==
  [m EXCEPT !.fl = [f \in Conditions |-> HasBit(word, f)],
            !.ctl = [f \in Controls |-> HasBit(word, f)],
            !.lf = Unknown]

Fill(m) == [m EXCEPT !.fl = FillFlags(m.fl, m.lf), !.lf = Unknown]
FillNoCFOF(m) == [m EXCEPT !.fl = FillFlagsNoCFOF(m.fl, m.lf), !.lf = Unknown]

Note(m, lf) == [m EXCEPT !.lf = lf]
SetFlag(m, f, b) == [m EXCEPT !.fl[f] = b]
SetControl(m, f, b) == [m EXCEPT !.ctl[f] = b]

Leave(m) == [m EXCEPT !.out = "leave"]           \* return from the decoder
End(m) == [m EXCEPT !.out = "end"]               \* goto decode_end
Fatal(m) == [m EXCEPT !.out = "fatal"]           \* DP_FAT, DP_UNIMPLEMENTED_FAT
Shadow(m) == [m EXCEPT !.out = "again"]          \* decode_count++

Jump(m, ip) == [m EXCEPT !.ip = Word(ip)]
JumpFar(m, cs, ip) == [m EXCEPT !.s["cs"] = cs, !.ip = ip]

IrqCheck(m) == m.pic.asked # {}

\* After a far call or jump, POPF or IRET: a set trap flag changes the decoder.
Traps(m) == m.ctl["TF"]
Trap(m) == [m EXCEPT !.trap = TRUE]

=============================================================================
