---------------------------- MODULE IntCallback -----------------------------
(* The callbacks of core/int_callback.c: numbers that stand for C handlers,*)
(* the stubs of machine code that call them (FE 38 and the number), and    *)
(* the interrupt vectors, as the initialisers leave them.  An instruction  *)
(* takes one place; code after a stub's last return is left out.           *)
EXTENDS Naturals, SequencesExt, TLC

-----------------------------------------------------------------------------
(* Instructions.                                                           *)

Instruction ==
  [op |-> "NOP", sign |-> 32768, form |-> "", rm |-> 0, disp |-> 0, imm |-> 0,
   seg |-> "", rep |-> ""]

Plain(op) == [Instruction EXCEPT !.op = op]
OfRegister(op, k) == [Plain(op) EXCEPT !.form = "R", !.rm = k]
OfSegment(op, s) == [Plain(op) EXCEPT !.form = "S", !.seg = s]
OfImmediate(op, v) == [Plain(op) EXCEPT !.form = "I", !.imm = v]
ByteImmediate(k, v) ==
  [Plain("MOV") EXCEPT !.form = "RI", !.sign = 128, !.rm = k, !.imm = v]

-----------------------------------------------------------------------------
(* The stubs (dp_int_callback_setup), of the types the program registers.  *)
(* Number 0 stands for a handler that is NULL.                             *)

MAX == 128
None == 0
CallBackTo(cb) == IF cb = None THEN <<>> ELSE <<[Plain("CALLBACK") EXCEPT !.imm = cb]>>

PushAX == OfRegister("PUSH", 0)
PopAX == OfRegister("POP", 0)
EOI(port) == <<ByteImmediate(0, 32), [OfImmediate("OUT", port) EXCEPT !.sign = 128]>>

Stub(type, cb) ==
  LET call == CallBackTo(cb)
      iret == <<Plain("IRET")>>
      sti == <<Plain("STI")>>
      cli == <<Plain("CLI")>>
      int(n) == <<OfImmediate("INT", n)>>
      skip == <<[Plain("Jcc") EXCEPT !.form = "b", !.imm = 3, !.disp = 1]>>
  IN  CASE type = "NONE" -> call
        [] type = "IDLE" -> [k \in 1 .. 12 |-> Plain("NOP")] \o call
        [] type = "RETF" -> call \o <<Plain("RETF")>>
        [] type = "IRET" -> call \o iret
        [] type \in {"IRET_STI", "INT16", "INT21"} -> sti \o call \o iret
        [] type = "IRQ0" ->
             call \o <<PushAX, OfRegister("PUSH", 2), OfSegment("PUSH", "ds")>>
               \o int(28) \o cli
               \o <<OfSegment("POP", "ds"), OfRegister("POP", 2)>>
               \o EOI(32) \o <<PopAX>> \o iret
        [] type = "IRQ1" ->
             <<PushAX, [OfImmediate("IN", 96) EXCEPT !.sign = 128], ByteImmediate(4, 79),
               Plain("STC")>>
               \o int(21) \o skip \o call \o cli \o EOI(32) \o <<PopAX>> \o iret
        [] type = "IRQ9" ->
             call \o <<PushAX, ByteImmediate(0, 97), [OfImmediate("OUT", 160) EXCEPT !.sign = 128]>>
               \o int(10) \o cli \o <<PopAX>> \o iret
        [] type = "INT29" -> call \o <<PushAX, ByteImmediate(4, 14)>> \o int(16) \o <<PopAX>> \o iret

-----------------------------------------------------------------------------
(* Registration.  A registration says which vectors get the stub, the      *)
(* handler, the stub's type and where it goes (<<>>: where the number      *)
(* says).                                                                  *)

CallbackAddress(cb) == <<61440, 4096 + (32 * cb)>>
PhysOf(address) == (16 * address[1]) + address[2]

Registration(vectors, handler, type) ==
  [vectors |-> vectors, handler |-> handler, type |-> type, at |-> <<>>]

Empty == [handlers |-> [cb \in {} |-> ""], code |-> [a \in {} |-> Instruction],
          vectors |-> [n \in {} |-> <<0, 0>>]]

\* dp_cb_alloc_callback: the first number not in use.
FreeCallback(table) == Min((1 .. MAX - 1) \ DOMAIN table.handlers)

Register(table, reg) ==
  LET cb == FreeCallback(table)
      at == IF reg.at = <<>> THEN CallbackAddress(cb) ELSE reg.at
      stub == Stub(reg.type, IF reg.handler = "" THEN None ELSE cb)
      placed == [a \in PhysOf(at) .. PhysOf(at) + Len(stub) - 1 |-> stub[(a - PhysOf(at)) + 1]]
  IN  [handlers |-> (cb :> reg.handler) @@ table.handlers,
       code |-> placed @@ table.code,
       vectors |-> [n \in reg.vectors |-> at] @@ table.vectors]

\* dp_int_callback_init, with the vectors set later in it.
InitialCallbacks ==
  <<Registration({}, "stop", "NONE"),
    Registration({}, "idle", "IDLE"),
    Registration((0 .. 111) \ ({14} \cup (96 .. 101)), "default", "IRET"),
    Registration({14}, "default", "IRET")>>

\* dp_bios_init.
BiosCallbacks ==
  <<[Registration({8}, "int8", "IRQ0") EXCEPT !.at = <<61440, 65189>>],
    Registration({17}, "fatal", "IRET"),
    Registration({18}, "fatal", "IRET"),
    Registration({20}, "fatal", "IRET"),
    Registration({21}, "int15", "IRET"),
    Registration({26}, "int1a", "IRET_STI"),
    Registration({28}, "default", "IRET"),
    Registration({112}, "fatal", "IRET"),
    Registration({113}, "", "IRQ9"),
    Registration({24}, "fatal", "IRET"),
    Registration({25}, "fatal", "IRET")>>

\* dp_keyboard_init.
KeyboardCallbacks ==
  <<Registration({22}, "int16", "INT16"),
    [Registration({9}, "int9", "IRQ1") EXCEPT !.at = <<61440, 59783>>]>>

\* dp_dosblock_install_callbacks: the handlers of 2Ah and 2Fh are given the
\* vectors 28h and 29h.
DosCallbacks ==
  <<Registration({32}, "fatal", "IRET"),
    Registration({33}, "int21", "INT21"),
    Registration({37}, "fatal", "RETF"),
    Registration({38}, "fatal", "RETF"),
    Registration({39}, "fatal", "IRET"),
    Registration({40}, "fatal", "IRET"),
    Registration({41}, "fatal", "INT29"),
    Registration({40}, "fatal", "IRET"),
    Registration({41}, "fatal", "IRET")>>

\* dp_dosblock_init_mem takes vectors 1 to 4 at 0070:0008.
DosDefault == [Registration(1 .. 4, "default", "IRET") EXCEPT !.at = <<112, 8>>]

Callbacks ==
  FoldLeft(Register, Empty,
           InitialCallbacks \o BiosCallbacks \o KeyboardCallbacks
             \o <<Registration({16}, "int10", "IRET")>> \o DosCallbacks \o <<DosDefault>>)

\* dp_memp_set_realvec: offset and segment of each vector, low bytes first.
VectorBytes(vectors) ==
  [a \in {(4 * n) + k : n \in DOMAIN vectors, k \in 0 .. 3} |->
    LET word == vectors[a \div 4][IF a % 4 < 2 THEN 2 ELSE 1]
    IN  IF a % 2 = 0 THEN word % 256 ELSE word \div 256]

=============================================================================
