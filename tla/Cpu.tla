-------------------------------- MODULE Cpu ---------------------------------
(* The processor at work: dospack_loop calls the decoder, the decoder runs *)
(* a round of instructions, takes interrupts at the top of its loop and    *)
(* leaves it for a callback (core/dospack.c, core/cpu_decode.c, core/cpu.c)*)
(*                                                                         *)
(* A program that a device interrupts must not notice.  So the same        *)
(* program also runs on a second machine, the twin, where no device asks   *)
(* for anything; it takes a step whenever the program itself does.         *)
EXTENDS CpuInstructions

CONSTANTS Programs,               \* programs, sequences of instructions
          Round,                  \* instructions in a round, 128 in the code
          Lines                   \* interrupt lines that devices raise, once

\* A port returns a byte; programs and stubs consist of instructions.
ASSUME CpuAssumption ==
  /\ Round \in Nat \ {0}
  /\ Lines \subseteq Nat
  /\ {B, W} \subseteq Signs
  /\ \A port \in 0 .. 2 * W : In(port) \in Operands(B)
  /\ \A p \in DOMAIN Programs : \A k \in DOMAIN Programs[p] : IsInstruction(Programs[p][k])

ASSUME CallbacksAssumption ==
  /\ \A a \in DOMAIN Callbacks.code : IsInstruction(Callbacks.code[a])
  /\ \A a \in DOMAIN VectorBytes(Callbacks.vectors) :
       VectorBytes(Callbacks.vectors)[a] \in Operands(B)

VARIABLES
  m,              \* the machine
  twin,           \* the same program, undisturbed
  program,        \* which of Programs runs
  phase,          \* where dospack_loop and the decoder are
  count,          \* decode_count
  trapping,       \* CPU_Core_Normal_Trap_Run runs this round
  todo,           \* lines still to be raised
  frames,         \* ss:sp at the interrupts the program did not ask for
  shadow,         \* the last instruction loaded ss
  lost            \* flags got lost in an interrupt (MissedAnswer, StalePush)

vars == <<m, twin, program, phase, count, trapping, todo, frames, shadow, lost>>

CodeSegment == 4096
DataSegmentOfProgram == 8192
StackSegmentOfProgram == 12288
StackTop == 256
ProgramMemory == 65536            \* the program owns the addresses from here

\* What lies elsewhere is not modelled: no instruction is there.
Code(a) ==
  LET k == (a - (16 * CodeSegment)) + 1
  IN  IF k \in DOMAIN Programs[program] THEN Programs[program][k]
      ELSE IF a \in DOMAIN Callbacks.code THEN Callbacks.code[a]
      ELSE Plain("")

Current(n) == Code(Phys(n, "cs") + n.ip)

-----------------------------------------------------------------------------
(* The callbacks' effects on the machine.                                  *)

\* dp_cpu_callback_szf, scf, sif: the flags word two words above the top of
\* the stack, which is the caller's if the stub's frame is on top.
FrameAddress(n) == StackAddress(n, n.r[SP]) + 4

SetFrame(n, f, b) ==
  LET word == Load(n, W, FrameAddress(n))
  IN  IF HasBit(word, f) = b THEN n
      ELSE Save(n, W, FrameAddress(n), IF b THEN word + Weight[f] ELSE word - Weight[f])

Int15(n) == IF AH(n) = 79 THEN SetFrame(n, "CF", TRUE) ELSE Fatal(n)

\* No key waits; BiosKeyboard has the keys.
Int16(n) ==
  CASE AH(n) = 0 -> SetReg(n, W, AX, 0)
    [] AH(n) = 1 -> SetFrame(SetFrame(n, "IF", TRUE), "ZF", TRUE)
    [] OTHER -> Fatal(n)

SetVector(n) == Save(Save(n, W, 4 * AL(n), n.r[DX]), W, (4 * AL(n)) + 2, n.s["ds"])
GetVector(n) ==
  SetSegment(SetReg(n, W, BX, Load(n, W, 4 * AL(n))), "es", Load(n, W, (4 * AL(n)) + 2))

GetVersion(n) ==
  LET bh == IF AL(n) = 0 THEN 255 ELSE IF AL(n) = 1 THEN 16 ELSE Reg(n, B, 7)
  IN  SetReg(SetReg(SetReg(n, W, AX, 5), W, BX, 256 * bh), W, CX, 0)

Stop(n) == [n EXCEPT !.out = "stop"]

\* Module Dos has AH = 4A; dates and times are the host's and left out.
Int21(n) ==
  CASE AH(n) = 37 -> SetVector(n)
    [] AH(n) = 48 -> GetVersion(n)
    [] AH(n) = 53 -> GetVector(n)
    [] AH(n) = 61 -> SetFrame(SetReg(n, W, AX, 5), "CF", FALSE)
    [] AH(n) \in {62, 68} -> SetFrame(n, "CF", FALSE)
    [] AH(n) = 63 -> SetFrame(SetReg(n, W, AX, 0), "CF", FALSE)
    [] AH(n) = 64 -> n
    [] AH(n) \in {66, 76} -> Stop(n)
    [] OTHER -> Fatal(n)

\* dp_bios_int1a_handler: AH = 0 leaves everything as it is.
Int1a(n) == IF AH(n) = 0 THEN n ELSE Fatal(n)

\* The handlers of the timer and the keyboard interrupt change what other
\* modules describe, and nothing of this one.
Handle(n, handler) ==
  CASE handler \in {"default", "int8", "int9"} -> n
    [] handler \in {"stop", "idle"} -> Stop(n)
    [] handler = "int15" -> Int15(n)
    [] handler = "int16" -> Int16(n)
    [] handler = "int1a" -> Int1a(n)
    [] handler = "int21" -> Int21(n)
    [] OTHER -> Fatal(n)

Answer(n) == Handle([n EXCEPT !.out = "next"], Callbacks.handlers[n.cb])

-----------------------------------------------------------------------------
(* The steps.                                                              *)

Machine ==
  [r |-> [k \in 0 .. 7 |-> IF k = SP THEN StackTop ELSE 0],
   s |-> [es |-> DataSegmentOfProgram, cs |-> CodeSegment, ss |-> StackSegmentOfProgram,
          ds |-> DataSegmentOfProgram, fs |-> DataSegmentOfProgram, gs |-> DataSegmentOfProgram],
   ip |-> 0,
   fl |-> [f \in Conditions |-> FALSE],
   lf |-> Unknown,
   ctl |-> [f \in Controls |-> f = "IF"],
   mem |-> VectorBytes(Callbacks.vectors),
   pic |-> [asked |-> {}, serving |-> {}],
   trap |-> FALSE, skip |-> FALSE, out |-> "next", cb |-> 0]

Init ==
  /\ m = Machine
  /\ twin = Machine
  /\ program \in DOMAIN Programs
  /\ phase = "host"
  /\ count = 0
  /\ trapping = FALSE
  /\ todo = Lines
  /\ frames = <<>>
  /\ shadow = FALSE
  /\ lost = FALSE

\* An interrupt the program did not ask for.
Disturb(n, num) ==
  /\ m' = Interrupt(n, num)
  /\ frames' = Append(frames, <<n.s["ss"], n.r[SP]>>)

StartRound ==
  /\ phase = "host"
  /\ phase' = "top"
  /\ count' = Round
  /\ trapping' = m.trap
  /\ m' = IF m.trap THEN [m EXCEPT !.skip = FALSE] ELSE m
  /\ UNCHANGED <<twin, program, todo, frames, shadow, lost>>

\* dp_pic_run_irqs: the first line that is before the one in service.
Startable(pic) == {l \in pic.asked : \A k \in pic.serving : l < k}

Accept(line) ==
  /\ Disturb([m EXCEPT !.pic = [asked |-> @.asked \ {line},
                                serving |-> @.serving \cup {line}]], 8 + line)
  /\ UNCHANGED <<twin, program, trapping, todo, lost>>

LoopTop ==
  /\ phase = "top"
  /\ count > 0
  /\ count' = count - 1
  /\ phase' = "fetch"
  /\ shadow' = FALSE
  /\ IF m.ctl["IF"] /\ IrqCheck(m) /\ Startable(m.pic) # {}
     THEN Accept(Min(Startable(m.pic)))
     ELSE UNCHANGED <<m, twin, program, trapping, todo, frames, lost>>

\* A device's event (dp_timetrack_run_events_check) raises its line.
Raise ==
  /\ phase \in {"fetch", "host"}
  /\ \E line \in todo :
       /\ todo' = todo \ {line}
       /\ m' = [m EXCEPT !.pic.asked = @ \cup {line}]
  /\ UNCHANGED <<twin, program, phase, count, trapping, frames, shadow, lost>>

\* IRET to where an interrupt came in ends it.
Ended(n) ==
  IF frames # <<>> /\ Current(m).op = "IRET"
     /\ frames[Len(frames)] = <<n.s["ss"], n.r[SP]>>
  THEN SubSeq(frames, 1, Len(frames) - 1) ELSE frames

\* PUSHF pushes the flags register as it stands; an interrupt fills it in, so
\* one after the instruction before shows in the pushed word.
StalePush ==
  frames = <<>> /\ Current(m).op = "PUSHF" /\ FlagsWord(m) # FlagsWord(twin)

Decode ==
  /\ phase = "fetch"
  /\ LET n == Execute(m, Current(m))
     IN  /\ m' = n
         /\ twin' = IF frames = <<>> THEN Execute(twin, Current(twin)) ELSE twin
         /\ phase' = CASE n.out \in {"next", "again"} -> "top"
                       [] n.out \in {"leave", "end", "call"} -> "ended"
                       [] n.out = "fatal" -> "stopped"
         /\ count' = IF n.out = "again" THEN count + 1 ELSE count
         /\ shadow' = (n.out = "again")
         /\ frames' = Ended(n)
  /\ lost' = (lost \/ StalePush)
  /\ UNCHANGED <<program, trapping, todo>>

\* The round is over: the flags are filled in unless the decoder returned at
\* once, and after a round under the trap flag comes interrupt 1.
Filled(n) == IF n.out \in {"leave", "call"} THEN n ELSE Fill(n)

EndRound ==
  /\ phase = "ended" \/ (phase = "top" /\ count = 0)
  /\ phase' = IF m.out = "call" THEN "callback" ELSE "host"
  /\ LET n == [Filled(m) EXCEPT !.trap = IF trapping THEN FALSE ELSE @]
     IN  IF trapping /\ ~m.skip THEN Disturb(n, 1)
         ELSE m' = n /\ UNCHANGED frames
  /\ trapping' = FALSE
  /\ UNCHANGED <<twin, program, count, todo, shadow, lost>>

\* The callback changes flags of the program's and another frame is on top.
MissedAnswer ==
  /\ twin.out = "call"
  /\ frames # <<>>
  /\ Load(twin', W, FrameAddress(twin)) # Load(twin, W, FrameAddress(twin))

\* dospack_loop runs the callback.
Callback ==
  /\ phase = "callback"
  /\ m' = Answer(m)
  /\ twin' = IF twin.out = "call" THEN Answer(twin) ELSE twin
  /\ lost' = (lost \/ MissedAnswer)
  /\ phase' = IF m'.out \in {"stop", "fatal"} THEN "stopped" ELSE "host"
  /\ UNCHANGED <<program, count, trapping, todo, frames, shadow>>

Next == StartRound \/ LoopTop \/ Raise \/ Decode \/ EndRound \/ Callback

\* The host calls dospack_loop for ever, so its phases go on: every step but
\* Raise changes the phase, and one is enabled until the program stops.
\* Devices need not raise anything.
Phases == {"host", "top", "fetch", "ended", "callback", "stopped"}
Runs == phase # "stopped" /\ phase' \in Phases \ {phase}

Spec == Init /\ [][Next]_vars /\ WF_phase(Runs)

-----------------------------------------------------------------------------
(* Properties.                                                             *)

\* The machine's parts stay in their widths (ip is held in 32 bits, and a fetch
\* does not wrap it), and lines in service were raised.
TypeOK ==
  /\ m.r \in [0 .. 7 -> Operands(W)]
  /\ \A x \in DOMAIN m.s : m.s[x] \in Operands(W)
  /\ m.ip \in Nat
  /\ m.fl \in [Conditions -> BOOLEAN] /\ m.ctl \in [Controls -> BOOLEAN]
  /\ \A a \in DOMAIN m.mem : m.mem[a] \in Operands(B)
  /\ m.pic.asked \cup m.pic.serving \subseteq Lines \ todo
  /\ phase \in Phases
  /\ count \in 0 .. Round

F == INSTANCE FlagMachine WITH flags <- m.fl, lflags <- m.lf

\* The instructions that drop what is pending and load all six flags.
LoadsFlagsAnew == {"POPF", "IRET", "BSF", "BSR"} \cup Decimals
MayLoad == phase = "fetch" /\ Current(m).op \in LoadsFlagsAnew

\* Every step on the flags is one of FlagMachine's, and only the instructions
\* that do so load all of them anew: whatever the programs do, the lazy flags
\* stay equal to flags kept eagerly (theorems in CpuProofs).
ImplementsFlagMachine ==
  F!FlagInit /\ [][F!FlagKeep \/ (MayLoad /\ F!AllLoaded)]_F!flagVars

\* The program's own memory: not what lies below the top of its stack.
Owned(n, a) ==
  a >= ProgramMemory /\ a \notin Phys(n, "ss") .. Phys(n, "ss") + n.r[SP] - 1

Transparent ==
  frames = <<>> =>
    /\ m.r = twin.r /\ m.s = twin.s /\ m.ip = twin.ip /\ m.ctl = twin.ctl
    /\ \A a \in DOMAIN m.mem \cup DOMAIN twin.mem :
         Owned(twin, a) => ByteAt(m, a) = ByteAt(twin, a)

\* A program cannot tell where hardware and trap interrupts came in: back in
\* it, it has the registers and the memory, and has taken the jumps, of an
\* undisturbed run: unless a callback's answer got lost (below) or PUSHF
\* pushed a word the interrupt had filled in.
InterruptsTransparent == ~lost => Transparent

\* A program ends, interrupted or not: no interrupt 1 calls for another one
\* for ever, no return goes astray.
ProgramsEnd == <>(phase = "stopped" /\ m.out = "stop")

\* DOS answers in the carry flag of its caller ("open existing file always
\* succeeding"): with or without an interrupt.
AnswersReachTheCaller == Transparent

\* After a load of ss "always do another instruction": no interrupt comes
\* between the two halves of a stack switch.
StackSwitchesAreWhole == [][shadow => frames' = frames]_vars

=============================================================================
