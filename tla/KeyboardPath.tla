---------------------------- MODULE KeyboardPath ----------------------------
(***************************************************************************)
(* The way of a key to the BIOS: Keyboard and Pic composed with the decode *)
(* loop of core/cpu_decode.c, the interrupt stubs that core/int_callback.c *)
(* installs, and a guest program with critical sections.                   *)
(*                                                                         *)
(* An iteration of the decode loop looks at irq_check, runs the events,    *)
(* and executes one instruction (phase "irq", "events", "execute").  The   *)
(* guest is either in its program or in interrupt stubs, the innermost     *)
(* last in `stack`.                                                        *)
(***************************************************************************)
EXTENDS Integers, Sequences

CONSTANTS
  Keys, NoKey, BufSize, FirstRate, Rates, MaxCommands,
  MaxBytes,   \* bound: how many bytes the keyboard accepts
  MaxTimer    \* bound: how often the timer raises line 0

VARIABLES
  \* Keyboard
  buffer, pos, used, p60data, p60changed, scheduled, transfers, command,
  scanning, active_kbd, repeat, speed, held, commands,
  \* Pic
  requested, masked, inservice, vector, irq_check, active, pics,
  special_mode, special_seen,
  \* the processor
  interrupts, \* the interrupt flag
  phase,      \* where the decode loop is
  program,    \* where the program is
  stack,      \* the interrupt stubs being executed
  \* history
  accepted,   \* the bytes that the ring accepted and no command threw away
  seen,       \* the bytes that dp_keyboard_int9_handler was given
  timer       \* how often line 0 was raised

KbdLine == 1
TimerLine == 0

\* Port 20h: end of interrupt.  Port 21h: the mask of the BIOS, and the same
\* with the keyboard line masked.
EOI == 32
OpenMask == 248
KeyboardMask == 250

K == INSTANCE Keyboard WITH irq1 <- KbdLine \in requested, active <- active_kbd

P == INSTANCE Pic WITH
  DeviceIrqs <- {TimerLine, KbdLine},
  MaskedIrqs <- {},
  CommandWrites <- {<<0, EOI>>},
  DataWrites <- {<<0, OpenMask>>, <<0, KeyboardMask>>}

ASSUME PathAssumption ==
  /\ Keys \subseteq K!Key
  /\ NoKey \notin Keys
  /\ BufSize \in Nat \ {0}
  /\ MaxBytes \in Nat
  /\ MaxTimer \in Nat

kbd_vars == <<buffer, pos, used, p60data, p60changed, scheduled, transfers,
              command, scanning, active_kbd, repeat, speed, held, commands>>
pic_vars == <<requested, masked, inservice, vector, irq_check, active, pics,
              special_mode, special_seen>>
cpu_vars == <<interrupts, phase, program, stack>>
history_vars == <<accepted, seen, timer>>
vars == <<kbd_vars, pic_vars, cpu_vars, history_vars>>

-----------------------------------------------------------------------------
(***************************************************************************)
(* The decode loop and its events.                                         *)
(***************************************************************************)

CanInterrupt == interrupts /\ irq_check # {} /\ \E i \in P!Irqs : P!CanStart(i)

\* dp_cpu_interrupt pushes the flags and clears the interrupt flag.
Interrupt ==
  /\ phase = "irq"
  /\ interrupts
  /\ P!RunIrqs
  /\ stack' = Append(stack, [line |-> active', pc |-> "begin", flag |-> interrupts])
  /\ interrupts' = FALSE
  /\ phase' = "events"
  /\ UNCHANGED <<kbd_vars, program, history_vars>>

NoInterrupt ==
  /\ phase = "irq"
  /\ ~CanInterrupt
  /\ phase' = "events"
  /\ UNCHANGED <<kbd_vars, pic_vars, interrupts, program, stack, history_vars>>

PressOrRelease(key, pressed) ==
  /\ phase = "events"
  /\ Len(accepted) + Len(K!KeyBytes(key, pressed)) <= MaxBytes
  /\ UNCHANGED <<pic_vars, cpu_vars, seen, timer>>
  /\ K!AddKey(key, pressed)
  /\ accepted' = accepted \o K!Fitting(K!KeyBytes(key, pressed))

Msec ==
  /\ phase = "events"
  /\ UNCHANGED <<pic_vars, cpu_vars, seen, timer>>
  /\ K!EveryMsec
  /\ IF repeat.wait = 1
     THEN LET bytes == K!Fitting(K!KeyBytes(repeat.key, TRUE))
          IN /\ Len(accepted) + Len(bytes) <= MaxBytes
             /\ accepted' = accepted \o bytes
     ELSE accepted' = accepted

Transfer ==
  /\ phase = "events"
  /\ IF used = 0 THEN UNCHANGED pic_vars ELSE P!ActivateIrq(KbdLine)
  /\ UNCHANGED <<cpu_vars, history_vars>>
  /\ K!TransferBuffer

TimerTick ==
  /\ phase = "events"
  /\ timer < MaxTimer
  /\ timer' = timer + 1
  /\ P!ActivateIrq(TimerLine)
  /\ UNCHANGED <<kbd_vars, cpu_vars, accepted, seen>>

EndEvents ==
  /\ phase = "events"
  /\ phase' = "execute"
  /\ UNCHANGED <<kbd_vars, pic_vars, interrupts, program, stack, history_vars>>

-----------------------------------------------------------------------------
(***************************************************************************)
(* The stubs.                                                              *)
(***************************************************************************)

Innermost == stack[Len(stack)]

In(line, pc) ==
  /\ phase = "execute"
  /\ stack # <<>>
  /\ Innermost.line = line
  /\ Innermost.pc = pc

GoTo(pc) ==
  /\ stack' = [stack EXCEPT ![Len(stack)].pc = pc]
  /\ phase' = "irq"
  /\ program' = program

\* in al, 60h; then int 15h, which programs hook and where they may sti; then
\* the callback of dp_keyboard_int9_handler with the byte in al.
ReadByte ==
  /\ In(KbdLine, "begin")
  /\ GoTo("handle")
  /\ \/ interrupts' = interrupts
     \/ interrupts' = TRUE
  /\ seen' = Append(seen, p60data)
  /\ UNCHANGED <<pic_vars, accepted, timer>>
  /\ K!ReadP60

\* int 1Ch of the timer stub, which programs hook and where they may sti.
UserTick ==
  /\ In(TimerLine, "begin")
  /\ GoTo("handle")
  /\ \/ interrupts' = interrupts
     \/ interrupts' = TRUE
  /\ UNCHANGED <<kbd_vars, pic_vars, history_vars>>

ClearInterrupts ==
  /\ \E line \in {KbdLine, TimerLine} : In(line, "handle")
  /\ GoTo("closed")
  /\ interrupts' = FALSE
  /\ UNCHANGED <<kbd_vars, pic_vars, history_vars>>

SendEOI ==
  /\ \E line \in {KbdLine, TimerLine} : In(line, "closed")
  /\ GoTo("done")
  /\ P!WriteCommand(0, EOI)
  /\ UNCHANGED <<kbd_vars, interrupts, history_vars>>

Iret ==
  /\ \E line \in {KbdLine, TimerLine} : In(line, "done")
  /\ interrupts' = Innermost.flag
  /\ stack' = SubSeq(stack, 1, Len(stack) - 1)
  /\ phase' = "irq"
  /\ UNCHANGED <<kbd_vars, pic_vars, program, history_vars>>

-----------------------------------------------------------------------------
(***************************************************************************)
(* The program: it works with interrupts on, and has critical sections in  *)
(* which it turns them off, masks the keyboard, or sets its lights.        *)
(***************************************************************************)

Program(from, to) ==
  /\ phase = "execute"
  /\ stack = <<>>
  /\ program = from
  /\ program' = to
  /\ phase' = "irq"
  /\ stack' = stack

Work ==
  /\ Program("work", "work")
  /\ UNCHANGED <<kbd_vars, pic_vars, interrupts, history_vars>>

Cli ==
  /\ Program("work", "closed")
  /\ interrupts' = FALSE
  /\ UNCHANGED <<kbd_vars, pic_vars, history_vars>>

MaskKeyboard ==
  /\ Program("closed", "masked")
  /\ P!WriteData(0, KeyboardMask)
  /\ UNCHANGED <<kbd_vars, interrupts, history_vars>>

\* Bytes 237 and its argument at port 60h: the ring is thrown away.
WriteKeyboard ==
  /\ Program("masked", "masked")
  /\ accepted' = Append(SubSeq(accepted, 1, Len(accepted) - used), K!Acknowledge)
  /\ UNCHANGED <<pic_vars, interrupts, seen, timer>>
  /\ K!WriteP60(237)

UnmaskKeyboard ==
  /\ Program("masked", "open")
  /\ P!WriteData(0, OpenMask)
  /\ UNCHANGED <<kbd_vars, interrupts, history_vars>>

Sti ==
  /\ \/ Program("closed", "work")
     \/ Program("open", "work")
  /\ interrupts' = TRUE
  /\ UNCHANGED <<kbd_vars, pic_vars, history_vars>>

Execute ==
  \/ ReadByte \/ UserTick \/ ClearInterrupts \/ SendEOI \/ Iret
  \/ Work \/ Cli \/ MaskKeyboard \/ WriteKeyboard \/ UnmaskKeyboard \/ Sti

-----------------------------------------------------------------------------

Init ==
  /\ P!Init
  /\ K!Init
  /\ interrupts = TRUE
  /\ phase = "irq"
  /\ program = "work"
  /\ stack = <<>>
  /\ accepted = <<>>
  /\ seen = <<>>
  /\ timer = 0

Next ==
  \/ Interrupt
  \/ NoInterrupt
  \/ \E key \in Keys, pressed \in BOOLEAN : PressOrRelease(key, pressed)
  \/ Msec
  \/ Transfer
  \/ TimerTick
  \/ EndEvents
  \/ Execute

Spec == Init /\ [][Next]_vars

\* The decode loop goes on, instruction after instruction, so that critical
\* sections end (MaxCommands), and a transfer that stays scheduled falls due in
\* one of its rounds.
Fairness ==
  /\ WF_vars(Interrupt \/ NoInterrupt)
  /\ WF_vars(EndEvents)
  /\ WF_vars(Execute)
  /\ SF_vars(Transfer)

FairSpec == Spec /\ Fairness

-----------------------------------------------------------------------------

\* The keyboard stub has been entered and has not read its byte.
ReadsNext ==
  \E n \in DOMAIN stack : stack[n].line = KbdLine /\ stack[n].pc = "begin"

\* An unread byte is always announced: its interrupt is requested, or its stub
\* is about to read (the line is an edge that start_irq consumes, and masks,
\* critical sections, the timer and late EOIs all come in between).
UnreadByteAnnounced == p60changed => KbdLine \in requested \/ ReadsNext

\* The handler is given the bytes that the ring accepted, in that order, each
\* once: what is not at the port or in the ring has been handled.
SeenInOrder ==
  LET gone == Len(accepted) - used - (IF p60changed THEN 1 ELSE 0)
  IN seen = SubSeq(accepted, 1, gone)

\* When the host stops typing, all that was accepted is handled.
AllHandled == <>[](used = 0 /\ ~p60changed)

=============================================================================
