------------------------------ MODULE Keyboard ------------------------------
(***************************************************************************)
(* core/keyboard.c below the BIOS: the ring of scan codes, the delayed     *)
(* transfer of its head to port 60h, the commands at ports 60h and 64h,    *)
(* and the repetition of a held key.                                       *)
(*                                                                         *)
(* Time is left out: a transfer that is scheduled (KEYDELAY) and the 1 ms  *)
(* tick happen at any later time.  `transfers` counts the events of        *)
(* TransferBuffer in the queue of timetrack.c, which the flag `scheduled`  *)
(* is meant to mirror, and irq1 is the line at the interrupt controller.   *)
(*                                                                         *)
(* A key is what the switch of dp_keyboard_add_key makes of it: the prefix *)
(* (none, E0h or E1h), its codes (two of them for Pause), and whether it   *)
(* repeats.                                                                *)
(***************************************************************************)
EXTENDS Integers, Sequences

CONSTANTS
  Keys,         \* the keys of the host
  NoKey,        \* DP_KEY_NONE
  BufSize,      \* DP_KEYBUFSIZE
  FirstRate,    \* pause and rate of the repetition at power on (500, 33)
  Rates,        \* what a typematic rate byte can select
  MaxCommands   \* bound: how many bytes the guest writes to port 60h

Byte == 0..255
Code == 1..127
Key == [prefix : {<<>>, <<224>>, <<225>>}, codes : Seq(Code), repeats : BOOLEAN]
Rate == [pause : Nat \ {0}, rate : Nat \ {0}]

ASSUME KeyboardAssumption ==
  /\ Keys \subseteq Key
  /\ NoKey \notin Keys
  /\ BufSize \in Nat \ {0}
  /\ FirstRate \in Rate
  /\ Rates \subseteq Rate
  /\ MaxCommands \in Nat

VARIABLES
  buffer, pos, used,   \* the ring, its first byte, its number of bytes
  p60data, p60changed, \* the byte at port 60h, and that it is unread
  scheduled,           \* the code's idea of a pending TransferBuffer event
  transfers,           \* how many of them timetrack has
  irq1,                \* the line of interrupt 1
  command,             \* what the next byte at port 60h belongs to
  scanning, active,
  repeat,              \* [key, wait] of the repetition
  speed,               \* [pause, rate] of the repetition
  held,                \* history: the keys the host holds down
  commands             \* history: the bytes written to port 60h

ring_vars == <<buffer, pos, used>>
port_vars == <<p60data, p60changed, irq1>>
mode_vars == <<command, scanning, active, speed>>
host_vars == <<repeat, held>>
vars == <<ring_vars, port_vars, scheduled, transfers, mode_vars, host_vars,
          commands>>

Acknowledge == 250
Release == 128

-----------------------------------------------------------------------------
(***************************************************************************)
(* The ring.                                                               *)
(***************************************************************************)

\* Fault: the place after the last one is one beyond the ring.
SlotPastEnd(start, n) ==
  IF start + n > BufSize THEN start + n - BufSize ELSE start + n

\* The place n bytes after the place start.
Slot(start, n) ==
  IF start + n >= BufSize THEN start + n - BufSize ELSE start + n

\* add_buffer of each byte in turn: those that do not fit are dropped.
Fitting(bytes) ==
  LET room == BufSize - used
  IN IF Len(bytes) <= room THEN bytes ELSE SubSeq(bytes, 1, room)

Filled(bytes) ==
  [i \in DOMAIN buffer |->
     LET n == IF i >= pos THEN i - pos - used ELSE i + BufSize - pos - used
     IN IF n \in 0..(Len(bytes) - 1) THEN bytes[n + 1] ELSE buffer[i]]

\* Fault: an unread byte at the port does not hold the transfer back.
ScheduleAnyway ==
  /\ scheduled' = TRUE
  /\ transfers' = IF scheduled THEN transfers ELSE transfers + 1

\* `if (!scheduled && !p60changed)` before dp_timetrack_add_event.
ScheduleTransfer ==
  /\ scheduled' = (scheduled \/ ~p60changed)
  /\ transfers' = IF scheduled' /\ ~scheduled THEN transfers + 1 ELSE transfers

Unscheduled == UNCHANGED <<scheduled, transfers>>

AddBytes(bytes) ==
  /\ buffer' = Filled(Fitting(bytes))
  /\ used' = used + Len(Fitting(bytes))
  /\ pos' = pos
  /\ IF Fitting(bytes) = <<>> THEN Unscheduled ELSE ScheduleTransfer

-----------------------------------------------------------------------------
(***************************************************************************)
(* The host, through the event queue, and the repetition.                  *)
(***************************************************************************)

KeyBytes(key, pressed) ==
  key.prefix \o [n \in DOMAIN key.codes |->
                   IF pressed THEN key.codes[n] ELSE key.codes[n] + Release]

\* Fault: a release leaves the repetition on.
RepetitionKept(key, pressed) ==
  IF pressed
  THEN [key |-> key, wait |-> IF repeat.key = key THEN speed.rate ELSE speed.pause]
  ELSE repeat

Repetition(key, pressed) ==
  IF pressed
  THEN [key |-> key, wait |-> IF repeat.key = key THEN speed.rate ELSE speed.pause]
  ELSE [key |-> NoKey, wait |-> 0]

AddKey(key, pressed) ==
  /\ AddBytes(KeyBytes(key, pressed))
  /\ repeat' = IF key.repeats THEN Repetition(key, pressed) ELSE repeat
  /\ held' = IF pressed THEN held \cup {key} ELSE held \ {key}
  /\ UNCHANGED <<port_vars, mode_vars, commands>>

\* dp_keyboard_every_msec; with DP_KEY_NONE add_key stops the program.
EveryMsec ==
  /\ repeat.wait > 0
  /\ IF repeat.wait = 1
     THEN /\ repeat.key # NoKey
          /\ AddBytes(KeyBytes(repeat.key, TRUE))
          /\ repeat' = [repeat EXCEPT !.wait = speed.rate]
     ELSE /\ repeat' = [repeat EXCEPT !.wait = @ - 1]
          /\ UNCHANGED <<ring_vars, scheduled, transfers>>
  /\ UNCHANGED <<port_vars, mode_vars, held, commands>>

-----------------------------------------------------------------------------
(***************************************************************************)
(* The transfer and port 60h.                                              *)
(***************************************************************************)

TransferBuffer ==
  /\ transfers > 0
  /\ transfers' = transfers - 1
  /\ scheduled' = FALSE
  /\ IF used = 0
     THEN UNCHANGED <<ring_vars, port_vars>>
     ELSE /\ p60changed' = TRUE
          /\ p60data' = buffer[pos]
          /\ irq1' = TRUE
          /\ pos' = Slot(pos, 1)
          /\ used' = used - 1
          /\ UNCHANGED buffer
  /\ UNCHANGED <<mode_vars, host_vars, commands>>

\* Fault: the read does not start the transfer of the next byte.
ReadP60Only ==
  /\ p60changed' = FALSE
  /\ Unscheduled
  /\ UNCHANGED <<ring_vars, p60data, irq1, mode_vars, host_vars, commands>>

ReadP60 ==
  /\ p60changed' = FALSE
  /\ scheduled' = (scheduled \/ used > 0)
  /\ transfers' = IF scheduled' /\ ~scheduled THEN transfers + 1 ELSE transfers
  /\ UNCHANGED <<ring_vars, p60data, irq1, mode_vars, host_vars, commands>>

\* Fault: clear_buffer leaves the transfer in the queue of timetrack.
ReplyKeepsTransfer ==
  /\ pos' = 0
  /\ used' = 1
  /\ buffer' = [buffer EXCEPT ![0] = Acknowledge]
  /\ scheduled' = ~p60changed
  /\ transfers' = IF p60changed THEN transfers ELSE transfers + 1

\* clear_buffer, whose remove_event takes away one transfer if there is one,
\* and add_buffer of the acknowledgement.
Reply ==
  /\ pos' = 0
  /\ used' = 1
  /\ buffer' = [buffer EXCEPT ![0] = Acknowledge]
  /\ scheduled' = ~p60changed
  /\ LET left == IF transfers > 0 THEN transfers - 1 ELSE 0
     IN transfers' = IF p60changed THEN left ELSE left + 1

\* A byte at port 60h that begins a command.
BeginCommand(val) ==
  /\ command = "none"
  /\ Reply
  /\ command' = CASE val = 237 -> "setleds"
                  [] val = 243 -> "settyperate"
                  [] OTHER     -> "none"
  /\ scanning' = CASE val = 244          -> TRUE
                   [] val \in {245, 246} -> FALSE
                   [] OTHER              -> scanning
  /\ UNCHANGED <<port_vars, active, speed, host_vars>>

\* A byte that is the argument of the command before it.
SetLeds ==
  /\ command = "setleds"
  /\ Reply
  /\ command' = "none"
  /\ UNCHANGED <<port_vars, scanning, active, speed, host_vars>>

SetTypeRate(new) ==
  /\ command = "settyperate"
  /\ Reply
  /\ command' = "none"
  /\ speed' = new
  /\ UNCHANGED <<port_vars, scanning, active, host_vars>>

\* In "setoutport" the code stops with a fatal error: nothing is enabled.
WriteP60(val) ==
  /\ commands < MaxCommands
  /\ commands' = commands + 1
  /\ \/ BeginCommand(val)
     \/ SetLeds
     \/ \E new \in Rates : SetTypeRate(new)

-----------------------------------------------------------------------------
(***************************************************************************)
(* Port 64h, and the interrupt.                                            *)
(***************************************************************************)

Activate ==
  /\ active' = TRUE
  /\ IF used > 0 THEN ScheduleTransfer ELSE Unscheduled
  /\ UNCHANGED <<ring_vars, port_vars, command, scanning, speed, host_vars,
                 commands>>

Deactivate ==
  /\ active' = FALSE
  /\ UNCHANGED <<ring_vars, port_vars, scheduled, transfers, command, scanning,
                 speed, host_vars, commands>>

WriteOutport ==
  /\ command' = "setoutport"
  /\ UNCHANGED <<ring_vars, port_vars, scheduled, transfers, scanning, active,
                 speed, host_vars, commands>>

WriteP64(val) ==
  \/ val = 174 /\ Activate
  \/ val = 173 /\ Deactivate
  \/ val = 209 /\ WriteOutport

\* dp_pic_start_irq of line 1.
TakeIrq1 ==
  /\ irq1
  /\ irq1' = FALSE
  /\ UNCHANGED <<ring_vars, p60data, p60changed, scheduled, transfers,
                 mode_vars, host_vars, commands>>

-----------------------------------------------------------------------------

Init ==
  /\ buffer = [i \in 0..(BufSize - 1) |-> 0]
  /\ pos = 0
  /\ used = 0
  /\ p60data = 0
  /\ p60changed = FALSE
  /\ scheduled = FALSE
  /\ transfers = 0
  /\ irq1 = FALSE
  /\ command = "none"
  /\ scanning = TRUE
  /\ active = TRUE
  /\ repeat = [key |-> NoKey, wait |-> 0]
  /\ speed = FirstRate
  /\ held = {}
  /\ commands = 0

P60Commands == {237, 238, 242, 243, 244, 245, 246}
P64Commands == {173, 174, 209}

Next ==
  \/ \E key \in Keys, pressed \in BOOLEAN : AddKey(key, pressed)
  \/ EveryMsec
  \/ TransferBuffer
  \/ ReadP60
  \/ \E val \in P60Commands : WriteP60(val)
  \/ \E val \in P64Commands : WriteP64(val)
  \/ TakeIrq1

Spec == Init /\ [][Next]_vars

\* The clock goes on, so that a scheduled transfer is run (ImplementsEventQueue of
\* Timetrack.tla; MaxCommands keeps the guest from putting it off for ever),
\* and a guest that is told of a byte at the port reads it.
Fairness ==
  /\ WF_vars(TransferBuffer)
  /\ WF_vars(p60changed /\ ReadP60)

FairSpec == Spec /\ Fairness

-----------------------------------------------------------------------------

TypeOK ==
  /\ buffer \in [0..(BufSize - 1) -> Byte]
  /\ pos \in 0..(BufSize - 1)
  /\ used \in 0..BufSize
  /\ p60data \in Byte
  /\ p60changed \in BOOLEAN
  /\ scheduled \in BOOLEAN
  /\ transfers \in Nat
  /\ irq1 \in BOOLEAN
  /\ command \in {"none", "setleds", "settyperate", "setoutport"}
  /\ scanning \in BOOLEAN
  /\ active \in BOOLEAN
  /\ repeat \in [key : Keys \cup {NoKey}, wait : Nat]
  /\ speed \in Rate
  /\ held \in SUBSET Keys
  /\ commands \in 0..MaxCommands

\* `scheduled` says how many TransferBuffer events timetrack holds: one or
\* none.  The table of events is finite and remove_event takes away only one,
\* so that a second event would outlive clear_buffer.
OneTransferPending == transfers = IF scheduled THEN 1 ELSE 0

\* No wakeup is lost: bytes in the ring wait for a transfer or for the guest
\* to read port 60h (add_buffer, read_p60, activation and clear_buffer each
\* schedule under a condition of their own).
NothingStranded == used > 0 => scheduled \/ p60changed

\* No overrun: a byte at port 60h stays there until the guest has read it,
\* whatever keys, repeats and commands come in between.
UnreadByteKept == [][p60changed /\ p60changed' => p60data' = p60data]_vars

\* Only a key that the host holds down repeats: the tick never calls add_key
\* with DP_KEY_NONE (a fatal error) or with a key that was released.
RepeatsHeldKey == repeat.wait > 0 => repeat.key \in held

\* A byte that waits for a free port comes to it.
WaitingByteArrives == (used > 0 /\ ~p60changed) ~> p60changed

(***************************************************************************)
(* The ring and the transfers implement the bounded queue.                 *)
(***************************************************************************)
Fifo == INSTANCE KeyFifo WITH
  Offers <- {KeyBytes(key, pressed) : key \in Keys, pressed \in BOOLEAN},
  queue <- [n \in 1..used |-> buffer[Slot(pos, n - 1)]],
  port <- p60data,
  unread <- p60changed

\* Bytes come to the port in the order in which they were accepted, none twice
\* and none lost but to a command, and each of them raises the interrupt.
ImplementsKeyFifo == Fifo!Spec

=============================================================================
