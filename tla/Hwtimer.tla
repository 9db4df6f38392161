------------------------------ MODULE Hwtimer -------------------------------
(***************************************************************************)
(* core/hwtimer.c: the counters of the 8253 timer, programmed through      *)
(* ports 40h to 43h, the event that counter 0 keeps in the queue of        *)
(* timetrack.c to raise interrupt line 0, and the gate of counter 2.       *)
(*                                                                         *)
(* Times are ticks of the machine clock; `due` holds the deadlines of the  *)
(* pit events in the queue, earliest first.  A 16-bit count is made of two *)
(* bytes below Radix (256 in the code).  Counts are binary (no BCD), and   *)
(* the value of a latched count is left out: what is modelled of reading   *)
(* is which byte is read, and whether the read latches a new count.        *)
(***************************************************************************)
EXTENDS Integers, Sequences, FiniteSets

CONSTANTS
  Counters,        \* the counters that the guest uses
  Radix,
  TicksPerSecond,  \* timetrack->ticks_per_second
  PitTickRate,     \* PIT_TICK_RATE
  TickModulus,     \* 2^64: hwticks_t is unsigned
  FirstCount,      \* the counts of dp_hwtimer_init
  Modes,           \* the modes the guest selects
  MaxCommands,     \* bound: accesses of the guest to the timer
  Horizon          \* bound: no tick beyond it

Writable == {0, 2}   \* port 41h has no write handler

ASSUME HwtimerAssumption ==
  /\ Counters \subseteq 0..2
  /\ 0 \in Counters
  /\ Radix \in Nat \ {0, 1}
  /\ PitTickRate \in Nat \ {0}
  /\ TicksPerSecond \in Nat
  /\ TicksPerSecond >= PitTickRate
  /\ Modes \subseteq 0..5
  /\ FirstCount \in [Counters -> 1..(Radix * Radix)]
  /\ MaxCommands \in Nat
  /\ Horizon \in Nat
  /\ TickModulus \in Nat
  /\ TickModulus > Horizon + 2 * Radix * Radix * TicksPerSecond

VARIABLES
  ticks,
  phase,    \* "poll": events run; "execute": the guest executes
  due,      \* the deadlines of the pit events in timetrack
  irq0,     \* the line of interrupt 0
  pit,      \* the counters
  gate2,
  locked,   \* latched_timerstatus_locked
  status,   \* latched_timerstatus
  asked,    \* history: the status the guest asked for and has not had yet
  commands  \* accesses so far

vars == <<ticks, phase, due, irq0, pit, gate2, locked, status, asked, commands>>

\* Fault: a count of 0 does not stand for the largest count.
LoadedAsWritten(latch) == latch

Loaded(latch) == IF latch = 0 THEN Radix * Radix ELSE latch
DelayOf(cntr) == (cntr * TicksPerSecond) \div PitTickRate

\* dp_timetrack_add_event and dp_timetrack_remove_event of dp_hwtimer_pit_event.
AddDue(deadline, queue) ==
  LET n == Cardinality({i \in DOMAIN queue : queue[i] <= deadline})
  IN SubSeq(queue, 1, n) \o <<deadline>> \o SubSeq(queue, n + 1, Len(queue))

RemoveDue(queue) == IF queue = <<>> THEN queue ELSE Tail(queue)

EventDue == \E i \in 1..Len(due) : due[i] <= ticks

\* What is still to be read after counter c gave its status, or was given
\* another mode.
AskedBut(c) == {s \in asked : s.counter # c}

\* counter_output: the level of the output of a counter.
Output(p) ==
  LET index == (ticks - p.start) % TickModulus
  IN CASE p.mode = 0 -> ~p.new_mode /\ index > p.delay
       [] p.mode = 2 -> p.new_mode \/ index % p.delay > 0
       [] p.mode = 3 -> p.new_mode \/ (index % p.delay) * 2 < p.delay
       [] OTHER      -> TRUE

-----------------------------------------------------------------------------
(***************************************************************************)
(* The decode loop.                                                        *)
(***************************************************************************)

\* dp_hwtimer_pit_event.
PitEvent ==
  /\ phase = "poll"
  /\ EventDue
  /\ irq0' = TRUE
  /\ LET p == pit[0]
         delay == IF p.update_count THEN DelayOf(p.cntr) ELSE p.delay
     IN IF p.mode = 0
        THEN /\ due' = Tail(due)
             /\ UNCHANGED pit
        ELSE /\ pit' = [pit EXCEPT ![0].start = @ + p.delay,
                                   ![0].delay = delay,
                                   ![0].update_count = FALSE]
             /\ due' = AddDue(ticks + delay, Tail(due))
  /\ UNCHANGED <<ticks, phase, gate2, locked, status, asked, commands>>

Charge ==
  /\ phase = "poll"
  /\ ~EventDue
  /\ ticks < Horizon
  /\ ticks' = ticks + 1
  /\ phase' = "execute"
  /\ UNCHANGED <<due, irq0, pit, gate2, locked, status, asked, commands>>

\* dp_pic_start_irq of line 0.
TakeIrq0 ==
  /\ phase = "poll"
  /\ irq0
  /\ irq0' = FALSE
  /\ UNCHANGED <<ticks, phase, due, pit, gate2, locked, status, asked, commands>>

OtherInstruction ==
  /\ phase = "execute"
  /\ phase' = "poll"
  /\ UNCHANGED <<ticks, due, irq0, pit, gate2, locked, status, asked, commands>>

\* An IN or OUT instruction on a port of the timer.
Execute ==
  /\ phase = "execute"
  /\ phase' = "poll"
  /\ commands < MaxCommands
  /\ commands' = commands + 1
  /\ UNCHANGED ticks

-----------------------------------------------------------------------------
(***************************************************************************)
(* Port 43h.                                                               *)
(***************************************************************************)

\* rw: 1 low byte, 2 high byte, 3 low then high.
Reprogrammed(c, rw, mode) ==
  [pit EXCEPT ![c].mode = mode, ![c].new_mode = TRUE,
              ![c].read_state = rw, ![c].write_state = rw,
              ![c].update_count = FALSE, ![c].counterstatus_set = FALSE]

\* Mode 0 raises the line, the others if the output was low; a mode that was 0
\* is set before the output is looked at.
RaisesIrq0(c, mode) ==
  c = 0 /\ (mode = 0 \/ ~Output([pit[0] EXCEPT !.mode = IF @ = 0 THEN mode ELSE @]))

\* Fault: the event of the old mode stays in the queue.
ControlWordKeepsEvent(c, rw, mode) ==
  /\ Execute
  /\ pit' = Reprogrammed(c, rw, mode)
  /\ locked' = (locked /\ ~pit[c].counterstatus_set)
  /\ asked' = AskedBut(c)
  /\ irq0' = (irq0 \/ RaisesIrq0(c, mode))
  /\ UNCHANGED <<due, gate2, status>>

\* Fault: the status is dropped, but the latch stays locked.
ControlWordKeepsLock(c, rw, mode) ==
  /\ Execute
  /\ pit' = Reprogrammed(c, rw, mode)
  /\ asked' = AskedBut(c)
  /\ due' = IF c = 0 THEN RemoveDue(due) ELSE due
  /\ irq0' = (irq0 \/ RaisesIrq0(c, mode))
  /\ UNCHANGED <<gate2, locked, status>>

ControlWord(c, rw, mode) ==
  /\ Execute
  /\ pit' = Reprogrammed(c, rw, mode)
  /\ locked' = (locked /\ ~pit[c].counterstatus_set)
  /\ asked' = AskedBut(c)
  /\ due' = IF c = 0 THEN RemoveDue(due) ELSE due
  /\ irq0' = (irq0 \/ RaisesIrq0(c, mode))
  /\ UNCHANGED <<gate2, status>>

\* counter_latch: reads return what is latched now until both halves are read.
Latched(counters, table) ==
  [c \in Counters |->
     IF c \in counters THEN [table[c] EXCEPT !.go_read_latch = FALSE] ELSE table[c]]

StatusOf(c) ==
  [counter |-> c, mode |-> pit[c].mode, out |-> Output(pit[c]),
   null_count |-> pit[c].new_mode]

LatchCommand(c) ==
  /\ Execute
  /\ pit' = Latched({c}, pit)
  /\ UNCHANGED <<due, irq0, gate2, locked, status, asked>>

\* Latches the counts of several counters, and the status of the first.
ReadBack(counters, count, stat) ==
  /\ Execute
  /\ LET first == CHOOSE c \in counters : \A d \in counters : c <= d
         latched == IF count THEN Latched(counters, pit) ELSE pit
     IN /\ IF stat /\ ~locked
           THEN /\ pit' = [latched EXCEPT ![first].counterstatus_set = TRUE]
                /\ status' = StatusOf(first)
                /\ locked' = TRUE
           ELSE /\ pit' = latched
                /\ UNCHANGED <<status, locked>>
        /\ asked' = IF stat /\ asked = {} THEN {StatusOf(first)} ELSE asked
  /\ UNCHANGED <<due, irq0, gate2>>

-----------------------------------------------------------------------------
(***************************************************************************)
(* Ports 40h to 42h.                                                       *)
(***************************************************************************)

\* The first of two bytes waits in the latch.
WriteLow(c, val) ==
  /\ Execute
  /\ pit[c].write_state = 3
  /\ pit' = [pit EXCEPT ![c].write_latch = val, ![c].write_state = 0]
  /\ UNCHANGED <<due, irq0, gate2, locked, status, asked>>

\* The latch when the last byte of a count has come.
CompletedLatch(p, val) ==
  CASE p.write_state = 0 -> p.write_latch + val * Radix
    [] p.write_state = 1 -> val
    [] p.write_state = 2 -> val * Radix

\* Fault: mode 2 starts the new count at once, like the other modes.
NeverPostponed(c) == FALSE

\* A running rate generator takes a new count when the old one has run out.
Postponed(c) == c = 0 /\ ~pit[c].new_mode /\ pit[c].mode = 2

WriteCount(c, val) ==
  /\ Execute
  /\ pit[c].write_state # 3
  /\ LET latch == CompletedLatch(pit[c], val)
         state == IF pit[c].write_state = 0 THEN 3 ELSE pit[c].write_state
         written == [pit[c] EXCEPT !.write_latch = latch, !.write_state = state,
                                   !.cntr = Loaded(latch)]
     IN IF Postponed(c)
        THEN /\ pit' = [pit EXCEPT ![c] = [written EXCEPT !.update_count = TRUE]]
             /\ UNCHANGED due
        ELSE /\ pit' = [pit EXCEPT ![c] =
                          [written EXCEPT !.start = ticks,
                                          !.delay = DelayOf(Loaded(latch)),
                                          !.new_mode = FALSE]]
             /\ due' = IF c = 0 /\ (pit[c].new_mode \/ pit[c].mode = 0)
                       THEN AddDue(ticks + DelayOf(Loaded(latch)),
                                   IF pit[c].mode = 0 THEN RemoveDue(due) ELSE due)
                       ELSE due
  /\ UNCHANGED <<irq0, gate2, locked, status, asked>>

\* read_latch: the status if it is latched, else the next byte of the count.
ReadStatus(c) ==
  /\ Execute
  /\ pit[c].counterstatus_set
  /\ pit' = [pit EXCEPT ![c].counterstatus_set = FALSE]
  /\ locked' = FALSE
  /\ asked' = AskedBut(c)
  /\ UNCHANGED <<due, irq0, gate2, status>>

ReadCount(c) ==
  /\ Execute
  /\ ~pit[c].counterstatus_set
  /\ LET half == pit[c].read_state = 3
     IN pit' = [pit EXCEPT
          ![c].read_state = CASE @ = 0 -> 3 [] @ = 3 -> 0 [] OTHER -> @,
          ![c].go_read_latch = ~half]
  /\ asked' = AskedBut(c)
  /\ UNCHANGED <<due, irq0, gate2, locked, status>>

\* dp_hwtimer_setgate2, from bit 0 of port 61h.  In mode 0 the count that is
\* latched when the gate closes becomes the count.
SetGate2(on) ==
  /\ Execute
  /\ gate2 # on
  /\ on \/ pit[2].mode # 0
  /\ gate2' = on
  /\ pit' = CASE on /\ pit[2].mode \in 0..3 -> [pit EXCEPT ![2].start = ticks]
              [] ~on /\ pit[2].mode \in {2, 3} -> Latched({2}, pit)
              [] OTHER -> pit
  /\ UNCHANGED <<due, irq0, locked, status, asked>>

CloseGate2InMode0(count) ==
  /\ Execute
  /\ gate2
  /\ pit[2].mode = 0
  /\ gate2' = FALSE
  /\ pit' = [Latched({2}, pit) EXCEPT ![2].cntr = count]
  /\ UNCHANGED <<due, irq0, locked, status, asked>>

-----------------------------------------------------------------------------

FirstMode(c) == IF c = 1 THEN 2 ELSE 3

Init ==
  /\ ticks = 0
  /\ phase = "execute"
  /\ due = <<DelayOf(FirstCount[0])>>
  /\ irq0 = FALSE
  /\ pit = [c \in Counters |->
              [mode |-> FirstMode(c), new_mode |-> FALSE, update_count |-> FALSE,
               cntr |-> FirstCount[c], delay |-> DelayOf(FirstCount[c]),
               start |-> 0, write_state |-> 3, write_latch |-> 0,
               read_state |-> IF c = 1 THEN 1 ELSE 3, go_read_latch |-> TRUE,
               counterstatus_set |-> FALSE]]
  /\ gate2 = FALSE
  /\ locked = FALSE
  /\ asked = {}
  /\ commands = 0
  /\ status = [counter |-> 0, mode |-> 0, out |-> FALSE, null_count |-> FALSE]

Next ==
  \/ PitEvent
  \/ Charge
  \/ TakeIrq0
  \/ OtherInstruction
  \/ \E c \in Counters, rw \in 1..3, mode \in Modes : ControlWord(c, rw, mode)
  \/ \E c \in Counters : LatchCommand(c)
  \/ \E counters \in (SUBSET Counters) \ {{}}, count, stat \in BOOLEAN :
       ReadBack(counters, count, stat)
  \/ \E c \in Counters \cap Writable, val \in 0..(Radix - 1) :
       WriteLow(c, val) \/ WriteCount(c, val)
  \/ \E c \in Counters : ReadStatus(c) \/ ReadCount(c)
  \/ 2 \in Counters /\ \E on \in BOOLEAN : SetGate2(on)
  \/ 2 \in Counters /\ \E count \in 0..(Radix * Radix - 1) : CloseGate2InMode0(count)

Spec == Init /\ [][Next]_vars

-----------------------------------------------------------------------------

Counts == 0..(Radix * Radix)

Pit ==
  [mode : 0..5, new_mode : BOOLEAN, update_count : BOOLEAN, cntr : Counts,
   delay : Nat \ {0}, start : Nat, write_state : 0..3,
   write_latch : 0..(Radix * Radix - 1), read_state : 0..3,
   go_read_latch : BOOLEAN, counterstatus_set : BOOLEAN]

\* The type of asked is part of StatusKept.
TypeOK ==
  /\ ticks \in 0..Horizon
  /\ phase \in {"poll", "execute"}
  /\ due \in Seq(Nat)
  /\ irq0 \in BOOLEAN
  /\ pit \in [Counters -> Pit]
  /\ gate2 \in BOOLEAN
  /\ locked \in BOOLEAN
  /\ commands \in 0..MaxCommands
  /\ status \in [counter : Counters, mode : 0..5, out : BOOLEAN,
                 null_count : BOOLEAN]

\* Counter 0 has the events it needs and no more: one when it runs in a
\* periodic mode, none between a control word and its count, and in mode 0 one
\* at the end of the count until it has run.  Every write to ports 40h and 43h
\* adds or removes one under a condition of its own; a second event would tick
\* for ever, and a lost one-shot leaves the guest waiting.
TimerAlive ==
  /\ Len(due) <= 1
  /\ pit[0].new_mode => due = <<>>
  /\ ~pit[0].new_mode /\ pit[0].mode # 0 => due # <<>>
  /\ ~pit[0].new_mode /\ pit[0].mode = 0 =>
       LET end == pit[0].start + pit[0].delay
       IN due = <<end>> \/ (due = <<>> /\ end <= ticks)

\* The rate generator does not drift: its next interrupt is one period after
\* the start of the current one, also when the guest writes new counts.
RateGeneratorKeepsPhase ==
  ~pit[0].new_mode /\ pit[0].mode = 2 =>
    /\ due = <<pit[0].start + pit[0].delay>>
    /\ pit[0].start <= ticks
    /\ ~pit[0].update_count => pit[0].delay = DelayOf(pit[0].cntr)

\* The status latch holds what the guest asked for until the guest has had it:
\* "the timer status can not be overwritten until it is read or the timer was
\* reprogrammed" (core/hwtimer.c:76-77).  It is locked as long as there is a
\* status to be read and no longer, at the port of the counter it is of and at
\* no other: a control word drops the status of its own counter only, with the
\* lock, so that the next request is not lost.
StatusKept ==
  /\ asked = IF locked THEN {status} ELSE {}
  /\ \A c \in Counters : pit[c].counterstatus_set <=> \E s \in asked : s.counter = c

=============================================================================
