---------------------------- MODULE RecordReplay ----------------------------
(***************************************************************************)
(* core/events.c with the loop of core/dospack.c: key events of the host   *)
(* are recorded with the tick at which they were injected, and a replay    *)
(* schedules them in the event queue for the same ticks.  The machine they *)
(* are injected into is Keyboard, driven by the clock and the queue of     *)
(* timetrack.c, and a guest that reads port 60h in the keyboard interrupt. *)
(* A run can be snapshot at any tick and gone on with from the snapshot    *)
(* (core/dospack.c).                                                       *)
(*                                                                         *)
(* The queue is a sequence, in the order in which run_events takes from it *)
(* (ImplementsEventQueue of Timetrack.tla).  The guest programs neither    *)
(* the keyboard nor the interrupt controller.                              *)
(***************************************************************************)
EXTENDS Integers, Sequences

CONSTANTS
  Keys, NoKey, BufSize, FirstRate,
  KeyDelay,     \* KEYDELAY, in ticks
  MsecTicks,    \* ticks_per_second / 1000
  DecodeCount,  \* the instructions of one call of the decode loop (128)
  MaxKeys,      \* bound: how many key events the host sends
  MaxLoads,     \* bound: how often a snapshot is loaded
  Horizon       \* bound: the length of a run in ticks

ASSUME ReplayAssumption ==
  /\ NoKey \notin Keys
  /\ KeyDelay \in Nat
  /\ MsecTicks \in Nat \ {0}
  /\ DecodeCount \in Nat \ {0}
  /\ MaxKeys \in Nat
  /\ MaxLoads \in Nat
  /\ Horizon \in Nat

VARIABLES
  \* Keyboard
  buffer, pos, used, p60data, p60changed, scheduled, transfers, irq1,
  repeat, held,
  command, scanning, active, speed, commands,   \* as they are at power on
  \* the machine
  ticks,
  queue,        \* the queue of timetrack.c: [time, cb]
  phase,        \* where dospack_loop is
  count,        \* cpu->decode_count
  guest,        \* the program, or how far the keyboard stub is
  \* events.c
  event_index,
  file,         \* the recording
  next,         \* replay: the next place to read in it
  run,          \* "record" or "replay"
  \* history
  injected,     \* the events injected since power on
  handled,      \* the bytes that the guest read, and when
  recorded,     \* replay: what it was when the recording ended
  saved,        \* the snapshot, <<>> if none
  loads,
  ran,          \* the tick at which an event of the queue last ran
  tied,         \* a key was injected at a tick at which an event had run
  released      \* a load released keys

settings == <<command, scanning, active, speed, commands>>
kbd_vars == <<buffer, pos, used, p60data, p60changed, scheduled, transfers,
              irq1, repeat, held, settings>>
machine_vars == <<ticks, queue, phase, count, guest>>
file_vars == <<event_index, file, next, run, injected>>
past_vars == <<handled, recorded, saved, loads, ran, tied, released>>
vars == <<kbd_vars, machine_vars, file_vars, past_vars>>

K == INSTANCE Keyboard WITH Rates <- {}, MaxCommands <- 0

-----------------------------------------------------------------------------
(***************************************************************************)
(* The queue.                                                              *)
(***************************************************************************)

\* Where add_event inserts: before the first event of a later deadline.
InsertPlace(q, time) ==
  LET later == {k \in 1..Len(q) : q[k].time > time}
  IN IF later = {} THEN Len(q) + 1
     ELSE CHOOSE k \in later : \A j \in later : k <= j

AddEvent(q, delay, cb) ==
  LET k == InsertPlace(q, ticks + delay)
  IN SubSeq(q, 1, k - 1) \o <<[time |-> ticks + delay, cb |-> cb]>>
       \o SubSeq(q, k, Len(q))

EventDue == \E i \in 1..Len(queue) : queue[i].time <= ticks

\* What the keyboard has scheduled in this step goes into the queue q.
WithTransfer(q) ==
  IF transfers' > transfers THEN AddEvent(q, KeyDelay, "xfer") ELSE q

\* The event at place n of the recording is the next one to be replayed:
\* replay_one_event passes over those whose time has gone by.
IsNext(n, from, now) ==
  /\ n \in from..Len(file)
  /\ file[n].time >= now
  /\ \A i \in from..(n - 1) : file[i].time < now

\* Fault: an event whose tick is now is passed over.
ReplayOneEventAfter(q, from, now) ==
  IF \E n \in 1..Len(file) : IsNext(n, from, now + 1)
  THEN LET n == CHOOSE n \in 1..Len(file) : IsNext(n, from, now + 1)
       IN <<n + 1, AddEvent(q, file[n].time - now, "replay")>>
  ELSE <<Len(file) + 1, q>>

\* dp_events_replay_one_event: the next place to read, and the queue.
ReplayOneEvent(q, from, now) ==
  IF \E n \in 1..Len(file) : IsNext(n, from, now)
  THEN LET n == CHOOSE n \in 1..Len(file) : IsNext(n, from, now)
       IN <<n + 1, AddEvent(q, file[n].time - now, "replay")>>
  ELSE <<Len(file) + 1, q>>

-----------------------------------------------------------------------------
(***************************************************************************)
(* The decode loop.                                                        *)
(***************************************************************************)

InterruptCheck ==
  /\ phase = "irq"
  /\ IF count = 0
     THEN /\ phase' = "host"
          /\ UNCHANGED <<kbd_vars, count, guest>>
     ELSE /\ phase' = "events"
          /\ count' = count - 1
          /\ IF irq1 /\ guest = "program"
             THEN guest' = "stub" /\ K!TakeIrq1
             ELSE UNCHANGED <<kbd_vars, guest>>
  /\ UNCHANGED <<ticks, queue, file_vars, past_vars>>

\* run_events_check, before an instruction and after the decode loop.
RunEvent(cb) ==
  /\ phase \in {"events", "host"}
  /\ EventDue
  /\ Head(queue).cb = cb
  /\ ran' = ticks
  /\ UNCHANGED <<ticks, phase, count, guest>>
  /\ UNCHANGED <<handled, recorded, saved, loads, tied, released>>

Msec ==
  /\ RunEvent("msec")
  /\ IF repeat.wait > 0 THEN K!EveryMsec ELSE UNCHANGED kbd_vars
  /\ queue' = AddEvent(WithTransfer(Tail(queue)), MsecTicks, "msec")
  /\ UNCHANGED file_vars

Transfer ==
  /\ RunEvent("xfer")
  /\ K!TransferBuffer
  /\ queue' = Tail(queue)
  /\ UNCHANGED file_vars

\* The switch of inject_now: a zeroed record is of no known type.
AddUserEvent(event) ==
  IF event.key = NoKey THEN UNCHANGED kbd_vars ELSE K!AddKey(event.key, event.pressed)

\* dp_events_timetrack_cb.
ReplayEvent ==
  /\ RunEvent("replay")
  /\ LET event == file[next - 1]
     IN /\ AddUserEvent(event)
        /\ injected' = Append(injected, [event EXCEPT !.time = ticks])
  /\ event_index' = event_index + 1
  /\ LET after == ReplayOneEvent(WithTransfer(Tail(queue)), next, ticks)
     IN next' = after[1] /\ queue' = after[2]
  /\ UNCHANGED <<file, run>>

Machine ==
  [buffer |-> buffer, pos |-> pos, used |-> used, p60data |-> p60data,
   p60changed |-> p60changed, scheduled |-> scheduled, transfers |-> transfers,
   irq1 |-> irq1, repeat |-> repeat, held |-> held, ticks |-> ticks,
   queue |-> queue, guest |-> guest, event_index |-> event_index,
   injected |-> injected, handled |-> handled]

\* charge_ticks; the -m argument, a tick, says where it writes a snapshot.
Charge ==
  /\ phase = "events"
  /\ ~EventDue
  /\ ticks < Horizon
  /\ \/ saved' = saved
     \/ run = "record" /\ saved = <<>> /\ loads < MaxLoads /\ saved' = <<Machine>>
  /\ ticks' = ticks + 1
  /\ phase' = "execute"
  /\ UNCHANGED <<kbd_vars, queue, count, guest, file_vars, handled, recorded,
                 loads, ran, tied, released>>

\* The stub reads port 60h, and later has the byte handled by a callback, for
\* which the decode loop returns.
Execute ==
  /\ phase = "execute"
  /\ \/ /\ guest = "program"
        /\ phase' = "irq"
        /\ UNCHANGED <<kbd_vars, queue, guest, handled>>
     \/ /\ guest = "stub"
        /\ guest' = "handler"
        /\ phase' = "irq"
        /\ K!ReadP60
        /\ handled' = Append(handled, <<ticks, p60data>>)
        /\ queue' = WithTransfer(queue)
     \/ /\ guest = "handler"
        /\ guest' = "program"
        /\ phase' = "host"
        /\ UNCHANGED <<kbd_vars, queue, handled>>
  /\ UNCHANGED <<ticks, count, file_vars, recorded, saved, loads, ran, tied,
                 released>>

-----------------------------------------------------------------------------
(***************************************************************************)
(* The host, when the decode loop has returned.                            *)
(***************************************************************************)

\* Fault: the event is stamped with the tick that comes next.
HostKeyLate(key, pressed) ==
  /\ phase = "host"
  /\ ~EventDue
  /\ run = "record"
  /\ event_index < MaxKeys
  /\ K!AddKey(key, pressed)
  /\ queue' = WithTransfer(queue)
  /\ LET event == [time |-> ticks + 1, key |-> key, pressed |-> pressed]
     IN /\ file' = Append(file, event)
        /\ injected' = Append(injected, event)
  /\ event_index' = event_index + 1
  /\ tied' = (tied \/ ran = ticks)
  /\ UNCHANGED <<ticks, phase, count, guest, next, run, handled, recorded, saved,
                 loads, ran, released>>

\* dp_events_inject_now while recording.
HostKey(key, pressed) ==
  /\ phase = "host"
  /\ ~EventDue
  /\ run = "record"
  /\ event_index < MaxKeys
  /\ K!AddKey(key, pressed)
  /\ queue' = WithTransfer(queue)
  /\ LET event == [time |-> ticks, key |-> key, pressed |-> pressed]
     IN /\ file' = Append(file, event)
        /\ injected' = Append(injected, event)
  /\ event_index' = event_index + 1
  /\ tied' = (tied \/ ran = ticks)
  /\ UNCHANGED <<ticks, phase, count, guest, next, run, handled, recorded, saved,
                 loads, ran, released>>

LoopAgain ==
  /\ phase = "host"
  /\ ~EventDue
  /\ phase' = "irq"
  /\ count' = DecodeCount
  /\ UNCHANGED <<kbd_vars, ticks, queue, guest, file_vars, past_vars>>

-----------------------------------------------------------------------------
(***************************************************************************)
(* Starting: for a recording, for its replay, and from a snapshot.         *)
(***************************************************************************)

PowerOn == [time |-> MsecTicks, cb |-> "msec"]

\* The recording ends, and the program is started with --replay-events.
StartReplay ==
  /\ run = "record"
  /\ phase = "events" /\ ~EventDue /\ ticks = Horizon
  /\ run' = "replay"
  /\ buffer' = [i \in 0..(BufSize - 1) |-> 0]
  /\ pos' = 0 /\ used' = 0
  /\ p60data' = 0 /\ p60changed' = FALSE
  /\ scheduled' = FALSE /\ transfers' = 0
  /\ irq1' = FALSE
  /\ repeat' = [key |-> NoKey, wait |-> 0]
  /\ held' = {}
  /\ ticks' = 0
  /\ LET first == IF file = <<>> THEN <<>>
                  ELSE <<[time |-> file[1].time, cb |-> "replay"]>>
     IN queue' = IF first # <<>> /\ first[1].time < MsecTicks
                 THEN first \o <<PowerOn>> ELSE <<PowerOn>> \o first
  /\ next' = 2
  /\ phase' = "irq" /\ count' = DecodeCount
  /\ guest' = "program"
  /\ event_index' = 0
  /\ injected' = <<>>
  /\ handled' = <<>>
  /\ recorded' = handled
  /\ UNCHANGED <<settings, file, saved, loads, ran, tied, released>>

\* The user quits, and starts the program with --marshal-load and with
\* --record-events of the same file: dospack_unmarshall ...
Load ==
  /\ phase = "host"
  /\ run = "record"
  /\ saved # <<>>
  /\ loads < MaxLoads
  /\ loads' = loads + 1
  /\ LET m == saved[1]
     IN /\ buffer' = m.buffer /\ pos' = m.pos /\ used' = m.used
        /\ p60data' = m.p60data /\ p60changed' = m.p60changed
        /\ scheduled' = m.scheduled /\ transfers' = m.transfers
        /\ irq1' = m.irq1 /\ repeat' = m.repeat /\ held' = m.held
        /\ ticks' = m.ticks /\ queue' = m.queue /\ guest' = m.guest
        /\ event_index' = m.event_index /\ injected' = m.injected
        /\ handled' = m.handled
        /\ ran' = m.ticks
  /\ phase' = "release"
  /\ UNCHANGED <<settings, count, file, next, run, recorded, saved, tied, released>>

\* ... whose dp_events_post_unmarshal releases the keys that were down (the
\* recording is not open yet) ...
ReleaseKey ==
  /\ phase = "release"
  /\ \E key \in held :
       /\ K!AddKey(key, FALSE)
       /\ injected' = Append(injected, [time |-> ticks, key |-> key, pressed |-> FALSE])
  /\ queue' = WithTransfer(queue)
  /\ event_index' = event_index + 1
  /\ released' = TRUE
  /\ UNCHANGED <<ticks, phase, count, guest, file, next, run, handled, recorded,
                 saved, loads, ran, tied>>

\* Fault: the recording is opened at its end.
CutAtEnd == file

\* record_seek_event_index: cuts the file after the events of the snapshot,
\* or makes it longer with zeroes.
CutToIndex ==
  [n \in 1..event_index |->
     IF n <= Len(file) THEN file[n]
     ELSE [time |-> 0, key |-> NoKey, pressed |-> FALSE]]

\* ... and then dp_events_start_record.
StartRecord ==
  /\ phase = "release"
  /\ held = {}
  /\ file' = CutToIndex
  /\ phase' = "irq" /\ count' = DecodeCount
  /\ UNCHANGED <<kbd_vars, ticks, queue, guest, event_index, next, run, injected,
                 past_vars>>

Init ==
  /\ K!Init
  /\ ticks = 0
  /\ queue = <<PowerOn>>
  /\ phase = "irq" /\ count = DecodeCount
  /\ guest = "program"
  /\ event_index = 0 /\ file = <<>> /\ next = 1
  /\ run = "record"
  /\ injected = <<>> /\ handled = <<>> /\ recorded = <<>>
  /\ saved = <<>> /\ loads = 0
  /\ ran = -1 /\ tied = FALSE /\ released = FALSE

Next ==
  \/ InterruptCheck
  \/ Msec \/ Transfer \/ ReplayEvent
  \/ Charge
  \/ Execute
  \/ \E key \in Keys, pressed \in BOOLEAN : HostKey(key, pressed)
  \/ LoopAgain
  \/ StartReplay
  \/ Load \/ ReleaseKey \/ StartRecord

Spec == Init /\ [][Next]_vars

-----------------------------------------------------------------------------

\* The recording is "a recorded list of input events" (README.md:3): those that
\* led to the present state of the machine, each at its tick.  It is not after a
\* load: dospack_main unmarshals, which injects the releases, before it opens
\* the recording, and record_seek_event_index then counts them as if they were
\* in it.
RecordingIsHistory == run = "record" /\ phase # "release" => file = injected

\* It is as long as no load had a key to release: what came after the snapshot
\* is cut off, and what comes now is appended in its place.
RecordingKeepsHistory ==
  run = "record" /\ phase # "release" /\ ~released => file = injected

\* A replay injects the events of the recording, all of them, once, in their
\* order and each at its tick, although it schedules one only when the one
\* before has come, and possibly for the tick at which it came.
ReplayInjectsOnTime ==
  run = "replay" /\ ~released =>
    /\ Len(injected) <= Len(file)
    /\ injected = SubSeq(file, 1, Len(injected))
    /\ \A n \in (Len(injected) + 1)..Len(file) : file[n].time >= ticks

\* The guest of a replay reads the same bytes at the same ticks as the guest
\* of the recording.
SameBytes ==
  /\ Len(handled) <= Len(recorded)
  /\ handled = SubSeq(recorded, 1, Len(handled))
  /\ \A n \in (Len(handled) + 1)..Len(recorded) : recorded[n][1] >= ticks

\* "a deterministic engine that would be able to reach a reproducible state
\* given a recorded list of input events" (README.md:3): a replay reaches the
\* recorded state, unless a key came at a tick at which an event of the queue
\* had run.  The replayed key is in the queue before that event and goes first.
UntiedReplayedAsRecorded == run = "replay" /\ loads = 0 /\ ~tied => SameBytes

=============================================================================
