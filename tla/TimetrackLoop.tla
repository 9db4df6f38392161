--------------------------- MODULE TimetrackLoop ----------------------------
(***************************************************************************)
(* The event table of Timetrack in a machine that never stops: any number  *)
(* of calls of add_event, callbacks that schedule themselves again for     *)
(* ever, and a clock without a horizon.                                    *)
(*                                                                         *)
(* The code only looks at exe_time - ticks and at the order of deadlines.  *)
(* So that there are finitely many states, the clock stays at 0 and the    *)
(* deadlines come nearer; below 0 they are Late.  Arrivals are not counted *)
(* and no snapshot is taken.                                               *)
(***************************************************************************)
EXTENDS Timetrack

CONSTANTS
  ReplayCallback,  \* dp_events_timetrack_cb
  Records          \* the records of the file that is replayed

ASSUME TimetrackLoopAssumption ==
  /\ ReplayCallback \in Callback
  /\ Records \in Nat

VARIABLE records   \* the records not read yet

loop_vars == <<vars, records>>

\* Any callback or instruction may schedule any event.  The calls of the
\* devices have a positive delay: KEYDELAY and ticks_per_second / 1000 in
\* keyboard.c, the period of a counter in hwtimer.c.  The delay of
\* replay_one_event is 0 when two records have the same time, and each call
\* takes a record from the file.
Schedule(cb, data, delay) ==
  /\ InUserCode
  /\ free_event # Null
  /\ IF cb = ReplayCallback
     THEN /\ records > 0
          /\ records' = records - 1
     ELSE /\ delay > 0
          /\ UNCHANGED records
  /\ Enqueue(cb, data, delay)
  /\ UNCHANGED <<ticks, current, phase, clock_vars, arrivals>>

\* Bound: an event that is late stays as late.  None is, as one that is due
\* runs before the clock moves on.
Late == -1
Nearer(exe_time, diff) == IF exe_time - diff < 0 THEN Late ELSE exe_time - diff

\* ChargeTicks, by the distance of the deadlines.
Elapse(diff) ==
  /\ phase = "poll"
  /\ ~HeadDue
  /\ events' = [i \in Index |->
                  IF i \in Members(Queue) THEN [events[i] EXCEPT !.exe_time = Nearer(@, diff)]
                  ELSE events[i]]
  /\ phase' = "execute"
  /\ UNCHANGED <<ticks, next_event, free_event, current, clock_vars, arrivals, records>>

Remove ==
  /\ \/ \E cb \in Callback : RemoveEvent(cb)
     \/ \E cb \in Callback, data \in CbData : RemoveEventData(cb, data)
  /\ UNCHANGED records

Run == RunEvent /\ UNCHANGED records
Finish == FinishEvent /\ UNCHANGED records
Instruction == EndInstruction /\ UNCHANGED records

LoopInit == Init /\ records = Records

LoopNext ==
  \/ \E cb \in Callback, data \in CbData, delay \in Delays : Schedule(cb, data, delay)
  \/ Remove
  \/ Run
  \/ Finish
  \/ \E diff \in ChargeDiffs : Elapse(diff)
  \/ Instruction

\* The host calls dospack_loop again and again, callbacks return, and no
\* instruction blocks.  Nobody has to schedule or remove anything.
LoopFairness ==
  /\ WF_loop_vars(Run)
  /\ WF_loop_vars(Finish)
  /\ WF_loop_vars(\E diff \in ChargeDiffs : Elapse(diff))
  /\ WF_loop_vars(Instruction)

LoopSpec == LoopInit /\ [][LoopNext]_loop_vars /\ LoopFairness

-----------------------------------------------------------------------------

\* No event starves: what is in the queue runs or is removed, although
\* callbacks schedule themselves again for ever.  A node leaves the queue
\* before it holds another event, so that nodes stand for events.
EveryEventLeavesQueue ==
  \A i \in Index : (i \in Members(Queue)) ~> (i \notin Members(Queue))

=============================================================================
