----------------------------- MODULE Timetrack ------------------------------
(***************************************************************************)
(* core/timetrack.c and core/timetrack.h: the machine clock, the table of  *)
(* events with its two linked lists (a free list and a queue sorted by     *)
(* deadline), and the snapshot clock that charge_ticks drives.             *)
(*                                                                         *)
(* Indices are those of the code: 1 is the first event of the table and 0  *)
(* (DP_TIMETRACK_NULL_EVENT) ends a list.  While a callback runs, its node *)
(* is in neither list.  The field `arrival` of a node, and `arrivals`,     *)
(* are history: they number the calls of add_event.                        *)
(***************************************************************************)
EXTENDS Integers, Sequences, FiniteSets

CONSTANTS
  Callback, CbData, NoCallback, NoData,
  MaxEvents,       \* DP_TIMETRACK_MAX_EVENTS
  Delays,          \* the delays callers ask for
  ChargeDiffs,     \* the arguments of charge_ticks
  TickMarshalArg,  \* the -m argument, Never when absent
  PeriodArg,       \* the -P argument, Never when absent
  Horizon,         \* bound: no deadline and no tick beyond it
  MaxAdds          \* bound: how many events are ever scheduled

Never == -1        \* tick_marshal = -1: no snapshot is due at any tick
Null == 0
Index == 1..MaxEvents

ASSUME TimetrackAssumption ==
  /\ MaxEvents \in Nat \ {0}
  /\ Delays \subseteq Nat
  /\ ChargeDiffs \subseteq Nat \ {0}
  /\ TickMarshalArg \in Nat \cup {Never}
  /\ PeriodArg \in (Nat \ {0}) \cup {Never}
  /\ Horizon \in Nat
  /\ MaxAdds \in Nat
  /\ NoCallback \notin Callback
  /\ NoData \notin CbData

VARIABLES
  ticks,
  next_event,         \* head of the queue
  free_event,         \* head of the free list
  events,             \* the table
  current,            \* the node whose callback run_events is in, or Null
  phase,              \* where the decode loop is
  tick_marshal,       \* the tick of the next snapshot
  tick_marshal_save,  \* its copy that is part of a snapshot
  dumps,              \* history: the ticks at which snapshots were written
  arrivals            \* history: how many events have been scheduled

clock_vars == <<tick_marshal, tick_marshal_save, dumps>>
list_vars == <<next_event, free_event, events>>
vars == <<ticks, list_vars, current, phase, clock_vars, arrivals>>

\* The code keeps the period in timetrack->tick_marshal_period, 0 without -P.
Period == IF PeriodArg = Never THEN 0 ELSE PeriodArg
MarshalFuncSet == TickMarshalArg # Never \/ PeriodArg # Never

-----------------------------------------------------------------------------
(***************************************************************************)
(* Lists.  Chain is the sequence of nodes reached from one; it is cut      *)
(* after MaxEvents + 1 nodes, so that a list that long has a cycle.        *)
(***************************************************************************)

\* The node reached after n links, Null once a list has ended.
Walk(table, start) ==
  LET at[n \in 0..MaxEvents] ==
        IF n = 0 THEN start
        ELSE IF at[n - 1] = Null THEN Null
        ELSE table[at[n - 1]].next_event
  IN at

Chain(table, start) ==
  LET at == Walk(table, start)
      ends == {n \in 0..MaxEvents : at[n] = Null}
      length == IF ends = {} THEN MaxEvents + 1
                ELSE CHOOSE n \in ends : \A m \in ends : n <= m
  IN [n \in 1..length |-> at[n - 1]]

Queue == Chain(events, next_event)
FreeList == Chain(events, free_event)

\* The node at place k of a list, Null past its end.
NodeAt(list, k) == IF k <= Len(list) THEN list[k] ELSE Null

\* `*last_link = node`: the link that leads to place k of the queue is the
\* field of the node before it, or the head of the queue.
SetLink(table, k, node) ==
  IF k = 1 THEN table ELSE [table EXCEPT ![Queue[k - 1]].next_event = node]

SetHead(k, node) == IF k = 1 THEN node ELSE next_event

FreeNode(next) ==
  [exe_time |-> 0, cb |-> NoCallback, cb_data |-> NoData,
   next_event |-> next, arrival |-> 0]

\* Fault: an event goes before the others of its deadline.
InsertPlaceFirst(exe_time) ==
  LET later == {k \in 1..Len(Queue) : events[Queue[k]].exe_time >= exe_time}
  IN IF later = {} THEN Len(Queue) + 1
     ELSE CHOOSE k \in later : \A j \in later : k <= j

\* Fault: the deadlines are compared the wrong way round.
InsertPlaceReversed(exe_time) ==
  LET earlier == {k \in 1..Len(Queue) : events[Queue[k]].exe_time < exe_time}
  IN IF earlier = {} THEN Len(Queue) + 1
     ELSE CHOOSE k \in earlier : \A j \in earlier : k <= j

\* Where add_event inserts: before the first event of a later deadline.
InsertPlace(exe_time) ==
  LET later == {k \in 1..Len(Queue) : events[Queue[k]].exe_time > exe_time}
  IN IF later = {} THEN Len(Queue) + 1
     ELSE CHOOSE k \in later : \A j \in later : k <= j

\* The first free node is filled in and linked into the queue.
Enqueue(cb, data, delay) ==
  LET node == free_event
      exe_time == ticks + delay
      k == InsertPlace(exe_time)
      filled == [events EXCEPT ![node] =
                   [exe_time |-> exe_time, cb |-> cb, cb_data |-> data,
                    next_event |-> NodeAt(Queue, k), arrival |-> arrivals]]
  IN /\ free_event' = events[node].next_event
     /\ events' = SetLink(filled, k, node)
     /\ next_event' = SetHead(k, node)

\* Callbacks and instructions are what calls add_event and remove_event.
InUserCode == phase \in {"callback", "execute"}

-----------------------------------------------------------------------------

\* Fault: the delay is taken off the clock.
AddEventInPast(cb, data, delay) ==
  /\ InUserCode
  /\ free_event # Null
  /\ arrivals < MaxAdds
  /\ events' = [events EXCEPT ![free_event] =
                  [exe_time |-> ticks - delay, cb |-> cb, cb_data |-> data,
                   next_event |-> next_event, arrival |-> arrivals]]
  /\ free_event' = events[free_event].next_event
  /\ next_event' = free_event
  /\ arrivals' = arrivals + 1
  /\ UNCHANGED <<ticks, current, phase, clock_vars>>

\* dp_timetrack_add_event; DP_ASSERT stops the program on an empty free list.
AddEvent(cb, data, delay) ==
  /\ InUserCode
  /\ free_event # Null
  /\ arrivals < MaxAdds
  /\ ticks + delay <= Horizon
  /\ Enqueue(cb, data, delay)
  /\ arrivals' = arrivals + 1
  /\ UNCHANGED <<ticks, current, phase, clock_vars>>

\* Fault: the link is read after it was overwritten with the free list's.
UnlinkFirstLate(matching) ==
  /\ InUserCode
  /\ matching # {}
  /\ LET k == CHOOSE k \in matching : \A j \in matching : k <= j
         node == Queue[k]
     IN /\ events' = SetLink([events EXCEPT ![node] = FreeNode(free_event)],
                             k, free_event)
        /\ next_event' = SetHead(k, free_event)
        /\ free_event' = node
  /\ UNCHANGED <<ticks, current, phase, clock_vars, arrivals>>

\* The loops of remove_event and remove_event_data unlink the first node that
\* matches and then go on from that node, whose link now leads into the free
\* list: nodes there have no callback, so that nothing else matches.
UnlinkFirst(matching) ==
  /\ InUserCode
  /\ matching # {}
  /\ LET k == CHOOSE k \in matching : \A j \in matching : k <= j
         node == Queue[k]
         after == NodeAt(Queue, k + 1)
     IN /\ events' = SetLink([events EXCEPT ![node] = FreeNode(free_event)],
                             k, after)
        /\ next_event' = SetHead(k, after)
        /\ free_event' = node
  /\ UNCHANGED <<ticks, current, phase, clock_vars, arrivals>>

RemoveEvent(cb) ==
  UnlinkFirst({k \in 1..Len(Queue) : events[Queue[k]].cb = cb})

RemoveEventData(cb, data) ==
  UnlinkFirst({k \in 1..Len(Queue) : /\ events[Queue[k]].cb = cb
                                     /\ events[Queue[k]].cb_data = data})

HeadDue == next_event # Null /\ events[next_event].exe_time <= ticks

\* dp_timetrack_run_events: unlink the head and call its callback ...
RunEvent ==
  /\ phase = "poll"
  /\ HeadDue
  /\ current' = next_event
  /\ next_event' = events[next_event].next_event
  /\ phase' = "callback"
  /\ UNCHANGED <<ticks, free_event, events, clock_vars, arrivals>>

\* ... and when it has returned, put the node on the free list.
FinishEvent ==
  /\ phase = "callback"
  /\ events' = [events EXCEPT ![current] = FreeNode(free_event)]
  /\ free_event' = current
  /\ current' = Null
  /\ phase' = "poll"
  /\ UNCHANGED <<ticks, next_event, clock_vars, arrivals>>

\* Fault: the tick the clock stands at does not count.
SnapshotDueLater(next_ticks) ==
  MarshalFuncSet /\ ticks < tick_marshal /\ tick_marshal < next_ticks

\* dp_timetrack_charge_ticks: the snapshot is written before the clock moves.
SnapshotDue(next_ticks) ==
  MarshalFuncSet /\ ticks <= tick_marshal /\ tick_marshal < next_ticks

ChargeTicks(diff) ==
  /\ phase = "poll"
  /\ ~HeadDue
  /\ ticks + diff <= Horizon
  /\ ticks' = ticks + diff
  /\ IF SnapshotDue(ticks + diff)
     THEN /\ tick_marshal' = tick_marshal + Period
          /\ tick_marshal_save' = tick_marshal + Period
          /\ dumps' = Append(dumps, ticks)
     ELSE UNCHANGED clock_vars
  /\ phase' = "execute"
  /\ UNCHANGED <<list_vars, current, arrivals>>

EndInstruction ==
  /\ phase = "execute"
  /\ phase' = "poll"
  /\ UNCHANGED <<ticks, list_vars, current, clock_vars, arrivals>>

\* dp_timetrack_init links the table into the free list; dospack_main sets
\* the snapshot clock from the command line.
Init ==
  /\ ticks = 0
  /\ next_event = Null
  /\ free_event = 1
  /\ events = [i \in Index |-> FreeNode(IF i < MaxEvents THEN i + 1 ELSE Null)]
  /\ current = Null
  /\ phase = "execute"
  /\ tick_marshal = IF TickMarshalArg # Never THEN TickMarshalArg ELSE PeriodArg
  /\ tick_marshal_save = 0
  /\ dumps = <<>>
  /\ arrivals = 0

Next ==
  \/ \E cb \in Callback, data \in CbData, delay \in Delays :
       AddEvent(cb, data, delay)
  \/ \E cb \in Callback : RemoveEvent(cb)
  \/ \E cb \in Callback, data \in CbData : RemoveEventData(cb, data)
  \/ RunEvent
  \/ FinishEvent
  \/ \E diff \in ChargeDiffs : ChargeTicks(diff)
  \/ EndInstruction

Spec == Init /\ [][Next]_vars

-----------------------------------------------------------------------------

Node == [exe_time : 0..Horizon, cb : Callback \cup {NoCallback},
         cb_data : CbData \cup {NoData}, next_event : 0..MaxEvents,
         arrival : Nat]

TypeOK ==
  /\ ticks \in 0..Horizon
  /\ next_event \in 0..MaxEvents
  /\ free_event \in 0..MaxEvents
  /\ events \in [Index -> Node]
  /\ current \in 0..MaxEvents
  /\ phase \in {"poll", "callback", "execute"}
  /\ tick_marshal \in Int
  /\ tick_marshal_save \in Int
  /\ dumps \in Seq(0..Horizon)
  /\ arrivals \in 0..MaxAdds

Members(list) == {list[k] : k \in 1..Len(list)}

\* No node is ever lost, shared by the two lists or on a list twice (the
\* splices of add_event, remove_event and run_events, callbacks included): the
\* queue, the free list and the node being run divide the table.
ListsPartitionTable ==
  LET inHand == IF phase = "callback" THEN {current} ELSE {}
  IN /\ Len(Queue) + Len(FreeList) + Cardinality(inHand) = MaxEvents
     /\ Members(Queue) \cup Members(FreeList) \cup inHand = Index

\* Snapshots under -P: the next one is never in the past and never further
\* away than a period, and the ones written are one period apart.
SnapshotsOnSchedule ==
  (PeriodArg # Never /\ TickMarshalArg = Never) =>
    /\ ticks <= tick_marshal
    /\ tick_marshal <= ticks + PeriodArg
    /\ \A k \in 1..Len(dumps) : dumps[k] = k * PeriodArg

(***************************************************************************)
(* The lists implement the abstract queue: the events of EventQueue are    *)
(* the nodes of the queue, and the running one is the node in hand.        *)
(***************************************************************************)
AbstractEvent(i) ==
  [time |-> events[i].exe_time, cb |-> events[i].cb,
   data |-> events[i].cb_data, arrival |-> events[i].arrival]

Abstract == INSTANCE EventQueue WITH
  pending <- {AbstractEvent(i) : i \in Members(Queue)},
  running <- IF phase = "callback" THEN {AbstractEvent(current)} ELSE {}

\* The abstract specification as a property of this one: deadline order, first
\* scheduled first run among equal deadlines, each event run once.
ImplementsEventQueue == Abstract!Spec

=============================================================================
