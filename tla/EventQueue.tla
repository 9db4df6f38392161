----------------------------- MODULE EventQueue -----------------------------
(***************************************************************************)
(* What core/timetrack.c promises its users: the emulator keeps a set of   *)
(* timed callbacks on the machine clock and runs each of them once, in     *)
(* the order of their deadlines, those of one deadline in the order they   *)
(* were scheduled.  Timetrack.tla, which keeps the two linked lists of     *)
(* core/timetrack.c, implements this specification.                        *)
(*                                                                         *)
(* The steps follow one iteration of the decode loop of                    *)
(* core/cpu_decode.c: run the due callbacks ("poll" and "callback"),       *)
(* charge the clock, execute one instruction ("execute").  Callbacks and   *)
(* instructions are the two places that schedule and cancel.               *)
(***************************************************************************)
EXTENDS Integers, FiniteSets

CONSTANTS
  Callback,     \* the functions that can be scheduled
  CbData,       \* the user pointers they can be scheduled with
  MaxEvents,    \* how many events the table holds
  Delays,       \* the delays callers ask for
  ChargeDiffs,  \* what one call of charge_ticks adds to the clock
  Horizon,      \* bound: no deadline and no tick beyond it
  MaxAdds       \* bound: how many events are ever scheduled

VARIABLES
  ticks,     \* the machine clock
  pending,   \* the scheduled events
  running,   \* {} or the one event whose callback is running
  phase,     \* where the decode loop is
  arrivals   \* how many events have been scheduled so far

vars == <<ticks, pending, running, phase, arrivals>>

Event == [time : Nat, cb : Callback, data : CbData, arrival : Nat]

Before(e, f) ==
  \/ e.time < f.time
  \/ e.time = f.time /\ e.arrival < f.arrival

First(S) == CHOOSE e \in S : \A f \in S \ {e} : Before(e, f)

Due(e) == e.time <= ticks

-----------------------------------------------------------------------------

Schedule(cb, data, delay) ==
  /\ phase \in {"callback", "execute"}
  /\ Cardinality(pending) + Cardinality(running) < MaxEvents
  /\ arrivals < MaxAdds
  /\ ticks + delay <= Horizon
  /\ pending' = pending \cup {[time |-> ticks + delay, cb |-> cb,
                               data |-> data, arrival |-> arrivals]}
  /\ arrivals' = arrivals + 1
  /\ UNCHANGED <<ticks, running, phase>>

\* Cancelling takes away one event, the one that would have run first.
CancelFirst(matching) ==
  /\ phase \in {"callback", "execute"}
  /\ matching # {}
  /\ pending' = pending \ {First(matching)}
  /\ UNCHANGED <<ticks, running, phase, arrivals>>

Cancel(cb) == CancelFirst({e \in pending : e.cb = cb})

CancelData(cb, data) ==
  CancelFirst({e \in pending : e.cb = cb /\ e.data = data})

Dispatch ==
  /\ phase = "poll"
  /\ \E e \in pending :
       /\ Due(e)
       /\ \A f \in pending \ {e} : Before(e, f)
       /\ running' = {e}
       /\ pending' = pending \ {e}
  /\ phase' = "callback"
  /\ UNCHANGED <<ticks, arrivals>>

Return ==
  /\ phase = "callback"
  /\ running' = {}
  /\ phase' = "poll"
  /\ UNCHANGED <<ticks, pending, arrivals>>

Charge(diff) ==
  /\ phase = "poll"
  /\ \A e \in pending : ~Due(e)
  /\ ticks + diff <= Horizon
  /\ ticks' = ticks + diff
  /\ phase' = "execute"
  /\ UNCHANGED <<pending, running, arrivals>>

EndInstruction ==
  /\ phase = "execute"
  /\ phase' = "poll"
  /\ UNCHANGED <<ticks, pending, running, arrivals>>

Init ==
  /\ ticks = 0
  /\ pending = {}
  /\ running = {}
  /\ phase = "execute"
  /\ arrivals = 0

Next ==
  \/ \E cb \in Callback, data \in CbData, delay \in Delays :
       Schedule(cb, data, delay)
  \/ \E cb \in Callback : Cancel(cb)
  \/ \E cb \in Callback, data \in CbData : CancelData(cb, data)
  \/ Dispatch
  \/ Return
  \/ \E diff \in ChargeDiffs : Charge(diff)
  \/ EndInstruction

Spec == Init /\ [][Next]_vars

-----------------------------------------------------------------------------

TypeOK ==
  /\ ticks \in Nat
  /\ pending \in SUBSET Event
  /\ running \in SUBSET Event
  /\ phase \in {"poll", "callback", "execute"}
  /\ arrivals \in Nat

=============================================================================
