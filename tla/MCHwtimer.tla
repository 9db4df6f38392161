----------------------------- MODULE MCHwtimer ------------------------------
(* A small instance of Hwtimer: counts of two digits, counters 0 and 2.    *)
EXTENDS Hwtimer

SmallFirstCount == [c \in Counters |-> IF c = 0 THEN 2 ELSE 1]

\* The bound on time is reached and no event is due: the instance ends.
AtHorizon ==
  /\ phase = "poll"
  /\ ticks = Horizon
  /\ ~EventDue
  /\ UNCHANGED vars

MCSpec == Init /\ [][Next \/ AtHorizon]_vars

=============================================================================
