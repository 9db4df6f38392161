---------------------------- MODULE MCTimetrack -----------------------------
(* A small instance of Timetrack: a table of three events, two callbacks.  *)
EXTENDS Timetrack

\* No -m argument on the command line.
NoTickMarshal == Never

\* The bound on time is reached and no callback is due: the instance ends.
AtHorizon ==
  /\ phase = "poll"
  /\ ~HeadDue
  /\ ticks = Horizon
  /\ UNCHANGED vars

MCNext == Next \/ AtHorizon

MCSpec == Init /\ [][MCNext]_vars

=============================================================================
