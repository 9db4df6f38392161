--------------------------- MODULE MCRecordReplay ---------------------------
(***************************************************************************)
(* A small instance of RecordReplay: a plain and an extended key, which    *)
(* repeat after two of the keyboard's ticks, and a ring of two bytes.      *)
(***************************************************************************)
EXTENDS RecordReplay

Letter == [prefix |-> <<>>, codes |-> <<30>>, repeats |-> TRUE]
Delete == [prefix |-> <<224>>, codes |-> <<83>>, repeats |-> TRUE]
OneKey == {Letter}
TwoKeys == {Letter, Delete}
Fast == [pause |-> 2, rate |-> 1]

\* The replay is at its end.
AtEnd ==
  /\ run = "replay"
  /\ phase = "events" /\ ~EventDue /\ ticks = Horizon
  /\ UNCHANGED vars

MCSpec == Init /\ [][Next \/ AtEnd]_vars

=============================================================================
