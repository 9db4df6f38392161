-------------------------- MODULE MCTimetrackLoop ---------------------------
(* A small instance of TimetrackLoop: a table of three events, the replay  *)
(* and one device.                                                         *)
EXTENDS TimetrackLoop

\* Neither -m nor -P on the command line.
NoOption == Never

=============================================================================
