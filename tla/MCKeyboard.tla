----------------------------- MODULE MCKeyboard -----------------------------
(***************************************************************************)
(* A small instance of Keyboard: an extended key, Pause, and a ring of two *)
(* bytes, which the extended key fills and the three of Pause overflow.    *)
(***************************************************************************)
EXTENDS Keyboard

Delete == [prefix |-> <<224>>, codes |-> <<83>>, repeats |-> TRUE]
Pause == [prefix |-> <<225>>, codes |-> <<29, 69>>, repeats |-> FALSE]

TypingKeys == {Delete, Pause}

Fast == [pause |-> 2, rate |-> 1]
Slow == [pause |-> 2, rate |-> 2]
SlowRate == {Slow}

=============================================================================
