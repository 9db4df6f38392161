--------------------------- MODULE MCKeyboardPath ---------------------------
(***************************************************************************)
(* A small instance of KeyboardPath: an extended key, whose bytes follow   *)
(* each other, and a ring of two bytes.                                    *)
(***************************************************************************)
EXTENDS KeyboardPath

Delete == [prefix |-> <<224>>, codes |-> <<83>>, repeats |-> TRUE]
TypingKeys == {Delete}
Fast == [pause |-> 1, rate |-> 1]
NoRates == {}

=============================================================================
