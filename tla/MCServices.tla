----------------------------- MODULE MCServices -----------------------------
(***************************************************************************)
(* Small instances of BiosKeyboard and of Dos, in one run.  The two share  *)
(* no state, so that nothing comes of running them together: in every      *)
(* behaviour one of them runs.                                             *)
(*                                                                         *)
(* BiosKeyboard: two Ctrl keys, an Alt key and a digit of the number pad,  *)
(* a key of every other kind, and a ring of three places, two of which can *)
(* be filled.                                                              *)
(*                                                                         *)
(* Dos: of 57 paragraphs DOS keeps 24, and of the other 33 the program     *)
(* gets all, some, or fewer than it takes.  Four of the files do not load: *)
(* a short one, one for the top of memory, one with relocations and one    *)
(* with too many pages.                                                    *)
(***************************************************************************)
EXTENDS BiosKeyboard, Dos

Single(code) == [prefix |-> <<>>, codes |-> <<code>>]
Extended(code) == [prefix |-> <<224>>, codes |-> <<code>>]

TypedKeys == {
  Single(30),                                \* A
  Single(42), Single(29), Single(56),    \* left Shift, Ctrl, Alt
  Extended(29),                                \* right Ctrl
  Single(58), Single(69),                  \* Caps Lock, Num Lock
  Single(71), Extended(82), Extended(28),    \* 7 of the pad, Insert, its Enter
  Single(87),                                \* F11
  [prefix |-> <<225>>, codes |-> <<29, 69>>]}  \* Pause

TableRow(normal, shift, control, alt) ==
  [normal |-> normal, shift |-> shift, control |-> control, alt |-> alt]

\* The rows 1e, 1c, 47, 52 and 57 of scan_to_scanascii.
Rows == [scan \in {30, 28, 71, 82, 87} |->
  CASE scan = 30 -> TableRow(7777, 7745, 7681, 7680)
    [] scan = 28 -> TableRow(7181, 7181, 7178, 0)
    [] scan = 71 -> TableRow(18176, 18231, 30464, 7)
    [] scan = 82 -> TableRow(20992, 21040, 37376, 0)
    [] scan = 87 -> TableRow(34048, 34560, 35072, 35584)]

-----------------------------------------------------------------------------

File(pages, header, read, min, max) ==
  [pages |-> pages, header |-> header, read |-> read, min |-> min, max |-> max,
   relocations |-> FALSE]

MCFiles ==
  {File(1, 24, 7, 1, 60), File(0, 28, 3, 0, 16), File(1, 24, 2, 4, 9), File(2, 52, 11, 0, 16),
   File(1, 24, 8, 0, 60), File(1, 24, 7, 0, 0), File(2, 40, 23, 20, 3),
   [File(1, 24, 7, 1, 60) EXCEPT !.relocations = TRUE], File(3, 60, 20, 1, 60)}

VARIABLE service

ServicesInit ==
  /\ service \in {"BIOS", "DOS"}
  /\ Init
  /\ DosInit
  /\ service = "BIOS" => file = File(1, 24, 7, 1, 60)

ServicesNext ==
  /\ \/ service = "BIOS" /\ Next /\ UNCHANGED dosVars
     \/ service = "DOS" /\ DosNext /\ UNCHANGED vars
  /\ UNCHANGED service

ServicesSpec == ServicesInit /\ [][ServicesNext]_<<service, vars, dosVars>>

=============================================================================
