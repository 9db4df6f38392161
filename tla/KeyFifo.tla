------------------------------ MODULE KeyFifo -------------------------------
(***************************************************************************)
(* What core/keyboard.c promises the guest between a key and port 60h: a   *)
(* bounded first-in first-out queue of scan codes and a one-byte port.     *)
(* The head moves to the port only when the guest has read the byte that   *)
(* is there, and each byte that comes to the port raises irq 1.  A command *)
(* throws the queue away and leaves one acknowledgement in it.             *)
(* Keyboard.tla, with the ring and the delayed transfer of the code,       *)
(* implements this specification.                                          *)
(***************************************************************************)
EXTENDS Integers, Sequences

CONSTANTS
  Offers,   \* the sequences of bytes that a key or a repeat adds
  BufSize   \* the capacity of the queue

Acknowledge == 250

VARIABLES
  queue,    \* the bytes that wait
  port,     \* the byte at the port
  unread,   \* the guest has not read it yet
  irq1      \* the interrupt line is raised

vars == <<queue, port, unread, irq1>>

Fitting(bytes) ==
  LET room == BufSize - Len(queue)
  IN IF Len(bytes) <= room THEN bytes ELSE SubSeq(bytes, 1, room)

Offer(bytes) ==
  /\ queue' = queue \o Fitting(bytes)
  /\ UNCHANGED <<port, unread, irq1>>

Reply ==
  /\ queue' = <<Acknowledge>>
  /\ UNCHANGED <<port, unread, irq1>>

Latch ==
  /\ queue # <<>>
  /\ ~unread
  /\ port' = Head(queue)
  /\ queue' = Tail(queue)
  /\ unread' = TRUE
  /\ irq1' = TRUE

Read ==
  /\ unread' = FALSE
  /\ UNCHANGED <<queue, port, irq1>>

TakeIrq1 ==
  /\ irq1
  /\ irq1' = FALSE
  /\ UNCHANGED <<queue, port, unread>>

Init ==
  /\ queue = <<>>
  /\ port = 0
  /\ unread = FALSE
  /\ irq1 = FALSE

Next ==
  \/ \E bytes \in Offers : Offer(bytes)
  \/ Reply
  \/ Latch
  \/ Read
  \/ TakeIrq1

Spec == Init /\ [][Next]_vars

=============================================================================
