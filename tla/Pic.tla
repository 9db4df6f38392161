-------------------------------- MODULE Pic ---------------------------------
(***************************************************************************)
(* core/pic.c: the two cascaded 8259 interrupt controllers.  Devices raise *)
(* and lower lines (activate_irq, deactivate_irq), the guest programs the  *)
(* controllers through ports 20h/21h and A0h/A1h, and the decode loop      *)
(* calls run_irqs before an instruction when interrupts are enabled and    *)
(* irq_check is not zero.                                                  *)
(*                                                                         *)
(* The arrays of booleans irqs[i].active, .masked and .inservice and the   *)
(* bit mask irq_check are the sets of the lines that have the bit.  Bytes  *)
(* are the guest's; a byte on which the code stops with a fatal error      *)
(* (DP_FAT) enables nothing.                                               *)
(***************************************************************************)
EXTENDS Integers

CONSTANTS
  DeviceIrqs,    \* the lines that have a device
  MaskedIrqs,    \* the lines whose mask set_irq_mask is called for
  CommandWrites, \* what the guest writes to port 20h <<0, val>>, A0h <<1, val>>
  DataWrites     \* what the guest writes to port 21h <<0, val>>, A1h <<1, val>>

Irqs == 0..15
Controllers == {0, 1}
NoIrq == 255     \* DP_PIC_NO_IRQ_MASK

Bytes == 0..255

ASSUME PicAssumption ==
  /\ DeviceIrqs \subseteq Irqs
  /\ MaskedIrqs \subseteq Irqs
  /\ CommandWrites \subseteq Controllers \X Bytes
  /\ DataWrites \subseteq Controllers \X Bytes

VARIABLES
  requested,     \* irqs[i].active: the line is raised
  masked,        \* irqs[i].masked
  inservice,     \* irqs[i].inservice
  vector,        \* irqs[i].vector
  irq_check,     \* what the decode loop looks at
  active,        \* pic->active: the line being served, or NoIrq
  pics,          \* the two controllers
  special_mode,
  special_seen   \* history: a special mask has been selected since power on

line_vars == <<requested, masked, irq_check>>
service_vars == <<inservice, active>>
mode_vars == <<vector, pics, special_mode, special_seen>>
vars == <<line_vars, service_vars, mode_vars>>

Bit(byte, n) == (byte \div (2 ^ n)) % 2 = 1

Controller(i) == IF i <= 7 THEN 0 ELSE 1
IrqBase(c) == 8 * c

-----------------------------------------------------------------------------
(***************************************************************************)
(* Priorities: the lines of the second controller come in at line 2.       *)
(***************************************************************************)

IRQ_priority_order ==
  [j \in 0..15 |->
     CASE j <= 2 -> j
       [] j \in 3..10 -> j + 5
       [] j \in 11..15 -> j - 8]

IRQ_priority_lookup ==
  [i \in 0..16 |->
     CASE i <= 2 -> i
       [] i \in 3..7 -> i + 8
       [] i \in 8..15 -> i - 5
       [] i = 16 -> 16]

Outranks(i, k) == IRQ_priority_lookup[i] < IRQ_priority_lookup[k]

ActivePriority == IRQ_priority_lookup[IF active = NoIrq THEN 16 ELSE active]

\* The walk down IRQ_priority_order that ends at the first line of S.
Highest(S) ==
  IF S = {} THEN NoIrq
  ELSE CHOOSE i \in S : \A k \in S \ {i} : Outranks(i, k)

\* The bit a line has in irq_check when it is recomputed.
Checked(lines, req, msk) ==
  {i \in lines : i \in req /\ i \notin msk /\ (i >= 8 => 2 \notin msk)}

-----------------------------------------------------------------------------
(***************************************************************************)
(* Devices.                                                                *)
(***************************************************************************)

ActivateIrq(irq) ==
  /\ requested' = requested \cup {irq}
  /\ irq_check' = irq_check \cup Checked({irq}, {irq}, masked)
  /\ UNCHANGED <<masked, service_vars, mode_vars>>

DeactivateIrq(irq) ==
  /\ requested' = requested \ {irq}
  /\ irq_check' = irq_check \ {irq}
  /\ UNCHANGED <<masked, service_vars, mode_vars>>

\* Fault: lines 8 to 15 are not looked at again.
RecheckNoCascade(lines, msk) ==
  (irq_check \ lines) \cup Checked(lines, requested, msk)

\* Fault: unmasking a line does not bring its request back.
RecheckOnlyMasks(lines, msk) == irq_check \cap Checked(Irqs, requested, msk)

\* A change of the mask of line 2 makes the code look again at lines 8 to 15.
Recheck(lines, msk) ==
  LET again == IF (2 \in msk) # (2 \in masked) THEN lines \cup 8..15 ELSE lines
  IN (irq_check \ again) \cup Checked(again, requested, msk)

SetIrqMask(irq, mask) ==
  /\ (irq \in masked) # mask
  /\ masked' = IF mask THEN masked \cup {irq} ELSE masked \ {irq}
  /\ irq_check' = Recheck({irq}, masked')
  /\ UNCHANGED <<requested, service_vars, mode_vars>>

-----------------------------------------------------------------------------
(***************************************************************************)
(* The decode loop: dp_pic_run_irqs and dp_pic_start_irq.                  *)
(***************************************************************************)

\* Fault: the line need not outrank the one being served.
CanStartUnordered(i) ==
  /\ i \in requested
  /\ i \notin masked
  /\ i >= 8 => 2 \notin masked

\* The line passes the tests of run_irqs and of start_irq.
CanStart(i) ==
  /\ i \in requested
  /\ i \notin masked
  /\ i >= 8 => 2 \notin masked
  /\ \/ IRQ_priority_lookup[i] < ActivePriority
     \/ special_mode /\ pics[Controller(i)].special

StartIrq(i) ==
  /\ requested' = requested \ {i}
  /\ irq_check' = irq_check \ {i}
  /\ IF pics[Controller(i)].auto_eoi
     THEN /\ ~pics[Controller(i)].rotate_on_auto_eoi
          /\ UNCHANGED service_vars
     ELSE /\ active' = i
          /\ inservice' = inservice \cup {i}
  /\ UNCHANGED <<masked, mode_vars>>

\* Fault: lines are tried by number, which puts 8 to 15 after 3 to 7.
RunIrqsByNumber ==
  /\ irq_check # {}
  /\ \E i \in Irqs :
       /\ CanStart(i)
       /\ \A k \in Irqs \ {i} : CanStart(k) => i < k
       /\ StartIrq(i)

\* Called only when irq_check is not zero (and the guest has interrupts
\* enabled); it starts the first line of the priority order that can start.
RunIrqs ==
  /\ irq_check # {}
  /\ \E i \in Irqs :
       /\ CanStart(i)
       /\ \A k \in Irqs \ {i} : CanStart(k) => Outranks(i, k)
       /\ StartIrq(i)

-----------------------------------------------------------------------------
(***************************************************************************)
(* The guest: write_command, ports 20h (c = 0) and A0h (c = 1).            *)
(***************************************************************************)

ICW1(c, val) ==
  /\ Bit(val, 4)
  /\ ~Bit(val, 2) /\ ~Bit(val, 3) /\ val < 32
  /\ pics' = [pics EXCEPT ![c] =
       [@ EXCEPT !.single = Bit(val, 1),
                 !.icw_index = 1,
                 !.icw_words = IF Bit(val, 0) THEN 3 ELSE 2]]
  /\ UNCHANGED <<line_vars, service_vars, vector, special_mode, special_seen>>

OCW3(c, val) ==
  /\ ~Bit(val, 4) /\ Bit(val, 3)
  /\ ~Bit(val, 2)
  /\ LET issr == IF Bit(val, 1) THEN Bit(val, 0) ELSE pics[c].request_issr
         special == IF Bit(val, 6) THEN Bit(val, 5) ELSE pics[c].special
     IN pics' = [pics EXCEPT ![c] =
                   [@ EXCEPT !.request_issr = issr, !.special = special]]
  /\ special_mode' = IF Bit(val, 6)
                     THEN \E d \in Controllers : pics'[d].special
                     ELSE special_mode
  /\ special_seen' = (special_seen \/ special_mode')
  /\ UNCHANGED <<line_vars, service_vars, vector>>

\* Fault: an EOI does not go back to the line that was interrupted.
EndServiceForgets ==
  /\ inservice' = inservice \ {active}
  /\ active' = NoIrq
  /\ UNCHANGED <<line_vars, mode_vars>>

\* Fault: an EOI takes away the request made while the line was served.
EndServiceClearsLine ==
  /\ inservice' = inservice \ {active}
  /\ active' = Highest(inservice \ {active})
  /\ requested' = requested \ {active}
  /\ irq_check' = irq_check \ {active}
  /\ UNCHANGED <<masked, mode_vars>>

\* Both forms of end of interrupt clear the line being served and look for
\* the next one in service.
EndService ==
  /\ inservice' = inservice \ {active}
  /\ active' = Highest(inservice \ {active})
  /\ UNCHANGED <<line_vars, mode_vars>>

SpecificEOI(c, val) ==
  /\ ~Bit(val, 4) /\ ~Bit(val, 3)
  /\ Bit(val, 5) /\ ~Bit(val, 7) /\ Bit(val, 6)
  /\ active = IrqBase(c) + val - 96
  /\ EndService

NonspecificEOI(c, val) ==
  /\ ~Bit(val, 4) /\ ~Bit(val, 3)
  /\ Bit(val, 5) /\ ~Bit(val, 7) /\ ~Bit(val, 6)
  /\ active < IrqBase(c) + 8
  /\ EndService

RotateOnAutoEOI(c, val) ==
  /\ ~Bit(val, 4) /\ ~Bit(val, 3) /\ ~Bit(val, 5) /\ ~Bit(val, 6)
  /\ pics' = [pics EXCEPT ![c].rotate_on_auto_eoi = Bit(val, 7)]
  /\ UNCHANGED <<line_vars, service_vars, vector, special_mode, special_seen>>

WriteCommand(c, val) ==
  \/ ICW1(c, val)
  \/ OCW3(c, val)
  \/ SpecificEOI(c, val)
  \/ NonspecificEOI(c, val)
  \/ RotateOnAutoEOI(c, val)

-----------------------------------------------------------------------------
(***************************************************************************)
(* The guest: write_data, ports 21h (c = 0) and A1h (c = 1).               *)
(***************************************************************************)

LinesOf(c) == IrqBase(c)..(IrqBase(c) + 7)

MaskWrite(c, val) ==
  /\ pics[c].icw_index = 0
  /\ masked' = (masked \ LinesOf(c))
                 \cup {i \in LinesOf(c) : Bit(val, i - IrqBase(c))}
  /\ irq_check' = Recheck(LinesOf(c), masked')
  /\ UNCHANGED <<requested, service_vars, mode_vars>>

\* icw_index++ >= icw_words: the last word of the sequence has come.
LastWord(c) == pics[c].icw_index >= pics[c].icw_words

\* Fault: the index runs on after the last word.
NextIndexRunsOn(c) == pics[c].icw_index + 1

NextIndex(c) == IF LastWord(c) THEN 0 ELSE pics[c].icw_index + 1

ICW2(c, val) ==
  /\ pics[c].icw_index = 1
  /\ vector' = [i \in Irqs |->
                  IF i \in LinesOf(c) THEN (val \div 8) * 8 + i - IrqBase(c)
                  ELSE vector[i]]
  /\ pics' = [pics EXCEPT ![c].icw_index =
                IF ~LastWord(c) /\ pics[c].single THEN 3 ELSE NextIndex(c)]
  /\ UNCHANGED <<line_vars, service_vars, special_mode, special_seen>>

ICW3(c) ==
  /\ pics[c].icw_index = 2
  /\ pics' = [pics EXCEPT ![c].icw_index = NextIndex(c)]
  /\ UNCHANGED <<line_vars, service_vars, vector, special_mode, special_seen>>

ICW4(c, val) ==
  /\ pics[c].icw_index = 3
  /\ Bit(val, 0)
  /\ pics' = [pics EXCEPT ![c].auto_eoi = Bit(val, 1),
                          ![c].icw_index = NextIndex(c)]
  /\ UNCHANGED <<line_vars, service_vars, vector, special_mode, special_seen>>

WriteData(c, val) ==
  \/ MaskWrite(c, val)
  \/ ICW2(c, val)
  \/ ICW3(c)
  \/ ICW4(c, val)

-----------------------------------------------------------------------------

Init ==
  /\ requested = {}
  /\ masked = Irqs \ {0, 1, 2, 8}
  /\ inservice = {}
  /\ vector = [i \in Irqs |-> IF i <= 7 THEN 8 + i ELSE 112 + i - 8]
  /\ irq_check = {}
  /\ active = NoIrq
  /\ pics = [c \in Controllers |->
               [icw_index |-> 0, icw_words |-> 0, single |-> FALSE,
                auto_eoi |-> FALSE, rotate_on_auto_eoi |-> FALSE,
                request_issr |-> FALSE, special |-> FALSE]]
  /\ special_mode = FALSE
  /\ special_seen = FALSE

Next ==
  \/ \E irq \in DeviceIrqs : ActivateIrq(irq)
  \/ \E irq \in DeviceIrqs : DeactivateIrq(irq)
  \/ \E irq \in MaskedIrqs, mask \in BOOLEAN : SetIrqMask(irq, mask)
  \/ RunIrqs
  \/ \E write \in CommandWrites : WriteCommand(write[1], write[2])
  \/ \E write \in DataWrites : WriteData(write[1], write[2])

Spec == Init /\ [][Next]_vars

-----------------------------------------------------------------------------

ControllerState ==
  [icw_index : 0..3, icw_words : {0, 2, 3}, single : BOOLEAN,
   auto_eoi : BOOLEAN, rotate_on_auto_eoi : BOOLEAN,
   request_issr : BOOLEAN, special : BOOLEAN]

TypeOK ==
  /\ requested \in SUBSET Irqs
  /\ masked \in SUBSET Irqs
  /\ inservice \in SUBSET Irqs
  /\ vector \in [Irqs -> Bytes]
  /\ irq_check \in SUBSET Irqs
  /\ active \in Irqs \cup {NoIrq}
  /\ pics \in [Controllers -> ControllerState]
  /\ special_mode \in BOOLEAN
  /\ special_seen \in BOOLEAN

\* irq_check, the only thing the decode loop looks at, is kept by hand in six
\* places (activate, deactivate, start, both mask writes, set_irq_mask) and
\* never differs from what the lines, the masks and the cascade line say.
CheckMatchesLines == irq_check = Checked(Irqs, requested, masked)

\* pic->active is a second copy of the in-service bits: the line it names is in
\* service, and if it names none, none is (start_irq, both EOI forms).
ActiveIsInService ==
  IF active = NoIrq THEN inservice = {} ELSE active \in inservice

\* Until a guest selects a special mask, lines nest strictly: the one being
\* served outranks all the others whose service it interrupted, so that each
\* EOI returns to the handler that was interrupted last.
ActiveOutranksInterrupted ==
  ~special_seen => \A i \in inservice \ {active} : Outranks(active, i)

\* What enters service was waiting in irq_check, and without special masks it
\* outranks everything that waits there and everything in service: no line is
\* started twice over, early, or ahead of a more urgent one.
StartsMostUrgent ==
  [][\A i \in inservice' \ inservice :
       /\ i \in irq_check
       /\ ~special_seen => \A k \in (irq_check \cup inservice) \ {i} :
                              Outranks(i, k)]_vars

=============================================================================
