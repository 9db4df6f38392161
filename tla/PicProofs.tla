----------------------------- MODULE PicProofs ------------------------------
(***************************************************************************)
(* Proofs about Pic, for every set of devices and every byte the guest may *)
(* write.                                                                  *)
(***************************************************************************)
EXTENDS Pic, WellFoundedInduction, TLAPS

(***************************************************************************)
(* The priority tables.                                                    *)
(***************************************************************************)

\* The two hand-written tables of pic.c agree: each undoes the other, and the
\* entry for "no line" comes after every line.
THEOREM PriorityTablesInverse ==
  /\ \A j \in 0..15 : IRQ_priority_lookup[IRQ_priority_order[j]] = j
  /\ \A i \in Irqs : IRQ_priority_order[IRQ_priority_lookup[i]] = i
  /\ \A i \in Irqs : IRQ_priority_lookup[i] < IRQ_priority_lookup[16]
  BY DEF IRQ_priority_lookup, IRQ_priority_order, Irqs

\* Priorities are numbers, and no two lines share one.
LEMMA PriorityOrder ==
  /\ \A i \in 0..16 : IRQ_priority_lookup[i] \in 0..16
  /\ \A i, k \in Irqs : i # k => Outranks(i, k) \/ Outranks(k, i)
  BY DEF IRQ_priority_lookup, Irqs, Outranks

LEMMA LeastOfNaturals ==
  ASSUME NEW T \in SUBSET Nat, T # {}
  PROVE  \E n \in T : \A m \in T : ~(m < n)
  <1> DEFINE R == {ss \in Nat \X Nat : ss[1] < ss[2]}
  <1>1. IsWellFoundedOn(R, Nat)
    BY NatLessThanWellFounded DEF OpToRel
  <1>2. PICK n \in T : \A m \in T : <<m, n>> \notin R
    <2> HIDE DEF R
    <2> QED
      BY <1>1, WFMin
  <1>3. ASSUME NEW m \in T
        PROVE  ~(m < n)
    <2>1. m \in Nat /\ n \in Nat
      OBVIOUS
    <2>2. <<m, n>> \notin R
      BY <1>2
    <2>3. QED
      BY <2>1, <2>2
  <1>4. QED
    BY <1>3

\* In every set of lines one outranks the others.
LEMMA HighestExists ==
  ASSUME NEW S \in SUBSET Irqs, S # {}
  PROVE  /\ Highest(S) \in S
         /\ \A k \in S \ {Highest(S)} : Outranks(Highest(S), k)
  <1> DEFINE T == {IRQ_priority_lookup[i] : i \in S}
  <1>1. \A i \in S : IRQ_priority_lookup[i] \in Nat
    BY PriorityOrder DEF Irqs
  <1>2. PICK i \in S : \A k \in S : ~(IRQ_priority_lookup[k] < IRQ_priority_lookup[i])
    <2>1. T \in SUBSET Nat /\ T # {}
      BY <1>1
    <2>2. PICK n \in T : \A m \in T : ~(m < n)
      BY <2>1, LeastOfNaturals
    <2>3. QED
      BY <2>2
  <1>3. \A k \in S \ {i} : Outranks(i, k)
    BY <1>2, PriorityOrder DEF Outranks
  <1>4. QED
    BY <1>3 DEF Highest

-----------------------------------------------------------------------------
(***************************************************************************)
(* Type correctness.  The steps of the initialisation sequence are the     *)
(* only delicate ones: icw_index stays within 0..3 because ICW1 asks for   *)
(* two or three words.                                                     *)
(***************************************************************************)

LEMMA InitTypeOK == Init => TypeOK
  <1> SUFFICES ASSUME Init PROVE TypeOK
    OBVIOUS
  <1>1. vector \in [Irqs -> Bytes]
    BY DEF Init, Irqs, Bytes
  <1>2. pics \in [Controllers -> ControllerState]
    BY DEF Init, ControllerState
  <1>3. masked \in SUBSET Irqs
    BY DEF Init
  <1>4. QED
    BY <1>1, <1>2, <1>3 DEF Init, TypeOK

LEMMA ChecksAreLines ==
  ASSUME NEW lines \in SUBSET Irqs, NEW req, NEW msk
  PROVE  Checked(lines, req, msk) \in SUBSET Irqs
  BY DEF Checked

LEMMA RecheckType ==
  ASSUME NEW lines \in SUBSET Irqs, NEW msk, irq_check \in SUBSET Irqs
  PROVE  Recheck(lines, msk) \in SUBSET Irqs
  <1>1. lines \cup 8..15 \in SUBSET Irqs
    BY DEF Irqs
  <1>2. CASE (2 \in msk) # (2 \in masked)
    BY <1>1, <1>2, ChecksAreLines DEF Recheck
  <1>3. CASE ~((2 \in msk) # (2 \in masked))
    BY <1>3, ChecksAreLines DEF Recheck
  <1>4. QED
    BY <1>2, <1>3

LEMMA LinesType == \A c \in Controllers : LinesOf(c) \in SUBSET Irqs
  BY DEF LinesOf, IrqBase, Controllers, Irqs

LEMMA EndServiceType ==
  ASSUME TypeOK, EndService
  PROVE  TypeOK'
  <1>1. inservice' \in SUBSET Irqs
    BY DEF TypeOK, EndService
  <1>2. active' \in Irqs \cup {NoIrq}
    BY <1>1, HighestExists DEF EndService, Highest
  <1>3. QED
    BY <1>1, <1>2 DEF TypeOK, EndService, line_vars, mode_vars

LEMMA ICW1Fields ==
  ASSUME NEW s \in ControllerState, NEW single \in BOOLEAN, NEW words \in {0, 2, 3}
  PROVE  [s EXCEPT !.single = single, !.icw_index = 1, !.icw_words = words]
           \in ControllerState
  <1>1. ASSUME NEW t \in ControllerState
        PROVE  [t EXCEPT !.single = single] \in ControllerState
    BY DEF ControllerState
  <1>2. ASSUME NEW t \in ControllerState
        PROVE  [t EXCEPT !.icw_index = 1] \in ControllerState
    BY DEF ControllerState
  <1>3. ASSUME NEW t \in ControllerState
        PROVE  [t EXCEPT !.icw_words = words] \in ControllerState
    BY DEF ControllerState
  <1>4. QED
    BY <1>1, <1>2, <1>3

LEMMA OCW3Fields ==
  ASSUME NEW s \in ControllerState, NEW issr \in BOOLEAN, NEW special \in BOOLEAN
  PROVE  [s EXCEPT !.request_issr = issr, !.special = special] \in ControllerState
  BY DEF ControllerState

LEMMA CommandType ==
  ASSUME TypeOK, NEW c \in Controllers, NEW val \in Bytes, WriteCommand(c, val)
  PROVE  TypeOK'
  <1>1. CASE ICW1(c, val)
    <2>1. Bit(val, 1) \in BOOLEAN
      BY DEF Bit
    <2>2. (IF Bit(val, 0) THEN 3 ELSE 2) \in {0, 2, 3}
      OBVIOUS
    <2>3. pics' \in [Controllers -> ControllerState]
      BY <1>1, <2>1, <2>2, ICW1Fields DEF TypeOK, ICW1
    <2>4. QED
      BY <1>1, <2>3 DEF TypeOK, ICW1, line_vars, service_vars
  <1>2. CASE OCW3(c, val)
    <2> DEFINE issr == IF Bit(val, 1) THEN Bit(val, 0) ELSE pics[c].request_issr
               special == IF Bit(val, 6) THEN Bit(val, 5) ELSE pics[c].special
    <2>1. issr \in BOOLEAN /\ special \in BOOLEAN
      <3>1. Bit(val, 0) \in BOOLEAN /\ Bit(val, 5) \in BOOLEAN
        BY DEF Bit
      <3>2. pics[c].request_issr \in BOOLEAN /\ pics[c].special \in BOOLEAN
        BY DEF TypeOK, ControllerState
      <3>3. QED
        BY <3>1, <3>2, Zenon
    <2>2. pics' \in [Controllers -> ControllerState]
      <3>1. pics' = [pics EXCEPT ![c] =
                       [pics[c] EXCEPT !.request_issr = issr, !.special = special]]
        BY <1>2, Zenon DEF OCW3
      <3> HIDE DEF issr, special
      <3>2. QED
        BY <2>1, <3>1, OCW3Fields DEF TypeOK
    <2>3. special_mode' \in BOOLEAN /\ special_seen' \in BOOLEAN
      BY <1>2, Zenon DEF TypeOK, OCW3
    <2>4. QED
      BY <1>2, <2>2, <2>3 DEF TypeOK, OCW3, line_vars, service_vars
  <1>3. CASE SpecificEOI(c, val)
    BY <1>3, EndServiceType DEF SpecificEOI
  <1>4. CASE NonspecificEOI(c, val)
    BY <1>4, EndServiceType DEF NonspecificEOI
  <1>5. CASE RotateOnAutoEOI(c, val)
    <2>1. Bit(val, 7) \in BOOLEAN
      BY DEF Bit
    <2>2. pics' \in [Controllers -> ControllerState]
      BY <1>5, <2>1 DEF TypeOK, RotateOnAutoEOI, ControllerState
    <2>3. QED
      BY <1>5, <2>2 DEF TypeOK, RotateOnAutoEOI, line_vars, service_vars
  <1>6. QED
    BY <1>1, <1>2, <1>3, <1>4, <1>5 DEF WriteCommand

LEMMA DataType ==
  ASSUME TypeOK, NEW c \in Controllers, NEW val \in Bytes, WriteData(c, val)
  PROVE  TypeOK'
  <1>1. CASE MaskWrite(c, val)
    <2>1. masked' \in SUBSET Irqs
      BY <1>1, LinesType DEF TypeOK, MaskWrite
    <2>2. irq_check' \in SUBSET Irqs
      BY <1>1, LinesType, RecheckType DEF TypeOK, MaskWrite
    <2>3. QED
      BY <1>1, <2>1, <2>2 DEF TypeOK, MaskWrite, service_vars, mode_vars
  <1>2. NextIndex(c) \in 0..3
    BY DEF TypeOK, NextIndex, LastWord, ControllerState
  <1>3. CASE ICW2(c, val)
    <2>1. \A i \in LinesOf(c) : (val \div 8) * 8 + i - IrqBase(c) \in Bytes
      BY DEF Bytes, LinesOf, IrqBase, Controllers
    <2>2. vector' \in [Irqs -> Bytes]
      BY <1>3, <2>1 DEF TypeOK, ICW2
    <2>3. pics' \in [Controllers -> ControllerState]
      BY <1>2, <1>3 DEF TypeOK, ICW2, ControllerState
    <2>4. QED
      BY <1>3, <2>2, <2>3 DEF TypeOK, ICW2, line_vars, service_vars
  <1>4. CASE ICW3(c)
    <2>1. pics' \in [Controllers -> ControllerState]
      BY <1>2, <1>4 DEF TypeOK, ICW3, ControllerState
    <2>2. QED
      BY <1>4, <2>1 DEF TypeOK, ICW3, line_vars, service_vars
  <1>5. CASE ICW4(c, val)
    <2>1. Bit(val, 1) \in BOOLEAN
      BY DEF Bit
    <2>2. pics' \in [Controllers -> ControllerState]
      <3> DEFINE auto == Bit(val, 1)
                 next == NextIndex(c)
      <3>1. pics' = [pics EXCEPT ![c].auto_eoi = auto, ![c].icw_index = next]
        BY <1>5 DEF ICW4
      <3>2. pics \in [Controllers -> ControllerState] /\ auto \in BOOLEAN /\ next \in 0..3
        BY <1>2, <2>1 DEF TypeOK
      <3> HIDE DEF auto, next
      <3>3. \A p \in ControllerState : [p EXCEPT !.auto_eoi = auto, !.icw_index = next] \in ControllerState
        BY <3>2 DEF ControllerState
      <3>4. pics' = [pics EXCEPT ![c] = [pics[c] EXCEPT !.auto_eoi = auto, !.icw_index = next]]
        BY <3>1, <3>2
      <3>5. QED
        BY <3>2, <3>3, <3>4
    <2>3. QED
      BY <1>5, <2>2 DEF TypeOK, ICW4, line_vars, service_vars
  <1>6. QED
    BY <1>1, <1>3, <1>4, <1>5 DEF WriteData

LEMMA NextTypeOK == TypeOK /\ [Next]_vars => TypeOK'
  <1> SUFFICES ASSUME TypeOK, [Next]_vars PROVE TypeOK'
    OBVIOUS
  <1> USE PicAssumption
  <1>1. ASSUME NEW irq \in DeviceIrqs, ActivateIrq(irq) PROVE TypeOK'
    <2>1. Checked({irq}, {irq}, masked) \in SUBSET Irqs
      BY ChecksAreLines
    <2>2. requested' \in SUBSET Irqs /\ irq_check' \in SUBSET Irqs
      BY <1>1, <2>1 DEF TypeOK, ActivateIrq
    <2>3. QED
      BY <1>1, <2>2 DEF TypeOK, ActivateIrq, service_vars, mode_vars
  <1>2. ASSUME NEW irq \in DeviceIrqs, DeactivateIrq(irq) PROVE TypeOK'
    BY <1>2 DEF TypeOK, DeactivateIrq, service_vars, mode_vars
  <1>3. ASSUME NEW irq \in MaskedIrqs, NEW mask \in BOOLEAN, SetIrqMask(irq, mask)
        PROVE  TypeOK'
    <2>1. masked' \in SUBSET Irqs
      BY <1>3 DEF TypeOK, SetIrqMask
    <2>2. irq_check' \in SUBSET Irqs
      BY <1>3, RecheckType DEF TypeOK, SetIrqMask
    <2>3. QED
      BY <1>3, <2>1, <2>2 DEF TypeOK, SetIrqMask, service_vars, mode_vars
  <1>4. CASE RunIrqs
    <2>1. PICK i \in Irqs : StartIrq(i)
      BY <1>4 DEF RunIrqs
    <2>2. CASE pics[Controller(i)].auto_eoi
      BY <2>1, <2>2 DEF TypeOK, StartIrq, service_vars, mode_vars
    <2>3. CASE ~pics[Controller(i)].auto_eoi
      BY <2>1, <2>3 DEF TypeOK, StartIrq, mode_vars
    <2>4. QED
      BY <2>2, <2>3
  <1>5. ASSUME NEW write \in CommandWrites, WriteCommand(write[1], write[2])
        PROVE  TypeOK'
    BY <1>5, CommandType
  <1>6. ASSUME NEW write \in DataWrites, WriteData(write[1], write[2])
        PROVE  TypeOK'
    BY <1>6, DataType
  <1>7. CASE UNCHANGED vars
    BY <1>7 DEF TypeOK, vars, line_vars, service_vars, mode_vars
  <1>8. QED
    BY <1>1, <1>2, <1>3, <1>4, <1>5, <1>6, <1>7 DEF Next

\* Whatever the guest writes to the four ports, the controllers stay in the
\* states the code has cases for (write_data has no case for icw_index > 3).
THEOREM PicTypeCorrect == Spec => []TypeOK
  BY InitTypeOK, NextTypeOK, PTL DEF Spec

-----------------------------------------------------------------------------
(***************************************************************************)
(* irq_check follows the lines and the masks.                              *)
(***************************************************************************)

\* Looking again at the lines whose mask changed, and at 8 to 15 when the
\* mask of the cascade line did, is as good as looking at all the lines.
LEMMA RecheckSuffices ==
  ASSUME TypeOK, CheckMatchesLines,
         NEW lines \in SUBSET Irqs, NEW msk \in SUBSET Irqs,
         \A i \in Irqs \ lines : i \in msk <=> i \in masked
  PROVE  Recheck(lines, msk) = Checked(Irqs, requested, msk)
  <1>1. ASSUME NEW i \in Irqs
        PROVE  i \in Recheck(lines, msk) <=> i \in Checked(Irqs, requested, msk)
    <2>1. CASE (2 \in msk) # (2 \in masked)
      BY <2>1 DEF CheckMatchesLines, Checked, Recheck, Irqs
    <2>2. CASE ~((2 \in msk) # (2 \in masked))
      BY <2>2 DEF CheckMatchesLines, Checked, Recheck, Irqs
    <2>3. QED
      BY <2>1, <2>2
  <1>2. Recheck(lines, msk) \in SUBSET Irqs
    BY RecheckType DEF TypeOK
  <1>3. Checked(Irqs, requested, msk) \in SUBSET Irqs
    BY ChecksAreLines
  <1>4. QED
    BY <1>1, <1>2, <1>3

LEMMA CheckUnchanged ==
  ASSUME CheckMatchesLines, UNCHANGED line_vars
  PROVE  CheckMatchesLines'
  BY DEF CheckMatchesLines, line_vars, Checked

LEMMA NextCheckMatchesLines ==
  TypeOK /\ CheckMatchesLines /\ [Next]_vars => CheckMatchesLines'
  <1> SUFFICES ASSUME TypeOK, CheckMatchesLines, [Next]_vars
               PROVE  CheckMatchesLines'
    OBVIOUS
  <1> USE PicAssumption
  <1>1. ASSUME NEW irq \in DeviceIrqs, ActivateIrq(irq) PROVE CheckMatchesLines'
    BY <1>1 DEF CheckMatchesLines, ActivateIrq, Checked
  <1>2. ASSUME NEW irq \in DeviceIrqs, DeactivateIrq(irq) PROVE CheckMatchesLines'
    BY <1>2 DEF CheckMatchesLines, DeactivateIrq, Checked
  <1>3. ASSUME NEW irq \in MaskedIrqs, NEW mask \in BOOLEAN, SetIrqMask(irq, mask)
        PROVE  CheckMatchesLines'
    <2>1. masked' \in SUBSET Irqs /\ {irq} \in SUBSET Irqs
      BY <1>3 DEF TypeOK, SetIrqMask
    <2>2. \A i \in Irqs \ {irq} : i \in masked' <=> i \in masked
      BY <1>3 DEF SetIrqMask
    <2>3. Recheck({irq}, masked') = Checked(Irqs, requested, masked')
      BY <2>1, <2>2, RecheckSuffices
    <2>4. QED
      BY <1>3, <2>3 DEF CheckMatchesLines, SetIrqMask
  <1>4. CASE RunIrqs
    BY <1>4 DEF CheckMatchesLines, RunIrqs, StartIrq, Checked
  <1>5. ASSUME NEW write \in CommandWrites, WriteCommand(write[1], write[2])
        PROVE  CheckMatchesLines'
    BY <1>5, CheckUnchanged
       DEF WriteCommand, ICW1, OCW3, SpecificEOI, NonspecificEOI, EndService,
           RotateOnAutoEOI
  <1>6. ASSUME NEW c \in Controllers, NEW val \in Bytes, MaskWrite(c, val)
        PROVE  CheckMatchesLines'
    <2>1. masked' \in SUBSET Irqs /\ LinesOf(c) \in SUBSET Irqs
      BY <1>6, LinesType DEF TypeOK, MaskWrite
    <2>2. \A i \in Irqs \ LinesOf(c) : i \in masked' <=> i \in masked
      BY <1>6 DEF MaskWrite
    <2>3. Recheck(LinesOf(c), masked') = Checked(Irqs, requested, masked')
      BY <2>1, <2>2, RecheckSuffices
    <2>4. QED
      BY <1>6, <2>3 DEF CheckMatchesLines, MaskWrite
  <1>7. ASSUME NEW write \in DataWrites, WriteData(write[1], write[2])
        PROVE  CheckMatchesLines'
    BY <1>6, <1>7, CheckUnchanged DEF WriteData, ICW2, ICW3, ICW4
  <1>8. CASE UNCHANGED vars
    BY <1>8, CheckUnchanged DEF vars
  <1>9. QED
    BY <1>1, <1>2, <1>3, <1>4, <1>5, <1>7, <1>8 DEF Next

\* The decode loop never misses a line that can be served, nor keeps calling
\* run_irqs for one that cannot: CheckMatchesLines of every reachable state.
THEOREM PicCheckMatchesLines == Spec => []CheckMatchesLines
  <1>1. Init => CheckMatchesLines
    BY DEF Init, CheckMatchesLines, Checked
  <1>2. QED
    BY <1>1, PicTypeCorrect, NextCheckMatchesLines, PTL DEF Spec

-----------------------------------------------------------------------------
(***************************************************************************)
(* Interrupts in service.  Nesting needs that special_mode, which lets a   *)
(* line start below the one being served, is set only with special_seen.   *)
(***************************************************************************)

SpecialIsSeen == special_mode => special_seen

ServiceInv ==
  /\ TypeOK
  /\ CheckMatchesLines
  /\ SpecialIsSeen
  /\ ActiveIsInService
  /\ ActiveOutranksInterrupted

LEMMA OutranksTransitive ==
  ASSUME NEW i \in Irqs, NEW j \in Irqs, NEW k \in Irqs,
         Outranks(i, j), Outranks(j, k)
  PROVE  Outranks(i, k)
  <1>1. \A n \in Irqs : IRQ_priority_lookup[n] \in 0..16
    BY PriorityOrder DEF Irqs
  <1>2. QED
    BY <1>1 DEF Outranks

\* What run_irqs starts outranks every line in service.
LEMMA StartedOutranksInService ==
  ASSUME ServiceInv, ~special_seen, NEW i \in Irqs, CanStart(i)
  PROVE  \A k \in inservice : Outranks(i, k)
  <1>1. IRQ_priority_lookup[i] < ActivePriority
    BY DEF ServiceInv, SpecialIsSeen, CanStart
  <1>2. CASE active = NoIrq
    BY <1>2 DEF ServiceInv, ActiveIsInService
  <1>3. CASE active # NoIrq
    <2>1. active \in Irqs /\ inservice \in SUBSET Irqs
      BY <1>3 DEF ServiceInv, TypeOK
    <2>2. Outranks(i, active)
      BY <1>1, <1>3 DEF ActivePriority, Outranks
    <2>3. \A k \in inservice \ {active} : Outranks(active, k)
      BY DEF ServiceInv, ActiveOutranksInterrupted
    <2>4. QED
      BY <2>1, <2>2, <2>3, OutranksTransitive
  <1>4. QED
    BY <1>2, <1>3

LEMMA ServiceUnchanged ==
  ASSUME ServiceInv, UNCHANGED service_vars, special_seen => special_seen'
  PROVE  ActiveIsInService' /\ ActiveOutranksInterrupted'
  BY DEF ServiceInv, ActiveIsInService, ActiveOutranksInterrupted, service_vars

LEMMA StartPreservesService ==
  ASSUME ServiceInv, RunIrqs
  PROVE  ActiveIsInService' /\ ActiveOutranksInterrupted'
  <1>1. PICK i \in Irqs : CanStart(i) /\ StartIrq(i)
    BY DEF RunIrqs
  <1>2. special_seen' = special_seen
    BY <1>1 DEF StartIrq, mode_vars
  <1>3. CASE pics[Controller(i)].auto_eoi
    BY <1>1, <1>2, <1>3, ServiceUnchanged DEF StartIrq
  <1>4. CASE ~pics[Controller(i)].auto_eoi
    <2>1. active' = i /\ inservice' = inservice \cup {i}
      BY <1>1, <1>4 DEF StartIrq
    <2>2. i # NoIrq
      BY DEF Irqs, NoIrq
    <2>3. ActiveIsInService'
      BY <2>1, <2>2 DEF ActiveIsInService
    <2>4. ActiveOutranksInterrupted'
      BY <1>1, <1>2, <2>1, StartedOutranksInService DEF ActiveOutranksInterrupted
    <2>5. QED
      BY <2>3, <2>4
  <1>5. QED
    BY <1>3, <1>4

\* Either form of EOI goes back to the line that outranks the rest.
LEMMA EndPreservesService ==
  ASSUME ServiceInv, EndService
  PROVE  ActiveIsInService' /\ ActiveOutranksInterrupted'
  <1> DEFINE rest == inservice \ {active}
  <1>1. inservice' = rest /\ active' = Highest(rest) /\ rest \in SUBSET Irqs
    BY DEF ServiceInv, TypeOK, EndService
  <1>2. CASE rest = {}
    BY <1>1, <1>2 DEF ActiveIsInService, ActiveOutranksInterrupted, Highest
  <1>3. CASE rest # {}
    <2> HIDE DEF rest
    <2>1. /\ Highest(rest) \in rest
          /\ \A k \in rest \ {Highest(rest)} : Outranks(Highest(rest), k)
      BY <1>1, <1>3, HighestExists
    <2>2. Highest(rest) # NoIrq
      BY <1>1, <2>1 DEF Irqs, NoIrq
    <2>3. QED
      BY <1>1, <2>1, <2>2 DEF ActiveIsInService, ActiveOutranksInterrupted
  <1>4. QED
    BY <1>2, <1>3

LEMMA NextServiceInv == ServiceInv /\ [Next]_vars => ServiceInv'
  <1> SUFFICES ASSUME ServiceInv, [Next]_vars PROVE ServiceInv'
    OBVIOUS
  <1>1. TypeOK' /\ CheckMatchesLines'
    BY NextTypeOK, NextCheckMatchesLines DEF ServiceInv
  <1>2. SpecialIsSeen' /\ (special_seen => special_seen')
    <2>1. CASE UNCHANGED <<special_mode, special_seen>>
      BY <2>1 DEF ServiceInv, SpecialIsSeen
    <2>2. ASSUME NEW c, NEW val, OCW3(c, val)
          PROVE  special_seen' = (special_seen \/ special_mode')
      BY <2>2 DEF OCW3
    <2>3. CASE special_seen' = (special_seen \/ special_mode')
      BY <2>3, <1>1 DEF SpecialIsSeen, TypeOK
    <2>4. QED
      BY <2>1, <2>2, <2>3
         DEF Next, vars, mode_vars, ActivateIrq, DeactivateIrq, SetIrqMask,
             RunIrqs, StartIrq, WriteCommand, ICW1, SpecificEOI, NonspecificEOI,
             EndService, RotateOnAutoEOI, WriteData, MaskWrite, ICW2, ICW3, ICW4
  <1>3. ActiveIsInService' /\ ActiveOutranksInterrupted'
    <2>1. CASE RunIrqs
      BY <2>1, StartPreservesService
    <2>2. CASE EndService
      BY <2>2, EndPreservesService
    <2>3. CASE UNCHANGED service_vars
      BY <1>2, <2>3, ServiceUnchanged
    <2>4. QED
      BY <2>1, <2>2, <2>3
         DEF Next, vars, ActivateIrq, DeactivateIrq, SetIrqMask,
             WriteCommand, ICW1, OCW3, SpecificEOI, NonspecificEOI,
             RotateOnAutoEOI, WriteData, MaskWrite, ICW2, ICW3, ICW4
  <1>4. QED
    BY <1>1, <1>2, <1>3 DEF ServiceInv

LEMMA ServiceInvHolds == Spec => []ServiceInv
  <1>1. Init => ServiceInv
    <2>1. Init => CheckMatchesLines
      BY DEF Init, CheckMatchesLines, Checked
    <2>2. QED
      BY <2>1, InitTypeOK
         DEF Init, ServiceInv, SpecialIsSeen, ActiveIsInService,
             ActiveOutranksInterrupted
  <1>2. QED
    BY <1>1, NextServiceInv, PTL DEF Spec

\* pic->active and the in-service bits agree in every reachable state.
THEOREM PicActiveIsInService == Spec => []ActiveIsInService
  BY ServiceInvHolds, PTL DEF ServiceInv

\* Without special masks the served line outranks all that it interrupted,
\* for any devices and any bytes written to the ports.
THEOREM PicActiveOutranksInterrupted == Spec => []ActiveOutranksInterrupted
  BY ServiceInvHolds, PTL DEF ServiceInv

\* No step but run_irqs puts a line in service, and run_irqs takes one that
\* waited in irq_check and, without special masks, outranks all the others.
THEOREM PicStartsMostUrgent == Spec => StartsMostUrgent
  <1> DEFINE MostUrgent ==
        \A i \in inservice' \ inservice :
          /\ i \in irq_check
          /\ ~special_seen => \A k \in (irq_check \cup inservice) \ {i} :
                                 Outranks(i, k)
  <1>1. ServiceInv /\ [Next]_vars => [MostUrgent]_vars
    <2> SUFFICES ASSUME ServiceInv, [Next]_vars PROVE MostUrgent
      OBVIOUS
    <2>1. CASE RunIrqs
      <3>1. PICK i \in Irqs :
              /\ CanStart(i)
              /\ \A k \in Irqs \ {i} : CanStart(k) => Outranks(i, k)
              /\ StartIrq(i)
        BY <2>1 DEF RunIrqs
      <3>2. inservice' \subseteq inservice \cup {i}
        BY <3>1 DEF StartIrq, service_vars
      <3>3. i \in irq_check
        BY <3>1 DEF CanStart, ServiceInv, CheckMatchesLines, Checked
      <3>4. ASSUME ~special_seen, NEW k \in irq_check \ {i}
            PROVE  Outranks(i, k)
        <4>1. k \in Irqs /\ k \in requested /\ k \notin masked
              /\ (k >= 8 => 2 \notin masked)
          BY DEF ServiceInv, CheckMatchesLines, Checked
        <4>2. CASE IRQ_priority_lookup[k] < ActivePriority
          BY <3>1, <4>1, <4>2 DEF CanStart
        <4>3. CASE ~(IRQ_priority_lookup[k] < ActivePriority)
          <5>1. IRQ_priority_lookup[i] < ActivePriority
            BY <3>1, <3>4 DEF ServiceInv, SpecialIsSeen, CanStart
          <5>2. /\ IRQ_priority_lookup[i] \in Int
                /\ IRQ_priority_lookup[k] \in Int
                /\ ActivePriority \in Int
            <6>1. \A n \in 0..16 : IRQ_priority_lookup[n] \in Int
              BY PriorityOrder
            <6>2. (IF active = NoIrq THEN 16 ELSE active) \in 0..16
              BY DEF ServiceInv, TypeOK, Irqs
            <6>3. QED
              BY <4>1, <6>1, <6>2 DEF ActivePriority, Irqs
          <5>3. QED
            BY <4>3, <5>1, <5>2 DEF Outranks
        <4>4. QED
          BY <4>2, <4>3
      <3>5. ~special_seen => \A k \in inservice : Outranks(i, k)
        BY <3>1, StartedOutranksInService
      <3>6. QED
        BY <3>2, <3>3, <3>4, <3>5
    <2>2. CASE inservice' \subseteq inservice
      BY <2>2
    <2>3. QED
      BY <2>1, <2>2
         DEF Next, vars, service_vars, ActivateIrq, DeactivateIrq, SetIrqMask,
             WriteCommand, ICW1, OCW3, SpecificEOI, NonspecificEOI, EndService,
             RotateOnAutoEOI, WriteData, MaskWrite, ICW2, ICW3, ICW4
  <1>2. QED
    BY <1>1, ServiceInvHolds, PTL DEF Spec, StartsMostUrgent

=============================================================================
