--------------------------- MODULE KeyboardProofs ---------------------------
(***************************************************************************)
(* Proofs about Keyboard, for any keys, any size of the ring and any       *)
(* number of commands.                                                     *)
(***************************************************************************)
EXTENDS Keyboard, SequenceTheorems, TLAPS

-----------------------------------------------------------------------------
(***************************************************************************)
(* The ring.                                                               *)
(***************************************************************************)

LEMMA KeyBytesType ==
  ASSUME NEW key \in Key, NEW pressed \in BOOLEAN
  PROVE  KeyBytes(key, pressed) \in Seq(Byte)
  <1> DEFINE codes == [n \in DOMAIN key.codes |->
                         IF pressed THEN key.codes[n] ELSE key.codes[n] + Release]
  <1>1. key.prefix \in Seq(Byte)
    <2>1. key.prefix \in {<<>>, <<224>>, <<225>>}
      BY DEF Key
    <2>2. <<>> \in Seq(Byte) /\ <<224>> \in Seq(Byte) /\ <<225>> \in Seq(Byte)
      BY DEF Byte
    <2>3. CASE key.prefix = <<>>
      BY <2>2, <2>3
    <2>4. CASE key.prefix = <<224>>
      BY <2>2, <2>4
    <2>5. CASE key.prefix = <<225>>
      BY <2>2, <2>5
    <2>6. QED
      BY <2>1, <2>3, <2>4, <2>5
  <1>2. key.codes \in Seq(Code)
    BY DEF Key
  <1>3. codes \in Seq(Byte)
    <2>1. DOMAIN key.codes = 1..Len(key.codes) /\ Len(key.codes) \in Nat
      BY <1>2
    <2>2. \A n \in 1..Len(key.codes) : key.codes[n] \in Code
      BY <1>2
    <2>3. ASSUME NEW n \in 1..Len(key.codes)
          PROVE  (IF pressed THEN key.codes[n] ELSE key.codes[n] + Release) \in Byte
      <3>1. key.codes[n] \in Code
        BY <2>2
      <3>2. key.codes[n] \in Byte /\ key.codes[n] + Release \in Byte
        <4>1. \A c \in Code : c \in Byte /\ c + Release \in Byte
          BY DEF Code, Byte, Release
        <4>2. QED
          BY <3>1, <4>1
      <3>3. QED
        BY <3>2
    <2>4. codes = [n \in 1..Len(key.codes) |->
                     IF pressed THEN key.codes[n] ELSE key.codes[n] + Release]
      BY <2>1
    <2>5. codes \in [1..Len(key.codes) -> Byte]
      BY <2>3, <2>4, Zenon
    <2>6. QED
      BY <2>1, <2>5, SeqDef
  <1>4. QED
    BY <1>1, <1>3 DEF KeyBytes

\* What add_buffer takes of a sequence of bytes, and that it fits.
LEMMA FittingFits ==
  ASSUME TypeOK, NEW bytes \in Seq(Byte)
  PROVE  /\ Fitting(bytes) \in Seq(Byte)
         /\ used + Len(Fitting(bytes)) \in 0..BufSize
         /\ used < BufSize /\ bytes # <<>> => Fitting(bytes) # <<>>
  <1> USE KeyboardAssumption
  <1>1. used \in 0..BufSize /\ Len(bytes) \in Nat
    BY DEF TypeOK
  <1>2. CASE Len(bytes) <= BufSize - used
    BY <1>1, <1>2 DEF Fitting
  <1>3. CASE ~(Len(bytes) <= BufSize - used)
    <2>1. Fitting(bytes) = SubSeq(bytes, 1, BufSize - used)
      BY <1>3 DEF Fitting
    <2>2. /\ SubSeq(bytes, 1, BufSize - used) \in Seq(Byte)
          /\ Len(SubSeq(bytes, 1, BufSize - used)) = BufSize - used
      BY <1>1, <1>3
    <2>3. QED
      BY <1>1, <2>1, <2>2
  <1>4. QED
    BY <1>2, <1>3

LEMMA FilledType ==
  ASSUME TypeOK, NEW bytes \in Seq(Byte)
  PROVE  Filled(bytes) \in [0..(BufSize - 1) -> Byte]
  <1>1. DOMAIN buffer = 0..(BufSize - 1)
    BY DEF TypeOK
  <1>2. ASSUME NEW i \in 0..(BufSize - 1)
        PROVE  Filled(bytes)[i] \in Byte
    <2> DEFINE n == IF i >= pos THEN i - pos - used ELSE i + BufSize - pos - used
    <2>1. Filled(bytes)[i] = IF n \in 0..(Len(bytes) - 1) THEN bytes[n + 1] ELSE buffer[i]
      BY <1>1 DEF Filled
    <2>2. buffer[i] \in Byte
      BY DEF TypeOK
    <2>3. n \in 0..(Len(bytes) - 1) => bytes[n + 1] \in Byte
      OBVIOUS
    <2> HIDE DEF n
    <2>4. QED
      BY <2>1, <2>2, <2>3
  <1>3. QED
    BY <1>1, <1>2 DEF Filled

LEMMA SlotType ==
  ASSUME NEW start \in 0..(BufSize - 1), NEW n \in 0..BufSize
  PROVE  Slot(start, n) \in 0..(BufSize - 1)
  BY KeyboardAssumption DEF Slot

-----------------------------------------------------------------------------
(***************************************************************************)
(* The inductive invariant.  That a transfer is never scheduled while a    *)
(* byte is unread is what keeps the byte from being overrun; it needs the  *)
(* count of the events, because an event that outlived `scheduled` would   *)
(* fire all the same.                                                      *)
(***************************************************************************)

TransferWaitsForRead == ~(scheduled /\ p60changed)

\* The repetition is never that of Pause, whose release does not end it.
RepeatingKeyRepeats == repeat.wait > 0 => repeat.key.repeats

KeyboardInv ==
  /\ TypeOK
  /\ OneTransferPending
  /\ TransferWaitsForRead
  /\ NothingStranded
  /\ RepeatsHeldKey
  /\ RepeatingKeyRepeats

LEMMA InitKeyboardInv == Init => KeyboardInv
  <1> SUFFICES ASSUME Init PROVE KeyboardInv
    OBVIOUS
  <1> USE KeyboardAssumption
  <1>1. buffer \in [0..(BufSize - 1) -> Byte]
    BY DEF Init, Byte
  <1>2. repeat \in [key : Keys \cup {NoKey}, wait : Nat] /\ repeat.wait = 0
    BY DEF Init
  <1>3. TypeOK
    <2>1. speed \in Rate /\ p60data \in Byte /\ held \in SUBSET Keys
      BY DEF Init, Byte
    <2>2. pos \in 0..(BufSize - 1) /\ used \in 0..BufSize /\ commands \in 0..MaxCommands
      BY DEF Init
    <2>3. QED
      BY <1>1, <1>2, <2>1, <2>2 DEF Init, TypeOK
  <1>4. QED
    BY <1>2, <1>3
       DEF Init, KeyboardInv, OneTransferPending, TransferWaitsForRead,
           NothingStranded, RepeatsHeldKey, RepeatingKeyRepeats

\* Adding bytes, the last step of a key, keeps the ring and its transfer right.
LEMMA AddBytesPreserves ==
  ASSUME KeyboardInv, NEW bytes \in Seq(Byte), AddBytes(bytes),
         UNCHANGED p60changed
  PROVE  /\ buffer' \in [0..(BufSize - 1) -> Byte]
         /\ pos' \in 0..(BufSize - 1)
         /\ used' \in 0..BufSize
         /\ scheduled' \in BOOLEAN
         /\ transfers' \in Nat
         /\ OneTransferPending'
         /\ TransferWaitsForRead'
         /\ NothingStranded'
  <1> DEFINE new == Fitting(bytes)
  <1>1. TypeOK
    BY DEF KeyboardInv
  <1>2. new \in Seq(Byte) /\ used + Len(new) \in 0..BufSize
    BY <1>1, FittingFits
  <1>3. buffer' \in [0..(BufSize - 1) -> Byte]
    BY <1>1, <1>2, FilledType DEF AddBytes
  <1>4. used' \in 0..BufSize /\ pos' \in 0..(BufSize - 1)
    BY <1>1, <1>2 DEF TypeOK, AddBytes
  <1>5. CASE new = <<>>
    <2>1. used' = used /\ scheduled' = scheduled /\ transfers' = transfers
      BY <1>1, <1>5 DEF AddBytes, Unscheduled, TypeOK
    <2>2. QED
      BY <1>1, <1>3, <1>4, <2>1
         DEF KeyboardInv, TypeOK, OneTransferPending, TransferWaitsForRead,
             NothingStranded
  <1>6. CASE new # <<>>
    <2>1. ScheduleTransfer
      BY <1>6 DEF AddBytes
    <2>2. scheduled' \in BOOLEAN /\ transfers' \in Nat
      BY <1>1, <2>1 DEF ScheduleTransfer, TypeOK
    <2>3. OneTransferPending'
      BY <1>1, <2>1 DEF KeyboardInv, ScheduleTransfer, OneTransferPending, TypeOK
    <2>4. TransferWaitsForRead' /\ NothingStranded'
      BY <1>1, <2>1
         DEF KeyboardInv, ScheduleTransfer, TransferWaitsForRead,
             NothingStranded, TypeOK
    <2>5. QED
      BY <1>3, <1>4, <2>2, <2>3, <2>4
  <1>7. QED
    BY <1>5, <1>6

LEMMA AddKeyPreserves ==
  ASSUME KeyboardInv, NEW key \in Keys, NEW pressed \in BOOLEAN,
         AddKey(key, pressed)
  PROVE  KeyboardInv'
  <1> USE KeyboardAssumption
  <1>1. KeyBytes(key, pressed) \in Seq(Byte)
    BY KeyBytesType
  <1>2. p60changed' = p60changed
    BY DEF AddKey, port_vars
  <1>3. /\ repeat' \in [key : Keys \cup {NoKey}, wait : Nat]
        /\ RepeatsHeldKey' /\ RepeatingKeyRepeats'
    <2>1. repeat \in [key : Keys \cup {NoKey}, wait : Nat]
          /\ speed.rate \in Nat /\ speed.pause \in Nat
      BY DEF KeyboardInv, TypeOK, Rate
    <2>2. CASE ~key.repeats /\ pressed
      BY <2>1, <2>2 DEF AddKey, KeyboardInv, RepeatsHeldKey, RepeatingKeyRepeats
    <2>3. CASE ~key.repeats /\ ~pressed
      BY <2>1, <2>3 DEF AddKey, KeyboardInv, RepeatsHeldKey, RepeatingKeyRepeats
    <2>4. CASE key.repeats /\ pressed
      BY <2>1, <2>4 DEF AddKey, Repetition, RepeatsHeldKey, RepeatingKeyRepeats
    <2>5. CASE key.repeats /\ ~pressed
      BY <2>1, <2>5 DEF AddKey, Repetition, RepeatsHeldKey, RepeatingKeyRepeats
    <2>6. QED
      BY <2>2, <2>3, <2>4, <2>5
  <1>4. held' \in SUBSET Keys
    BY DEF AddKey, KeyboardInv, TypeOK
  <1>5. AddBytes(KeyBytes(key, pressed))
    BY DEF AddKey
  <1>6. QED
    BY <1>1, <1>2, <1>3, <1>4, <1>5, AddBytesPreserves
       DEF AddKey, KeyboardInv, TypeOK, port_vars, mode_vars

LEMMA EveryMsecPreserves ==
  ASSUME KeyboardInv, EveryMsec
  PROVE  KeyboardInv'
  <1> USE KeyboardAssumption
  <1>1. /\ repeat \in [key : Keys \cup {NoKey}, wait : Nat]
        /\ speed.rate \in Nat
        /\ repeat.wait > 0
    BY DEF KeyboardInv, TypeOK, Rate, EveryMsec
  <1>2. p60changed' = p60changed
    BY DEF EveryMsec, port_vars
  <1>3. /\ repeat' \in [key : Keys \cup {NoKey}, wait : Nat]
        /\ RepeatsHeldKey' /\ RepeatingKeyRepeats'
    <2>1. repeat' \in [key : Keys \cup {NoKey}, wait : Nat] /\ repeat'.key = repeat.key
      <3>1. CASE repeat.wait = 1
        BY <1>1, <3>1 DEF EveryMsec
      <3>2. CASE repeat.wait # 1
        BY <1>1, <3>2 DEF EveryMsec
      <3>3. QED
        BY <3>1, <3>2
    <2>2. QED
      BY <1>1, <2>1 DEF EveryMsec, KeyboardInv, RepeatsHeldKey, RepeatingKeyRepeats
  <1>4. CASE repeat.wait = 1
    <2>1. AddBytes(KeyBytes(repeat.key, TRUE)) /\ KeyBytes(repeat.key, TRUE) \in Seq(Byte)
      BY <1>1, <1>4, KeyBytesType DEF EveryMsec
    <2>2. QED
      BY <1>2, <1>3, <2>1, AddBytesPreserves
         DEF EveryMsec, KeyboardInv, TypeOK, port_vars, mode_vars
  <1>5. CASE repeat.wait # 1
    BY <1>2, <1>3, <1>5
       DEF EveryMsec, KeyboardInv, TypeOK, OneTransferPending,
           TransferWaitsForRead, NothingStranded, ring_vars, port_vars, mode_vars
  <1>6. QED
    BY <1>4, <1>5

LEMMA TransferPreserves ==
  ASSUME KeyboardInv, TransferBuffer
  PROVE  KeyboardInv'
  <1> USE KeyboardAssumption
  <1>1. transfers = 1 /\ scheduled /\ ~p60changed
    BY DEF TransferBuffer, KeyboardInv, TypeOK, OneTransferPending, TransferWaitsForRead
  <1>2. transfers' = 0 /\ scheduled' = FALSE
    BY <1>1 DEF TransferBuffer
  <1>3. RepeatsHeldKey' /\ RepeatingKeyRepeats'
    BY DEF TransferBuffer, KeyboardInv, RepeatsHeldKey, RepeatingKeyRepeats, host_vars
  <1>4. CASE used = 0
    <2>1. UNCHANGED <<ring_vars, port_vars, mode_vars, host_vars, commands>>
      BY <1>4 DEF TransferBuffer
    <2>2. TypeOK'
      BY <1>2, <2>1
         DEF KeyboardInv, TypeOK, ring_vars, port_vars, mode_vars, host_vars
    <2>3. OneTransferPending' /\ TransferWaitsForRead' /\ NothingStranded'
      BY <1>1, <1>2, <1>4, <2>1
         DEF OneTransferPending, TransferWaitsForRead, NothingStranded,
             ring_vars, port_vars
    <2>4. QED
      BY <1>3, <2>2, <2>3 DEF KeyboardInv
  <1>5. CASE used # 0
    <2>1. /\ pos' \in 0..(BufSize - 1) /\ used' \in 0..BufSize
          /\ p60data' \in Byte /\ p60changed' = TRUE /\ irq1' = TRUE
          /\ buffer' = buffer
      BY <1>5, SlotType DEF TransferBuffer, KeyboardInv, TypeOK
    <2>2. TypeOK'
      <3>1. UNCHANGED <<mode_vars, host_vars, commands>>
        BY DEF TransferBuffer
      <3>2. QED
        BY <1>2, <2>1, <3>1 DEF KeyboardInv, TypeOK, mode_vars, host_vars
    <2>3. QED
      BY <1>2, <1>3, <2>1, <2>2
         DEF KeyboardInv, OneTransferPending, TransferWaitsForRead, NothingStranded
  <1>6. QED
    BY <1>4, <1>5

LEMMA ReadP60Preserves ==
  ASSUME KeyboardInv, ReadP60
  PROVE  KeyboardInv'
  <1>1. TypeOK'
    <2>1. scheduled \in BOOLEAN /\ transfers \in Nat
      BY DEF KeyboardInv, TypeOK
    <2>2. scheduled' \in BOOLEAN /\ transfers' \in Nat /\ p60changed' \in BOOLEAN
      <3>1. scheduled' \in BOOLEAN /\ p60changed' \in BOOLEAN
        BY DEF ReadP60
      <3>2. transfers' = transfers + 1 \/ transfers' = transfers
        BY Zenon DEF ReadP60
      <3>3. QED
        BY <2>1, <3>1, <3>2
    <2>3. UNCHANGED <<ring_vars, p60data, irq1, mode_vars, host_vars, commands>>
      BY DEF ReadP60
    <2>4. QED
      BY <2>2, <2>3 DEF KeyboardInv, TypeOK, ring_vars, mode_vars, host_vars
  <1>2. OneTransferPending'
    BY DEF ReadP60, KeyboardInv, TypeOK, OneTransferPending
  <1>3. TransferWaitsForRead' /\ NothingStranded'
    BY DEF ReadP60, KeyboardInv, TypeOK, TransferWaitsForRead, NothingStranded, ring_vars
  <1>4. RepeatsHeldKey' /\ RepeatingKeyRepeats'
    BY DEF ReadP60, KeyboardInv, RepeatsHeldKey, RepeatingKeyRepeats, host_vars
  <1>5. QED
    BY <1>1, <1>2, <1>3, <1>4 DEF KeyboardInv

\* The answer to a command: what was scheduled before it is gone.
LEMMA ReplyPreserves ==
  ASSUME KeyboardInv, Reply, UNCHANGED p60changed
  PROVE  /\ buffer' \in [0..(BufSize - 1) -> Byte]
         /\ pos' \in 0..(BufSize - 1)
         /\ used' \in 0..BufSize
         /\ scheduled' \in BOOLEAN
         /\ transfers' \in Nat
         /\ OneTransferPending'
         /\ TransferWaitsForRead'
         /\ NothingStranded'
  <1> USE KeyboardAssumption
  <1>1. buffer' \in [0..(BufSize - 1) -> Byte]
    BY DEF Reply, KeyboardInv, TypeOK, Byte, Acknowledge
  <1>2. transfers \in {0, 1}
    BY DEF KeyboardInv, OneTransferPending
  <1>3. p60changed \in BOOLEAN /\ p60changed' = p60changed
    BY DEF KeyboardInv, TypeOK
  <1>4. pos' = 0 /\ used' = 1 /\ scheduled' = ~p60changed
    BY DEF Reply
  <1>5. transfers' = IF p60changed THEN 0 ELSE 1
    BY <1>2 DEF Reply
  <1>6. QED
    <2>1. pos' \in 0..(BufSize - 1) /\ used' \in 0..BufSize
      BY <1>4
    <2>2. scheduled' \in BOOLEAN /\ transfers' \in Nat
      BY <1>3, <1>4, <1>5
    <2>3. OneTransferPending'
      BY <1>3, <1>4, <1>5 DEF OneTransferPending
    <2>4. TransferWaitsForRead' /\ NothingStranded'
      <3>1. CASE p60changed
        BY <1>3, <1>4, <3>1 DEF TransferWaitsForRead, NothingStranded
      <3>2. CASE ~p60changed
        <4>1. scheduled' = TRUE /\ p60changed' = FALSE
          BY <1>3, <1>4, <3>2
        <4>2. QED
          BY <4>1 DEF TransferWaitsForRead, NothingStranded
      <3>3. QED
        BY <3>1, <3>2
    <2>5. QED
      BY <1>1, <2>1, <2>2, <2>3, <2>4

LEMMA WriteP60Preserves ==
  ASSUME KeyboardInv, NEW val, WriteP60(val)
  PROVE  KeyboardInv'
  <1> USE KeyboardAssumption
  <1>1. Reply /\ UNCHANGED <<p60changed, p60data, irq1, active, repeat, held>>
    BY DEF WriteP60, BeginCommand, SetLeds, SetTypeRate, port_vars, host_vars
  <1>2. command' \in {"none", "setleds", "settyperate", "setoutport"}
    BY DEF WriteP60, BeginCommand, SetLeds, SetTypeRate
  <1>3. scanning' \in BOOLEAN
    BY DEF WriteP60, BeginCommand, SetLeds, SetTypeRate, KeyboardInv, TypeOK
  <1>4. speed' \in Rate
    BY DEF WriteP60, BeginCommand, SetLeds, SetTypeRate, KeyboardInv, TypeOK
  <1>5. commands' \in 0..MaxCommands
    BY DEF WriteP60, KeyboardInv, TypeOK
  <1>6. TypeOK'
    BY <1>1, <1>2, <1>3, <1>4, <1>5, ReplyPreserves DEF KeyboardInv, TypeOK
  <1>7. RepeatsHeldKey' /\ RepeatingKeyRepeats'
    BY <1>1 DEF KeyboardInv, RepeatsHeldKey, RepeatingKeyRepeats
  <1>8. QED
    BY <1>1, <1>6, <1>7, ReplyPreserves DEF KeyboardInv

LEMMA WriteP64Preserves ==
  ASSUME KeyboardInv, NEW val, WriteP64(val)
  PROVE  KeyboardInv'
  <1>1. UNCHANGED <<ring_vars, port_vars, speed, host_vars, commands>>
    BY DEF WriteP64, Activate, Deactivate, WriteOutport
  <1>2. /\ command' \in {"none", "setleds", "settyperate", "setoutport"}
        /\ active' \in BOOLEAN /\ scanning' \in BOOLEAN
    BY DEF WriteP64, Activate, Deactivate, WriteOutport, KeyboardInv, TypeOK
  <1>3. RepeatsHeldKey' /\ RepeatingKeyRepeats'
    BY <1>1 DEF KeyboardInv, RepeatsHeldKey, RepeatingKeyRepeats, host_vars
  <1>4. \/ Unscheduled
        \/ ScheduleTransfer
    BY DEF WriteP64, Activate, Deactivate, WriteOutport, Unscheduled
  <1>5. scheduled' \in BOOLEAN /\ transfers' \in Nat
    <2>1. CASE Unscheduled
      BY <2>1 DEF Unscheduled, KeyboardInv, TypeOK
    <2>2. CASE ScheduleTransfer
      <3>1. scheduled \in BOOLEAN /\ p60changed \in BOOLEAN /\ transfers \in Nat
        BY DEF KeyboardInv, TypeOK
      <3>2. QED
        BY <2>2, <3>1 DEF ScheduleTransfer
    <2>3. QED
      BY <1>4, <2>1, <2>2
  <1>6. OneTransferPending' /\ TransferWaitsForRead' /\ NothingStranded'
    BY <1>1, <1>4
       DEF Unscheduled, ScheduleTransfer, KeyboardInv, TypeOK, OneTransferPending,
           TransferWaitsForRead, NothingStranded, ring_vars, port_vars
  <1>7. TypeOK'
    BY <1>1, <1>2, <1>5 DEF KeyboardInv, TypeOK, ring_vars, port_vars, host_vars
  <1>8. QED
    BY <1>3, <1>6, <1>7 DEF KeyboardInv

LEMMA NextKeyboardInv == KeyboardInv /\ [Next]_vars => KeyboardInv'
  <1> SUFFICES ASSUME KeyboardInv, [Next]_vars PROVE KeyboardInv'
    OBVIOUS
  <1>1. ASSUME NEW key \in Keys, NEW pressed \in BOOLEAN, AddKey(key, pressed)
        PROVE  KeyboardInv'
    BY <1>1, AddKeyPreserves
  <1>2. CASE EveryMsec
    BY <1>2, EveryMsecPreserves
  <1>3. CASE TransferBuffer
    BY <1>3, TransferPreserves
  <1>4. CASE ReadP60
    BY <1>4, ReadP60Preserves
  <1>5. ASSUME NEW val \in P60Commands, WriteP60(val) PROVE KeyboardInv'
    BY <1>5, WriteP60Preserves
  <1>6. ASSUME NEW val \in P64Commands, WriteP64(val) PROVE KeyboardInv'
    BY <1>6, WriteP64Preserves
  <1>7. CASE TakeIrq1
    <2>1. TypeOK'
      BY <1>7 DEF TakeIrq1, KeyboardInv, TypeOK, ring_vars, mode_vars, host_vars
    <2>2. QED
      BY <1>7, <2>1
         DEF TakeIrq1, KeyboardInv, OneTransferPending, TransferWaitsForRead,
             NothingStranded, RepeatsHeldKey, RepeatingKeyRepeats, ring_vars,
             host_vars
  <1>8. CASE UNCHANGED vars
    BY <1>8
       DEF vars, KeyboardInv, TypeOK, OneTransferPending, TransferWaitsForRead,
           NothingStranded, RepeatsHeldKey, RepeatingKeyRepeats, ring_vars,
           port_vars, mode_vars, host_vars
  <1>9. QED
    BY <1>1, <1>2, <1>3, <1>4, <1>5, <1>6, <1>7, <1>8 DEF Next

LEMMA KeyboardInvHolds == Spec => []KeyboardInv
  BY InitKeyboardInv, NextKeyboardInv, PTL DEF Spec

\* The ring and the port stay within their bounds for every size of the ring.
THEOREM KeyboardTypeCorrect == Spec => []TypeOK
  BY KeyboardInvHolds, PTL DEF KeyboardInv

\* `scheduled` and the event queue agree for ever.
THEOREM KeyboardOneTransferPending == Spec => []OneTransferPending
  BY KeyboardInvHolds, PTL DEF KeyboardInv

\* No lost wakeup, for every size of the ring and every sequence of commands.
THEOREM KeyboardNothingStranded == Spec => []NothingStranded
  BY KeyboardInvHolds, PTL DEF KeyboardInv

\* The tick repeats held keys only, whatever the rates and the keys are.
THEOREM KeyboardRepeatsHeldKey == Spec => []RepeatsHeldKey
  BY KeyboardInvHolds, PTL DEF KeyboardInv

\* No byte at port 60h is overrun: only a transfer changes it, and a transfer
\* comes only to a port that has been read.
THEOREM KeyboardUnreadByteKept == Spec => UnreadByteKept
  <1>1. KeyboardInv /\ [Next]_vars
          => [p60changed /\ p60changed' => p60data' = p60data]_vars
    <2> SUFFICES ASSUME KeyboardInv, [Next]_vars, p60changed
                 PROVE  p60data' = p60data
      OBVIOUS
    <2>1. CASE TransferBuffer
      BY <2>1
         DEF TransferBuffer, KeyboardInv, TypeOK, OneTransferPending,
             TransferWaitsForRead
    <2>2. CASE UNCHANGED p60data
      BY <2>2
    <2>3. QED
      BY <2>1, <2>2
         DEF Next, vars, port_vars, AddKey, EveryMsec, ReadP60, WriteP60,
             BeginCommand, SetLeds, SetTypeRate, WriteP64, Activate,
             Deactivate, WriteOutport, TakeIrq1
  <1>2. QED
    BY <1>1, KeyboardInvHolds, PTL DEF Spec, UnreadByteKept

-----------------------------------------------------------------------------
(***************************************************************************)
(* Keyboard implements KeyFifo, for any keys, any size of the ring and any *)
(* number of commands: the ring with its delayed transfer is a bounded     *)
(* queue with a port of one byte.                                          *)
(***************************************************************************)

(* The queue that a ring stands for.                                       *)

Queue == [n \in 1..used |-> buffer[Slot(pos, n - 1)]]

\* Sequences of bytes as functions.
LEMMA SeqAsFunction ==
  ASSUME NEW s \in Seq(Byte), NEW k, Len(s) = k
  PROVE  s = [n \in 1..k |-> s[n]]
  <1>1. s \in [1..k -> Byte]
    BY LenProperties
  <1>2. QED
    BY <1>1

LEMMA IsConcat ==
  ASSUME NEW s \in Seq(Byte), NEW t \in Seq(Byte), NEW k, Len(s) = k,
         NEW q \in [1..(k + Len(t)) -> Byte],
         \A n \in 1..(k + Len(t)) : q[n] = IF n <= k THEN s[n] ELSE t[n - k]
  PROVE  q = s \o t
  <1>1. /\ s \o t \in Seq(Byte) /\ Len(s \o t) = k + Len(t)
        /\ \A n \in 1..(k + Len(t)) : (s \o t)[n] = IF n <= k THEN s[n] ELSE t[n - k]
    BY ConcatProperties
  <1>2. s \o t \in [1..(k + Len(t)) -> Byte]
    BY <1>1, LenProperties
  <1>3. QED
    BY <1>1, <1>2

LEMMA TailAsFunction ==
  ASSUME NEW s \in Seq(Byte), s # <<>>
  PROVE  Tail(s) = [n \in 1..(Len(s) - 1) |-> s[n + 1]]
  <1>1. Tail(s) \in Seq(Byte) /\ Len(Tail(s)) = Len(s) - 1
    BY HeadTailProperties
  <1>2. Tail(s) = [n \in 1..(Len(s) - 1) |-> Tail(s)[n]]
    BY <1>1, SeqAsFunction
  <1>3. \A n \in 1..(Len(s) - 1) : Tail(s)[n] = s[n + 1]
    BY <1>1, HeadTailProperties
  <1>4. QED
    BY <1>2, <1>3, Zenon

LEMMA QueueType ==
  ASSUME TypeOK
  PROVE  /\ Queue \in Seq(Byte)
         /\ Len(Queue) = used
         /\ used \in Nat
         /\ \A n \in 1..used : Queue[n] = buffer[Slot(pos, n - 1)]
  <1>1. used \in 0..BufSize /\ pos \in 0..(BufSize - 1) /\ BufSize \in Nat
    BY KeyboardAssumption DEF TypeOK
  <1>2. ASSUME NEW n \in 1..used PROVE buffer[Slot(pos, n - 1)] \in Byte
    <2>1. n - 1 \in 0..BufSize
      BY <1>1
    <2>2. Slot(pos, n - 1) \in 0..(BufSize - 1)
      BY <1>1, <2>1, SlotType
    <2>3. QED
      BY <2>2 DEF TypeOK
  <1>3. Queue \in [1..used -> Byte]
    BY <1>2 DEF Queue
  <1>4. Queue \in Seq(Byte) /\ Len(Queue) = used
    BY <1>1, <1>3, SeqDef
  <1>5. QED
    BY <1>1, <1>4 DEF Queue

\* Filled puts a byte where the queue continues, and nowhere else in it.
LEMMA FilledPlace ==
  ASSUME TypeOK, NEW bytes \in Seq(Byte), used + Len(bytes) \in 0..BufSize,
         NEW n \in 1..used + Len(bytes)
  PROVE  Filled(bytes)[Slot(pos, n - 1)] =
           IF n <= used THEN buffer[Slot(pos, n - 1)] ELSE bytes[n - used]
  <1> DEFINE i == Slot(pos, n - 1)
             k == IF i >= pos THEN i - pos - used ELSE i + BufSize - pos - used
  <1>1. /\ used \in 0..BufSize /\ pos \in 0..(BufSize - 1) /\ BufSize \in Nat
        /\ Len(bytes) \in Nat /\ DOMAIN buffer = 0..(BufSize - 1)
    BY KeyboardAssumption DEF TypeOK
  <1>2. n \in Nat /\ n - 1 \in 0..(BufSize - 1)
    BY <1>1
  <1>3. i \in 0..(BufSize - 1)
    BY <1>1, <1>2, SlotType
  <1>4. k = n - 1 - used
    BY <1>1, <1>2 DEF Slot
  <1>5. Filled(bytes)[i] = IF k \in 0..(Len(bytes) - 1) THEN bytes[k + 1] ELSE buffer[i]
    BY <1>1, <1>3 DEF Filled
  <1> HIDE DEF i, k
  <1>6. CASE n <= used
    <2>1. k \notin 0..(Len(bytes) - 1)
      BY <1>1, <1>2, <1>4, <1>6
    <2>2. QED
      BY <1>5, <1>6, <2>1 DEF i
  <1>7. CASE ~(n <= used)
    <2>1. k \in 0..(Len(bytes) - 1) /\ k + 1 = n - used
      BY <1>1, <1>2, <1>4, <1>7
    <2>2. QED
      BY <1>5, <1>7, <2>1 DEF i
  <1>8. QED
    BY <1>6, <1>7

-----------------------------------------------------------------------------
(* Steps.                                                                  *)

LEMMA InitMaps == Init => Fifo!Init
  <1> SUFFICES ASSUME Init PROVE Fifo!Init
    OBVIOUS
  <1>1. Queue = <<>>
    BY InitKeyboardInv, QueueType DEF KeyboardInv, Init
  <1>2. QED
    BY <1>1 DEF Init, Fifo!Init, Queue

\* Adding bytes to the ring offers them to the queue.
LEMMA AddBytesOffers ==
  ASSUME KeyboardInv, KeyboardInv', NEW bytes \in Seq(Byte), AddBytes(bytes),
         UNCHANGED port_vars
  PROVE  Fifo!Offer(bytes)
  <1> DEFINE new == Fitting(bytes)
  <1>1. TypeOK /\ TypeOK'
    BY DEF KeyboardInv
  <1>2. new \in Seq(Byte) /\ used + Len(new) \in 0..BufSize /\ Len(new) \in Nat
    BY <1>1, FittingFits
  <1>3. buffer' = Filled(new) /\ used' = used + Len(new) /\ pos' = pos
    BY DEF AddBytes
  <1>4. /\ Queue \in Seq(Byte) /\ Len(Queue) = used /\ used \in Nat
        /\ \A n \in 1..used : Queue[n] = buffer[Slot(pos, n - 1)]
    BY <1>1, QueueType
  <1>5. Queue' = [n \in 1..used' |-> buffer'[Slot(pos', n - 1)]]
    BY DEF Queue, Slot
  <1> HIDE DEF new
  <1>6. Queue' = Queue \o new
    <2>1. ASSUME NEW n \in 1..(used + Len(new))
          PROVE  buffer'[Slot(pos', n - 1)] = IF n <= used THEN Queue[n] ELSE new[n - used]
      <3>1. buffer'[Slot(pos', n - 1)]
              = IF n <= used THEN buffer[Slot(pos, n - 1)] ELSE new[n - used]
        BY <1>1, <1>2, <1>3, FilledPlace
      <3>2. n <= used => n \in 1..used
        BY <1>2, <1>4
      <3>3. QED
        BY <1>4, <3>1, <3>2
    <2>2. ASSUME NEW n \in 1..(used + Len(new))
          PROVE  Queue'[n] = IF n <= used THEN Queue[n] ELSE new[n - used]
      BY <1>3, <1>5, <2>1
    <2>3. ASSUME NEW n \in 1..(used + Len(new)) PROVE Queue'[n] \in Byte
      <3>1. CASE n <= used
        BY <1>4, <2>2, <3>1, ElementOfSeq
      <3>2. CASE ~(n <= used)
        <4>1. n - used \in 1..Len(new)
          BY <1>2, <1>4, <3>2
        <4>2. new[n - used] \in Byte
          BY <1>2, <4>1, ElementOfSeq
        <4>3. QED
          BY <2>2, <3>2, <4>2
      <3>3. QED
        BY <3>1, <3>2
    <2>4. Queue' \in [1..(used + Len(new)) -> Byte]
      BY <1>3, <1>5, <2>3
    <2>5. new \in Seq(Byte) /\ Queue \in Seq(Byte) /\ Len(Queue) = used
      BY <1>2, <1>4
    <2>6. \A n \in 1..(used + Len(new)) : Queue'[n] = IF n <= used THEN Queue[n] ELSE new[n - used]
      BY <2>2
    <2>7. QED
      BY ZenonT(30), <2>4, <2>5, <2>6, IsConcat
  <1>7. new = Fifo!Fitting(bytes)
    BY <1>4 DEF new, Fitting, Fifo!Fitting, Queue
  <1>8. QED
    BY <1>6, <1>7 DEF Fifo!Offer, Queue, port_vars

LEMMA AddKeyMaps ==
  ASSUME KeyboardInv, KeyboardInv', NEW key \in Keys, NEW pressed \in BOOLEAN,
         AddKey(key, pressed)
  PROVE  Fifo!Next
  <1>1. KeyBytes(key, pressed) \in Seq(Byte)
    BY KeyboardAssumption, KeyBytesType
  <1>2. Fifo!Offer(KeyBytes(key, pressed))
    BY <1>1, AddBytesOffers DEF AddKey
  <1>3. QED
    BY <1>2 DEF Fifo!Next

\* The same ring is the same queue.
LEMMA SameRing ==
  ASSUME UNCHANGED <<ring_vars, port_vars>>
  PROVE  UNCHANGED Fifo!vars
  BY DEF ring_vars, port_vars, Fifo!vars, Slot

LEMMA EveryMsecMaps ==
  ASSUME KeyboardInv, KeyboardInv', EveryMsec
  PROVE  Fifo!Next \/ UNCHANGED Fifo!vars
  <1>1. UNCHANGED port_vars
    BY DEF EveryMsec
  <1>2. CASE repeat.wait = 1
    <2> DEFINE pressed == TRUE
    <2>1. repeat.key \in Keys /\ pressed \in BOOLEAN /\ AddBytes(KeyBytes(repeat.key, pressed))
      BY <1>2 DEF EveryMsec, KeyboardInv, TypeOK
    <2> HIDE DEF pressed
    <2>2. KeyBytes(repeat.key, pressed) \in Seq(Byte)
      BY <2>1, KeyboardAssumption, KeyBytesType
    <2>3. Fifo!Offer(KeyBytes(repeat.key, pressed))
      BY <1>1, <2>1, <2>2, AddBytesOffers
    <2>4. QED
      BY <2>1, <2>3 DEF Fifo!Next
  <1>3. CASE repeat.wait # 1
    <2>1. UNCHANGED ring_vars
      BY <1>3 DEF EveryMsec
    <2>2. QED
      BY <1>1, <2>1, SameRing
  <1>4. QED
    BY <1>2, <1>3

\* A transfer finds the port read, and moves the head of the queue there.
LEMMA TransferMaps ==
  ASSUME KeyboardInv, KeyboardInv', TransferBuffer
  PROVE  Fifo!Next \/ UNCHANGED Fifo!vars
  <1>1. TypeOK /\ TypeOK' /\ ~p60changed
    BY DEF KeyboardInv, TransferBuffer, TypeOK, OneTransferPending, TransferWaitsForRead
  <1>2. CASE used = 0
    <2>1. UNCHANGED <<ring_vars, port_vars>>
      BY <1>2 DEF TransferBuffer
    <2>2. QED
      BY <2>1, SameRing
  <1>3. CASE used # 0
    <2>1. /\ p60changed' = TRUE /\ p60data' = buffer[pos] /\ irq1' = TRUE
          /\ pos' = Slot(pos, 1) /\ used' = used - 1 /\ buffer' = buffer
      BY <1>3 DEF TransferBuffer
    <2>2. /\ Queue \in Seq(Byte) /\ Len(Queue) = used /\ used \in Nat
          /\ \A n \in 1..used : Queue[n] = buffer[Slot(pos, n - 1)]
      BY <1>1, QueueType
    <2>3. /\ pos \in 0..(BufSize - 1) /\ used \in 0..BufSize /\ BufSize \in Nat
      BY <1>1, KeyboardAssumption DEF TypeOK
    <2>4. Queue # <<>> /\ Head(Queue) = buffer[pos]
      <3>1. Queue # <<>> /\ Head(Queue) = Queue[1] /\ 1 \in 1..used
        BY <1>3, <2>2
      <3>2. Slot(pos, 1 - 1) = pos
        BY <2>3 DEF Slot
      <3>3. QED
        BY <2>2, <3>1, <3>2
    <2>5. Queue' = Tail(Queue)
      <3>1. Tail(Queue) = [n \in 1..(used - 1) |-> Queue[n + 1]]
        BY <2>2, <2>4, TailAsFunction
      <3>2. ASSUME NEW n \in 1..(used - 1)
            PROVE  buffer[Slot(pos', n - 1)] = Queue[n + 1]
        <4>1. Queue[n + 1] = buffer[Slot(pos, n)]
          BY <2>2
        <4>2. Slot(pos', n - 1) = Slot(pos, n)
          BY <2>1, <2>3 DEF Slot
        <4>3. QED
          BY <4>1, <4>2
      <3>3. Queue' = [n \in 1..(used - 1) |-> buffer[Slot(pos', n - 1)]]
        BY <2>1 DEF Queue, Slot
      <3>4. QED
        BY <3>1, <3>2, <3>3
    <2>6. Fifo!Latch
      BY <1>1, <2>1, <2>4, <2>5 DEF Fifo!Latch, Queue
    <2>7. QED
      BY <2>6 DEF Fifo!Next
  <1>4. QED
    BY <1>2, <1>3

\* A command's answer is the only byte in the queue.
LEMMA ReplyMaps ==
  ASSUME KeyboardInv, KeyboardInv', Reply, UNCHANGED port_vars
  PROVE  Fifo!Next
  <1>1. TypeOK /\ TypeOK' /\ BufSize \in Nat \ {0}
    BY KeyboardAssumption DEF KeyboardInv
  <1>2. pos' = 0 /\ used' = 1 /\ buffer'[0] = Acknowledge
    BY <1>1 DEF Reply, TypeOK
  <1>3. Queue' = <<Acknowledge>>
    <2>1. Queue' = [n \in 1..1 |-> buffer'[Slot(pos', n - 1)]]
      BY <1>2 DEF Queue, Slot
    <2>2. \A n \in 1..1 : buffer'[Slot(pos', n - 1)] = Acknowledge
      BY <1>1, <1>2 DEF Slot
    <2>3. QED
      BY <2>1, <2>2
  <1>4. Fifo!Reply
    BY <1>3 DEF Fifo!Reply, Queue, port_vars, Acknowledge, Fifo!Acknowledge
  <1>5. QED
    BY <1>4 DEF Fifo!Next

\* Every step of the keyboard is one of the queue or leaves it alone.
LEMMA NextMaps ==
  ASSUME KeyboardInv, KeyboardInv', [Next]_vars
  PROVE  [Fifo!Next]_Fifo!vars
  <1>1. ASSUME NEW key \in Keys, NEW pressed \in BOOLEAN, AddKey(key, pressed)
        PROVE  [Fifo!Next]_Fifo!vars
    BY <1>1, AddKeyMaps
  <1>2. CASE EveryMsec
    BY <1>2, EveryMsecMaps
  <1>3. CASE TransferBuffer
    BY <1>3, TransferMaps
  <1>4. CASE ReadP60
    <2>1. p60changed' = FALSE /\ UNCHANGED <<ring_vars, p60data, irq1>>
      BY <1>4 DEF ReadP60
    <2>2. Fifo!Read
      BY <2>1 DEF Fifo!Read, ring_vars, Slot
    <2>3. QED
      BY <2>2 DEF Fifo!Next
  <1>5. ASSUME NEW val \in P60Commands, WriteP60(val)
        PROVE  [Fifo!Next]_Fifo!vars
    <2>1. Reply /\ UNCHANGED port_vars
      BY <1>5 DEF WriteP60, BeginCommand, SetLeds, SetTypeRate
    <2>2. QED
      BY <2>1, ReplyMaps
  <1>6. ASSUME NEW val \in P64Commands, WriteP64(val)
        PROVE  [Fifo!Next]_Fifo!vars
    <2>1. UNCHANGED <<ring_vars, port_vars>>
      BY <1>6 DEF WriteP64, Activate, Deactivate, WriteOutport
    <2>2. QED
      BY <2>1, SameRing
  <1>7. CASE TakeIrq1
    <2>1. irq1 /\ irq1' = FALSE /\ UNCHANGED <<ring_vars, p60data, p60changed>>
      BY <1>7 DEF TakeIrq1
    <2>2. Fifo!TakeIrq1
      BY <2>1 DEF Fifo!TakeIrq1, ring_vars, Slot
    <2>3. QED
      BY <2>2 DEF Fifo!Next
  <1>8. CASE UNCHANGED vars
    BY <1>8, SameRing DEF vars
  <1>9. QED
    BY <1>1, <1>2, <1>3, <1>4, <1>5, <1>6, <1>7, <1>8 DEF Next

\* Bytes come to the port in order, none twice, none lost but to a command,
\* whatever the size of the ring.
THEOREM KeyboardImplementsKeyFifo == Spec => ImplementsKeyFifo
  BY InitMaps, NextMaps, KeyboardInvHolds, PTL DEF Spec, ImplementsKeyFifo, Fifo!Spec

=============================================================================
