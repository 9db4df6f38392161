------------------------- MODULE KeyboardPathProofs -------------------------
(* Proofs about KeyboardPath, for any keys, any size of the ring and any   *)
(* bounds: what is announced, and what the handler is given.               *)
EXTENDS KeyboardPath, SequenceTheorems, TLAPS

Byte == K!Byte

-----------------------------------------------------------------------------
(* The ring and the repetition, as far as the history depends on them.     *)

RingOK ==
  /\ buffer \in [0..(BufSize - 1) -> Byte]
  /\ pos \in 0..(BufSize - 1)
  /\ used \in 0..BufSize
  /\ p60data \in Byte
  /\ p60changed \in BOOLEAN

\* A transfer never finds an unread byte.
TransferOK ==
  /\ scheduled \in BOOLEAN
  /\ transfers = IF scheduled THEN 1 ELSE 0
  /\ scheduled => ~p60changed

RepeatOK ==
  /\ DOMAIN repeat = {"key", "wait"}
  /\ repeat.key \in Keys \cup {NoKey}

\* No initialisation is under way, and no controller ends its own interrupts.
PicsIdle ==
  /\ pics \in [P!Controllers -> P!ControllerState]
  /\ \A c \in P!Controllers : pics[c].icw_index = 0 /\ ~pics[c].auto_eoi

-----------------------------------------------------------------------------
(* The stubs.                                                              *)

Frame == [line : P!Irqs, pc : {"begin", "handle", "closed", "done"}, flag : BOOLEAN]

StackOK == stack \in Seq(Frame) /\ interrupts \in BOOLEAN

AtBegin(n) == stack[n].line = KbdLine /\ stack[n].pc = "begin"

\* An unread byte has one announcement, a request or a stub that has yet to
\* read, and nothing else is announced.
AnnouncedOnce ==
  /\ p60changed <=> KbdLine \in requested \/ ReadsNext
  /\ ReadsNext => KbdLine \notin requested
  /\ \A m, n \in DOMAIN stack : AtBegin(m) /\ AtBegin(n) => m = n

-----------------------------------------------------------------------------
(* The history: what was seen, then the byte at the port, then the ring.   *)

AtPort == IF p60changed THEN 1 ELSE 0

History ==
  /\ seen \in Seq(Byte)
  /\ accepted \in Seq(Byte)
  /\ Len(accepted) = Len(seen) + AtPort + used
  /\ \A n \in 1..Len(seen) : accepted[n] = seen[n]
  /\ p60changed => accepted[Len(seen) + 1] = p60data
  /\ \A n \in 1..used : accepted[Len(seen) + AtPort + n] = buffer[K!Slot(pos, n - 1)]

PathInv ==
  /\ RingOK
  /\ TransferOK
  /\ RepeatOK
  /\ PicsIdle
  /\ StackOK
  /\ AnnouncedOnce
  /\ History

-----------------------------------------------------------------------------
(* The ring.                                                               *)

LEMMA KeyBytesType ==
  ASSUME NEW key \in Keys, NEW pressed \in BOOLEAN
  PROVE  K!KeyBytes(key, pressed) \in Seq(Byte)
  <1> DEFINE codes == [n \in DOMAIN key.codes |->
                         IF pressed THEN key.codes[n] ELSE key.codes[n] + K!Release]
  <1>1. key \in K!Key
    BY PathAssumption
  <1>2. key.prefix \in {<<>>, <<224>>, <<225>>} /\ key.codes \in Seq(K!Code)
    BY <1>1 DEF K!Key
  <1>3. key.prefix \in Seq(Byte)
    <2>1. <<>> \in Seq(Byte) /\ <<224>> \in Seq(Byte) /\ <<225>> \in Seq(Byte)
      BY DEF Byte, K!Byte
    <2>2. CASE key.prefix = <<>>
      BY <2>1, <2>2
    <2>3. CASE key.prefix = <<224>>
      BY <2>1, <2>3
    <2>4. CASE key.prefix = <<225>>
      BY <2>1, <2>4
    <2>5. QED
      BY <1>2, <2>2, <2>3, <2>4
  <1>4. codes \in Seq(Byte)
    <2>1. DOMAIN key.codes = 1..Len(key.codes) /\ Len(key.codes) \in Nat
      BY <1>2
    <2>2. \A c \in K!Code : c \in Byte /\ c + K!Release \in Byte
      BY DEF K!Code, Byte, K!Byte, K!Release
    <2>3. \A n \in 1..Len(key.codes) : key.codes[n] \in K!Code
      BY <1>2
    <2>4. ASSUME NEW n \in DOMAIN key.codes
          PROVE  (IF pressed THEN key.codes[n] ELSE key.codes[n] + K!Release) \in Byte
      BY <2>1, <2>2, <2>3
    <2>5. codes \in [1..Len(key.codes) -> Byte]
      BY <2>1, <2>4, Zenon
    <2>6. QED
      BY <2>1, <2>5, SeqDef
  <1>5. QED
    BY <1>3, <1>4 DEF K!KeyBytes

\* What the ring takes of a sequence of bytes fits.
LEMMA FittingFits ==
  ASSUME RingOK, NEW bytes \in Seq(Byte)
  PROVE  K!Fitting(bytes) \in Seq(Byte) /\ used + Len(K!Fitting(bytes)) \in 0..BufSize
  <1>1. used \in 0..BufSize /\ Len(bytes) \in Nat /\ BufSize \in Nat
    BY PathAssumption DEF RingOK
  <1>2. CASE Len(bytes) <= BufSize - used
    BY <1>1, <1>2 DEF K!Fitting
  <1>3. CASE ~(Len(bytes) <= BufSize - used)
    <2>1. K!Fitting(bytes) = SubSeq(bytes, 1, BufSize - used)
      BY <1>3 DEF K!Fitting
    <2>2. /\ SubSeq(bytes, 1, BufSize - used) \in Seq(Byte)
          /\ Len(SubSeq(bytes, 1, BufSize - used)) = BufSize - used
      BY <1>1, <1>3
    <2>3. QED
      BY <1>1, <2>1, <2>2
  <1>4. QED
    BY <1>2, <1>3

\* A byte is put where the queue continues, and nowhere else in it.
LEMMA FilledPlace ==
  ASSUME RingOK, NEW bytes \in Seq(Byte), used + Len(bytes) \in 0..BufSize
  PROVE  /\ K!Filled(bytes) \in [0..(BufSize - 1) -> Byte]
         /\ \A n \in 1..(used + Len(bytes)) :
              K!Filled(bytes)[K!Slot(pos, n - 1)] =
                IF n <= used THEN buffer[K!Slot(pos, n - 1)] ELSE bytes[n - used]
  <1> DEFINE k(i) == IF i >= pos THEN i - pos - used ELSE i + BufSize - pos - used
  <1>1. /\ used \in 0..BufSize /\ pos \in 0..(BufSize - 1) /\ BufSize \in Nat \ {0}
        /\ Len(bytes) \in Nat /\ DOMAIN buffer = 0..(BufSize - 1)
        /\ \A i \in 0..(BufSize - 1) : buffer[i] \in Byte
    BY PathAssumption DEF RingOK
  <1>2. ASSUME NEW i \in 0..(BufSize - 1)
        PROVE  K!Filled(bytes)[i] =
                 IF k(i) \in 0..(Len(bytes) - 1) THEN bytes[k(i) + 1] ELSE buffer[i]
    BY <1>1 DEF K!Filled
  <1>3. \A j \in 0..(Len(bytes) - 1) : bytes[j + 1] \in Byte
    OBVIOUS
  <1>4. K!Filled(bytes) \in [0..(BufSize - 1) -> Byte]
    <2>1. ASSUME NEW i \in 0..(BufSize - 1) PROVE K!Filled(bytes)[i] \in Byte
      <3> HIDE DEF k
      <3> QED
        BY <1>1, <1>2, <1>3
    <2>2. QED
      BY <1>1, <2>1 DEF K!Filled
  <1>5. ASSUME NEW n \in 1..(used + Len(bytes))
        PROVE  K!Filled(bytes)[K!Slot(pos, n - 1)] =
                 IF n <= used THEN buffer[K!Slot(pos, n - 1)] ELSE bytes[n - used]
    <2> DEFINE i == K!Slot(pos, n - 1)
    <2>1. n \in Nat /\ n - 1 \in 0..(BufSize - 1)
      BY <1>1
    <2>2. i \in 0..(BufSize - 1) /\ k(i) = n - 1 - used
      BY <1>1, <2>1 DEF K!Slot
    <2> HIDE DEF i, k
    <2>3. CASE n <= used
      <3>1. k(i) \notin 0..(Len(bytes) - 1)
        BY <1>1, <2>1, <2>2, <2>3
      <3>2. QED
        BY <1>2, <2>2, <2>3, <3>1 DEF i
    <2>4. CASE ~(n <= used)
      <3>1. k(i) \in 0..(Len(bytes) - 1) /\ k(i) + 1 = n - used
        BY <1>1, <2>1, <2>2, <2>4
      <3>2. QED
        BY <1>2, <2>2, <2>4, <3>1 DEF i
    <2>5. QED
      BY <2>3, <2>4
  <1>6. QED
    BY <1>4, <1>5

-----------------------------------------------------------------------------
(* Steps of the keyboard.                                                  *)

\* Bytes that the ring accepts come behind those in it, in the history too.
LEMMA AddBytesKeeps ==
  ASSUME RingOK, TransferOK, History, NEW bytes \in Seq(Byte), K!AddBytes(bytes),
         UNCHANGED <<p60data, p60changed, seen>>,
         accepted' = accepted \o K!Fitting(bytes)
  PROVE  RingOK' /\ TransferOK' /\ History'
  <1> DEFINE new == K!Fitting(bytes)
  <1>1. new \in Seq(Byte) /\ used + Len(new) \in 0..BufSize /\ Len(new) \in Nat
    BY FittingFits
  <1>2. buffer' = K!Filled(new) /\ used' = used + Len(new) /\ pos' = pos
    BY DEF K!AddBytes
  <1>3. RingOK'
    <2>1. buffer' \in [0..(BufSize - 1) -> Byte]
      BY <1>1, <1>2, FilledPlace
    <2>2. used' \in 0..BufSize /\ UNCHANGED <<pos, p60data, p60changed>>
      BY <1>1, <1>2
    <2>3. QED
      BY <2>1, <2>2 DEF RingOK
  <1>4. TransferOK'
    <2>1. CASE new = <<>>
      <3>1. scheduled' = scheduled /\ transfers' = transfers
        BY <2>1 DEF K!AddBytes, K!Unscheduled
      <3>2. QED
        BY <3>1 DEF TransferOK
    <2>2. CASE new # <<>>
      <3>1. /\ scheduled' = (scheduled \/ ~p60changed)
            /\ transfers' = IF scheduled' /\ ~scheduled THEN transfers + 1 ELSE transfers
        BY <2>2 DEF K!AddBytes, K!ScheduleTransfer
      <3>2. scheduled' \in BOOLEAN /\ (scheduled' <=> scheduled \/ ~p60changed)
        BY <3>1
      <3>3. transfers' = IF scheduled' THEN 1 ELSE 0
        BY <3>1, <3>2 DEF TransferOK
      <3>4. scheduled' => ~p60changed'
        BY <3>2 DEF TransferOK
      <3>5. QED
        BY <3>2, <3>3, <3>4 DEF TransferOK
    <2>3. QED
      BY <2>1, <2>2
  <1>5. History'
    <2>1. /\ seen \in Seq(Byte) /\ accepted \in Seq(Byte) /\ Len(seen) \in Nat
          /\ Len(accepted) = Len(seen) + AtPort + used /\ AtPort \in {0, 1} /\ used \in Nat
      BY PathAssumption DEF History, RingOK, AtPort
    <2>2. /\ accepted' \in Seq(Byte) /\ Len(accepted') = Len(accepted) + Len(new)
          /\ \A n \in 1..(Len(accepted) + Len(new)) :
               accepted'[n] = IF n <= Len(accepted) THEN accepted[n] ELSE new[n - Len(accepted)]
      BY <1>1, <2>1, ConcatProperties
    <2>3. AtPort' = AtPort
      BY DEF AtPort
    <2> HIDE DEF new
    <2>4. ASSUME NEW n \in 1..used'
          PROVE  accepted'[Len(seen) + AtPort + n] = buffer'[K!Slot(pos', n - 1)]
      <3>1. buffer'[K!Slot(pos', n - 1)] =
              IF n <= used THEN buffer[K!Slot(pos, n - 1)] ELSE new[n - used]
        BY <1>1, <1>2, FilledPlace
      <3>2. CASE n <= used
        <4>1. accepted'[Len(seen) + AtPort + n] = accepted[Len(seen) + AtPort + n]
          BY <1>1, <1>2, <2>1, <2>2, <3>2
        <4>2. n \in 1..used
          BY <2>1, <3>2
        <4>3. QED
          BY <3>1, <3>2, <4>1, <4>2 DEF History
      <3>3. CASE ~(n <= used)
        <4> DEFINE m == Len(seen) + AtPort + n
        <4>1. /\ m \in 1..(Len(accepted) + Len(new)) /\ ~(m <= Len(accepted))
              /\ m - Len(accepted) = n - used
          BY <1>1, <1>2, <2>1, <3>3
        <4> HIDE DEF m
        <4>2. accepted'[m] = new[n - used]
          BY <2>2, <4>1
        <4>3. QED
          BY <3>1, <3>3, <4>2 DEF m
      <3>4. QED
        BY <3>2, <3>3
    <2>5. \A n \in 1..Len(seen) : accepted'[n] = seen[n]
      BY <1>1, <2>1, <2>2 DEF History
    <2>6. p60changed => accepted'[Len(seen) + 1] = p60data
      BY <1>1, <2>1, <2>2 DEF History, AtPort
    <2>7. \A n \in 1..used' : accepted'[Len(seen) + AtPort + n] = buffer'[K!Slot(pos', n - 1)]
      BY <2>4
    <2>8. Len(accepted') = Len(seen) + AtPort + used'
      BY <1>1, <1>2, <2>1, <2>2
    <2>9. QED
      BY <2>1, <2>2, <2>3, <2>5, <2>6, <2>7, <2>8 DEF History
  <1>6. QED
    BY <1>3, <1>4, <1>5

\* The transfer moves the head of the ring to the port, and leaves the history.
LEMMA TransferKeeps ==
  ASSUME RingOK, TransferOK, History, K!TransferBuffer, UNCHANGED <<accepted, seen>>
  PROVE  RingOK' /\ TransferOK' /\ History' /\ ~p60changed
  <1>1. ~p60changed /\ scheduled
    BY DEF TransferOK, K!TransferBuffer
  <1>2. TransferOK'
    <2>1. transfers = 1 /\ transfers' = transfers - 1 /\ scheduled' = FALSE
      BY <1>1 DEF TransferOK, K!TransferBuffer
    <2>2. transfers' = 0
      BY <2>1
    <2>3. scheduled' \in BOOLEAN /\ ~scheduled'
      BY <2>1
    <2>4. QED
      BY <2>2, <2>3 DEF TransferOK
  <1>3. CASE used = 0
    <2>1. UNCHANGED <<buffer, pos, used, p60data, p60changed>>
      BY <1>3 DEF K!TransferBuffer, K!ring_vars, K!port_vars
    <2>2. RingOK' /\ History'
      BY <2>1 DEF RingOK, History, AtPort, K!Slot
    <2>3. QED
      BY <1>1, <1>2, <2>2
  <1>4. CASE used # 0
    <2>1. /\ p60changed' = TRUE /\ p60data' = buffer[pos] /\ pos' = K!Slot(pos, 1)
          /\ used' = used - 1 /\ buffer' = buffer
      BY <1>4 DEF K!TransferBuffer
    <2>2. /\ used \in 1..BufSize /\ pos \in 0..(BufSize - 1) /\ BufSize \in Nat
          /\ Len(seen) \in Nat /\ AtPort = 0 /\ AtPort' = 1
      BY <1>1, <1>4, <2>1, PathAssumption DEF RingOK, History, AtPort
    <2>3. RingOK'
      BY <2>1, <2>2 DEF RingOK, K!Slot
    <2>4. accepted[Len(seen) + 1] = p60data'
      <3>1. K!Slot(pos, 1 - 1) = pos /\ 1 \in 1..used
        BY <2>2 DEF K!Slot
      <3>2. QED
        BY <2>1, <2>2, <3>1 DEF History
    <2>5. ASSUME NEW n \in 1..used'
          PROVE  accepted[Len(seen) + 1 + n] = buffer[K!Slot(pos', n - 1)]
      <3>1. n + 1 \in 1..used /\ K!Slot(pos', n - 1) = K!Slot(pos, (n + 1) - 1)
        BY <2>1, <2>2 DEF K!Slot
      <3>2. accepted[Len(seen) + AtPort + (n + 1)] = buffer[K!Slot(pos, (n + 1) - 1)]
        BY <3>1 DEF History
      <3>3. Len(seen) + AtPort + (n + 1) = Len(seen) + 1 + n
        BY <2>1, <2>2
      <3>4. QED
        BY <3>1, <3>2, <3>3
    <2>6. Len(accepted) = Len(seen) + 1 + used'
      BY <2>1, <2>2 DEF History
    <2>7. History'
      BY <2>1, <2>2, <2>4, <2>5, <2>6 DEF History, K!Slot
    <2>8. QED
      BY <1>1, <1>2, <2>3, <2>7
  <1>5. QED
    BY <1>3, <1>4

\* The guest reads the byte at the port, and so it is seen.
LEMMA ReadKeeps ==
  ASSUME RingOK, TransferOK, History, K!ReadP60, p60changed,
         seen' = Append(seen, p60data), UNCHANGED accepted
  PROVE  RingOK' /\ TransferOK' /\ History' /\ ~p60changed'
  <1>1. /\ p60changed' = FALSE /\ UNCHANGED <<buffer, pos, used, p60data>>
    BY DEF K!ReadP60, K!ring_vars
  <1>2. RingOK'
    BY <1>1 DEF RingOK
  <1>3. TransferOK'
    BY <1>1 DEF TransferOK, K!ReadP60, RingOK
  <1>4. /\ seen \in Seq(Byte) /\ p60data \in Byte /\ Len(seen) \in Nat
        /\ AtPort = 1 /\ AtPort' = 0
    BY <1>1 DEF History, RingOK, AtPort
  <1>5. /\ seen' \in Seq(Byte) /\ Len(seen') = Len(seen) + 1
        /\ \A n \in 1..Len(seen) : seen'[n] = seen[n]
        /\ seen'[Len(seen) + 1] = p60data
    BY <1>4, AppendProperties
  <1>6. \A n \in 1..Len(seen') : accepted[n] = seen'[n]
    <2>1. \A n \in 1..Len(seen') : n \in 1..Len(seen) \/ n = Len(seen) + 1
      BY <1>4, <1>5
    <2>2. QED
      BY <1>5, <2>1 DEF History
  <1>7. Len(seen') + AtPort' = Len(seen) + AtPort
    BY <1>4, <1>5
  <1>8. History'
    BY <1>1, <1>5, <1>6, <1>7 DEF History, K!Slot
  <1>9. QED
    BY <1>1, <1>2, <1>3, <1>8

\* A reply throws the ring away, and with it the end of the history.
LEMMA ReplyKeeps ==
  ASSUME RingOK, TransferOK, History, K!Reply, UNCHANGED <<p60data, p60changed, seen>>,
         accepted' = Append(SubSeq(accepted, 1, Len(accepted) - used), K!Acknowledge)
  PROVE  RingOK' /\ TransferOK' /\ History'
  <1> DEFINE kept == Len(accepted) - used
  <1>1. /\ pos' = 0 /\ used' = 1 /\ buffer' = [buffer EXCEPT ![0] = K!Acknowledge]
    BY DEF K!Reply
  <1>2. BufSize \in Nat \ {0} /\ K!Acknowledge \in Byte
    BY PathAssumption DEF K!Acknowledge, Byte, K!Byte
  <1>3. RingOK'
    BY <1>1, <1>2 DEF RingOK
  <1>4. TransferOK'
    <2>1. scheduled' \in BOOLEAN /\ (scheduled' <=> ~p60changed')
      BY DEF K!Reply, RingOK
    <2>2. transfers' = IF p60changed THEN 0 ELSE 1
      BY DEF TransferOK, K!Reply
    <2>3. transfers' = IF scheduled' THEN 1 ELSE 0
      BY <2>1, <2>2
    <2>4. QED
      BY <2>1, <2>3 DEF TransferOK
  <1>5. /\ seen \in Seq(Byte) /\ accepted \in Seq(Byte) /\ Len(seen) \in Nat
        /\ Len(accepted) = Len(seen) + AtPort + used /\ AtPort \in {0, 1} /\ used \in Nat
    BY PathAssumption DEF History, RingOK, AtPort
  <1>6. kept = Len(seen) + AtPort /\ kept \in Nat /\ kept <= Len(accepted)
    BY <1>5
  <1> HIDE DEF kept
  <1>7. /\ SubSeq(accepted, 1, kept) \in Seq(Byte) /\ Len(SubSeq(accepted, 1, kept)) = kept
        /\ \A n \in 1..kept : SubSeq(accepted, 1, kept)[n] = accepted[n]
    BY <1>5, <1>6
  <1>8. /\ accepted' \in Seq(Byte) /\ Len(accepted') = kept + 1
        /\ \A n \in 1..kept : accepted'[n] = accepted[n]
        /\ accepted'[kept + 1] = K!Acknowledge
    BY <1>2, <1>7, AppendProperties DEF kept
  <1>9. AtPort' = AtPort
    BY DEF AtPort
  <1>10. \A n \in 1..Len(seen) : accepted'[n] = seen[n]
    BY <1>5, <1>6, <1>8 DEF History
  <1>11. p60changed => accepted'[Len(seen) + 1] = p60data
    BY <1>5, <1>6, <1>8 DEF History, AtPort
  <1>12. ASSUME NEW n \in 1..used'
         PROVE  accepted'[Len(seen) + AtPort + n] = buffer'[K!Slot(pos', n - 1)]
    <2>1. n = 1 /\ K!Slot(pos', n - 1) = 0
      BY <1>1, <1>2 DEF K!Slot
    <2>2. buffer'[0] = K!Acknowledge
      BY <1>1, <1>2 DEF RingOK
    <2>3. QED
      BY <1>6, <1>8, <2>1, <2>2
  <1>13. History'
    BY <1>1, <1>5, <1>6, <1>8, <1>9, <1>10, <1>11, <1>12 DEF History, K!Slot
  <1>14. QED
    BY <1>3, <1>4, <1>13

\* A keyboard step that is not a read leaves the announcement as it is.
LEMMA SamePort ==
  ASSUME AnnouncedOnce, UNCHANGED <<p60changed, requested, stack>>
  PROVE  AnnouncedOnce'
  BY DEF AnnouncedOnce, ReadsNext, AtBegin

-----------------------------------------------------------------------------
(* Steps of the stubs.                                                     *)

\* The innermost frame, and the frames after it has gone on.
LEMMA FrameGoesOn ==
  ASSUME StackOK, NEW line, NEW pc, In(line, pc),
         NEW next \in {"begin", "handle", "closed", "done"}, GoTo(next)
  PROVE  /\ stack' \in Seq(Frame) /\ DOMAIN stack' = DOMAIN stack
         /\ Len(stack) \in DOMAIN stack
         /\ Innermost \in Frame /\ Innermost.line = line /\ Innermost.pc = pc
         /\ stack'[Len(stack)].line = line /\ stack'[Len(stack)].pc = next
         /\ \A n \in DOMAIN stack : n # Len(stack) => stack'[n] = stack[n]
  <1> DEFINE last == Len(stack)
  <1>1. stack \in Seq(Frame) /\ last \in 1..last /\ DOMAIN stack = 1..last /\ last \in Nat
    BY DEF StackOK, In
  <1>2. stack[last] \in Frame /\ stack[last].line = line /\ stack[last].pc = pc
    BY <1>1, ElementOfSeq DEF In, Innermost
  <1>3. stack' = [stack EXCEPT ![last] = [stack[last] EXCEPT !.pc = next]]
    BY DEF GoTo
  <1> DEFINE frame == [stack[last] EXCEPT !.pc = next]
  <1>4. frame \in Frame /\ frame.line = line /\ frame.pc = next
    BY <1>2 DEF Frame
  <1> HIDE DEF frame
  <1>5. stack' \in Seq(Frame) /\ DOMAIN stack' = DOMAIN stack
    BY <1>1, <1>3, <1>4, ExceptSeq DEF frame
  <1>6. /\ stack'[last] = frame
        /\ \A n \in DOMAIN stack : n # last => stack'[n] = stack[n]
    BY <1>1, <1>3 DEF frame
  <1>7. QED
    BY <1>1, <1>2, <1>4, <1>5, <1>6 DEF Innermost

\* Only a frame of the keyboard that begins announces a byte.
LEMMA QuietFrameGoesOn ==
  ASSUME StackOK, AnnouncedOnce, NEW line, NEW pc, In(line, pc),
         ~(line = KbdLine /\ pc = "begin"),
         NEW next \in {"handle", "closed", "done"}, GoTo(next),
         UNCHANGED <<p60changed, requested>>, interrupts' \in BOOLEAN
  PROVE  StackOK' /\ AnnouncedOnce'
  <1>1. /\ stack' \in Seq(Frame) /\ DOMAIN stack' = DOMAIN stack
        /\ Len(stack) \in DOMAIN stack
        /\ Innermost.line = line /\ Innermost.pc = pc
        /\ stack'[Len(stack)].pc = next
        /\ \A n \in DOMAIN stack : n # Len(stack) => stack'[n] = stack[n]
    BY FrameGoesOn
  <1>2. ASSUME NEW n \in DOMAIN stack PROVE AtBegin(n)' <=> AtBegin(n)
    BY <1>1 DEF AtBegin, Innermost
  <1>3. ReadsNext' <=> ReadsNext
    BY <1>1, <1>2 DEF ReadsNext, AtBegin
  <1>4. AnnouncedOnce'
    BY <1>1, <1>2, <1>3 DEF AnnouncedOnce
  <1>5. QED
    BY <1>1, <1>4 DEF StackOK

-----------------------------------------------------------------------------
(* The actions.                                                            *)

LEMMA InitPathInv == Init => PathInv
  <1> SUFFICES ASSUME Init PROVE PathInv
    OBVIOUS
  <1>1. BufSize \in Nat \ {0}
    BY PathAssumption
  <1>2. RingOK
    BY <1>1 DEF Init, K!Init, RingOK, Byte, K!Byte
  <1>3. TransferOK /\ RepeatOK
    BY DEF Init, K!Init, TransferOK, RepeatOK
  <1>4. PicsIdle
    BY DEF Init, P!Init, PicsIdle, P!ControllerState
  <1>5. stack = <<>> /\ DOMAIN stack = {} /\ requested = {} /\ p60changed = FALSE
    BY DEF Init, K!Init, P!Init
  <1>6. StackOK /\ AnnouncedOnce
    BY <1>5 DEF Init, StackOK, AnnouncedOnce, ReadsNext
  <1>7. History
    <2>1. seen = <<>> /\ accepted = <<>> /\ used = 0 /\ AtPort = 0
      BY DEF Init, K!Init, AtPort
    <2>2. QED
      BY <1>5, <2>1 DEF History
  <1>8. QED
    BY <1>2, <1>3, <1>4, <1>6, <1>7 DEF PathInv

LEMMA InterruptPreserves ==
  ASSUME PathInv, Interrupt
  PROVE  PathInv'
  <1>1. PICK i \in P!Irqs : P!CanStart(i) /\ P!StartIrq(i)
    BY DEF Interrupt, P!RunIrqs
  <1>2. i \in requested /\ requested' = requested \ {i}
    BY <1>1 DEF P!CanStart, P!StartIrq
  <1>3. active' = i /\ pics' = pics
    <2>1. P!Controller(i) \in P!Controllers
      BY DEF P!Controller, P!Controllers
    <2>2. ~pics[P!Controller(i)].auto_eoi
      BY <2>1 DEF PathInv, PicsIdle
    <2>3. QED
      BY <1>1, <2>2 DEF P!StartIrq, P!mode_vars
  <1> DEFINE frame == [line |-> i, pc |-> "begin", flag |-> interrupts]
  <1>4. stack' = Append(stack, frame) /\ frame \in Frame /\ interrupts' = FALSE
    BY <1>3 DEF Interrupt, Frame, PathInv, StackOK
  <1>5. frame.line = i /\ frame.pc = "begin"
    OBVIOUS
  <1> HIDE DEF frame
  <1> PICK last \in Nat : last = Len(stack)
    BY DEF PathInv, StackOK
  <1>6. /\ DOMAIN stack = 1..last
        /\ stack' \in Seq(Frame) /\ DOMAIN stack' = 1..(last + 1)
        /\ \A n \in 1..last : stack'[n] = stack[n]
        /\ stack'[last + 1] = frame
    BY <1>4, AppendProperties DEF PathInv, StackOK
  <1>7. UNCHANGED <<kbd_vars, history_vars>>
    BY DEF Interrupt
  <1>8. RingOK' /\ TransferOK' /\ RepeatOK' /\ History'
    BY <1>7 DEF PathInv, kbd_vars, history_vars, RingOK, TransferOK, RepeatOK,
                History, AtPort, K!Slot
  <1>9. StackOK' /\ PicsIdle'
    BY <1>3, <1>4, <1>6 DEF PathInv, StackOK, PicsIdle
  <1>10. \A n \in 1..(last + 1) : n \in 1..last \/ n = last + 1
    BY <1>6
  <1>11. \A n \in 1..last : AtBegin(n)' <=> AtBegin(n)
    BY <1>6 DEF AtBegin
  <1>12. AtBegin(last + 1)' <=> i = KbdLine
    BY <1>5, <1>6 DEF AtBegin
  <1>13. ReadsNext' <=> ReadsNext \/ i = KbdLine
    <2>1. ReadsNext <=> \E n \in 1..last : AtBegin(n)
      BY <1>6 DEF ReadsNext, AtBegin
    <2>2. ReadsNext' <=> \E n \in 1..(last + 1) : AtBegin(n)'
      BY <1>6 DEF ReadsNext, AtBegin
    <2>3. last + 1 \in 1..(last + 1) /\ 1..last \subseteq 1..(last + 1)
      BY <1>6
    <2>4. QED
      BY <1>10, <1>11, <1>12, <2>1, <2>2, <2>3
  <1>14. AnnouncedOnce'
    <2>1. p60changed' = p60changed
      BY <1>7 DEF kbd_vars
    <2>2. i = KbdLine => ~ReadsNext
      BY <1>2 DEF PathInv, AnnouncedOnce
    <2>3. \A m, n \in 1..(last + 1) : AtBegin(m)' /\ AtBegin(n)' => m = n
      <3>1. ASSUME NEW m \in 1..last, AtBegin(m) PROVE ReadsNext
        BY <1>6, <3>1 DEF ReadsNext, AtBegin
      <3>2. \A m, n \in 1..last : AtBegin(m) /\ AtBegin(n) => m = n
        BY <1>6 DEF PathInv, AnnouncedOnce
      <3>3. QED
        BY <1>10, <1>11, <1>12, <2>2, <3>1, <3>2
    <2>4. KbdLine \in requested' <=> KbdLine \in requested /\ i # KbdLine
      BY <1>2
    <2>5. QED
      BY <1>2, <1>6, <1>13, <2>1, <2>2, <2>3, <2>4 DEF PathInv, AnnouncedOnce
  <1>15. QED
    BY <1>8, <1>9, <1>14 DEF PathInv

LEMMA PressOrReleasePreserves ==
  ASSUME PathInv, NEW key \in Keys, NEW pressed \in BOOLEAN, PressOrRelease(key, pressed)
  PROVE  PathInv'
  <1> DEFINE bytes == K!KeyBytes(key, pressed)
  <1>1. bytes \in Seq(Byte)
    BY KeyBytesType
  <1>2. /\ K!AddBytes(bytes) /\ accepted' = accepted \o K!Fitting(bytes)
        /\ UNCHANGED <<p60data, p60changed, seen>>
    BY DEF PressOrRelease, K!AddKey, K!port_vars
  <1>3. RingOK' /\ TransferOK' /\ History'
    BY <1>1, <1>2, AddBytesKeeps DEF PathInv
  <1>4. RepeatOK'
    <2>1. \/ repeat' = repeat
          \/ \E wait : repeat' = [key |-> key, wait |-> wait]
          \/ repeat' = [key |-> NoKey, wait |-> 0]
      BY DEF PressOrRelease, K!AddKey, K!Repetition
    <2>2. QED
      BY <2>1 DEF PathInv, RepeatOK
  <1>5. UNCHANGED <<requested, pics, stack, interrupts>>
    BY DEF PressOrRelease, pic_vars, cpu_vars
  <1>6. QED
    BY <1>2, <1>3, <1>4, <1>5, SamePort DEF PathInv, PicsIdle, StackOK

LEMMA MsecPreserves ==
  ASSUME PathInv, Msec
  PROVE  PathInv'
  <1>1. UNCHANGED <<requested, pics, stack, interrupts, seen, p60data, p60changed>>
    BY DEF Msec, pic_vars, cpu_vars, K!EveryMsec, K!port_vars
  <1>2. RepeatOK'
    <2>1. \E wait : repeat' = [repeat EXCEPT !.wait = wait]
      BY DEF Msec, K!EveryMsec
    <2>2. QED
      BY <2>1 DEF PathInv, RepeatOK
  <1>3. RingOK' /\ TransferOK' /\ History'
    <2>1. CASE repeat.wait = 1
      <3> DEFINE bytes == K!KeyBytes(repeat.key, TRUE)
      <3>1. repeat.key \in Keys
        BY <2>1 DEF Msec, K!EveryMsec, PathInv, RepeatOK
      <3>2. bytes \in Seq(Byte)
        BY <3>1, KeyBytesType
      <3>3. K!AddBytes(bytes) /\ accepted' = accepted \o K!Fitting(bytes)
        BY <2>1 DEF Msec, K!EveryMsec
      <3>4. QED
        BY <1>1, <3>2, <3>3, AddBytesKeeps DEF PathInv
    <2>2. CASE repeat.wait # 1
      <3>1. UNCHANGED <<buffer, pos, used, scheduled, transfers, accepted>>
        BY <2>2 DEF Msec, K!EveryMsec, K!ring_vars
      <3>2. QED
        BY <1>1, <3>1 DEF PathInv, RingOK, TransferOK, History, AtPort, K!Slot
    <2>3. QED
      BY <2>1, <2>2
  <1>4. QED
    BY <1>1, <1>2, <1>3, SamePort DEF PathInv, PicsIdle, StackOK

\* The transfer of a byte to the port requests its interrupt.
LEMMA TransferPreserves ==
  ASSUME PathInv, Transfer
  PROVE  PathInv'
  <1>1. /\ K!TransferBuffer /\ UNCHANGED <<stack, interrupts, accepted, seen, repeat>>
    BY DEF Transfer, cpu_vars, history_vars, K!TransferBuffer, K!host_vars
  <1>2. RingOK' /\ TransferOK' /\ History' /\ ~p60changed
    BY <1>1, TransferKeeps DEF PathInv
  <1>3. UNCHANGED pics
    BY DEF Transfer, pic_vars, P!ActivateIrq, P!mode_vars
  <1>4. RepeatOK' /\ PicsIdle' /\ StackOK'
    BY <1>1, <1>3 DEF PathInv, RepeatOK, PicsIdle, StackOK
  <1>5. AnnouncedOnce'
    <2>1. CASE used = 0
      <3>1. UNCHANGED <<p60changed, requested>>
        BY <2>1 DEF Transfer, pic_vars, K!TransferBuffer, K!port_vars
      <3>2. QED
        BY <1>1, <3>1, SamePort DEF PathInv
    <2>2. CASE used # 0
      <3>1. p60changed' = TRUE /\ requested' = requested \cup {KbdLine}
        BY <2>2 DEF Transfer, P!ActivateIrq, K!TransferBuffer
      <3>2. ~ReadsNext /\ ~ReadsNext'
        BY <1>1, <1>2 DEF PathInv, AnnouncedOnce, ReadsNext
      <3>3. QED
        BY <1>1, <3>1, <3>2 DEF PathInv, AnnouncedOnce, AtBegin
    <2>3. QED
      BY <2>1, <2>2
  <1>6. QED
    BY <1>2, <1>4, <1>5 DEF PathInv

LEMMA TimerTickPreserves ==
  ASSUME PathInv, TimerTick
  PROVE  PathInv'
  <1>1. /\ requested' = requested \cup {TimerLine}
        /\ UNCHANGED <<kbd_vars, stack, interrupts, pics, accepted, seen>>
    BY DEF TimerTick, P!ActivateIrq, P!mode_vars, cpu_vars
  <1>2. KbdLine \in requested' <=> KbdLine \in requested
    BY <1>1 DEF KbdLine, TimerLine
  <1>3. AnnouncedOnce'
    BY <1>1, <1>2 DEF PathInv, AnnouncedOnce, ReadsNext, AtBegin, kbd_vars
  <1>4. QED
    BY <1>1, <1>3 DEF PathInv, RingOK, TransferOK, RepeatOK, PicsIdle, StackOK,
                      History, AtPort, K!Slot, kbd_vars

\* Steps that leave the keyboard, the history and the requests alone.
LEMMA QuietPreserves ==
  ASSUME PathInv, UNCHANGED <<kbd_vars, history_vars, requested>>,
         PicsIdle', StackOK', AnnouncedOnce'
  PROVE  PathInv'
  BY DEF PathInv, RingOK, TransferOK, RepeatOK, History, AtPort, K!Slot, kbd_vars,
         history_vars

\* The stub reads the byte that was announced to it.
LEMMA ReadBytePreserves ==
  ASSUME PathInv, ReadByte
  PROVE  PathInv'
  <1>1. /\ In(KbdLine, "begin") /\ GoTo("handle") /\ K!ReadP60
        /\ seen' = Append(seen, p60data)
        /\ UNCHANGED <<requested, pics, accepted, repeat>> /\ interrupts' \in BOOLEAN
    BY DEF ReadByte, pic_vars, K!ReadP60, K!host_vars, PathInv, StackOK
  <1> PICK last : last = Len(stack)
    OBVIOUS
  <1>2. /\ stack' \in Seq(Frame) /\ DOMAIN stack' = DOMAIN stack
        /\ last \in DOMAIN stack /\ AtBegin(last)
        /\ stack'[last].pc = "handle"
        /\ \A n \in DOMAIN stack : n # last => stack'[n] = stack[n]
    <2>1. StackOK
      BY DEF PathInv
    <2>2. QED
      BY <1>1, <2>1, FrameGoesOn DEF AtBegin, Innermost
  <1>3. ReadsNext /\ p60changed /\ KbdLine \notin requested
    BY <1>2 DEF ReadsNext, AtBegin, PathInv, AnnouncedOnce
  <1>4. RingOK' /\ TransferOK' /\ History' /\ ~p60changed'
    BY <1>1, <1>3, ReadKeeps DEF PathInv
  <1>5. \A n \in DOMAIN stack : ~AtBegin(n)'
    <2>1. \A n \in DOMAIN stack : AtBegin(n) => n = last
      BY <1>2 DEF PathInv, AnnouncedOnce
    <2>2. QED
      BY <1>2, <2>1 DEF AtBegin
  <1>6. AnnouncedOnce'
    BY <1>1, <1>2, <1>3, <1>4, <1>5 DEF AnnouncedOnce, ReadsNext, AtBegin
  <1>7. RepeatOK' /\ PicsIdle' /\ StackOK'
    BY <1>1, <1>2 DEF PathInv, RepeatOK, PicsIdle, StackOK
  <1>8. QED
    BY <1>4, <1>6, <1>7 DEF PathInv

\* The controller and what the stubs and the program write to it.
LEMMA CommandKeeps ==
  ASSUME PicsIdle, P!WriteCommand(0, EOI)
  PROVE  requested' = requested /\ PicsIdle'
  <1>1. CASE P!OCW3(0, EOI)
    <2>1. requested' = requested
      BY <1>1 DEF P!OCW3, P!line_vars
    <2>2. pics[0] \in P!ControllerState /\ 0 \in P!Controllers
      BY DEF PicsIdle, P!Controllers
    <2> DEFINE special == IF P!Bit(EOI, 6) THEN P!Bit(EOI, 5) ELSE pics[0].special
               issr == IF P!Bit(EOI, 1) THEN P!Bit(EOI, 0) ELSE pics[0].request_issr
               new == [pics[0] EXCEPT !.request_issr = issr, !.special = special]
    <2>3. special \in BOOLEAN /\ issr \in BOOLEAN
      BY <2>2 DEF P!Bit, P!ControllerState
    <2>4. pics' = [pics EXCEPT ![0] = new]
      BY <1>1 DEF P!OCW3
    <2> HIDE DEF special, issr
    <2>5. /\ new \in P!ControllerState /\ new.icw_index = pics[0].icw_index
          /\ new.auto_eoi = pics[0].auto_eoi
      BY <2>2, <2>3 DEF P!ControllerState
    <2> HIDE DEF new
    <2>6. PicsIdle'
      BY <2>2, <2>4, <2>5 DEF PicsIdle
    <2>7. QED
      BY <2>1, <2>6
  <1>2. CASE P!SpecificEOI(0, EOI) \/ P!NonspecificEOI(0, EOI)
    BY <1>2 DEF P!SpecificEOI, P!NonspecificEOI, P!EndService, P!line_vars, P!mode_vars, PicsIdle
  <1>3. CASE P!RotateOnAutoEOI(0, EOI)
    <2>1. requested' = requested
      BY <1>3 DEF P!RotateOnAutoEOI, P!line_vars
    <2>2. pics[0] \in P!ControllerState /\ 0 \in P!Controllers
      BY DEF PicsIdle, P!Controllers
    <2> DEFINE rotate == P!Bit(EOI, 7)
               new == [pics[0] EXCEPT !.rotate_on_auto_eoi = rotate]
    <2>3. rotate \in BOOLEAN
      BY DEF P!Bit
    <2>4. pics' = [pics EXCEPT ![0] = new]
      BY <1>3 DEF P!RotateOnAutoEOI
    <2> HIDE DEF rotate
    <2>5. /\ new \in P!ControllerState /\ new.icw_index = pics[0].icw_index
          /\ new.auto_eoi = pics[0].auto_eoi
      BY <2>2, <2>3 DEF P!ControllerState
    <2> HIDE DEF new
    <2>6. PicsIdle'
      BY <2>2, <2>4, <2>5 DEF PicsIdle
    <2>7. QED
      BY <2>1, <2>6
  <1>4. ~P!ICW1(0, EOI)
    BY DEF P!ICW1, EOI
  <1>5. QED
    BY <1>1, <1>2, <1>3, <1>4 DEF P!WriteCommand

LEMMA MaskKeeps ==
  ASSUME PicsIdle, NEW mask, P!WriteData(0, mask)
  PROVE  requested' = requested /\ PicsIdle'
  <1>1. P!MaskWrite(0, mask)
    BY DEF P!WriteData, P!ICW2, P!ICW3, P!ICW4, PicsIdle, P!Controllers
  <1>2. QED
    BY <1>1 DEF P!MaskWrite, P!mode_vars, PicsIdle

\* The other steps of the stubs.
LEMMA StubPreserves ==
  ASSUME PathInv, UserTick \/ ClearInterrupts \/ SendEOI
  PROVE  PathInv'
  <1>1. requested' = requested /\ PicsIdle'
    <2>1. CASE UserTick \/ ClearInterrupts
      BY <2>1 DEF UserTick, ClearInterrupts, pic_vars, PathInv, PicsIdle
    <2>2. CASE P!WriteCommand(0, EOI)
      BY <2>2, CommandKeeps DEF PathInv
    <2>3. QED
      BY <2>1, <2>2 DEF SendEOI
  <1>2. UNCHANGED <<kbd_vars, history_vars>> /\ interrupts' \in BOOLEAN
    BY DEF UserTick, ClearInterrupts, SendEOI, PathInv, StackOK
  <1>3. StackOK' /\ AnnouncedOnce'
    <2>1. StackOK /\ AnnouncedOnce /\ p60changed' = p60changed
      BY <1>2 DEF PathInv, kbd_vars
    <2>2. CASE UserTick
      <3>1. In(TimerLine, "begin") /\ GoTo("handle") /\ TimerLine # KbdLine
        BY <2>2 DEF UserTick, KbdLine, TimerLine
      <3>2. QED
        BY <1>1, <1>2, <2>1, <3>1, QuietFrameGoesOn
    <2>3. CASE ClearInterrupts
      <3>1. PICK line : In(line, "handle") /\ GoTo("closed")
        BY <2>3 DEF ClearInterrupts
      <3>2. QED
        BY <1>1, <1>2, <2>1, <3>1, QuietFrameGoesOn
    <2>4. CASE SendEOI
      <3>1. PICK line : In(line, "closed") /\ GoTo("done")
        BY <2>4 DEF SendEOI
      <3>2. QED
        BY <1>1, <1>2, <2>1, <3>1, QuietFrameGoesOn
    <2>5. QED
      BY <2>2, <2>3, <2>4
  <1>4. QED
    BY <1>1, <1>2, <1>3, QuietPreserves

\* The innermost stub returns to what it interrupted.
LEMMA IretPreserves ==
  ASSUME PathInv, Iret
  PROVE  PathInv'
  <1> PICK last \in Nat : last = Len(stack)
    BY DEF PathInv, StackOK
  <1>1. /\ stack \in Seq(Frame) /\ DOMAIN stack = 1..last /\ last # 0
        /\ stack[last] \in Frame /\ stack[last].pc = "done"
    BY ElementOfSeq DEF PathInv, StackOK, Iret, In, Innermost
  <1>2. stack' = SubSeq(stack, 1, last - 1) /\ interrupts' \in BOOLEAN
    BY <1>1 DEF Iret, Innermost, Frame
  <1>3. /\ stack' \in Seq(Frame) /\ DOMAIN stack' = 1..(last - 1)
        /\ \A n \in 1..(last - 1) : stack'[n] = stack[n]
    BY <1>1, <1>2
  <1>4. UNCHANGED <<kbd_vars, pic_vars, history_vars>>
    BY DEF Iret
  <1>5. StackOK' /\ PicsIdle'
    BY <1>2, <1>3, <1>4 DEF StackOK, PicsIdle, PathInv, pic_vars
  <1>6. \A n \in 1..last : AtBegin(n) => n \in 1..(last - 1)
    BY <1>1 DEF AtBegin
  <1>7. \A n \in 1..(last - 1) : n \in 1..last /\ (AtBegin(n)' <=> AtBegin(n))
    BY <1>3 DEF AtBegin
  <1>8. ReadsNext' <=> ReadsNext
    BY <1>1, <1>3, <1>6, <1>7 DEF ReadsNext, AtBegin
  <1>9. AnnouncedOnce'
    BY <1>1, <1>3, <1>4, <1>7, <1>8 DEF PathInv, AnnouncedOnce, kbd_vars, pic_vars
  <1>10. QED
    BY <1>4, <1>5, <1>9, QuietPreserves DEF pic_vars

\* The program's critical sections, but for a command to the keyboard.
LEMMA ProgramPreserves ==
  ASSUME PathInv, Work \/ Cli \/ MaskKeyboard \/ UnmaskKeyboard \/ Sti
  PROVE  PathInv'
  <1>1. UNCHANGED <<kbd_vars, history_vars, stack>> /\ interrupts' \in BOOLEAN
    BY DEF Work, Cli, MaskKeyboard, UnmaskKeyboard, Sti, Program, PathInv, StackOK
  <1>2. requested' = requested /\ PicsIdle'
    <2>1. CASE Work \/ Cli \/ Sti
      BY <2>1 DEF Work, Cli, Sti, pic_vars, PathInv, PicsIdle
    <2>2. CASE MaskKeyboard \/ UnmaskKeyboard
      BY <2>2, MaskKeeps DEF MaskKeyboard, UnmaskKeyboard, PathInv
    <2>3. QED
      BY <2>1, <2>2
  <1>3. StackOK' /\ AnnouncedOnce'
    BY <1>1, <1>2, SamePort DEF PathInv, StackOK, kbd_vars
  <1>4. QED
    BY <1>1, <1>2, <1>3, QuietPreserves

LEMMA WriteKeyboardPreserves ==
  ASSUME PathInv, WriteKeyboard
  PROVE  PathInv'
  <1>1. UNCHANGED <<pic_vars, stack, interrupts, seen>>
    BY DEF WriteKeyboard, Program
  <1>2. K!Reply /\ UNCHANGED <<p60data, p60changed, repeat>>
    BY DEF WriteKeyboard, K!WriteP60, K!BeginCommand, K!SetLeds, K!SetTypeRate,
           K!port_vars, K!host_vars
  <1>3. accepted' = Append(SubSeq(accepted, 1, Len(accepted) - used), K!Acknowledge)
    BY DEF WriteKeyboard
  <1>4. RingOK' /\ TransferOK' /\ History'
    BY <1>1, <1>2, <1>3, ReplyKeeps DEF PathInv
  <1>5. QED
    BY <1>1, <1>2, <1>4, SamePort DEF PathInv, RepeatOK, PicsIdle, StackOK, pic_vars

LEMMA NextPathInv == PathInv /\ [Next]_vars => PathInv'
  <1> SUFFICES ASSUME PathInv, [Next]_vars PROVE PathInv'
    OBVIOUS
  <1>1. CASE Interrupt
    BY <1>1, InterruptPreserves
  <1>2. CASE NoInterrupt \/ EndEvents \/ UNCHANGED vars
    <2>1. UNCHANGED <<kbd_vars, pic_vars, history_vars, stack, interrupts>>
      BY <1>2 DEF NoInterrupt, EndEvents, vars, cpu_vars
    <2>2. PicsIdle' /\ StackOK' /\ AnnouncedOnce'
      BY <2>1, SamePort DEF PathInv, PicsIdle, StackOK, pic_vars, kbd_vars
    <2>3. QED
      BY <2>1, <2>2, QuietPreserves DEF pic_vars
  <1>3. ASSUME NEW key \in Keys, NEW pressed \in BOOLEAN, PressOrRelease(key, pressed)
        PROVE  PathInv'
    BY <1>3, PressOrReleasePreserves
  <1>4. CASE Msec
    BY <1>4, MsecPreserves
  <1>5. CASE Transfer
    BY <1>5, TransferPreserves
  <1>6. CASE TimerTick
    BY <1>6, TimerTickPreserves
  <1>7. CASE ReadByte
    BY <1>7, ReadBytePreserves
  <1>8. CASE UserTick \/ ClearInterrupts \/ SendEOI
    BY <1>8, StubPreserves
  <1>9. CASE Iret
    BY <1>9, IretPreserves
  <1>10. CASE Work \/ Cli \/ MaskKeyboard \/ UnmaskKeyboard \/ Sti
    BY <1>10, ProgramPreserves
  <1>11. CASE WriteKeyboard
    BY <1>11, WriteKeyboardPreserves
  <1>12. QED
    BY <1>1, <1>2, <1>3, <1>4, <1>5, <1>6, <1>7, <1>8, <1>9, <1>10, <1>11
       DEF Next, Execute

LEMMA PathInvHolds == Spec => []PathInv
  BY InitPathInv, NextPathInv, PTL DEF Spec

-----------------------------------------------------------------------------

\* No interrupt is lost: from the transfer of a byte to the port until the stub
\* reads it, its line is raised or its stub has been entered, whatever the
\* program masks and the timer interrupts.  (TransferBuffer, dp_pic_start_irq,
\* the stub of int 9)
THEOREM PathUnreadByteAnnounced == Spec => []UnreadByteAnnounced
  <1>1. PathInv => UnreadByteAnnounced
    BY DEF PathInv, AnnouncedOnce, UnreadByteAnnounced
  <1>2. QED
    BY <1>1, PathInvHolds, PTL

\* From the host's key to the BIOS: the handler is given the bytes the ring
\* accepted, in order and each once, for every size of the ring.
\* (dp_keyboard_add_key to dp_keyboard_int9_handler)
THEOREM PathSeenInOrder == Spec => []SeenInOrder
  <1>1. ASSUME PathInv PROVE SeenInOrder
    <2>1. /\ seen \in Seq(Byte) /\ accepted \in Seq(Byte) /\ used \in Nat
          /\ AtPort \in {0, 1} /\ Len(accepted) = Len(seen) + AtPort + used
          /\ \A n \in 1..Len(seen) : accepted[n] = seen[n]
      BY <1>1, PathAssumption DEF PathInv, History, RingOK, AtPort
    <2>2. Len(seen) \in Nat /\ Len(seen) <= Len(accepted)
      BY <2>1
    <2>3. Len(accepted) - used - AtPort = Len(seen)
      BY <2>1, <2>2
    <2>4. SubSeq(accepted, 1, Len(seen)) = seen
      <3>1. /\ SubSeq(accepted, 1, Len(seen)) \in Seq(Byte)
            /\ Len(SubSeq(accepted, 1, Len(seen))) = Len(seen)
            /\ \A n \in 1..Len(seen) : SubSeq(accepted, 1, Len(seen))[n] = accepted[n]
        BY <2>1, <2>2
      <3>2. QED
        BY <2>1, <3>1, SeqEqual
    <2>5. QED
      BY <2>3, <2>4 DEF SeenInOrder, AtPort
  <1>2. QED
    BY <1>1, PathInvHolds, PTL

=============================================================================
