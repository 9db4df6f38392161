--------------------------- MODULE HwtimerProofs ----------------------------
(* Proofs about Hwtimer, for any radix, rates of the two clocks, counts    *)
(* and bounds.                                                             *)
EXTENDS Hwtimer, FiniteSetTheorems, SequenceTheorems, TLAPS

-----------------------------------------------------------------------------
(* Counts and the event queue.                                             *)

\* A count is a positive time: one tick of the timer takes at least one of
\* the machine.
LEMMA DelayPositive ==
  ASSUME NEW n \in 1..(Radix * Radix)
  PROVE  DelayOf(n) \in Nat \ {0}
  <1>1. PitTickRate \in Nat \ {0} /\ TicksPerSecond \in Nat /\ TicksPerSecond >= PitTickRate
    BY HwtimerAssumption
  <1>2. n \in Nat /\ n >= 1
    BY HwtimerAssumption
  <1>3. n * TicksPerSecond \in Nat /\ n * TicksPerSecond >= PitTickRate
    BY <1>1, <1>2
  <1>4. \A x \in Nat, p \in Nat \ {0} : x >= p => x \div p \in Nat \ {0}
    OBVIOUS
  <1>5. QED
    BY <1>1, <1>3, <1>4 DEF DelayOf

\* The last byte completes a count of two digits.
LEMMA CompletedLatchType ==
  ASSUME NEW p \in Pit, p.write_state # 3, p.write_state = 0 => p.write_latch < Radix,
         NEW val \in 0..(Radix - 1)
  PROVE  /\ CompletedLatch(p, val) \in 0..(Radix * Radix - 1)
         /\ Loaded(CompletedLatch(p, val)) \in 1..(Radix * Radix)
  <1>1. Radix \in Nat \ {0, 1} /\ p.write_state \in 0..3 /\ p.write_latch \in Nat
    BY HwtimerAssumption DEF Pit
  <1>2. Radix * Radix \in Nat /\ val * Radix \in Nat
    BY <1>1
  <1>3. val * Radix <= Radix * Radix - Radix /\ Radix <= Radix * Radix
    <2>1. val * Radix <= (Radix - 1) * Radix
      BY <1>1
    <2>2. (Radix - 1) * Radix = Radix * Radix - Radix
      BY <1>1
    <2>3. 1 * Radix <= Radix * Radix
      BY <1>1
    <2>4. QED
      BY <1>1, <2>1, <2>2, <2>3
  <1>4. CompletedLatch(p, val) \in 0..(Radix * Radix - 1)
    BY <1>1, <1>2, <1>3 DEF CompletedLatch
  <1>5. QED
    BY <1>1, <1>2, <1>3, <1>4 DEF Loaded

LEMMA AddDueToNone ==
  ASSUME NEW d \in Nat
  PROVE  AddDue(d, <<>>) = <<d>>
  <1>1. {i \in DOMAIN <<>> : <<>>[i] <= d} = {}
    OBVIOUS
  <1>2. Cardinality({i \in DOMAIN <<>> : <<>>[i] <= d}) = 0
    BY <1>1, FS_EmptySet
  <1>3. AddDue(d, <<>>) = SubSeq(<<>>, 1, 0) \o <<d>> \o SubSeq(<<>>, 1, 0)
    BY <1>2 DEF AddDue
  <1>4. SubSeq(<<>>, 1, 0) = <<>>
    BY SubSeqEmpty
  <1>5. QED
    BY <1>3, <1>4

\* At most one event is queued.
LEMMA OneDue ==
  ASSUME NEW q, q \in Seq(Nat), Len(q) <= 1
  PROVE  /\ q # <<>> => Len(q) = 1 /\ q = <<q[1]>> /\ q[1] \in Nat /\ Tail(q) = <<>>
         /\ RemoveDue(q) = <<>>
  <1>1. CASE q = <<>>
    BY <1>1 DEF RemoveDue
  <1>2. CASE q # <<>>
    <2> DEFINE n == Len(q)
    <2>1. Len(q) = 1
      <3>1. n \in Nat \ {0} /\ n <= 1
        BY <1>2, EmptySeq
      <3> HIDE DEF n
      <3>2. n = 1
        BY <3>1
      <3>3. QED
        BY <3>2 DEF n
    <2>2. q = <<q[1]>> /\ q[1] \in Nat
      <3>1. q \in [1..1 -> Nat]
        BY <2>1, LenProperties
      <3>2. q[1] \in Nat /\ <<q[1]>> \in [1..1 -> Nat] /\ <<q[1]>>[1] = q[1]
        BY <3>1
      <3>3. QED
        BY <3>1, <3>2
    <2>3. Tail(q) = <<>>
      <3>1. Tail(q) \in Seq(Nat) /\ Len(Tail(q)) = 0
        BY <1>2, <2>1, HeadTailProperties
      <3>2. \A seq \in Seq(Nat) : seq # <<>> => Len(seq) \in Nat \ {0}
        BY EmptySeq
      <3>3. QED
        BY <3>1, <3>2
    <2>4. QED
      BY <1>2, <2>1, <2>2, <2>3 DEF RemoveDue
  <1>3. QED
    BY <1>1, <1>2

LEMMA OutputType ==
  ASSUME NEW p \in Pit
  PROVE  Output(p) \in BOOLEAN
  BY DEF Output, Pit

-----------------------------------------------------------------------------
(* The inductive invariant.  An event that is late would let the rate      *)
(* generator drift, and a count of 0 would stop it.                        *)

DueAhead == \A i \in 1..Len(due) : due[i] >= ticks
CountPositive == pit[0].cntr > 0
FirstByteWaits ==
  \A c \in Counters : pit[c].write_state = 0 => pit[c].write_latch < Radix

HwtimerInv ==
  /\ TypeOK
  /\ FirstByteWaits
  /\ CountPositive
  /\ DueAhead
  /\ TimerAlive
  /\ RateGeneratorKeepsPhase

LEMMA InitHwtimerInv == Init => HwtimerInv
  <1> SUFFICES ASSUME Init PROVE HwtimerInv
    OBVIOUS
  <1>1. \A c \in Counters : /\ FirstCount[c] \in 1..(Radix * Radix)
                            /\ DelayOf(FirstCount[c]) \in Nat \ {0}
    BY HwtimerAssumption, DelayPositive
  <1>2. Radix * Radix \in Nat /\ Radix * Radix - 1 \in Nat /\ 0 \in Counters
    BY HwtimerAssumption
  <1>3. pit \in [Counters -> Pit]
    BY <1>1, <1>2 DEF Init, FirstMode, Pit, Counts
  <1>4. due = <<DelayOf(FirstCount[0])>> /\ due \in Seq(Nat)
    BY <1>1, <1>2 DEF Init
  <1>5. TypeOK
    <2>1. ticks \in 0..Horizon /\ commands \in 0..MaxCommands /\ phase \in {"poll", "execute"}
      BY HwtimerAssumption DEF Init
    <2>2. irq0 \in BOOLEAN /\ gate2 \in BOOLEAN /\ locked \in BOOLEAN
      BY DEF Init
    <2>3. status \in [counter : Counters, mode : 0..5, out : BOOLEAN, null_count : BOOLEAN]
      BY <1>2 DEF Init
    <2>4. QED
      BY <1>3, <1>4, <2>1, <2>2, <2>3 DEF TypeOK
  <1>6. /\ ~pit[0].new_mode /\ pit[0].mode = 3 /\ pit[0].cntr = FirstCount[0]
        /\ \A c \in Counters : pit[c].write_state = 3
    BY <1>2 DEF Init, FirstMode
  <1>7. QED
    BY <1>1, <1>2, <1>4, <1>5, <1>6
       DEF HwtimerInv, FirstByteWaits, CountPositive, DueAhead, TimerAlive,
           RateGeneratorKeepsPhase, Init

\* What the safety of counter 0 depends on.
SameCounter0 ==
  /\ pit'[0].mode = pit[0].mode
  /\ pit'[0].new_mode = pit[0].new_mode
  /\ pit'[0].update_count = pit[0].update_count
  /\ pit'[0].cntr = pit[0].cntr
  /\ pit'[0].delay = pit[0].delay
  /\ pit'[0].start = pit[0].start

LEMMA SameCounter0Preserves ==
  ASSUME HwtimerInv, SameCounter0, UNCHANGED <<ticks, due>>
  PROVE  CountPositive' /\ DueAhead' /\ TimerAlive' /\ RateGeneratorKeepsPhase'
  <1>1. CountPositive' /\ DueAhead' /\ TimerAlive'
    BY DEF HwtimerInv, SameCounter0, CountPositive, DueAhead, TimerAlive
  <1>2. DelayOf(pit'[0].cntr) = DelayOf(pit[0].cntr)
    BY DEF SameCounter0
  <1>3. RateGeneratorKeepsPhase'
    BY <1>2 DEF HwtimerInv, SameCounter0, RateGeneratorKeepsPhase, DelayOf
  <1>4. QED
    BY <1>1, <1>3

-----------------------------------------------------------------------------
(* The decode loop.                                                        *)

\* An event runs exactly at its tick, so the next period begins where the
\* last one ended.
LEMMA PitEventPreserves ==
  ASSUME HwtimerInv, PitEvent
  PROVE  HwtimerInv'
  <1> DEFINE p == pit[0]
             delay == IF p.update_count THEN DelayOf(p.cntr) ELSE p.delay
  <1>1. /\ TypeOK /\ 0 \in Counters /\ p \in Pit /\ ticks \in Nat /\ Radix * Radix \in Nat
        /\ due \in Seq(Nat) /\ Len(due) <= 1
    BY HwtimerAssumption DEF HwtimerInv, TypeOK, TimerAlive
  <1>2. due # <<>> /\ due = <<due[1]>> /\ due[1] = ticks /\ Tail(due) = <<>>
    <2>1. PICK i \in 1..Len(due) : due[i] <= ticks
      BY DEF PitEvent, EventDue
    <2>2. i = 1 /\ due # <<>>
      BY <1>1, <2>1
    <2>3. due[1] \in Nat /\ due = <<due[1]>> /\ Tail(due) = <<>>
      BY <1>1, <2>2, OneDue
    <2>4. due[1] >= ticks
      BY <2>1, <2>2 DEF HwtimerInv, DueAhead
    <2>5. QED
      BY <1>1, <2>1, <2>2, <2>3, <2>4
  <1>3. ~p.new_mode
    BY <1>2 DEF HwtimerInv, TimerAlive
  <1>4. /\ UNCHANGED <<ticks, phase, gate2, locked, status, commands>> /\ irq0' = TRUE
        /\ ticks' = ticks
    BY DEF PitEvent
  <1>5. CASE p.mode = 0
    <2>1. due' = <<>> /\ pit' = pit
      BY <1>2, <1>5 DEF PitEvent
    <2>2. TypeOK'
      BY <1>1, <1>4, <2>1 DEF TypeOK
    <2>3. TimerAlive'
      <3> DEFINE end == pit[0].start + pit[0].delay
      <3>1. due = <<end>>
        BY <1>2, <1>3, <1>5 DEF HwtimerInv, TimerAlive
      <3>2. end = ticks
        BY <1>2, <3>1
      <3> HIDE DEF end
      <3>3. end' = end /\ end <= ticks'
        BY <1>1, <1>4, <2>1, <3>2 DEF end
      <3>4. pit'[0].start + pit'[0].delay = end
        BY <2>1 DEF end
      <3>5. QED
        BY <1>3, <1>5, <2>1, <3>3, <3>4 DEF TimerAlive
    <2>4. QED
      BY <1>4, <1>5, <2>1, <2>2, <2>3
         DEF HwtimerInv, FirstByteWaits, CountPositive, DueAhead, RateGeneratorKeepsPhase
  <1>6. CASE p.mode # 0
    <2>1. delay \in Nat \ {0}
      <3>1. p.cntr \in 1..(Radix * Radix) /\ p.delay \in Nat \ {0}
        BY <1>1 DEF HwtimerInv, CountPositive, Pit, Counts
      <3>2. QED
        BY <3>1, DelayPositive
    <2>2. /\ pit' = [pit EXCEPT ![0].start = @ + p.delay, ![0].delay = delay,
                                ![0].update_count = FALSE]
          /\ due' = AddDue(ticks + delay, Tail(due))
      BY <1>6 DEF PitEvent
    <2> HIDE DEF delay
    <2>3. ticks + delay \in Nat /\ due' = <<ticks + delay>>
      <3>1. ticks + delay \in Nat
        BY <1>1, <2>1
      <3>2. AddDue(ticks + delay, <<>>) = <<ticks + delay>>
        BY <3>1, AddDueToNone
      <3>3. QED
        BY <1>2, <2>2, <3>1, <3>2
    <2>4. /\ pit'[0] = [pit[0] EXCEPT !.start = @ + p.delay, !.delay = delay,
                                      !.update_count = FALSE]
          /\ \A c \in Counters \ {0} : pit'[c] = pit[c]
          /\ pit' = [c \in Counters |-> pit'[c]]
      BY <1>1, <2>2 DEF TypeOK
    <2>5. pit'[0] \in Pit
      <3>1. p.start + p.delay \in Nat
        BY <1>1 DEF Pit
      <3>2. QED
        BY <1>1, <2>1, <2>4, <3>1 DEF Pit
    <2>6. pit' \in [Counters -> Pit]
      BY <1>1, <2>4, <2>5 DEF TypeOK
    <2>7. TypeOK'
      <3>1. due' \in Seq(Nat)
        BY <2>3
      <3>2. QED
        BY <1>1, <1>4, <2>6, <3>1 DEF TypeOK
    <2>8. FirstByteWaits' /\ CountPositive'
      <3>1. /\ pit'[0].write_state = pit[0].write_state /\ pit'[0].cntr = pit[0].cntr
            /\ pit'[0].write_latch = pit[0].write_latch
        BY <1>1, <2>4 DEF Pit
      <3>2. ASSUME NEW c \in Counters
            PROVE  /\ pit'[c].write_state = pit[c].write_state
                   /\ pit'[c].write_latch = pit[c].write_latch
        BY <2>4, <3>1
      <3>3. QED
        BY <3>1, <3>2 DEF HwtimerInv, FirstByteWaits, CountPositive
    <2>9. DueAhead' /\ TimerAlive'
      <3>1. pit'[0].mode # 0 /\ ~pit'[0].new_mode
        BY <1>1, <1>3, <1>6, <2>4 DEF Pit
      <3>2. Len(due') = 1 /\ due' # <<>> /\ due'[1] = ticks + delay
        BY <2>3
      <3>3. DueAhead'
        BY <1>1, <1>4, <2>1, <3>2 DEF DueAhead
      <3>4. QED
        BY <3>1, <3>2, <3>3 DEF TimerAlive
    <2>10. RateGeneratorKeepsPhase'
      <3>1. CASE p.mode = 2
        <4>1. p.start + p.delay = ticks
          BY <1>1, <1>2, <1>3, <3>1 DEF HwtimerInv, RateGeneratorKeepsPhase, Pit
        <4>2. delay = DelayOf(p.cntr)
          BY <1>3, <3>1 DEF HwtimerInv, RateGeneratorKeepsPhase, delay
        <4>3. /\ pit'[0].start = ticks /\ pit'[0].delay = delay
              /\ DelayOf(pit'[0].cntr) = DelayOf(p.cntr)
          BY <1>1, <2>4, <4>1 DEF Pit
        <4>4. QED
          BY <1>1, <1>4, <2>3, <4>2, <4>3 DEF RateGeneratorKeepsPhase, DelayOf
      <3>2. CASE p.mode # 2
        BY <1>1, <2>4, <3>2 DEF RateGeneratorKeepsPhase, Pit
      <3>3. QED
        BY <3>1, <3>2
    <2>11. QED
      BY <2>7, <2>8, <2>9, <2>10 DEF HwtimerInv
  <1>7. QED
    BY <1>5, <1>6

LEMMA ChargePreserves ==
  ASSUME HwtimerInv, Charge
  PROVE  HwtimerInv'
  <1>1. /\ TypeOK /\ ticks \in Nat /\ due \in Seq(Nat) /\ due' = due /\ pit' = pit
        /\ ticks' = ticks + 1
    BY HwtimerAssumption DEF HwtimerInv, TypeOK, Charge
  <1>2. TypeOK'
    <2>1. ticks' \in 0..Horizon
      BY HwtimerAssumption, <1>1 DEF Charge
    <2>2. phase' = "execute" /\ UNCHANGED <<due, irq0, pit, gate2, locked, status, commands>>
      BY DEF Charge
    <2>3. QED
      BY <1>1, <2>1, <2>2 DEF TypeOK
  <1>3. DueAhead'
    <2>1. ASSUME NEW i \in 1..Len(due) PROVE due[i] >= ticks + 1
      <3>1. ~(due[i] <= ticks) /\ due[i] \in Nat
        BY <1>1, ElementOfSeq DEF Charge, EventDue
      <3>2. QED
        BY <1>1, <3>1
    <2>2. QED
      BY <1>1, <2>1 DEF DueAhead
  <1>4. pit[0].start \in Nat /\ pit[0].delay \in Nat
    BY <1>1, HwtimerAssumption DEF TypeOK, Pit
  <1>5. TimerAlive'
    <2>1. \A end \in Nat : end <= ticks => end <= ticks + 1
      BY <1>1
    <2>2. pit[0].start + pit[0].delay \in Nat
      BY <1>4
    <2>3. QED
      BY <1>1, <2>1, <2>2 DEF HwtimerInv, TimerAlive
  <1>6. QED
    BY <1>1, <1>2, <1>3, <1>4, <1>5
       DEF HwtimerInv, FirstByteWaits, CountPositive, RateGeneratorKeepsPhase, DelayOf

\* Steps that leave the timer alone.
LEMMA QuietPreserves ==
  ASSUME HwtimerInv, TakeIrq0 \/ OtherInstruction \/ UNCHANGED vars
  PROVE  HwtimerInv'
  <1>1. UNCHANGED <<ticks, due, pit, gate2, locked, status, commands>>
    BY DEF TakeIrq0, OtherInstruction, vars
  <1>2. phase' \in {"poll", "execute"} /\ irq0' \in BOOLEAN
    BY DEF TakeIrq0, OtherInstruction, vars, HwtimerInv, TypeOK
  <1>3. TypeOK' /\ FirstByteWaits' /\ SameCounter0
    BY <1>1, <1>2 DEF HwtimerInv, TypeOK, FirstByteWaits, SameCounter0
  <1>4. QED
    BY <1>1, <1>3, SameCounter0Preserves DEF HwtimerInv

-----------------------------------------------------------------------------
(* Accesses of the guest.                                                  *)

\* What every access does.
LEMMA ExecuteType ==
  ASSUME HwtimerInv, Execute
  PROVE  /\ phase' \in {"poll", "execute"} /\ commands' \in 0..MaxCommands
         /\ ticks' = ticks /\ ticks \in 0..Horizon /\ ticks \in Nat
         /\ 0 \in Counters /\ pit \in [Counters -> Pit]
  BY HwtimerAssumption DEF HwtimerInv, TypeOK, Execute

\* The counters, for any sets of latched values and of counts.
PitOver(latches, counts) ==
  [mode : 0..5, new_mode : BOOLEAN, update_count : BOOLEAN, cntr : counts,
   delay : Nat \ {0}, start : Nat, write_state : 0..3, write_latch : latches,
   read_state : 0..3, go_read_latch : BOOLEAN, counterstatus_set : BOOLEAN]

\* A new latch, state of the latch and count are those of a counter.
LEMMA LatchKeepsPit ==
  ASSUME NEW latches, NEW counts, NEW latch \in latches, NEW state \in 0..3, NEW count \in counts,
         NEW p \in PitOver(latches, counts)
  PROVE  /\ [p EXCEPT !.write_latch = latch, !.write_state = state] \in PitOver(latches, counts)
         /\ [p EXCEPT !.write_latch = latch, !.write_state = state, !.cntr = count]
              \in PitOver(latches, counts)
  BY DEF PitOver

\* The counters of the type invariant are of that form.
LEMMA PitIsPitOver == Pit = PitOver(0..(Radix * Radix - 1), Counts)
  BY DEF Pit, PitOver

\* A control word leaves the latched value and the count alone.
LEMMA ModeKeepsPit ==
  ASSUME NEW latches, NEW counts, NEW mode \in 0..5, NEW rw \in 0..3,
         NEW p \in PitOver(latches, counts)
  PROVE  [p EXCEPT !.mode = mode, !.new_mode = TRUE, !.read_state = rw, !.write_state = rw,
                   !.update_count = FALSE, !.counterstatus_set = FALSE] \in PitOver(latches, counts)
  BY DEF PitOver

\* A control word takes the event of the old mode away with it.
LEMMA ControlWordPreserves ==
  ASSUME HwtimerInv, NEW c \in Counters, NEW rw \in 1..3, NEW mode \in Modes,
         ControlWord(c, rw, mode)
  PROVE  HwtimerInv'
  <1> DEFINE new == [pit[c] EXCEPT !.mode = mode, !.new_mode = TRUE,
                                   !.read_state = rw, !.write_state = rw,
                                   !.update_count = FALSE, !.counterstatus_set = FALSE]
  <1>1. /\ phase' \in {"poll", "execute"} /\ commands' \in 0..MaxCommands
        /\ ticks' = ticks /\ ticks \in 0..Horizon /\ ticks \in Nat
        /\ 0 \in Counters /\ pit \in [Counters -> Pit] /\ Execute
    BY ExecuteType DEF ControlWord
  <1>2. pit' = [pit EXCEPT ![c] = new]
    BY <1>1 DEF ControlWord, Reprogrammed
  <1>3. /\ pit'[c] = new
        /\ \A d \in Counters \ {c} : pit'[d] = pit[d]
    BY <1>1, <1>2
  <1>4. /\ new \in Pit /\ new.new_mode = TRUE /\ new.write_state # 0 /\ new.cntr = pit[c].cntr
        /\ new.write_latch = pit[c].write_latch
    <2>1. mode \in 0..5 /\ rw \in 0..3 /\ rw # 0
      BY HwtimerAssumption
    <2>2. pit[c] \in Pit
      BY <1>1
    <2>3. new \in Pit
      BY <2>1, <2>2, PitIsPitOver, ModeKeepsPit
    <2>4. \A p \in Pit : DOMAIN p = {"mode", "new_mode", "update_count", "cntr", "delay", "start",
                                    "write_state", "write_latch", "read_state",
                                    "go_read_latch", "counterstatus_set"}
      BY DEF Pit
    <2>5. QED
      BY <2>1, <2>2, <2>3, <2>4
  <1> HIDE DEF new
  <1>5. pit' \in [Counters -> Pit]
    BY <1>1, <1>2, <1>4
  <1>6. locked' \in BOOLEAN /\ gate2' \in BOOLEAN /\ status' = status
    <2>1. locked \in BOOLEAN /\ pit[c].counterstatus_set \in BOOLEAN /\ gate2 \in BOOLEAN
      BY <1>1 DEF HwtimerInv, TypeOK, Pit
    <2>2. QED
      BY <2>1 DEF ControlWord
  <1>7. FirstByteWaits'
    BY <1>3, <1>4 DEF HwtimerInv, FirstByteWaits
  <1>8. CASE c = 0
    <2>1. due' = <<>>
      BY <1>8, OneDue DEF ControlWord, HwtimerInv, TypeOK, TimerAlive
    <2>2. irq0' \in BOOLEAN
      <3> DEFINE before == [pit[0] EXCEPT !.mode = IF @ = 0 THEN mode ELSE @]
      <3>1. before \in Pit
        <4>1. mode \in 0..5
          BY HwtimerAssumption
        <4>2. QED
          BY <1>1, <4>1 DEF Pit
      <3>2. Output(before) \in BOOLEAN /\ irq0 \in BOOLEAN
        BY <3>1, OutputType DEF HwtimerInv, TypeOK
      <3>3. irq0' = (irq0 \/ mode = 0 \/ ~Output(before))
        BY <1>8 DEF ControlWord, RaisesIrq0
      <3> HIDE DEF before
      <3>4. QED
        BY <3>2, <3>3
    <2>3. TypeOK'
      BY <1>1, <1>5, <1>6, <2>1, <2>2 DEF HwtimerInv, TypeOK
    <2>4. CountPositive' /\ DueAhead' /\ TimerAlive' /\ RateGeneratorKeepsPhase'
      BY <1>3, <1>4, <1>8, <2>1
         DEF HwtimerInv, CountPositive, DueAhead, TimerAlive, RateGeneratorKeepsPhase
    <2>5. QED
      BY <1>7, <2>3, <2>4 DEF HwtimerInv
  <1>9. CASE c # 0
    <2>1. due' = due /\ irq0' = irq0
      <3>1. irq0 \in BOOLEAN
        BY DEF HwtimerInv, TypeOK
      <3>2. QED
        BY <1>9, <3>1 DEF ControlWord, RaisesIrq0
    <2>2. SameCounter0
      BY <1>1, <1>3, <1>9 DEF SameCounter0
    <2>3. TypeOK'
      BY <1>1, <1>5, <1>6, <2>1 DEF HwtimerInv, TypeOK
    <2>4. QED
      BY <1>1, <1>7, <2>1, <2>2, <2>3, SameCounter0Preserves DEF HwtimerInv
  <1>10. QED
    BY <1>8, <1>9

\* A latch changes what a read returns, and nothing of the count.
LEMMA LatchedType ==
  ASSUME NEW table \in [Counters -> Pit], NEW counters
  PROVE  /\ Latched(counters, table) \in [Counters -> Pit]
         /\ \A c \in Counters :
              \/ Latched(counters, table)[c] = table[c]
              \/ Latched(counters, table)[c] = [table[c] EXCEPT !.go_read_latch = FALSE]
  <1>1. \A p \in Pit : [p EXCEPT !.go_read_latch = FALSE] \in Pit
    BY DEF Pit
  <1>2. \A c \in Counters :
          Latched(counters, table)[c]
            = IF c \in counters THEN [table[c] EXCEPT !.go_read_latch = FALSE] ELSE table[c]
    BY DEF Latched
  <1>3. Latched(counters, table) \in [Counters -> Pit]
    BY <1>1 DEF Latched
  <1>4. QED
    BY <1>2, <1>3

\* Accesses that change how counters are read or written, and the status.
ReadingFields(p, q) ==
  /\ q.mode = p.mode /\ q.new_mode = p.new_mode /\ q.update_count = p.update_count
  /\ q.cntr = p.cntr /\ q.delay = p.delay /\ q.start = p.start
  /\ q.write_state = p.write_state /\ q.write_latch = p.write_latch

LEMMA ReadingPreserves ==
  ASSUME HwtimerInv, Execute, UNCHANGED <<due, irq0, gate2>>,
         pit' \in [Counters -> Pit], locked' \in BOOLEAN,
         status' \in [counter : Counters, mode : 0..5, out : BOOLEAN, null_count : BOOLEAN],
         \A c \in Counters : ReadingFields(pit[c], pit'[c])
  PROVE  HwtimerInv'
  <1>1. TypeOK' /\ ticks' = ticks /\ 0 \in Counters
    BY ExecuteType DEF HwtimerInv, TypeOK
  <1>2. FirstByteWaits'
    BY DEF HwtimerInv, FirstByteWaits, ReadingFields
  <1>3. SameCounter0
    BY <1>1 DEF SameCounter0, ReadingFields
  <1>4. QED
    BY <1>1, <1>2, <1>3, SameCounter0Preserves DEF HwtimerInv

LEMMA FirstOfCounters ==
  ASSUME NEW counters \in (SUBSET Counters) \ {{}}
  PROVE  (CHOOSE c \in counters : \A d \in counters : c <= d) \in counters
  <1>1. counters \subseteq 0..2 /\ counters # {}
    BY HwtimerAssumption
  <1>2. \E c \in counters : \A d \in counters : c <= d
    <2>1. CASE 0 \in counters
      BY <1>1, <2>1
    <2>2. CASE 0 \notin counters /\ 1 \in counters
      BY <1>1, <2>2
    <2>3. CASE 0 \notin counters /\ 1 \notin counters
      <3>1. \A d \in counters : d = 2
        BY <1>1, <2>3
      <3>2. QED
        BY <1>1, <3>1
    <2>4. QED
      BY <2>1, <2>2, <2>3
  <1>3. QED
    BY <1>2

LEMMA LatchesPreserve ==
  ASSUME HwtimerInv,
         NEW counters \in (SUBSET Counters) \ {{}}, NEW count \in BOOLEAN, NEW stat \in BOOLEAN,
         ReadBack(counters, count, stat)
  PROVE  HwtimerInv'
  <1> DEFINE first == CHOOSE c \in counters : \A d \in counters : c <= d
             latched == IF count THEN Latched(counters, pit) ELSE pit
  <1>1. Execute /\ UNCHANGED <<due, irq0, gate2>> /\ pit \in [Counters -> Pit]
    BY ExecuteType DEF ReadBack
  <1>2. first \in Counters
    BY FirstOfCounters
  <1>3. /\ latched \in [Counters -> Pit]
        /\ \A c \in Counters : ReadingFields(pit[c], latched[c])
    <2>1. /\ Latched(counters, pit) \in [Counters -> Pit]
          /\ \A c \in Counters :
               \/ Latched(counters, pit)[c] = pit[c]
               \/ Latched(counters, pit)[c] = [pit[c] EXCEPT !.go_read_latch = FALSE]
      BY <1>1, LatchedType
    <2>2. \A p \in Pit : ReadingFields(p, p) /\ ReadingFields(p, [p EXCEPT !.go_read_latch = FALSE])
      BY DEF Pit, ReadingFields
    <2>3. QED
      BY <1>1, <2>1, <2>2
  <1>4. CASE stat /\ ~locked
    <2>1. /\ pit' = [latched EXCEPT ![first].counterstatus_set = TRUE]
          /\ status' = StatusOf(first) /\ locked' = TRUE
      BY <1>4 DEF ReadBack
    <2> HIDE DEF first, latched
    <2>2. pit'[first] = [latched[first] EXCEPT !.counterstatus_set = TRUE]
      BY <1>2, <1>3, <2>1
    <2>3. \A p \in Pit : /\ [p EXCEPT !.counterstatus_set = TRUE] \in Pit
                         /\ ReadingFields(p, [p EXCEPT !.counterstatus_set = TRUE])
      BY DEF Pit, ReadingFields
    <2>4. pit' \in [Counters -> Pit]
      BY <1>2, <1>3, <2>1, <2>2, <2>3
    <2>5. ASSUME NEW c \in Counters PROVE ReadingFields(pit[c], pit'[c])
      <3>1. ReadingFields(latched[c], pit'[c])
        <4>1. CASE c = first
          BY <1>2, <1>3, <2>2, <2>3, <4>1
        <4>2. CASE c # first
          <5>1. pit'[c] = latched[c]
            BY <1>3, <2>1, <4>2
          <5>2. QED
            BY <5>1 DEF ReadingFields
        <4>3. QED
          BY <4>1, <4>2
      <3>2. ReadingFields(pit[c], latched[c])
        BY <1>3
      <3>3. QED
        BY <3>1, <3>2 DEF ReadingFields
    <2>6. status' \in [counter : Counters, mode : 0..5, out : BOOLEAN, null_count : BOOLEAN]
      <3>1. Output(pit[first]) \in BOOLEAN
        BY <1>1, <1>2, OutputType
      <3>2. pit[first].mode \in 0..5 /\ pit[first].new_mode \in BOOLEAN
        BY <1>1, <1>2 DEF Pit
      <3>3. QED
        BY <1>2, <2>1, <3>1, <3>2 DEF StatusOf
    <2>7. QED
      BY <1>1, <2>1, <2>4, <2>5, <2>6, ReadingPreserves
  <1>5. CASE ~(stat /\ ~locked)
    <2>1. pit' = latched /\ UNCHANGED <<status, locked>>
      BY <1>5 DEF ReadBack
    <2> HIDE DEF first, latched
    <2>2. QED
      BY <1>1, <1>3, <2>1, ReadingPreserves DEF HwtimerInv, TypeOK
  <1>6. QED
    BY <1>4, <1>5

\* Reads, and the latch command.
LEMMA ReadsPreserve ==
  ASSUME HwtimerInv, NEW c \in Counters,
         LatchCommand(c) \/ ReadStatus(c) \/ ReadCount(c)
  PROVE  HwtimerInv'
  <1>1. Execute /\ UNCHANGED <<due, irq0, gate2>> /\ status' = status /\ pit \in [Counters -> Pit]
    BY ExecuteType DEF LatchCommand, ReadStatus, ReadCount
  <1>2. /\ locked' \in BOOLEAN
        /\ status' \in [counter : Counters, mode : 0..5, out : BOOLEAN, null_count : BOOLEAN]
    BY <1>1 DEF LatchCommand, ReadStatus, ReadCount, HwtimerInv, TypeOK
  <1>3. CASE LatchCommand(c)
    <2>1. pit' = Latched({c}, pit)
      BY <1>3 DEF LatchCommand
    <2>2. \A p \in Pit : ReadingFields(p, p) /\ ReadingFields(p, [p EXCEPT !.go_read_latch = FALSE])
      BY DEF Pit, ReadingFields
    <2>3. /\ pit' \in [Counters -> Pit]
          /\ \A d \in Counters : pit'[d] = pit[d] \/ pit'[d] = [pit[d] EXCEPT !.go_read_latch = FALSE]
      BY <1>1, <2>1, LatchedType
    <2>4. \A d \in Counters : ReadingFields(pit[d], pit'[d])
      BY <1>1, <2>2, <2>3
    <2>5. QED
      BY <1>1, <1>2, <2>3, <2>4, ReadingPreserves
  <1>4. CASE ReadStatus(c)
    <2>1. pit' = [pit EXCEPT ![c] = [pit[c] EXCEPT !.counterstatus_set = FALSE]]
      BY <1>1, <1>4 DEF ReadStatus
    <2>2. \A p \in Pit : /\ [p EXCEPT !.counterstatus_set = FALSE] \in Pit
                         /\ ReadingFields(p, [p EXCEPT !.counterstatus_set = FALSE])
                         /\ ReadingFields(p, p)
      BY DEF Pit, ReadingFields
    <2>3. pit' \in [Counters -> Pit] /\ \A d \in Counters : ReadingFields(pit[d], pit'[d])
      BY <1>1, <2>1, <2>2
    <2>4. QED
      BY <1>1, <1>2, <2>3, ReadingPreserves
  <1>5. CASE ReadCount(c)
    <2> DEFINE state == CASE pit[c].read_state = 0 -> 3
                          [] pit[c].read_state = 3 -> 0
                          [] OTHER -> pit[c].read_state
               latch == ~(pit[c].read_state = 3)
    <2>1. pit' = [pit EXCEPT ![c] = [pit[c] EXCEPT !.read_state = state, !.go_read_latch = latch]]
      BY <1>1, <1>5 DEF ReadCount
    <2>2. state \in 0..3 /\ latch \in BOOLEAN
      BY <1>1 DEF Pit
    <2> HIDE DEF state, latch
    <2>3. \A p \in Pit : /\ [p EXCEPT !.read_state = state, !.go_read_latch = latch] \in Pit
                         /\ ReadingFields(p, [p EXCEPT !.read_state = state, !.go_read_latch = latch])
                         /\ ReadingFields(p, p)
      BY <2>2 DEF Pit, ReadingFields
    <2>4. pit' \in [Counters -> Pit] /\ \A d \in Counters : ReadingFields(pit[d], pit'[d])
      BY <1>1, <2>1, <2>3
    <2>5. QED
      BY <1>1, <1>2, <2>4, ReadingPreserves
  <1>6. QED
    BY <1>3, <1>4, <1>5

\* Accesses to counter 2 or to the latch of a counter.
LEMMA OtherCounterPreserves ==
  ASSUME HwtimerInv, Execute, UNCHANGED <<due, irq0, locked, status>>,
         gate2' \in BOOLEAN, pit' \in [Counters -> Pit], SameCounter0, FirstByteWaits'
  PROVE  HwtimerInv'
  <1>1. TypeOK' /\ ticks' = ticks
    BY ExecuteType DEF HwtimerInv, TypeOK
  <1>2. QED
    BY <1>1, SameCounter0Preserves DEF HwtimerInv

\* The first byte of a count waits in the latch; nothing else changes.
LEMMA WriteLowPreserves ==
  ASSUME HwtimerInv, NEW c \in Counters, NEW val \in 0..(Radix - 1), WriteLow(c, val)
  PROVE  HwtimerInv'
  <1> DEFINE new == [pit[c] EXCEPT !.write_latch = val, !.write_state = 0]
  <1>1. /\ Execute /\ UNCHANGED <<due, irq0, gate2, locked, status>> /\ gate2 \in BOOLEAN
        /\ pit \in [Counters -> Pit] /\ 0 \in Counters
    BY ExecuteType DEF WriteLow, HwtimerInv, TypeOK
  <1>2. pit' = [pit EXCEPT ![c] = new]
    BY <1>1 DEF WriteLow
  <1>3. pit'[c] = new /\ \A d \in Counters \ {c} : pit'[d] = pit[d]
    BY <1>1, <1>2
  <1>4. val \in 0..(Radix * Radix - 1) /\ val < Radix
    <2>1. Radix \in Nat \ {0, 1}
      BY HwtimerAssumption
    <2>2. 1 * Radix <= Radix * Radix
      BY <2>1
    <2>3. QED
      BY <2>1, <2>2
  <1>5. /\ new \in Pit /\ new.write_latch = val /\ new.mode = pit[c].mode
        /\ new.new_mode = pit[c].new_mode /\ new.update_count = pit[c].update_count
        /\ new.cntr = pit[c].cntr /\ new.delay = pit[c].delay /\ new.start = pit[c].start
    <2> DEFINE halfway(p) == [p EXCEPT !.write_latch = val, !.write_state = 0]
    <2>1. pit[c] \in Pit /\ new = halfway(pit[c])
      BY <1>1
    <2>2. \A p \in Pit : halfway(p) \in Pit
      <3>1. 0 \in 0..3
        OBVIOUS
      <3>2. TAKE p \in Pit
      <3>3. p.cntr \in Counts
        BY DEF Pit
      <3>4. QED
        BY <1>4, <3>1, <3>3, PitIsPitOver, LatchKeepsPit
    <2>3. \A p \in Pit :
            /\ halfway(p).write_latch = val /\ halfway(p).mode = p.mode
            /\ halfway(p).new_mode = p.new_mode /\ halfway(p).update_count = p.update_count
            /\ halfway(p).cntr = p.cntr /\ halfway(p).delay = p.delay
            /\ halfway(p).start = p.start
      BY DEF Pit
    <2> HIDE DEF halfway, new
    <2>4. QED
      BY <2>1, <2>2, <2>3
  <1> HIDE DEF new
  <1>6. pit' \in [Counters -> Pit]
    BY <1>1, <1>2, <1>5
  <1>7. SameCounter0
    BY <1>1, <1>3, <1>5 DEF SameCounter0
  <1>8. FirstByteWaits'
    BY <1>3, <1>4, <1>5 DEF HwtimerInv, FirstByteWaits
  <1>9. QED
    BY <1>1, <1>6, <1>7, <1>8, OtherCounterPreserves

\* A complete count starts a period, or waits for the one that runs.
LEMMA WriteCountPreserves ==
  ASSUME HwtimerInv, NEW c \in Counters, NEW val \in 0..(Radix - 1), WriteCount(c, val)
  PROVE  HwtimerInv'
  <1> DEFINE latch == CompletedLatch(pit[c], val)
             state == IF pit[c].write_state = 0 THEN 3 ELSE pit[c].write_state
             count == Loaded(latch)
             delay == DelayOf(count)
             written == [pit[c] EXCEPT !.write_latch = latch, !.write_state = state, !.cntr = count]
             started == [written EXCEPT !.start = ticks, !.delay = delay, !.new_mode = FALSE]
             waiting == [written EXCEPT !.update_count = TRUE]
  <1>1. /\ phase' \in {"poll", "execute"} /\ commands' \in 0..MaxCommands
        /\ ticks' = ticks /\ ticks \in 0..Horizon /\ ticks \in Nat
        /\ 0 \in Counters /\ pit \in [Counters -> Pit]
        /\ UNCHANGED <<irq0, gate2, locked, status>> /\ pit[c] \in Pit
    BY ExecuteType DEF WriteCount
  <1>2. /\ latch \in 0..(Radix * Radix - 1) /\ count \in 1..(Radix * Radix) /\ count \in Counts
        /\ count > 0
    <2>1. /\ pit[c].write_state # 3
          /\ pit[c].write_state = 0 => pit[c].write_latch < Radix
      BY DEF WriteCount, HwtimerInv, FirstByteWaits
    <2>2. latch \in 0..(Radix * Radix - 1) /\ count \in 1..(Radix * Radix)
      BY <1>1, <2>1, CompletedLatchType
    <2>3. QED
      BY <2>2 DEF Counts
  <1>3. delay \in Nat \ {0}
    BY <1>2, DelayPositive
  <1>4. state \in 1..3
    BY <1>1 DEF Pit
  <1>5. \/ /\ Postponed(c)
           /\ pit' = [pit EXCEPT ![c] = waiting]
           /\ due' = due
        \/ /\ ~Postponed(c)
           /\ pit' = [pit EXCEPT ![c] = started]
           /\ due' = IF c = 0 /\ (pit[c].new_mode \/ pit[c].mode = 0)
                     THEN AddDue(ticks + delay, IF pit[c].mode = 0 THEN RemoveDue(due) ELSE due)
                     ELSE due
    BY DEF WriteCount
  <1> HIDE DEF latch, state, delay, count
  <1>6. /\ waiting \in Pit /\ started \in Pit
        /\ waiting.write_state = state /\ started.write_state = state
        /\ waiting.mode = pit[c].mode /\ started.mode = pit[c].mode
        /\ waiting.new_mode = pit[c].new_mode /\ started.new_mode = FALSE
        /\ waiting.update_count = TRUE /\ started.update_count = pit[c].update_count
        /\ waiting.cntr = count /\ started.cntr = count
        /\ waiting.delay = pit[c].delay /\ started.delay = delay
        /\ waiting.start = pit[c].start /\ started.start = ticks
    <2> DEFINE counted(p) == [p EXCEPT !.write_latch = latch, !.write_state = state, !.cntr = count]
               begun(p) == [p EXCEPT !.start = ticks, !.delay = delay, !.new_mode = FALSE]
               held(p) == [p EXCEPT !.update_count = TRUE]
    <2>1. /\ pit[c] \in Pit /\ written = counted(pit[c])
          /\ started = begun(written) /\ waiting = held(written)
      BY <1>1
    <2>2. \A p \in Pit : /\ counted(p) \in Pit /\ counted(p).write_state = state
                         /\ counted(p).mode = p.mode /\ counted(p).new_mode = p.new_mode
                         /\ counted(p).update_count = p.update_count
                         /\ counted(p).cntr = count /\ counted(p).delay = p.delay
                         /\ counted(p).start = p.start
      <3>1. state \in 0..3
        BY <1>4
      <3>2. \A p \in Pit : counted(p) \in Pit
        BY <1>2, <3>1, PitIsPitOver, LatchKeepsPit
      <3>3. QED
        BY <3>2 DEF Pit
    <2>3. \A p \in Pit : /\ begun(p) \in Pit /\ begun(p).write_state = p.write_state
                         /\ begun(p).mode = p.mode /\ begun(p).new_mode = FALSE
                         /\ begun(p).update_count = p.update_count
                         /\ begun(p).cntr = p.cntr /\ begun(p).delay = delay
                         /\ begun(p).start = ticks
      BY <1>1, <1>3 DEF Pit
    <2>4. \A p \in Pit : /\ held(p) \in Pit /\ held(p).write_state = p.write_state
                         /\ held(p).mode = p.mode /\ held(p).new_mode = p.new_mode
                         /\ held(p).update_count = TRUE
                         /\ held(p).cntr = p.cntr /\ held(p).delay = p.delay
                         /\ held(p).start = p.start
      BY DEF Pit
    <2> HIDE DEF counted, begun, held, written, started, waiting
    <2>5. QED
      BY <2>1, <2>2, <2>3, <2>4
  <1> HIDE DEF waiting, started
  <1>7. CASE Postponed(c)
    <2>1. /\ pit' = [pit EXCEPT ![c] = waiting] /\ due' = due /\ c = 0 /\ pit[0].mode = 2
          /\ ~pit[0].new_mode
      BY <1>5, <1>7 DEF Postponed
    <2>2. pit' \in [Counters -> Pit] /\ pit'[0] = waiting /\ \A d \in Counters \ {0} : pit'[d] = pit[d]
      BY <1>1, <1>6, <2>1
    <2>3. TypeOK'
      BY <1>1, <2>1, <2>2 DEF HwtimerInv, TypeOK
    <2>4. FirstByteWaits'
      BY <1>4, <1>6, <2>2 DEF HwtimerInv, FirstByteWaits
    <2>5. CountPositive' /\ DueAhead' /\ TimerAlive' /\ RateGeneratorKeepsPhase'
      BY <1>1, <1>2, <1>6, <2>1, <2>2
         DEF HwtimerInv, CountPositive, DueAhead, TimerAlive, RateGeneratorKeepsPhase
    <2>6. QED
      BY <2>3, <2>4, <2>5 DEF HwtimerInv
  <1>8. CASE ~Postponed(c)
    <2>1. /\ pit' = [pit EXCEPT ![c] = started]
          /\ due' = IF c = 0 /\ (pit[c].new_mode \/ pit[c].mode = 0)
                    THEN AddDue(ticks + delay, IF pit[c].mode = 0 THEN RemoveDue(due) ELSE due)
                    ELSE due
      BY <1>5, <1>8
    <2>2. pit' \in [Counters -> Pit] /\ pit'[c] = started /\ \A d \in Counters \ {c} : pit'[d] = pit[d]
      BY <1>1, <1>6, <2>1
    <2>3. FirstByteWaits'
      BY <1>4, <1>6, <2>2 DEF HwtimerInv, FirstByteWaits
    <2>4. CASE c = 0 /\ (pit[c].new_mode \/ pit[c].mode = 0)
      <3>1. (IF pit[c].mode = 0 THEN RemoveDue(due) ELSE due) = <<>>
        <4>1. RemoveDue(due) = <<>>
          BY OneDue DEF HwtimerInv, TypeOK, TimerAlive
        <4>2. pit[c].mode # 0 => due = <<>>
          BY <2>4 DEF HwtimerInv, TimerAlive
        <4>3. QED
          BY <4>1, <4>2
      <3>2. ticks + delay \in Nat /\ ticks + delay >= ticks
        BY <1>1, <1>3
      <3>3. due' = <<ticks + delay>>
        <4>1. AddDue(ticks + delay, <<>>) = <<ticks + delay>>
          BY <3>2, AddDueToNone
        <4>2. QED
          BY <2>1, <2>4, <3>1, <4>1
      <3>4. due' \in Seq(Nat)
        BY <3>2, <3>3
      <3>5. TypeOK'
        BY <1>1, <2>2, <3>4 DEF HwtimerInv, TypeOK
      <3>6. CountPositive' /\ DueAhead' /\ TimerAlive'
        BY <1>1, <1>2, <1>6, <2>2, <2>4, <3>2, <3>3 DEF CountPositive, DueAhead, TimerAlive
      <3>7. RateGeneratorKeepsPhase'
        <4>1. DelayOf(pit'[0].cntr) = delay
          BY <1>6, <2>2, <2>4 DEF delay
        <4>2. QED
          BY <1>1, <1>6, <2>2, <2>4, <3>3, <4>1 DEF RateGeneratorKeepsPhase, DelayOf
      <3>8. QED
        BY <2>3, <3>5, <3>6, <3>7 DEF HwtimerInv
    <2>5. CASE c = 0 /\ ~(pit[c].new_mode \/ pit[c].mode = 0)
      <3>1. due' = due /\ pit[0].mode # 2 /\ ~pit[0].new_mode
        BY <1>8, <2>1, <2>5 DEF Postponed
      <3>2. TypeOK'
        BY <1>1, <2>2, <3>1 DEF HwtimerInv, TypeOK
      <3>3. CountPositive' /\ DueAhead' /\ TimerAlive' /\ RateGeneratorKeepsPhase'
        BY <1>1, <1>2, <1>6, <2>2, <2>5, <3>1
           DEF HwtimerInv, CountPositive, DueAhead, TimerAlive, RateGeneratorKeepsPhase
      <3>4. QED
        BY <2>3, <3>2, <3>3 DEF HwtimerInv
    <2>6. CASE c # 0
      <3>1. due' = due /\ SameCounter0
        BY <1>1, <2>1, <2>2, <2>6 DEF SameCounter0
      <3>2. TypeOK'
        BY <1>1, <2>2, <3>1 DEF HwtimerInv, TypeOK
      <3>3. QED
        BY <1>1, <2>3, <3>1, <3>2, SameCounter0Preserves DEF HwtimerInv
    <2>7. QED
      BY <2>4, <2>5, <2>6
  <1>9. QED
    BY <1>7, <1>8

LEMMA GatePreserves ==
  ASSUME HwtimerInv, 2 \in Counters,
         \/ \E on \in BOOLEAN : SetGate2(on)
         \/ \E count \in 0..(Radix * Radix - 1) : CloseGate2InMode0(count)
  PROVE  HwtimerInv'
  <1>1. /\ Execute /\ UNCHANGED <<due, irq0, locked, status>> /\ gate2' \in BOOLEAN
        /\ pit \in [Counters -> Pit] /\ 0 \in Counters /\ ticks \in Nat
    BY ExecuteType DEF SetGate2, CloseGate2InMode0
  <1>2. /\ Latched({2}, pit) \in [Counters -> Pit]
        /\ \A c \in Counters \ {2} : Latched({2}, pit)[c] = pit[c]
        /\ Latched({2}, pit)[2] = [pit[2] EXCEPT !.go_read_latch = FALSE]
    BY <1>1, LatchedType DEF Latched
  <1>3. \E new \in Pit : /\ pit' = [pit EXCEPT ![2] = new]
                         /\ new.write_state = pit[2].write_state
                         /\ new.write_latch = pit[2].write_latch
    <2>1. CASE pit' = pit
      <3>1. pit[2] \in Pit /\ pit' = [pit EXCEPT ![2] = pit[2]]
        BY <1>1, <2>1
      <3>2. QED
        BY <3>1
    <2>2. CASE pit' = Latched({2}, pit)
      <3>1. pit' = [pit EXCEPT ![2] = pit'[2]] /\ pit'[2] \in Pit
        BY <1>1, <1>2, <2>2
      <3>2. pit'[2].write_state = pit[2].write_state /\ pit'[2].write_latch = pit[2].write_latch
        BY <1>1, <1>2, <2>2 DEF Pit
      <3>3. QED
        BY <3>1, <3>2
    <2>3. CASE pit' = [pit EXCEPT ![2].start = ticks]
      <3> DEFINE new == [pit[2] EXCEPT !.start = ticks]
      <3>1. pit' = [pit EXCEPT ![2] = new]
        BY <2>3
      <3>2. new \in Pit /\ new.write_state = pit[2].write_state /\ new.write_latch = pit[2].write_latch
        BY <1>1 DEF Pit
      <3>3. QED
        BY <3>1, <3>2
    <2>4. ASSUME NEW count \in 0..(Radix * Radix - 1),
                 pit' = [Latched({2}, pit) EXCEPT ![2].cntr = count]
          PROVE  \E new \in Pit : /\ pit' = [pit EXCEPT ![2] = new]
                                  /\ new.write_state = pit[2].write_state
                                  /\ new.write_latch = pit[2].write_latch
      <3>1. pit'[2] = [Latched({2}, pit)[2] EXCEPT !.cntr = count]
        BY <1>2, <2>4
      <3>2. \A d \in Counters \ {2} : pit'[d] = pit[d]
        BY <1>2, <2>4
      <3>3. count \in Counts
        BY HwtimerAssumption DEF Counts
      <3>4. /\ pit'[2] \in Pit /\ pit'[2].write_state = pit[2].write_state
            /\ pit'[2].write_latch = pit[2].write_latch
        <4>1. Latched({2}, pit)[2] \in Pit
          BY <1>2
        <4>2. pit'[2] \in Pit
          BY <3>1, <3>3, <4>1 DEF Pit
        <4>3. QED
          BY <1>1, <1>2, <3>1, <4>2 DEF Pit
      <3>5. pit' = [pit EXCEPT ![2] = pit'[2]]
        BY <1>1, <1>2, <2>4, <3>2
      <3>6. QED
        BY <3>4, <3>5
    <2>5. QED
      BY <2>1, <2>2, <2>3, <2>4 DEF SetGate2, CloseGate2InMode0
  <1>4. PICK new \in Pit : /\ pit' = [pit EXCEPT ![2] = new]
                           /\ new.write_state = pit[2].write_state
                           /\ new.write_latch = pit[2].write_latch
    BY <1>3
  <1>5. pit' \in [Counters -> Pit] /\ pit'[2] = new /\ \A d \in Counters \ {2} : pit'[d] = pit[d]
    BY <1>1, <1>4
  <1>6. SameCounter0
    BY <1>1, <1>5 DEF SameCounter0
  <1>7. FirstByteWaits'
    BY <1>4, <1>5 DEF HwtimerInv, FirstByteWaits
  <1>8. QED
    BY <1>1, <1>5, <1>6, <1>7, OtherCounterPreserves

-----------------------------------------------------------------------------
(* The theorems.                                                           *)

LEMMA NextHwtimerInv == HwtimerInv /\ [Next]_vars => HwtimerInv'
  <1> SUFFICES ASSUME HwtimerInv, [Next]_vars PROVE HwtimerInv'
    OBVIOUS
  <1>1. CASE PitEvent
    BY <1>1, PitEventPreserves
  <1>2. CASE Charge
    BY <1>2, ChargePreserves
  <1>3. CASE TakeIrq0 \/ OtherInstruction \/ UNCHANGED vars
    BY <1>3, QuietPreserves
  <1>4. ASSUME NEW c \in Counters, NEW rw \in 1..3, NEW mode \in Modes, ControlWord(c, rw, mode)
        PROVE  HwtimerInv'
    BY <1>4, ControlWordPreserves
  <1>5. ASSUME NEW c \in Counters, LatchCommand(c) \/ ReadStatus(c) \/ ReadCount(c)
        PROVE  HwtimerInv'
    BY <1>5, ReadsPreserve
  <1>6. ASSUME NEW counters \in (SUBSET Counters) \ {{}}, NEW count \in BOOLEAN,
               NEW stat \in BOOLEAN, ReadBack(counters, count, stat)
        PROVE  HwtimerInv'
    BY <1>6, LatchesPreserve
  <1>7. ASSUME NEW c \in Counters \cap Writable, NEW val \in 0..(Radix - 1),
               WriteLow(c, val) \/ WriteCount(c, val)
        PROVE  HwtimerInv'
    BY <1>7, WriteLowPreserves, WriteCountPreserves
  <1>8. CASE /\ 2 \in Counters
             /\ \/ \E on \in BOOLEAN : SetGate2(on)
                \/ \E count \in 0..(Radix * Radix - 1) : CloseGate2InMode0(count)
    BY <1>8, GatePreserves
  <1>9. QED
    BY <1>1, <1>2, <1>3, <1>4, <1>5, <1>6, <1>7, <1>8 DEF Next

LEMMA HwtimerInvHolds == Spec => []HwtimerInv
  BY InitHwtimerInv, NextHwtimerInv, PTL DEF Spec

\* Counts stay within their digits, and no period is 0.
THEOREM HwtimerTypeCorrect == Spec => []TypeOK
  BY HwtimerInvHolds, PTL DEF HwtimerInv

\* One event while counter 0 runs in a periodic mode, none before its count,
\* and one for a one-shot until it has run, for every sequence of accesses.
THEOREM HwtimerTimerAlive == Spec => []TimerAlive
  BY HwtimerInvHolds, PTL DEF HwtimerInv

\* The rate generator never drifts, whatever counts are written and whatever
\* the two clocks' rates are.
THEOREM HwtimerRateGeneratorKeepsPhase == Spec => []RateGeneratorKeepsPhase
  BY HwtimerInvHolds, PTL DEF HwtimerInv

-----------------------------------------------------------------------------
(* The status latch, by itself.                                            *)

SameStatusBit(c) == pit'[c].counterstatus_set = pit[c].counterstatus_set

LEMMA SameStatusPreserves ==
  ASSUME StatusKept, UNCHANGED <<locked, status, asked>>, \A c \in Counters : SameStatusBit(c)
  PROVE  StatusKept'
  BY DEF StatusKept, SameStatusBit

\* Reading counter c or reprogramming it drops a status of that counter, with
\* the lock, and of no other.
LEMMA DroppedStatusPreserves ==
  ASSUME TypeOK, StatusKept, NEW c \in Counters, asked' = AskedBut(c), status' = status,
         locked' = (locked /\ ~pit[c].counterstatus_set),
         pit'[c].counterstatus_set = FALSE,
         \A d \in Counters \ {c} : SameStatusBit(d)
  PROVE  StatusKept'
  <1>1. pit[c].counterstatus_set \in BOOLEAN /\ locked \in BOOLEAN
    BY DEF TypeOK, Pit
  <1>2. CASE pit[c].counterstatus_set
    <2>1. locked /\ asked = {status} /\ status.counter = c
      BY <1>2 DEF StatusKept
    <2>2. ~locked' /\ asked' = {}
      BY <1>2, <2>1 DEF AskedBut
    <2>3. \A d \in Counters \ {c} : ~pit[d].counterstatus_set
      BY <2>1 DEF StatusKept
    <2>4. QED
      BY <2>2, <2>3 DEF StatusKept, SameStatusBit
  <1>3. CASE ~pit[c].counterstatus_set
    <2>1. \A s \in asked : s.counter # c
      BY <1>3 DEF StatusKept
    <2>2. asked' = asked
      BY <2>1 DEF AskedBut
    <2>3. locked' = locked /\ SameStatusBit(c)
      BY <1>1, <1>3 DEF SameStatusBit
    <2>4. QED
      BY <2>2, <2>3, SameStatusPreserves
  <1>4. QED
    BY <1>1, <1>2, <1>3

LEMMA LatchedKeepsStatus ==
  ASSUME NEW table \in [Counters -> Pit], NEW counters, NEW c \in Counters
  PROVE  Latched(counters, table)[c].counterstatus_set = table[c].counterstatus_set
  <1>1. \A p \in Pit : [p EXCEPT !.go_read_latch = FALSE].counterstatus_set = p.counterstatus_set
    BY DEF Pit
  <1>2. QED
    BY <1>1 DEF Latched

\* A request is taken down when no status waits, and is without effect else.
LEMMA ReadBackKeepsStatus ==
  ASSUME TypeOK, StatusKept, NEW counters \in (SUBSET Counters) \ {{}},
         NEW count \in BOOLEAN, NEW stat \in BOOLEAN, ReadBack(counters, count, stat)
  PROVE  StatusKept'
  <1> DEFINE first == CHOOSE c \in counters : \A d \in counters : c <= d
             latched == IF count THEN Latched(counters, pit) ELSE pit
  <1>1. first \in Counters
    BY FirstOfCounters
  <1>2. /\ pit \in [Counters -> Pit] /\ locked \in BOOLEAN
        /\ latched \in [Counters -> Pit]
        /\ \A c \in Counters : latched[c].counterstatus_set = pit[c].counterstatus_set
    BY LatchedType, LatchedKeepsStatus DEF TypeOK
  <1>3. asked' = IF stat /\ asked = {} THEN {StatusOf(first)} ELSE asked
    BY DEF ReadBack
  <1>4. CASE stat /\ ~locked
    <2>1. /\ pit' = [latched EXCEPT ![first].counterstatus_set = TRUE]
          /\ status' = StatusOf(first) /\ locked' = TRUE
      BY <1>4 DEF ReadBack
    <2>2. asked = {} /\ \A c \in Counters : ~pit[c].counterstatus_set
      BY <1>4 DEF StatusKept
    <2>3. asked' = {status'} /\ status'.counter = first
      BY <1>3, <1>4, <2>1, <2>2 DEF StatusOf
    <2> HIDE DEF first, latched
    <2>4. pit'[first].counterstatus_set = TRUE
      <3>1. \A p \in Pit : [p EXCEPT !.counterstatus_set = TRUE].counterstatus_set = TRUE
        BY DEF Pit
      <3>2. QED
        BY <1>1, <1>2, <2>1, <3>1
    <2>5. \A c \in Counters \ {first} : pit'[c].counterstatus_set = pit[c].counterstatus_set
      BY <1>1, <1>2, <2>1
    <2>6. QED
      BY <2>1, <2>2, <2>3, <2>4, <2>5 DEF StatusKept
  <1>5. CASE ~(stat /\ ~locked)
    <2>1. pit' = latched /\ UNCHANGED <<status, locked>>
      BY <1>5 DEF ReadBack
    <2>2. asked' = asked
      BY <1>2, <1>3, <1>5 DEF StatusKept
    <2>3. \A c \in Counters : SameStatusBit(c)
      BY <1>2, <2>1 DEF SameStatusBit
    <2>4. QED
      BY <2>1, <2>2, <2>3, SameStatusPreserves
  <1>6. QED
    BY <1>4, <1>5

\* Steps that have nothing to do with the status.
LEMMA OthersKeepStatus ==
  ASSUME TypeOK, StatusKept,
         \/ PitEvent \/ Charge \/ TakeIrq0 \/ OtherInstruction \/ UNCHANGED vars
         \/ \E c \in Counters : LatchCommand(c)
         \/ \E c \in Counters \cap Writable, val \in 0..(Radix - 1) :
              WriteLow(c, val) \/ WriteCount(c, val)
         \/ \E on \in BOOLEAN : SetGate2(on)
         \/ \E count \in 0..(Radix * Radix - 1) : CloseGate2InMode0(count)
  PROVE  StatusKept'
  <1> USE DEF SameStatusBit
  <1>1. pit \in [Counters -> Pit] /\ \A c \in Counters : pit[c] \in Pit
    BY DEF TypeOK
  <1>2. ASSUME PitEvent \/ Charge \/ TakeIrq0 \/ OtherInstruction \/ UNCHANGED vars
        PROVE  UNCHANGED <<locked, status, asked>> /\ \A c \in Counters : SameStatusBit(c)
    <2>1. CASE PitEvent
      <3> DEFINE delay == IF pit[0].update_count THEN DelayOf(pit[0].cntr) ELSE pit[0].delay
                 start == pit[0].start + pit[0].delay
      <3>1. \/ pit' = pit
            \/ pit' = [pit EXCEPT ![0].start = @ + pit[0].delay, ![0].delay = delay,
                                  ![0].update_count = FALSE]
        BY <2>1 DEF PitEvent
      <3> HIDE DEF delay
      <3>2. ASSUME NEW c \in Counters
            PROVE  \/ pit'[c] = pit[c]
                   \/ pit'[c] = [pit[c] EXCEPT !.start = start, !.delay = delay,
                                               !.update_count = FALSE]
        BY <1>1, <3>1
      <3> HIDE DEF start
      <3>3. \A p \in Pit : [p EXCEPT !.start = start, !.delay = delay,
                          !.update_count = FALSE].counterstatus_set = p.counterstatus_set
        BY DEF Pit
      <3>4. \A c \in Counters : SameStatusBit(c)
        BY <1>1, <3>2, <3>3
      <3>5. QED
        BY <2>1, <3>4 DEF PitEvent
    <2>2. CASE Charge \/ TakeIrq0 \/ OtherInstruction \/ UNCHANGED vars
      BY <2>2 DEF Charge, TakeIrq0, OtherInstruction, vars
    <2>3. QED
      BY <1>2, <2>1, <2>2
  <1>3. ASSUME NEW d \in Counters, LatchCommand(d)
        PROVE  UNCHANGED <<locked, status, asked>> /\ \A c \in Counters : SameStatusBit(c)
    BY <1>1, <1>3, LatchedKeepsStatus DEF LatchCommand
  <1>4. ASSUME NEW d \in Counters \cap Writable, NEW val \in 0..(Radix - 1),
               WriteLow(d, val) \/ WriteCount(d, val)
        PROVE  UNCHANGED <<locked, status, asked>> /\ \A c \in Counters : SameStatusBit(c)
    <2>1. CASE WriteLow(d, val)
      BY <1>1, <2>1 DEF WriteLow, Pit
    <2>2. CASE WriteCount(d, val)
      <3> DEFINE latch == CompletedLatch(pit[d], val)
                 state == IF pit[d].write_state = 0 THEN 3 ELSE pit[d].write_state
                 written == [pit[d] EXCEPT !.write_latch = latch, !.write_state = state,
                                           !.cntr = Loaded(latch)]
                 now == [written EXCEPT !.start = ticks, !.delay = DelayOf(Loaded(latch)),
                                        !.new_mode = FALSE]
                 later == [written EXCEPT !.update_count = TRUE]
      <3>1. /\ UNCHANGED <<locked, status, asked>>
            /\ pit' = [pit EXCEPT ![d] = now] \/ pit' = [pit EXCEPT ![d] = later]
        BY <2>2 DEF WriteCount
      <3>2. /\ now.counterstatus_set = pit[d].counterstatus_set
            /\ later.counterstatus_set = pit[d].counterstatus_set
        <4> HIDE DEF latch, state
        <4>1. pit[d] \in Pit
          BY <1>1
        <4>2. \A p \in Pit : \A u, v, w :
                [[p EXCEPT !.write_latch = u, !.write_state = v, !.cntr = w]
                   EXCEPT !.update_count = TRUE].counterstatus_set = p.counterstatus_set
          BY DEF Pit
        <4>3. \A p \in Pit : \A u, v, w, t, y :
                [[p EXCEPT !.write_latch = u, !.write_state = v, !.cntr = w]
                   EXCEPT !.start = t, !.delay = y,
                          !.new_mode = FALSE].counterstatus_set = p.counterstatus_set
          BY DEF Pit
        <4>4. QED
          BY <4>1, <4>2, <4>3
      <3> HIDE DEF now, later
      <3>3. ASSUME NEW p, p.counterstatus_set = pit[d].counterstatus_set,
                   pit' = [pit EXCEPT ![d] = p]
            PROVE  \A c \in Counters : SameStatusBit(c)
        BY <1>1, <3>3
      <3>4. QED
        BY <3>1, <3>2, <3>3
    <2>3. QED
      BY <1>4, <2>1, <2>2
  <1>5. ASSUME NEW on \in BOOLEAN, SetGate2(on)
        PROVE  UNCHANGED <<locked, status, asked>> /\ \A c \in Counters : SameStatusBit(c)
    <2>1. CASE pit' = [pit EXCEPT ![2].start = ticks]
      <3>1. \A p \in Pit : [p EXCEPT !.start = ticks].counterstatus_set = p.counterstatus_set
        BY DEF Pit
      <3>2. ASSUME NEW c \in Counters
            PROVE  pit'[c] = pit[c] \/ pit'[c] = [pit[c] EXCEPT !.start = ticks]
        BY <1>1, <2>1
      <3>3. \A c \in Counters : SameStatusBit(c)
        BY <1>1, <3>1, <3>2
      <3>4. QED
        BY <1>5, <3>3 DEF SetGate2
    <2>2. CASE pit' = Latched({2}, pit)
      BY <1>1, <1>5, <2>2, LatchedKeepsStatus DEF SetGate2
    <2>3. CASE pit' = pit
      BY <1>5, <2>3 DEF SetGate2
    <2>4. QED
      BY <1>5, <2>1, <2>2, <2>3 DEF SetGate2
  <1>6. ASSUME NEW count \in 0..(Radix * Radix - 1), CloseGate2InMode0(count)
        PROVE  UNCHANGED <<locked, status, asked>> /\ \A c \in Counters : SameStatusBit(c)
    <2>1. /\ Latched({2}, pit) \in [Counters -> Pit]
          /\ pit' = [Latched({2}, pit) EXCEPT ![2].cntr = count]
      BY <1>1, <1>6, LatchedType DEF CloseGate2InMode0
    <2>2. \A c \in Counters :
            pit'[c].counterstatus_set = Latched({2}, pit)[c].counterstatus_set
      <3>1. \A p \in Pit : [p EXCEPT !.cntr = count].counterstatus_set = p.counterstatus_set
        BY DEF Pit
      <3> HIDE DEF Latched
      <3>2. ASSUME NEW c \in Counters
            PROVE  \/ pit'[c] = Latched({2}, pit)[c]
                   \/ pit'[c] = [Latched({2}, pit)[c] EXCEPT !.cntr = count]
        BY <2>1
      <3>3. QED
        BY <2>1, <3>1, <3>2
    <2>3. QED
      BY <1>1, <1>6, <2>2, LatchedKeepsStatus DEF CloseGate2InMode0
  <1>7. UNCHANGED <<locked, status, asked>> /\ \A c \in Counters : SameStatusBit(c)
    BY <1>2, <1>3, <1>4, <1>5, <1>6
  <1>8. QED
    BY <1>7, SameStatusPreserves

\* The latch is locked exactly as long as the guest has a status to read, which
\* is the one it asked for: only a read at the port of its counter or a control
\* word for that counter gives it up, and either unlocks the latch.
THEOREM HwtimerStatusKept == Spec => []StatusKept
  <1>1. Init => StatusKept
    BY DEF Init, StatusKept
  <1>2. TypeOK /\ StatusKept /\ [Next]_vars => StatusKept'
    <2> SUFFICES ASSUME TypeOK, StatusKept, [Next]_vars PROVE StatusKept'
      OBVIOUS
    <2>1. pit \in [Counters -> Pit]
      BY DEF TypeOK
    <2>2. ASSUME NEW c \in Counters, NEW rw \in 1..3, NEW mode \in Modes, ControlWord(c, rw, mode)
          PROVE  StatusKept'
      <3>1. /\ pit'[c].counterstatus_set = FALSE
            /\ \A d \in Counters \ {c} : SameStatusBit(d)
        BY <2>1, <2>2 DEF ControlWord, Reprogrammed, SameStatusBit, Pit
      <3>2. /\ asked' = AskedBut(c) /\ status' = status
            /\ locked' = (locked /\ ~pit[c].counterstatus_set)
        BY <2>2 DEF ControlWord
      <3>3. QED
        BY <3>1, <3>2, DroppedStatusPreserves
    <2>3. ASSUME NEW c \in Counters, ReadStatus(c) \/ ReadCount(c)
          PROVE  StatusKept'
      <3>1. /\ pit'[c].counterstatus_set = FALSE
            /\ \A d \in Counters \ {c} : SameStatusBit(d)
        BY <2>1, <2>3 DEF ReadStatus, ReadCount, SameStatusBit, Pit
      <3>2. /\ asked' = AskedBut(c) /\ status' = status
            /\ locked' = (locked /\ ~pit[c].counterstatus_set)
        BY <2>3 DEF ReadStatus, ReadCount, TypeOK
      <3>3. QED
        BY <3>1, <3>2, DroppedStatusPreserves
    <2>4. ASSUME NEW counters \in (SUBSET Counters) \ {{}}, NEW count \in BOOLEAN,
                 NEW stat \in BOOLEAN, ReadBack(counters, count, stat)
          PROVE  StatusKept'
      BY <2>4, ReadBackKeepsStatus
    <2>5. QED
      BY <2>2, <2>3, <2>4, OthersKeepStatus DEF Next
  <1>3. QED
    BY <1>1, <1>2, HwtimerTypeCorrect, PTL DEF Spec

=====================
