------------------------- MODULE RecordReplayProofs -------------------------
(* Proofs about RecordReplay, for any keys, delays and bounds: what the    *)
(* recording holds, what a replay injects, and that the replayed machine   *)
(* reads what the recorded one read.                                       *)
EXTENDS RecordReplay, SequenceTheorems, WellFoundedInduction, TLAPS

Event == [time : Nat, key : Keys, pressed : BOOLEAN]
Entry == [time : Nat, cb : {"msec", "xfer", "replay"}]

-----------------------------------------------------------------------------
(* Sequences.                                                              *)

Prefix(s, t) == Len(s) <= Len(t) /\ \A i \in 1..Len(s) : s[i] = t[i]

\* The two ways to say that one sequence begins another.
LEMMA PrefixIsSubSeq ==
  ASSUME NEW S, NEW s \in Seq(S), NEW t \in Seq(S), Prefix(s, t)
  PROVE  s = SubSeq(t, 1, Len(s))
  <1> DEFINE n == Len(s)
             cut == SubSeq(t, 1, n)
  <1>1. n \in Nat /\ Len(t) \in Nat /\ n <= Len(t)
    BY LenProperties DEF Prefix
  <1>2. \A i \in 1..n : t[i] \in S /\ s[i] = t[i]
    BY <1>1, ElementOfSeq DEF Prefix
  <1> HIDE DEF n
  <1>3. cut \in Seq(S) /\ Len(cut) = n /\ \A i \in 1..n : cut[i] = t[i]
    <2>1. /\ cut \in Seq(S) /\ Len(cut) = IF 1 <= n THEN n - 1 + 1 ELSE 0
          /\ \A i \in 1..(n - 1 + 1) : cut[i] = t[1 + i - 1]
      BY <1>1, <1>2, SubSeqProperties
    <2>2. QED
      BY <1>1, <2>1
  <1>4. QED
    BY <1>2, <1>3, SeqEqual DEF n

\* A concatenation, by the lengths of its parts.
LEMMA ConcatOf ==
  ASSUME NEW S, NEW s \in Seq(S), NEW t \in Seq(S), NEW m, NEW n, Len(s) = m, Len(t) = n
  PROVE  /\ s \o t \in Seq(S)
         /\ Len(s \o t) = m + n
         /\ \A i \in 1..(m + n) : (s \o t)[i] = IF i <= m THEN s[i] ELSE t[i - m]
  BY ConcatProperties

\* Two elements.
LEMMA PairOf ==
  ASSUME NEW S, NEW a \in S, NEW b \in S
  PROVE  /\ <<a>> \o <<b>> \in Seq(S) /\ Len(<<a>> \o <<b>>) = 2
         /\ (<<a>> \o <<b>>)[1] = a /\ (<<a>> \o <<b>>)[2] = b
  <1> SUFFICES ASSUME NEW s, s = <<a>>, NEW pair, pair = Append(s, b)
               PROVE  /\ pair = s \o <<b>> /\ pair \in Seq(S) /\ Len(pair) = 2
                      /\ pair[1] = a /\ pair[2] = b
    OBVIOUS
  <1>1. s \in Seq(S) /\ Len(s) = 1 /\ s[1] = a
    OBVIOUS
  <1>2. pair = s \o <<b>>
    BY <1>1, AppendIsConcat
  <1>3. /\ pair \in Seq(S) /\ Len(pair) = Len(s) + 1
        /\ \A i \in 1..Len(s) : pair[i] = s[i]
        /\ pair[Len(s) + 1] = b
    BY <1>1, AppendProperties
  <1>4. QED
    BY <1>1, <1>2, <1>3

-----------------------------------------------------------------------------
(* The queue.                                                              *)

QueueOK(q, now) ==
  /\ q \in Seq(Entry)
  /\ \A i \in 1..Len(q) : q[i].time >= now
  /\ \A i, j \in 1..Len(q) : i < j => q[i].time <= q[j].time

NoReplay(q) == \A i \in 1..Len(q) : q[i].cb # "replay"

OneReplay(q, time) ==
  \E i \in 1..Len(q) :
    /\ q[i].cb = "replay" /\ q[i].time = time
    /\ \A j \in 1..Len(q) : q[j].cb = "replay" => j = i

\* Every set of numbers has a least one.
LEMMA LeastOfNaturals ==
  ASSUME NEW T \in SUBSET Nat, T # {}
  PROVE  \E n \in T : \A m \in T : n <= m
  <1> DEFINE R == {ss \in Nat \X Nat : ss[1] < ss[2]}
  <1>1. IsWellFoundedOn(R, Nat)
    BY NatLessThanWellFounded DEF OpToRel
  <1>2. PICK n \in T : \A m \in T : <<m, n>> \notin R
    <2> HIDE DEF R
    <2> QED
      BY <1>1, WFMin
  <1>3. \A m \in T : m \in Nat /\ n \in Nat /\ ~(m < n)
    BY <1>2
  <1>4. QED
    BY <1>3

\* The place is behind all the events that are not later.
LEMMA InsertPlaceSplits ==
  ASSUME NEW now \in Nat, NEW q, QueueOK(q, now), NEW time \in Nat
  PROVE  /\ InsertPlace(q, time) \in 1..(Len(q) + 1)
         /\ \A i \in 1..Len(q) : i < InsertPlace(q, time) => q[i].time <= time
         /\ \A i \in 1..Len(q) : i >= InsertPlace(q, time) => q[i].time > time
  <1> DEFINE later == {k \in 1..Len(q) : q[k].time > time}
             n == Len(q)
  <1>1. n \in Nat /\ \A i \in 1..n : q[i].time \in Nat
    <2>1. q \in Seq(Entry)
      BY DEF QueueOK
    <2>2. n \in Nat /\ \A i \in 1..n : q[i] \in Entry
      BY <2>1, LenProperties, ElementOfSeq
    <2>3. QED
      BY <2>2 DEF Entry
  <1>2. \A i, j \in 1..n : i < j => q[i].time <= q[j].time
    BY DEF QueueOK
  <1>3. CASE later = {}
    <2>1. InsertPlace(q, time) = n + 1
      BY <1>3 DEF InsertPlace
    <2>2. \A i \in 1..n : q[i].time <= time
      BY <1>1, <1>3
    <2> HIDE DEF n
    <2>3. QED
      BY <1>1, <2>1, <2>2 DEF n
  <1>4. CASE later # {}
    <2>1. later \in SUBSET Nat
      BY <1>1
    <2>2. \E k \in later : \A j \in later : k <= j
      <3> HIDE DEF later
      <3> QED
        BY <1>4, <2>1, LeastOfNaturals
    <2>3. /\ InsertPlace(q, time) \in later
          /\ \A j \in later : InsertPlace(q, time) <= j
      <3>1. InsertPlace(q, time) = CHOOSE k \in later : \A j \in later : k <= j
        BY <1>4 DEF InsertPlace
      <3> HIDE DEF later
      <3>2. QED
        BY <2>2, <3>1
    <2> DEFINE k == InsertPlace(q, time)
    <2>4. k \in 1..n /\ q[k].time > time /\ \A j \in 1..n : q[j].time > time => k <= j
      BY <2>3
    <2> HIDE DEF k, n, later
    <2>5. \A i \in 1..n : i < k => q[i].time <= time
      BY <1>1, <2>4
    <2>6. \A i \in 1..n : i >= k => q[i].time > time
      BY <1>1, <1>2, <2>4
    <2>7. QED
      BY <1>1, <2>4, <2>5, <2>6 DEF k, n
  <1>5. QED
    BY <1>3, <1>4

\* Adding an event puts it between the earlier and the later ones.
LEMMA AddEventInserts ==
  ASSUME ticks \in Nat, NEW q, QueueOK(q, ticks), NEW delay \in Nat,
         NEW cb \in {"msec", "xfer", "replay"}
  PROVE  LET k == InsertPlace(q, ticks + delay)
             e == [time |-> ticks + delay, cb |-> cb]
         IN /\ AddEvent(q, delay, cb) \in Seq(Entry)
            /\ Len(AddEvent(q, delay, cb)) = Len(q) + 1
            /\ \A i \in 1..(Len(q) + 1) :
                 AddEvent(q, delay, cb)[i] =
                   IF i < k THEN q[i] ELSE IF i = k THEN e ELSE q[i - 1]
  <1> DEFINE k == InsertPlace(q, ticks + delay)
             e == [time |-> ticks + delay, cb |-> cb]
             n == Len(q)
             low == SubSeq(q, 1, k - 1)
             high == SubSeq(q, k, n)
  <1>1. ticks + delay \in Nat /\ e \in Entry /\ q \in Seq(Entry)
    BY DEF Entry, QueueOK
  <1>2. k \in 1..(n + 1)
    BY <1>1, InsertPlaceSplits
  <1>3. n \in Nat /\ \A i \in 1..n : q[i] \in Entry
    BY <1>1, LenProperties, ElementOfSeq
  <1>4. AddEvent(q, delay, cb) = low \o <<e>> \o high
    BY DEF AddEvent
  <1> HIDE DEF k, e, n
  <1>5. low \in Seq(Entry) /\ Len(low) = k - 1 /\ \A i \in 1..(k - 1) : low[i] = q[i]
    <2>1. k - 1 \in Nat /\ \A i \in 1..(k - 1) : q[i] \in Entry
      BY <1>2, <1>3
    <2>2. /\ low \in Seq(Entry) /\ Len(low) = IF 1 <= k - 1 THEN (k - 1) - 1 + 1 ELSE 0
          /\ \A i \in 1..((k - 1) - 1 + 1) : low[i] = q[1 + i - 1]
      BY <2>1, SubSeqProperties
    <2> HIDE DEF low
    <2>3. QED
      BY <2>1, <2>2
  <1>6. /\ high \in Seq(Entry) /\ Len(high) = n - k + 1
        /\ \A i \in 1..(n - k + 1) : high[i] = q[k + i - 1]
    <2>1. k \in Int /\ n \in Int /\ \A i \in k..n : q[i] \in Entry
      BY <1>2, <1>3
    <2>2. /\ high \in Seq(Entry) /\ Len(high) = IF k <= n THEN n - k + 1 ELSE 0
          /\ \A i \in 1..(n - k + 1) : high[i] = q[k + i - 1]
      BY <2>1, SubSeqProperties
    <2> HIDE DEF high
    <2>3. QED
      BY <1>2, <1>3, <2>2
  <1> HIDE DEF low, high
  <1> DEFINE front == low \o <<e>>
  <1>7. front = Append(low, e)
    BY <1>1, <1>5, AppendIsConcat
  <1> HIDE DEF front
  <1>8. /\ front \in Seq(Entry) /\ Len(front) = k
        /\ \A i \in 1..k : front[i] = IF i <= k - 1 THEN q[i] ELSE e
    <2>1. /\ front \in Seq(Entry) /\ Len(front) = Len(low) + 1
          /\ \A i \in 1..Len(low) : front[i] = low[i]
          /\ front[Len(low) + 1] = e
      BY <1>1, <1>5, <1>7, AppendProperties
    <2>2. \A i \in 1..k : i \in 1..(k - 1) \/ (i = k /\ ~(i <= k - 1))
      BY <1>2, <1>3
    <2>3. (k - 1) + 1 = k /\ \A i \in 1..(k - 1) : i <= k - 1
      BY <1>2, <1>3
    <2>4. QED
      BY <1>5, <2>1, <2>2, <2>3
  <1> DEFINE whole == front \o high
  <1>9. /\ whole \in Seq(Entry) /\ Len(whole) = k + (n - k + 1)
        /\ \A i \in 1..(k + (n - k + 1)) :
             whole[i] = IF i <= k THEN front[i] ELSE high[i - k]
    BY <1>6, <1>8, ConcatOf
  <1> HIDE DEF whole
  <1>10. k + (n - k + 1) = n + 1
    BY <1>2, <1>3
  <1>11. ASSUME NEW i \in 1..(n + 1)
         PROVE  whole[i] = IF i < k THEN q[i] ELSE IF i = k THEN e ELSE q[i - 1]
    <2>1. CASE i <= k
      BY <1>2, <1>3, <1>8, <1>9, <1>10, <2>1
    <2>2. CASE i > k
      <3>1. i - k \in 1..(n - k + 1) /\ k + (i - k) - 1 = i - 1 /\ ~(i <= k) /\ ~(i < k) /\ i # k
        BY <1>2, <1>3, <2>2
      <3>2. high[i - k] = q[i - 1]
        BY <1>6, <3>1
      <3>3. QED
        BY <1>9, <1>10, <3>1, <3>2
    <2>3. QED
      BY <1>2, <1>3, <2>1, <2>2
  <1>12. AddEvent(q, delay, cb) = whole
    BY <1>4 DEF front, whole
  <1>13. QED
    BY <1>9, <1>10, <1>11, <1>12 DEF k, e, n

\* An event that is added keeps the order, and the replayed event that waits.
LEMMA AddEventKeeps ==
  ASSUME ticks \in Nat, NEW q, QueueOK(q, ticks), NEW delay \in Nat,
         NEW cb \in {"msec", "xfer", "replay"}
  PROVE  /\ QueueOK(AddEvent(q, delay, cb), ticks)
         /\ cb # "replay" /\ NoReplay(q) => NoReplay(AddEvent(q, delay, cb))
         /\ \A time : cb # "replay" /\ OneReplay(q, time)
                       => OneReplay(AddEvent(q, delay, cb), time)
         /\ cb = "replay" /\ NoReplay(q) => OneReplay(AddEvent(q, delay, cb), ticks + delay)
  <1> DEFINE time == ticks + delay
             k == InsertPlace(q, time)
             e == [time |-> time, cb |-> cb]
             n == Len(q)
             new == AddEvent(q, delay, cb)
  <1>1. /\ time \in Nat /\ time >= ticks /\ n \in Nat /\ ticks \in Nat
        /\ \A i \in 1..n : q[i].time \in Nat
    <2>1. q \in Seq(Entry)
      BY DEF QueueOK
    <2>2. n \in Nat /\ \A i \in 1..n : q[i] \in Entry
      BY <2>1, LenProperties, ElementOfSeq
    <2>3. QED
      BY <2>2 DEF Entry
  <1>2. /\ k \in 1..(n + 1)
        /\ \A i \in 1..n : i < k => q[i].time <= time
        /\ \A i \in 1..n : i >= k => q[i].time > time
    BY <1>1, InsertPlaceSplits
  <1>3. /\ new \in Seq(Entry) /\ Len(new) = n + 1
        /\ \A i \in 1..(n + 1) :
             new[i] = IF i < k THEN q[i] ELSE IF i = k THEN e ELSE q[i - 1]
    BY AddEventInserts
  <1>4. e.time = time /\ e.cb = cb
    OBVIOUS
  <1>5. /\ \A i \in 1..n : q[i].time >= ticks
        /\ \A i, j \in 1..n : i < j => q[i].time <= q[j].time
    BY DEF QueueOK
  <1> HIDE DEF k, e, n, new
  <1>6. ASSUME NEW i \in 1..(n + 1)
        PROVE  \/ i < k /\ i \in 1..n /\ new[i] = q[i]
               \/ i = k /\ new[i] = e
               \/ i > k /\ i - 1 \in 1..n /\ i - 1 >= k /\ new[i] = q[i - 1]
    BY SMTT(60), <1>1, <1>2, <1>3
  <1>7. ASSUME NEW i \in 1..n
        PROVE  \/ i < k /\ i \in 1..(n + 1) /\ new[i] = q[i]
               \/ i >= k /\ i + 1 \in 1..(n + 1) /\ new[i + 1] = q[i]
    <2>1. i \in 1..(n + 1) /\ i + 1 \in 1..(n + 1) /\ (i + 1) - 1 = i
      BY <1>1
    <2>2. i < k \/ (~(i + 1 < k) /\ i + 1 # k /\ i >= k)
      BY <1>1, <1>2
    <2>3. QED
      BY <1>3, <2>1, <2>2
  <1>8. k \in 1..(n + 1) /\ new[k] = e
    BY <1>2, <1>3
  <1>9. QueueOK(new, ticks)
    <2>1. ASSUME NEW i \in 1..(n + 1) PROVE new[i].time >= ticks
      BY <1>1, <1>4, <1>5, <1>6
    <2>2. ASSUME NEW i \in 1..(n + 1), NEW j \in 1..(n + 1), i < j
          PROVE  new[i].time <= new[j].time
      <3>1. CASE j < k
        <4>1. /\ i \in 1..n /\ j \in 1..n /\ new[i] = q[i] /\ new[j] = q[j]
          BY <1>1, <1>2, <1>6, <2>2, <3>1
        <4>2. QED
          BY <1>5, <2>2, <4>1
      <3>2. CASE j = k
        <4>1. i \in 1..n /\ i < k /\ new[i] = q[i] /\ new[j] = e
          BY <1>1, <1>2, <1>6, <2>2, <3>2
        <4>2. QED
          BY <1>2, <1>4, <4>1
      <3>3. CASE j > k /\ i = k
        <4>1. j - 1 \in 1..n /\ j - 1 >= k /\ new[j] = q[j - 1] /\ new[i] = e
          BY <1>1, <1>2, <1>6, <3>3
        <4>2. q[j - 1].time > time /\ q[j - 1].time \in Nat
          BY <1>1, <1>2, <4>1
        <4>3. QED
          BY <1>1, <1>4, <4>1, <4>2
      <3>4. CASE j > k /\ i < k
        <4>1. /\ j - 1 \in 1..n /\ j - 1 >= k /\ new[j] = q[j - 1]
              /\ i \in 1..n /\ new[i] = q[i]
          BY <1>1, <1>2, <1>6, <3>4
        <4>2. q[j - 1].time > time /\ q[j - 1].time \in Nat /\ q[i].time <= time /\ q[i].time \in Nat
          BY <1>1, <1>2, <3>4, <4>1
        <4>3. QED
          BY <1>1, <4>1, <4>2
      <3>5. CASE j > k /\ i > k
        <4>1. /\ j - 1 \in 1..n /\ new[j] = q[j - 1] /\ i - 1 \in 1..n /\ new[i] = q[i - 1]
              /\ i - 1 < j - 1
          BY <1>1, <1>2, <1>6, <2>2, <3>5
        <4>2. QED
          BY <1>5, <4>1
      <3>6. QED
        BY <1>1, <1>2, <3>1, <3>2, <3>3, <3>4, <3>5
    <2>3. QED
      BY <1>3, <2>1, <2>2 DEF QueueOK
  <1>10. ASSUME cb # "replay", NoReplay(q) PROVE NoReplay(new)
    <2>1. \A i \in 1..n : q[i].cb # "replay"
      BY <1>10 DEF NoReplay, n
    <2>2. \A i \in 1..(n + 1) : new[i].cb # "replay"
      BY <1>4, <1>6, <1>10, <2>1
    <2>3. QED
      BY <1>3, <2>2 DEF NoReplay
  <1>11. ASSUME NEW at, cb # "replay", OneReplay(q, at) PROVE OneReplay(new, at)
    <2>1. PICK i \in 1..n : /\ q[i].cb = "replay" /\ q[i].time = at
                            /\ \A j \in 1..n : q[j].cb = "replay" => j = i
      BY <1>11 DEF OneReplay, n
    <2> DEFINE p == IF i < k THEN i ELSE i + 1
    <2>2. p \in 1..(n + 1) /\ new[p] = q[i]
      BY <1>1, <1>2, <1>7
    <2>3. ASSUME NEW j \in 1..(n + 1), new[j].cb = "replay" PROVE j = p
      <3>1. CASE j < k
        BY <1>1, <1>2, <1>6, <2>1, <2>3, <3>1
      <3>2. CASE j = k
        BY <1>4, <1>8, <1>11, <2>3, <3>2
      <3>3. CASE j > k
        <4>1. j - 1 \in 1..n /\ j - 1 >= k /\ new[j] = q[j - 1]
          BY <1>1, <1>2, <1>6, <3>3
        <4>2. j - 1 = i
          BY <2>1, <2>3, <4>1
        <4>3. QED
          BY <1>1, <1>2, <4>1, <4>2
      <3>4. QED
        BY <1>1, <1>2, <3>1, <3>2, <3>3
    <2> HIDE DEF p
    <2>4. QED
      BY <1>3, <2>1, <2>2, <2>3 DEF OneReplay
  <1>12. ASSUME cb = "replay", NoReplay(q) PROVE OneReplay(new, time)
    <2>1. \A i \in 1..n : q[i].cb # "replay"
      BY <1>12 DEF NoReplay, n
    <2>2. \A j \in 1..(n + 1) : new[j].cb = "replay" => j = k
      BY <1>6, <2>1
    <2>3. QED
      BY <1>3, <1>4, <1>8, <1>12, <2>2 DEF OneReplay
  <1>13. QED
    BY <1>9, <1>10, <1>11, <1>12 DEF new

\* The rest of a queue, without its head.
LEMMA TailKeeps ==
  ASSUME NEW now \in Nat, NEW q, QueueOK(q, now), q # <<>>
  PROVE  /\ QueueOK(Tail(q), now)
         /\ NoReplay(q) => NoReplay(Tail(q))
         /\ \A time : /\ Head(q).cb # "replay" /\ OneReplay(q, time) => OneReplay(Tail(q), time)
                      /\ Head(q).cb = "replay" /\ OneReplay(q, time)
                           => NoReplay(Tail(q)) /\ Head(q).time = time
  <1> DEFINE n == Len(q)
             rest == Tail(q)
  <1>1. q \in Seq(Entry) /\ n \in Nat \ {0} /\ Head(q) = q[1]
    BY EmptySeq DEF QueueOK
  <1>2. /\ rest \in Seq(Entry) /\ Len(rest) = n - 1
        /\ \A i \in 1..(n - 1) : rest[i] = q[i + 1]
    BY <1>1, HeadTailProperties
  <1>3. /\ \A i \in 1..n : q[i].time >= now
        /\ \A i, j \in 1..n : i < j => q[i].time <= q[j].time
    BY DEF QueueOK
  <1> HIDE DEF n, rest
  <1>4. \A i \in 1..(n - 1) : i + 1 \in 1..n
    BY <1>1
  <1>5. \A i, j \in 1..(n - 1) : i < j => i + 1 < j + 1
    BY <1>1
  <1>6. QueueOK(rest, now)
    BY <1>2, <1>3, <1>4, <1>5 DEF QueueOK
  <1>7. NoReplay(q) => NoReplay(rest)
    BY <1>2, <1>4 DEF NoReplay, n
  <1>8. ASSUME NEW time, q[1].cb # "replay", OneReplay(q, time) PROVE OneReplay(rest, time)
    <2>1. PICK i \in 1..n : /\ q[i].cb = "replay" /\ q[i].time = time
                            /\ \A j \in 1..n : q[j].cb = "replay" => j = i
      BY <1>8 DEF OneReplay, n
    <2>2. i # 1 /\ i - 1 \in 1..(n - 1) /\ (i - 1) + 1 = i
      BY SMTT(60), <1>1, <1>8, <2>1
    <2>3. rest[i - 1] = q[i]
      BY <1>2, <2>2
    <2>4. ASSUME NEW j \in 1..(n - 1), rest[j].cb = "replay" PROVE j = i - 1
      <3>1. j + 1 = i
        BY <1>2, <1>4, <2>1, <2>4
      <3>2. QED
        BY <1>1, <3>1
    <2>5. QED
      BY <1>2, <2>1, <2>2, <2>3, <2>4 DEF OneReplay
  <1>9. ASSUME NEW time, q[1].cb = "replay", OneReplay(q, time)
        PROVE  NoReplay(rest) /\ q[1].time = time
    <2>1. PICK i \in 1..n : /\ q[i].cb = "replay" /\ q[i].time = time
                            /\ \A j \in 1..n : q[j].cb = "replay" => j = i
      BY <1>9 DEF OneReplay, n
    <2>2. i = 1
      BY <1>1, <1>9, <2>1
    <2>3. \A j \in 1..(n - 1) : j + 1 # 1
      BY <1>1
    <2>4. \A j \in 1..(n - 1) : rest[j].cb # "replay"
      BY <1>2, <1>4, <2>1, <2>2, <2>3
    <2>5. QED
      BY <1>2, <2>1, <2>2, <2>4 DEF NoReplay
  <1>10. QED
    BY <1>1, <1>6, <1>7, <1>8, <1>9 DEF rest

\* The head of the queue is an event that is due now.
LEMMA HeadIsNow ==
  ASSUME ticks \in Nat, QueueOK(queue, ticks), EventDue
  PROVE  queue # <<>> /\ Head(queue).time = ticks
  <1>1. PICK i \in 1..Len(queue) : queue[i].time <= ticks
    BY DEF EventDue
  <1> DEFINE n == Len(queue)
  <1>2. n \in Nat /\ queue \in Seq(Entry) /\ i \in 1..n
    BY LenProperties DEF QueueOK
  <1>3. queue # <<>> /\ Head(queue) = queue[1]
    <2>1. n # 0
      BY <1>2
    <2>2. QED
      BY <2>1, EmptySeq
  <1>4. /\ \A j \in 1..n : queue[j].time >= ticks /\ queue[j].time \in Nat
        /\ 1 < i => queue[1].time <= queue[i].time
    <2>1. \A j \in 1..n : queue[j] \in Entry
      BY <1>2, ElementOfSeq
    <2>2. 1 \in 1..n
      BY <1>2
    <2>3. QED
      BY <1>2, <2>1, <2>2 DEF Entry, QueueOK
  <1> HIDE DEF n
  <1>5. 1 \in 1..n /\ (1 < i \/ i = 1)
    BY <1>2
  <1>6. queue[1].time = ticks
    BY <1>1, <1>2, <1>4, <1>5
  <1>7. QED
    BY <1>3, <1>6

-----------------------------------------------------------------------------
(* The invariant.                                                          *)

\* Events up to now, in order.
PastEvents(s, now) ==
  /\ \A i \in 1..Len(s) : s[i].time <= now
  /\ \A i, j \in 1..Len(s) : i < j => s[i].time <= s[j].time

InOrder(s) == \A i, j \in 1..Len(s) : i < j => s[i].time <= s[j].time

Basics ==
  /\ ticks \in Nat
  /\ run \in {"record", "replay"}
  /\ file \in Seq(Event)
  /\ injected \in Seq(Event)
  /\ QueueOK(queue, ticks)
  /\ Prefix(injected, file)

\* What a snapshot holds is what was injected up to its tick.
SnapshotOK(m) ==
  /\ m.ticks \in Nat
  /\ QueueOK(m.queue, m.ticks)
  /\ NoReplay(m.queue)
  /\ m.injected \in Seq(Event)
  /\ m.event_index = Len(m.injected)
  /\ PastEvents(m.injected, m.ticks)

Recording ==
  /\ NoReplay(queue)
  /\ event_index = Len(injected)
  /\ PastEvents(injected, ticks)
  /\ phase # "release" => file = injected
  /\ saved # <<>> => SnapshotOK(saved[1]) /\ Prefix(saved[1].injected, injected)

\* The event that waits in the queue is the first that was not injected.
Replaying ==
  LET k == Len(injected) + 1
  IN /\ phase # "release"
     /\ InOrder(file)
     /\ k <= Len(file) => next = k + 1 /\ OneReplay(queue, file[k].time)
     /\ k > Len(file) => NoReplay(queue)

ReplayInv ==
  ~released => /\ Basics
               /\ run = "record" => Recording
               /\ run = "replay" => Replaying

LEMMA InitReplayInv == Init => ReplayInv
  <1> SUFFICES ASSUME Init PROVE ReplayInv
    OBVIOUS
  <1>1. MsecTicks \in Nat
    BY ReplayAssumption
  <1>2. /\ ticks = 0 /\ queue = <<PowerOn>> /\ phase = "irq" /\ event_index = 0 /\ file = <<>>
        /\ injected = <<>> /\ run = "record" /\ saved = <<>>
    BY DEF Init
  <1>3. QueueOK(queue, ticks) /\ NoReplay(queue)
    <2> DEFINE e == PowerOn
    <2>1. e \in Entry /\ e.time \in Nat /\ e.cb = "msec"
      BY <1>1 DEF PowerOn, Entry
    <2>2. queue = <<e>> /\ ticks = 0
      BY <1>2
    <2> HIDE DEF e
    <2>3. queue \in Seq(Entry) /\ Len(queue) = 1 /\ queue[1] = e
      BY <2>1, <2>2
    <2>4. QED
      BY <2>1, <2>2, <2>3 DEF QueueOK, NoReplay
  <1>4. file \in Seq(Event) /\ injected \in Seq(Event) /\ Len(injected) = 0 /\ Len(file) = 0
    BY <1>2, EmptySeq
  <1>5. Basics
    BY <1>2, <1>3, <1>4 DEF Basics, Prefix
  <1>6. Recording
    BY <1>2, <1>3, <1>4 DEF Recording, PastEvents
  <1>7. QED
    BY <1>2, <1>5, <1>6 DEF ReplayInv

\* Steps that inject nothing.
LEMMA SameEventsPreserve ==
  ASSUME ReplayInv, QueueOK(queue, ticks) => QueueOK(queue', ticks),
         NoReplay(queue) => NoReplay(queue'),
         \A time : OneReplay(queue, time) => OneReplay(queue', time),
         UNCHANGED <<ticks, file_vars, saved, released>>,
         phase' # "release", phase # "release"
  PROVE  ReplayInv'
  <1> SUFFICES ASSUME ~released PROVE ReplayInv'
    BY DEF ReplayInv
  <1>1. UNCHANGED <<ticks, file, injected, event_index, next, run, saved, released>>
    BY DEF file_vars
  <1>2. Basics /\ (run = "record" => Recording) /\ (run = "replay" => Replaying)
    BY DEF ReplayInv
  <1>3. Basics'
    BY <1>1, <1>2 DEF Basics, Prefix, QueueOK
  <1>4. run = "record" => Recording'
    BY <1>1, <1>2 DEF Recording, NoReplay, PastEvents, SnapshotOK
  <1>5. run = "replay" => Replaying'
    <2> SUFFICES ASSUME run = "replay" PROVE Replaying'
      OBVIOUS
    <2>1. /\ InOrder(file)
          /\ Len(injected) + 1 <= Len(file)
               => next = Len(injected) + 2 /\ OneReplay(queue', file[Len(injected) + 1].time)
          /\ Len(injected) + 1 > Len(file) => NoReplay(queue')
      BY <1>2 DEF Replaying
    <2>2. InOrder(file)' /\ (NoReplay(queue))' = NoReplay(queue')
      BY <1>1, <2>1 DEF InOrder, NoReplay
    <2>3. QED
      BY <1>1, <2>1, <2>2 DEF Replaying, OneReplay
  <1>6. QED
    BY <1>1, <1>3, <1>4, <1>5 DEF ReplayInv

\* Nothing changes.
LEMMA StutterPreserves ==
  ASSUME ReplayInv, UNCHANGED vars
  PROVE  ReplayInv'
  BY DEF ReplayInv, Basics, Recording, Replaying, QueueOK, NoReplay, OneReplay, Prefix, InOrder,
         PastEvents, SnapshotOK, vars, machine_vars, file_vars, past_vars

\* So does the event that the keyboard may have scheduled in the step.
LEMMA WithTransferKeeps ==
  ASSUME ticks \in Nat, NEW q, QueueOK(q, ticks)
  PROVE  /\ QueueOK(WithTransfer(q), ticks)
         /\ NoReplay(q) => NoReplay(WithTransfer(q))
         /\ \A time : OneReplay(q, time) => OneReplay(WithTransfer(q), time)
  BY AddEventKeeps, ReplayAssumption DEF WithTransfer

\* The keyboard's own events take the place of others, never of a key.
LEMMA DeviceEventPreserves ==
  ASSUME ReplayInv, Msec \/ Transfer
  PROVE  ReplayInv'
  <1> SUFFICES ASSUME ~released PROVE ReplayInv'
    BY DEF ReplayInv, Msec, Transfer, RunEvent
  <1>1. /\ ticks \in Nat /\ QueueOK(queue, ticks)
        /\ EventDue /\ Head(queue).cb # "replay"
        /\ phase' # "release" /\ phase # "release"
        /\ UNCHANGED <<ticks, file_vars, saved, released>>
    BY DEF ReplayInv, Basics, Msec, Transfer, RunEvent
  <1> DEFINE rest == Tail(queue)
  <1>2. /\ QueueOK(rest, ticks)
        /\ NoReplay(queue) => NoReplay(rest)
        /\ \A time : OneReplay(queue, time) => OneReplay(rest, time)
    BY <1>1, HeadIsNow, TailKeeps
  <1> HIDE DEF rest
  <1>3. CASE Transfer
    <2>1. queue' = rest
      BY <1>3 DEF Transfer, rest
    <2>2. QED
      BY <1>1, <1>2, <2>1, SameEventsPreserve
  <1>4. CASE Msec
    <2> DEFINE q == WithTransfer(rest)
    <2>1. /\ QueueOK(q, ticks)
          /\ NoReplay(rest) => NoReplay(q)
          /\ \A time : OneReplay(rest, time) => OneReplay(q, time)
      BY <1>1, <1>2, WithTransferKeeps
    <2>2. queue' = AddEvent(q, MsecTicks, "msec")
      BY <1>4 DEF Msec, rest
    <2> HIDE DEF q
    <2>3. /\ QueueOK(queue', ticks)
          /\ NoReplay(q) => NoReplay(queue')
          /\ \A time : OneReplay(q, time) => OneReplay(queue', time)
      BY <1>1, <2>1, <2>2, AddEventKeeps, ReplayAssumption
    <2>4. QED
      BY <1>1, <1>2, <2>1, <2>3, SameEventsPreserve
  <1>5. QED
    BY <1>3, <1>4

\* Reading the keyboard may schedule a transfer.
LEMMA GuestPreserves ==
  ASSUME ReplayInv, InterruptCheck \/ Execute \/ LoopAgain
  PROVE  ReplayInv'
  <1>1. /\ phase' # "release" /\ phase # "release"
        /\ UNCHANGED <<ticks, file_vars, saved, released>>
        /\ queue' = queue \/ queue' = WithTransfer(queue)
    <2>1. CASE InterruptCheck
      BY <2>1 DEF InterruptCheck, past_vars
    <2>2. CASE LoopAgain
      BY <2>2 DEF LoopAgain, past_vars
    <2>3. CASE Execute
      BY <2>3 DEF Execute
    <2>4. QED
      BY <2>1, <2>2, <2>3
  <1> SUFFICES ASSUME ~released PROVE ReplayInv'
    BY <1>1 DEF ReplayInv
  <1>2. ticks \in Nat /\ QueueOK(queue, ticks)
    BY DEF ReplayInv, Basics
  <1>3. /\ QueueOK(queue', ticks)
        /\ NoReplay(queue) => NoReplay(queue')
        /\ \A time : OneReplay(queue, time) => OneReplay(queue', time)
    BY <1>1, <1>2, WithTransferKeeps
  <1>4. QED
    BY <1>1, <1>3, SameEventsPreserve

\* The clock moves on when nothing is due; what is written then is a snapshot
\* of a machine whose recording is complete.
LEMMA ChargePreserves ==
  ASSUME ReplayInv, Charge
  PROVE  ReplayInv'
  <1>1. /\ phase = "events" /\ phase' = "execute" /\ ~EventDue
        /\ ticks' = ticks + 1
        /\ saved' = saved \/ (run = "record" /\ saved' = <<Machine>>)
        /\ UNCHANGED <<queue, event_index, file, next, run, injected, released>>
    BY DEF Charge, file_vars
  <1> SUFFICES ASSUME ~released PROVE ReplayInv'
    BY <1>1 DEF ReplayInv
  <1>2. Basics /\ (run = "record" => Recording) /\ (run = "replay" => Replaying)
    BY DEF ReplayInv
  <1>3. \A i \in 1..Len(queue) : queue[i].time \in Nat /\ queue[i].time >= ticks + 1
    <2>1. queue \in Seq(Entry) /\ ticks \in Nat
      BY <1>2 DEF Basics, QueueOK
    <2>2. \A i \in 1..Len(queue) : queue[i] \in Entry
      BY <2>1, ElementOfSeq
    <2>3. \A i \in 1..Len(queue) : ~(queue[i].time <= ticks)
      BY <1>1 DEF EventDue
    <2>4. QED
      BY <2>1, <2>2, <2>3 DEF Entry
  <1>4. QueueOK(queue', ticks') /\ ticks' \in Nat
    BY <1>1, <1>2, <1>3 DEF Basics, QueueOK
  <1>5. Basics'
    BY <1>1, <1>2, <1>4 DEF Basics, Prefix
  <1>6. run = "record" => Recording'
    <2> SUFFICES ASSUME run = "record" PROVE Recording'
      OBVIOUS
    <2>1. Recording
      BY <1>2
    <2>2. NoReplay(queue)' /\ event_index' = Len(injected') /\ (phase' # "release" => file' = injected')
      BY <1>1, <2>1 DEF Recording, NoReplay
    <2>3. PastEvents(injected, ticks)'
      <3>1. \A i \in 1..Len(injected) : injected[i].time <= ticks /\ injected[i].time \in Nat
        <4>1. injected \in Seq(Event)
          BY <1>2 DEF Basics
        <4>2. \A i \in 1..Len(injected) : injected[i] \in Event
          BY <4>1, ElementOfSeq
        <4>3. QED
          BY <2>1, <4>2 DEF Recording, PastEvents, Event
      <3>2. QED
        BY <1>1, <1>2, <2>1, <3>1 DEF Recording, PastEvents, Basics
    <2>4. saved' # <<>> => SnapshotOK(saved'[1]) /\ Prefix(saved'[1].injected, injected)
      <3>1. CASE saved' = saved
        BY <2>1, <3>1 DEF Recording
      <3>2. CASE saved' = <<Machine>>
        <4>1. /\ Machine.ticks = ticks /\ Machine.queue = queue /\ Machine.injected = injected
              /\ Machine.event_index = event_index
          BY DEF Machine
        <4>2. SnapshotOK(Machine)
          BY <1>2, <2>1, <4>1 DEF SnapshotOK, Basics, Recording
        <4>3. Prefix(injected, injected)
          <5>1. Len(injected) \in Nat
            BY <1>2, LenProperties DEF Basics
          <5>2. QED
            BY <5>1 DEF Prefix
        <4>4. QED
          BY <3>2, <4>1, <4>2, <4>3
      <3>3. QED
        BY <1>1, <3>1, <3>2
    <2>5. (saved # <<>> => SnapshotOK(saved[1]) /\ Prefix(saved[1].injected, injected))'
      BY <1>1, <2>4 DEF SnapshotOK, Prefix
    <2>6. QED
      BY <2>2, <2>3, <2>5 DEF Recording
  <1>7. run = "replay" => Replaying'
    <2> SUFFICES ASSUME run = "replay" PROVE Replaying'
      OBVIOUS
    <2>1. Replaying
      BY <1>2
    <2>2. QED
      BY <1>1, <2>1 DEF Replaying, InOrder, OneReplay, NoReplay
  <1>8. QED
    BY <1>1, <1>5, <1>6, <1>7 DEF ReplayInv

\* A key of the host goes to the end of the recording with the present tick.
LEMMA HostKeyPreserves ==
  ASSUME ReplayInv, NEW key \in Keys, NEW pressed \in BOOLEAN, HostKey(key, pressed)
  PROVE  ReplayInv'
  <1> DEFINE e == [time |-> ticks, key |-> key, pressed |-> pressed]
  <1>1. /\ phase = "host" /\ phase' = phase /\ run = "record" /\ ticks' = ticks
        /\ queue' = WithTransfer(queue)
        /\ file' = Append(file, e) /\ injected' = Append(injected, e)
        /\ event_index' = event_index + 1
        /\ UNCHANGED <<run, saved, released>>
    BY DEF HostKey
  <1> SUFFICES ASSUME ~released PROVE ReplayInv'
    BY <1>1 DEF ReplayInv
  <1>2. /\ Basics /\ Recording /\ ticks \in Nat /\ QueueOK(queue, ticks)
        /\ file = injected /\ injected \in Seq(Event) /\ Len(injected) \in Nat
    BY <1>1, LenProperties DEF ReplayInv, Recording, Basics
  <1>3. QueueOK(queue', ticks) /\ NoReplay(queue')
    BY <1>1, <1>2, WithTransferKeeps DEF Recording
  <1>4. e \in Event /\ e.time = ticks
    BY <1>2 DEF Event
  <1> HIDE DEF e
  <1> DEFINE n == Len(injected)
  <1>5. /\ injected' \in Seq(Event) /\ Len(injected') = n + 1
        /\ \A i \in 1..n : injected'[i] = injected[i]
        /\ injected'[n + 1] = e /\ file' = injected'
    BY <1>1, <1>2, <1>4, AppendProperties
  <1>6. Basics'
    <2>1. Prefix(injected', file')
      BY <1>2, <1>5 DEF Prefix
    <2>2. QED
      BY <1>1, <1>2, <1>3, <1>5, <2>1 DEF Basics, Prefix, QueueOK
  <1>7. PastEvents(injected', ticks)
    <2>1. /\ \A i \in 1..n : injected[i].time <= ticks
          /\ \A i, j \in 1..n : i < j => injected[i].time <= injected[j].time
      BY <1>2 DEF Recording, PastEvents
    <2> HIDE DEF n
    <2>2. n \in Nat
      BY <1>2 DEF n
    <2>3. \A i \in 1..(n + 1) : injected'[i].time <= ticks
      BY <1>2, <1>4, <1>5, <2>1, <2>2
    <2>4. ASSUME NEW i \in 1..(n + 1), NEW j \in 1..(n + 1), i < j
          PROVE  injected'[i].time <= injected'[j].time
      <3>1. i \in 1..n
        BY <2>2, <2>4
      <3>2. CASE j = n + 1
        BY <1>4, <1>5, <2>1, <3>1, <3>2
      <3>3. CASE j # n + 1
        <4>1. j \in 1..n
          BY <2>2, <3>3
        <4>2. QED
          BY <1>5, <2>1, <2>4, <3>1, <4>1
      <3>4. QED
        BY <3>2, <3>3
    <2>5. QED
      BY <1>5, <2>3, <2>4 DEF PastEvents
  <1>8. Recording'
    <2>1. event_index' = Len(injected')
      BY <1>1, <1>2, <1>5 DEF Recording
    <2>2. (NoReplay(queue))' /\ (PastEvents(injected, ticks))' /\ (file = injected)'
      BY <1>1, <1>3, <1>5, <1>7 DEF NoReplay, PastEvents
    <2>3. (saved # <<>> => SnapshotOK(saved[1]) /\ Prefix(saved[1].injected, injected))'
      <3> SUFFICES ASSUME saved # <<>>
                   PROVE  SnapshotOK(saved[1]) /\ Prefix(saved[1].injected, injected')
        BY <1>1 DEF SnapshotOK, Prefix
      <3> DEFINE old == saved[1].injected
      <3>1. SnapshotOK(saved[1]) /\ Prefix(old, injected)
        BY <1>2 DEF Recording
      <3>2. Len(old) \in Nat /\ Len(old) <= n /\ n \in Nat
        BY <1>2, <3>1, LenProperties DEF SnapshotOK, Prefix
      <3>3. \A i \in 1..Len(old) : i \in 1..n /\ injected'[i] = old[i]
        BY <1>5, <3>1, <3>2 DEF Prefix
      <3> HIDE DEF old
      <3>4. Prefix(old, injected')
        BY <1>5, <3>2, <3>3 DEF Prefix
      <3>5. QED
        BY <3>1, <3>4 DEF old
    <2>4. QED
      BY <2>1, <2>2, <2>3 DEF Recording
  <1>9. QED
    BY <1>1, <1>6, <1>8 DEF ReplayInv

\* The next event of the recording, when the events before it are injected.
LEMMA NextToReplay ==
  ASSUME NEW from \in Nat \ {0}, NEW now \in Nat, NEW q, file \in Seq(Event),
         from <= Len(file) => file[from].time >= now
  PROVE  ReplayOneEvent(q, from, now)
           = IF from <= Len(file)
             THEN <<from + 1, AddEvent(q, file[from].time - now, "replay")>>
             ELSE <<Len(file) + 1, q>>
  <1> DEFINE n == Len(file)
  <1>1. n \in Nat /\ \A i \in 1..n : file[i].time \in Nat
    <2>1. n \in Nat /\ \A i \in 1..n : file[i] \in Event
      BY LenProperties, ElementOfSeq
    <2>2. QED
      BY <2>1 DEF Event
  <1> HIDE DEF n
  <1>2. CASE from <= n
    <2>1. IsNext(from, from, now) /\ from \in 1..n
      BY <1>1, <1>2 DEF IsNext, n
    <2>2. ASSUME NEW m \in 1..n, IsNext(m, from, now) PROVE m = from
      <3>1. m \in from..n /\ \A i \in from..(m - 1) : file[i].time < now
        BY <2>2 DEF IsNext, n
      <3>2. m # from => from \in from..(m - 1)
        BY <1>1, <1>2, <3>1
      <3>3. file[from].time \in Nat /\ file[from].time >= now
        BY <1>1, <1>2, <2>1 DEF n
      <3>4. QED
        BY <3>1, <3>2, <3>3
    <2>3. /\ \E m \in 1..n : IsNext(m, from, now)
          /\ (CHOOSE m \in 1..n : IsNext(m, from, now)) = from
      BY <2>1, <2>2
    <2>4. QED
      BY <1>2, <2>3 DEF ReplayOneEvent, n
  <1>3. CASE ~(from <= n)
    <2>1. \A m \in 1..n : ~IsNext(m, from, now)
      BY <1>1, <1>3 DEF IsNext, n
    <2>2. QED
      BY <1>3, <2>1 DEF ReplayOneEvent, n
  <1>4. QED
    BY <1>2, <1>3

\* A replayed event comes at its tick, and the one after it takes its place in
\* the queue.
LEMMA ReplayEventPreserves ==
  ASSUME ReplayInv, ReplayEvent
  PROVE  ReplayInv'
  <1> DEFINE n == Len(injected)
             k == n + 1
             event == file[next - 1]
             rest == Tail(queue)
             q == WithTransfer(rest)
             after == ReplayOneEvent(q, next, ticks)
             e == [event EXCEPT !.time = ticks]
  <1>1. /\ EventDue /\ Head(queue).cb = "replay"
        /\ injected' = Append(injected, e)
        /\ next' = after[1] /\ queue' = after[2]
        /\ UNCHANGED <<ticks, phase, file, run, saved, released>>
    BY DEF ReplayEvent, RunEvent
  <1> SUFFICES ASSUME ~released PROVE ReplayInv'
    BY <1>1 DEF ReplayInv
  <1>2. /\ Basics /\ ticks \in Nat /\ QueueOK(queue, ticks) /\ file \in Seq(Event)
        /\ injected \in Seq(Event) /\ n \in Nat /\ Len(file) \in Nat /\ Prefix(injected, file)
    BY LenProperties DEF ReplayInv, Basics
  <1>3. queue # <<>> /\ Head(queue).time = ticks
    BY <1>1, <1>2, HeadIsNow
  <1>4. ~NoReplay(queue)
    <2>1. queue \in Seq(Entry)
      BY <1>2 DEF QueueOK
    <2>2. Len(queue) \in Nat \ {0} /\ Head(queue) = queue[1]
      BY <1>3, <2>1, EmptySeq
    <2>3. 1 \in 1..Len(queue)
      BY <2>2
    <2>4. QED
      BY <1>1, <2>2, <2>3 DEF NoReplay
  <1>5. run = "replay" /\ Replaying
    BY <1>2, <1>4 DEF ReplayInv, Basics, Recording
  <1>6. /\ k \in 1..Len(file) /\ next = k + 1 /\ OneReplay(queue, file[k].time)
        /\ phase # "release" /\ InOrder(file)
    BY <1>2, <1>4, <1>5 DEF Replaying
  <1>7. /\ QueueOK(rest, ticks) /\ NoReplay(rest) /\ file[k].time = ticks
    BY <1>1, <1>2, <1>3, <1>6, TailKeeps
  <1>8. QueueOK(q, ticks) /\ NoReplay(q)
    BY <1>2, <1>7, WithTransferKeeps
  <1>9. /\ \A i \in 1..Len(file) : file[i] \in Event /\ file[i].time \in Nat
        /\ e = file[k] /\ e \in Event
    <2>1. \A i \in 1..Len(file) : file[i] \in Event
      BY <1>2, ElementOfSeq
    <2>2. event = file[k]
      BY <1>2, <1>6
    <2> HIDE DEF event, k
    <2>3. file[k] \in Event
      BY <1>6, <2>1
    <2>4. e = file[k]
      BY <1>7, <2>2, <2>3 DEF Event
    <2>5. QED
      BY <2>1, <2>3, <2>4 DEF Event
  <1> HIDE DEF event, e, rest, q
  <1>10. /\ injected' \in Seq(Event) /\ Len(injected') = k
         /\ \A i \in 1..n : injected'[i] = injected[i]
         /\ injected'[k] = file[k]
    BY <1>1, <1>2, <1>9, AppendProperties
  <1>11. Prefix(injected', file)
    <2>1. \A i \in 1..k : i \in 1..n \/ i = k
      BY <1>2
    <2>2. \A i \in 1..n : injected[i] = file[i]
      BY <1>2 DEF Prefix
    <2>3. k <= Len(file)
      BY <1>2, <1>6
    <2> HIDE DEF k, n
    <2>4. QED
      BY <1>10, <2>1, <2>2, <2>3 DEF Prefix
  <1>12. k + 1 <= Len(file) => file[k + 1].time \in Nat /\ file[k + 1].time >= ticks
    <2>1. k + 1 <= Len(file) => k + 1 \in 1..Len(file) /\ k < k + 1
      BY <1>2
    <2>2. QED
      BY <1>6, <1>7, <1>9, <2>1 DEF InOrder
  <1>13. after = IF k + 1 <= Len(file)
                 THEN <<k + 2, AddEvent(q, file[k + 1].time - ticks, "replay")>>
                 ELSE <<Len(file) + 1, q>>
    <2>1. next \in Nat \ {0} /\ next = k + 1 /\ next + 1 = k + 2
      BY <1>2, <1>6
    <2>2. next <= Len(file) => file[next].time >= ticks
      BY <1>12, <2>1
    <2>3. QED
      BY <1>2, <2>1, <2>2, NextToReplay
  <1> HIDE DEF after
  <1>14. CASE k + 1 <= Len(file)
    <2> DEFINE delay == file[k + 1].time - ticks
    <2>1. delay \in Nat /\ ticks + delay = file[k + 1].time
      BY <1>2, <1>12, <1>14
    <2>2. next' = k + 2 /\ queue' = AddEvent(q, delay, "replay")
      BY <1>1, <1>13, <1>14
    <2> HIDE DEF delay, k
    <2>3. QueueOK(queue', ticks) /\ OneReplay(queue', ticks + delay)
      BY <1>2, <1>8, <2>1, <2>2, AddEventKeeps
    <2>4. Basics'
      BY <1>1, <1>2, <1>10, <1>11, <2>3 DEF Basics, QueueOK, Prefix
    <2>5. OneReplay(queue, file[Len(injected) + 1].time)'
      BY <1>1, <1>10, <2>1, <2>3 DEF OneReplay
    <2>6. Replaying'
      <3>1. Len(injected') + 1 <= Len(file') /\ ~(Len(injected') + 1 > Len(file'))
            /\ next' = (Len(injected') + 1) + 1
        BY <1>1, <1>2, <1>10, <1>14, <2>2 DEF k
      <3>2. InOrder(file)' /\ phase' # "release"
        BY <1>1, <1>6 DEF InOrder
      <3>3. QED
        BY <2>5, <3>1, <3>2 DEF Replaying
    <2>7. QED
      BY <1>1, <1>5, <2>4, <2>6 DEF ReplayInv
  <1>15. CASE ~(k + 1 <= Len(file))
    <2>1. queue' = q
      BY <1>1, <1>13, <1>15
    <2>2. Basics'
      BY <1>1, <1>2, <1>8, <1>10, <1>11, <2>1 DEF Basics, QueueOK, Prefix
    <2>3. ~(Len(injected') + 1 <= Len(file')) /\ NoReplay(queue)' /\ InOrder(file)'
          /\ phase' # "release"
      BY <1>1, <1>6, <1>8, <1>10, <1>15, <2>1 DEF InOrder, NoReplay
    <2>4. Replaying'
      BY <2>3 DEF Replaying
    <2>5. QED
      BY <1>1, <1>5, <2>2, <2>4 DEF ReplayInv
  <1>16. QED
    BY <1>14, <1>15

\* The replay starts with the first event of the recording in the queue.
LEMMA StartReplayPreserves ==
  ASSUME ReplayInv, StartReplay
  PROVE  ReplayInv'
  <1> DEFINE e == [time |-> file[1].time, cb |-> "replay"]
             first == IF file = <<>> THEN <<>> ELSE <<e>>
  <1>1. /\ run = "record" /\ phase = "events" /\ run' = "replay" /\ ticks' = 0
        /\ queue' = IF first # <<>> /\ first[1].time < MsecTicks
                    THEN first \o <<PowerOn>> ELSE <<PowerOn>> \o first
        /\ next' = 2 /\ phase' = "irq" /\ injected' = <<>> /\ file' = file
        /\ released' = released
    BY DEF StartReplay
  <1> SUFFICES ASSUME ~released PROVE ReplayInv'
    BY <1>1 DEF ReplayInv
  <1>2. /\ file \in Seq(Event) /\ file = injected /\ Len(file) \in Nat /\ InOrder(file)
    BY <1>1, LenProperties DEF ReplayInv, Basics, Recording, PastEvents, InOrder
  <1>3. PowerOn \in Entry /\ PowerOn.time = MsecTicks /\ MsecTicks \in Nat /\ PowerOn.cb = "msec"
    BY ReplayAssumption DEF PowerOn, Entry
  <1>4. injected' \in Seq(Event) /\ Len(injected') = 0 /\ Prefix(injected', file')
    BY <1>1, <1>2, EmptySeq DEF Prefix
  <1>5. CASE file = <<>>
    <2> DEFINE p == PowerOn
    <2>1. queue' = <<p>> \o <<>>
      BY <1>1, <1>5
    <2>2. queue' = <<p>>
      BY <1>3, <2>1, ConcatEmptySeq
    <2> HIDE DEF p
    <2>3. queue' \in Seq(Entry) /\ Len(queue') = 1 /\ queue'[1] = p /\ p = PowerOn
      BY <1>3, <2>2 DEF p
    <2>4. QueueOK(queue', 0) /\ NoReplay(queue')
      BY <1>3, <2>3 DEF QueueOK, NoReplay
    <2>5. Basics'
      BY <1>1, <1>2, <1>4, <2>4 DEF Basics, QueueOK, Prefix
    <2>6. Len(file') = 0
      BY <1>1, <1>5
    <2>7. Replaying'
      BY <1>1, <1>2, <1>4, <2>4, <2>6 DEF Replaying, InOrder, NoReplay
    <2>8. QED
      BY <1>1, <2>5, <2>7 DEF ReplayInv
  <1>6. CASE file # <<>>
    <2> DEFINE p == PowerOn
    <2>1. Len(file) \in Nat \ {0} /\ file[1] \in Event /\ file[1].time \in Nat
      <3>1. Len(file) \in Nat \ {0}
        BY <1>2, <1>6, EmptySeq
      <3>2. 1 \in 1..Len(file)
        BY <3>1
      <3>3. file[1] \in Event
        BY <1>2, <3>2, ElementOfSeq
      <3>4. QED
        BY <3>1, <3>3 DEF Event
    <2>2. e \in Entry /\ e.time = file[1].time /\ e.cb = "replay"
      BY <2>1 DEF Entry
    <2>3. queue' = IF e.time < MsecTicks THEN <<e>> \o <<p>> ELSE <<p>> \o <<e>>
      BY <1>1, <1>6
    <2>6. p \in Entry /\ p.time = MsecTicks /\ p.cb = "msec"
      BY <1>3
    <2> HIDE DEF e, p
    <2>7. /\ queue' \in Seq(Entry) /\ Len(queue') = 2
          /\ \/ e.time < MsecTicks /\ queue'[1] = e /\ queue'[2] = p
             \/ ~(e.time < MsecTicks) /\ queue'[1] = p /\ queue'[2] = e
      <3>1. CASE e.time < MsecTicks
        <4>1. queue' = <<e>> \o <<p>>
          BY <2>3, <3>1
        <4>2. QED
          BY <2>2, <2>6, <3>1, <4>1, PairOf
      <3>2. CASE ~(e.time < MsecTicks)
        <4>1. queue' = <<p>> \o <<e>>
          BY <2>3, <3>2
        <4>2. QED
          BY <2>2, <2>6, <3>2, <4>1, PairOf
      <3>3. QED
        BY <3>1, <3>2
    <2>8. 1..2 = {1, 2}
      OBVIOUS
    <2>9. QueueOK(queue', 0)
      <3>1. \A i \in {1, 2} : queue'[i].time \in Nat
        BY <1>3, <2>1, <2>2, <2>6, <2>7
      <3>2. queue'[1].time <= queue'[2].time
        BY <1>3, <2>1, <2>2, <2>6, <2>7
      <3>3. \A i, j \in {1, 2} : i < j => i = 1 /\ j = 2
        OBVIOUS
      <3>4. QED
        BY <2>7, <2>8, <3>1, <3>2, <3>3 DEF QueueOK
    <2>10. OneReplay(queue', file[1].time)
      BY <2>2, <2>6, <2>7, <2>8 DEF OneReplay
    <2>11. Basics'
      BY <1>1, <1>2, <1>4, <2>9 DEF Basics, QueueOK, Prefix
    <2>12. Replaying'
      <3>1. Len(injected') + 1 = 1 /\ 1 <= Len(file') /\ ~(1 > Len(file')) /\ next' = 1 + 1
        BY <1>1, <1>4, <2>1
      <3>2. InOrder(file)' /\ phase' # "release"
        BY <1>1, <1>2 DEF InOrder
      <3>3. OneReplay(queue, file[Len(injected) + 1].time)'
        BY <1>1, <2>10, <3>1 DEF OneReplay
      <3>4. QED
        BY <3>1, <3>2, <3>3 DEF Replaying
    <2>13. QED
      BY <1>1, <2>11, <2>12 DEF ReplayInv
  <1>7. QED
    BY <1>5, <1>6

\* A load takes the machine, and what was injected, back to the snapshot.
LEMMA LoadPreserves ==
  ASSUME ReplayInv, Load
  PROVE  ReplayInv'
  <1> DEFINE m == saved[1]
  <1>1. /\ run = "record" /\ phase = "host" /\ saved # <<>> /\ ticks' = m.ticks
        /\ queue' = m.queue /\ event_index' = m.event_index /\ injected' = m.injected
        /\ phase' = "release" /\ UNCHANGED <<file, run, saved, released>>
    BY DEF Load
  <1> SUFFICES ASSUME ~released PROVE ReplayInv'
    BY <1>1 DEF ReplayInv
  <1>2. Basics /\ Recording
    BY <1>1 DEF ReplayInv
  <1> HIDE DEF m
  <1>3. SnapshotOK(m) /\ Prefix(m.injected, injected) /\ file = injected
    BY <1>1, <1>2 DEF Recording, m
  <1>4. Prefix(m.injected, m.injected)
    <2>1. Len(m.injected) \in Nat
      BY <1>3, LenProperties DEF SnapshotOK
    <2>2. QED
      BY <2>1 DEF Prefix
  <1>5. Basics'
    <2>1. /\ ticks' \in Nat /\ run' \in {"record", "replay"} /\ file' \in Seq(Event)
          /\ injected' \in Seq(Event)
      BY <1>1, <1>2, <1>3 DEF Basics, SnapshotOK
    <2>2. QueueOK(queue, ticks)' /\ Prefix(injected, file)'
      BY <1>1, <1>3 DEF SnapshotOK, QueueOK, Prefix
    <2>3. QED
      BY <2>1, <2>2 DEF Basics
  <1>6. Recording'
    <2>1. /\ NoReplay(queue)' /\ event_index' = Len(injected') /\ PastEvents(injected, ticks)'
          /\ phase' = "release"
      BY <1>1, <1>3 DEF SnapshotOK, NoReplay, PastEvents
    <2>2. (SnapshotOK(saved[1]) /\ Prefix(saved[1].injected, injected))'
      BY <1>1, <1>3, <1>4 DEF SnapshotOK, Prefix, m
    <2>3. QED
      BY <2>1, <2>2 DEF Recording
  <1>7. QED
    BY <1>1, <1>5, <1>6 DEF ReplayInv

\* The recording is cut to the events of the snapshot, when no key was to be
\* released.
LEMMA StartRecordPreserves ==
  ASSUME ReplayInv, StartRecord
  PROVE  ReplayInv'
  <1>1. /\ phase = "release" /\ phase' = "irq" /\ file' = CutToIndex
        /\ UNCHANGED <<ticks, queue, event_index, next, run, injected, saved, released>>
    BY DEF StartRecord, past_vars
  <1> SUFFICES ASSUME ~released PROVE ReplayInv'
    BY <1>1 DEF ReplayInv
  <1>2. Basics /\ Recording /\ run = "record"
    BY <1>1 DEF ReplayInv, Basics, Replaying
  <1> DEFINE n == Len(injected)
  <1>3. /\ n \in Nat /\ injected \in Seq(Event) /\ event_index = n
        /\ injected \in [1..n -> Event] /\ Len(file) \in Nat
        /\ n <= Len(file) /\ \A i \in 1..n : injected[i] = file[i]
    BY <1>2, LenProperties DEF Basics, Recording, Prefix
  <1>4. file' = injected
    <2>1. \A i \in 1..n : i <= Len(file)
      BY <1>3
    <2>2. CutToIndex = [i \in 1..n |-> injected[i]]
      BY <1>3, <2>1 DEF CutToIndex
    <2> HIDE DEF n
    <2>3. QED
      BY <1>1, <1>3, <2>2
  <1>5. Basics'
    <2>1. Prefix(injected, file)'
      BY <1>1, <1>3, <1>4 DEF Prefix
    <2>2. QED
      BY <1>1, <1>2, <1>4, <2>1 DEF Basics, QueueOK
  <1>6. Recording'
    BY <1>1, <1>2, <1>4 DEF Recording, NoReplay, PastEvents, SnapshotOK, Prefix
  <1>7. QED
    BY <1>1, <1>2, <1>5, <1>6 DEF ReplayInv

LEMMA NextReplayInv == ReplayInv /\ [Next]_vars => ReplayInv'
  <1> SUFFICES ASSUME ReplayInv, [Next]_vars PROVE ReplayInv'
    OBVIOUS
  <1>1. CASE UNCHANGED vars
    BY <1>1, StutterPreserves
  <1>2. CASE InterruptCheck \/ Execute \/ LoopAgain
    BY <1>2, GuestPreserves
  <1>3. CASE Msec \/ Transfer
    BY <1>3, DeviceEventPreserves
  <1>4. CASE ReplayEvent \/ Charge \/ StartReplay \/ Load \/ StartRecord
    BY <1>4, ReplayEventPreserves, ChargePreserves, StartReplayPreserves, LoadPreserves,
       StartRecordPreserves
  <1>5. CASE \E key \in Keys, pressed \in BOOLEAN : HostKey(key, pressed)
    BY <1>5, HostKeyPreserves
  <1>6. CASE ReleaseKey
    BY <1>6 DEF ReleaseKey, ReplayInv
  <1>7. QED
    BY <1>1, <1>2, <1>3, <1>4, <1>5, <1>6 DEF Next

LEMMA ReplayInvHolds == Spec => []ReplayInv
  BY InitReplayInv, NextReplayInv, PTL DEF Spec

\* The recording is the history of the machine, for any keys and any number of
\* loads, until a load releases a key.
THEOREM RecordReplayRecordingKeepsHistory == Spec => []RecordingKeepsHistory
  <1>1. ReplayInv => RecordingKeepsHistory
    BY DEF ReplayInv, Recording, RecordingKeepsHistory
  <1>2. QED
    BY <1>1, ReplayInvHolds, PTL

\* A replay injects the recording, event by event and each at its tick, for any
\* keys, delays and length of the run.
THEOREM RecordReplayReplayInjectsOnTime == Spec => []ReplayInjectsOnTime
  <1>1. ReplayInv => ReplayInjectsOnTime
    <2> SUFFICES ASSUME ReplayInv, run = "replay", ~released
                 PROVE  /\ Len(injected) <= Len(file)
                        /\ injected = SubSeq(file, 1, Len(injected))
                        /\ \A n \in (Len(injected) + 1)..Len(file) : file[n].time >= ticks
      BY DEF ReplayInjectsOnTime
    <2>1. /\ Basics /\ Replaying /\ file \in Seq(Event) /\ injected \in Seq(Event)
          /\ Prefix(injected, file) /\ ticks \in Nat
          /\ Len(file) \in Nat /\ Len(injected) \in Nat
      BY LenProperties DEF ReplayInv, Basics
    <2>2. Len(injected) <= Len(file) /\ injected = SubSeq(file, 1, Len(injected))
      BY <2>1, PrefixIsSubSeq DEF Prefix
    <2> DEFINE k == Len(injected) + 1
    <2>3. ASSUME NEW n \in k..Len(file) PROVE file[n].time >= ticks
      <3>1. k \in 1..Len(file) /\ n \in 1..Len(file) /\ k <= Len(file) /\ (k < n \/ k = n)
        BY <2>1, <2>3
      <3>2. OneReplay(queue, file[k].time) /\ QueueOK(queue, ticks) /\ InOrder(file)
        BY <2>1, <3>1 DEF Replaying, Basics
      <3>3. \A i \in 1..Len(file) : file[i].time \in Nat
        <4>1. \A i \in 1..Len(file) : file[i] \in Event
          BY <2>1, ElementOfSeq
        <4>2. QED
          BY <4>1 DEF Event
      <3> HIDE DEF k
      <3>4. file[k].time >= ticks
        BY <3>2 DEF OneReplay, QueueOK
      <3>5. file[k].time <= file[n].time
        BY <3>1, <3>2, <3>3 DEF InOrder
      <3>6. QED
        BY <2>1, <3>1, <3>3, <3>4, <3>5
    <2>4. QED
      BY <2>2, <2>3
  <1>2. QED
    BY <1>1, ReplayInvHolds, PTL

-----------------------------------------------------------------------------
(* The keyboard as a record, and what its operations make of it.           *)

Kbd ==
  [buffer |-> buffer, pos |-> pos, used |-> used, p60data |-> p60data,
   p60changed |-> p60changed, scheduled |-> scheduled, transfers |-> transfers,
   irq1 |-> irq1, repeat |-> repeat, held |-> held]

\* What the keyboard's operations make of it.
Room(m, bytes) ==
  LET room == BufSize - m.used
  IN IF Len(bytes) <= room THEN bytes ELSE SubSeq(bytes, 1, room)

Filled(m, bytes) ==
  [i \in DOMAIN m.buffer |->
     LET n == IF i >= m.pos THEN i - m.pos - m.used ELSE i + BufSize - m.pos - m.used
     IN IF n \in 0..(Len(bytes) - 1) THEN bytes[n + 1] ELSE m.buffer[i]]

Planned(m) == m.scheduled \/ ~m.p60changed

Added(m, bytes, repetition, down) ==
  LET fit == Room(m, bytes)
      planned == IF fit = <<>> THEN m.scheduled ELSE Planned(m)
  IN [buffer |-> Filled(m, fit), pos |-> m.pos, used |-> m.used + Len(fit),
      p60data |-> m.p60data, p60changed |-> m.p60changed,
      scheduled |-> planned,
      transfers |-> IF fit # <<>> /\ planned /\ ~m.scheduled THEN m.transfers + 1 ELSE m.transfers,
      irq1 |-> m.irq1, repeat |-> repetition, held |-> down]

KeyAdded(m, key, pressed) ==
  Added(m, K!KeyBytes(key, pressed),
        IF key.repeats
        THEN IF pressed
             THEN [key |-> key, wait |-> IF m.repeat.key = key THEN FirstRate.rate
                                         ELSE FirstRate.pause]
             ELSE [key |-> NoKey, wait |-> 0]
        ELSE m.repeat,
        IF pressed THEN m.held \cup {key} ELSE m.held \ {key})

MsecPassed(m) ==
  IF ~(m.repeat.wait > 0) THEN m
  ELSE IF m.repeat.wait = 1
  THEN Added(m, K!KeyBytes(m.repeat.key, TRUE),
             [m.repeat EXCEPT !.wait = FirstRate.rate], m.held)
  ELSE [m EXCEPT !.repeat = [m.repeat EXCEPT !.wait = @ - 1]]

Transferred(m) ==
  IF m.used = 0
  THEN [m EXCEPT !.transfers = @ - 1, !.scheduled = FALSE]
  ELSE [m EXCEPT !.transfers = @ - 1, !.scheduled = FALSE, !.p60changed = TRUE,
                 !.p60data = m.buffer[m.pos], !.irq1 = TRUE,
                 !.pos = K!Slot(m.pos, 1), !.used = @ - 1]

WasRead(m) ==
  LET planned == m.scheduled \/ m.used > 0
  IN [buffer |-> m.buffer, pos |-> m.pos, used |-> m.used, p60data |-> m.p60data,
      p60changed |-> FALSE, scheduled |-> planned,
      transfers |-> IF planned /\ ~m.scheduled THEN m.transfers + 1 ELSE m.transfers,
      irq1 |-> m.irq1, repeat |-> m.repeat, held |-> m.held]

Taken(m) ==
  [buffer |-> m.buffer, pos |-> m.pos, used |-> m.used, p60data |-> m.p60data,
   p60changed |-> m.p60changed, scheduled |-> m.scheduled, transfers |-> m.transfers,
   irq1 |-> FALSE, repeat |-> m.repeat, held |-> m.held]

LEMMA AddedIs ==
  ASSUME NEW bytes, K!AddBytes(bytes), UNCHANGED <<p60data, p60changed, irq1>>
  PROVE  Kbd' = Added(Kbd, bytes, repeat', held')
  <1>1. Room(Kbd, bytes) = K!Fitting(bytes)
    BY DEF Room, Kbd, K!Fitting
  <1>2. Filled(Kbd, K!Fitting(bytes)) = K!Filled(K!Fitting(bytes))
    BY DEF Filled, Kbd, K!Filled
  <1>3. Planned(Kbd) = (scheduled \/ ~p60changed)
    BY DEF Planned, Kbd
  <1>4. QED
    BY <1>1, <1>2, <1>3 DEF Added, Kbd, K!AddBytes, K!ScheduleTransfer, K!Unscheduled

LEMMA KeyAddedIs ==
  ASSUME speed = FirstRate, NEW key, NEW pressed, K!AddKey(key, pressed)
  PROVE  Kbd' = KeyAdded(Kbd, key, pressed)
  <1>1. /\ K!AddBytes(K!KeyBytes(key, pressed)) /\ UNCHANGED <<p60data, p60changed, irq1>>
    BY DEF K!AddKey, K!port_vars
  <1>2. Kbd' = Added(Kbd, K!KeyBytes(key, pressed), repeat', held')
    BY <1>1, AddedIs
  <1>3. Kbd.repeat = repeat /\ Kbd.held = held
    BY DEF Kbd
  <1>4. QED
    BY <1>2, <1>3 DEF KeyAdded, K!AddKey, K!Repetition

LEMMA MsecPassedIs ==
  ASSUME speed = FirstRate, IF repeat.wait > 0 THEN K!EveryMsec ELSE UNCHANGED kbd_vars
  PROVE  Kbd' = MsecPassed(Kbd)
  <1>1. Kbd.repeat = repeat /\ Kbd.held = held
    BY DEF Kbd
  <1>2. CASE ~(repeat.wait > 0)
    BY <1>1, <1>2 DEF MsecPassed, Kbd, kbd_vars
  <1>3. CASE repeat.wait > 0 /\ repeat.wait = 1
    <2>1. /\ K!AddBytes(K!KeyBytes(repeat.key, TRUE)) /\ UNCHANGED <<p60data, p60changed, irq1>>
          /\ repeat' = [repeat EXCEPT !.wait = speed.rate] /\ held' = held
      BY <1>3 DEF K!EveryMsec, K!port_vars
    <2>2. Kbd' = Added(Kbd, K!KeyBytes(repeat.key, TRUE), repeat', held')
      BY <2>1, AddedIs
    <2>3. QED
      BY <1>1, <1>3, <2>1, <2>2 DEF MsecPassed
  <1>4. CASE repeat.wait > 0 /\ repeat.wait # 1
    BY <1>1, <1>4 DEF MsecPassed, Kbd, K!EveryMsec, K!port_vars, K!ring_vars
  <1>5. QED
    BY <1>2, <1>3, <1>4

LEMMA TransferredIs ==
  ASSUME K!TransferBuffer
  PROVE  Kbd' = Transferred(Kbd)
  BY DEF Transferred, Kbd, K!TransferBuffer, K!port_vars, K!ring_vars, K!host_vars

LEMMA WasReadIs ==
  ASSUME K!ReadP60
  PROVE  Kbd' = WasRead(Kbd)
  <1>1. /\ p60changed' = FALSE
        /\ scheduled' = (scheduled \/ used > 0)
        /\ transfers' = IF scheduled' /\ ~scheduled THEN transfers + 1 ELSE transfers
        /\ buffer' = buffer /\ pos' = pos /\ used' = used /\ p60data' = p60data
        /\ irq1' = irq1 /\ repeat' = repeat /\ held' = held
    BY Zenon DEF K!ReadP60, K!ring_vars, K!host_vars
  <1>2. QED
    BY <1>1 DEF WasRead, Kbd

LEMMA TakenIs ==
  ASSUME K!TakeIrq1
  PROVE  Kbd' = Taken(Kbd)
  <1>1. /\ irq1' = FALSE /\ p60changed' = p60changed /\ scheduled' = scheduled
        /\ transfers' = transfers
        /\ buffer' = buffer /\ pos' = pos /\ used' = used /\ p60data' = p60data
        /\ repeat' = repeat /\ held' = held
    BY Zenon DEF K!TakeIrq1, K!ring_vars, K!host_vars
  <1>2. QED
    BY <1>1 DEF Taken, Kbd

-----------------------------------------------------------------------------
(* Two queues whose events are the same but for one that replays a key.    *)

\* The event at the place k of q replays a key, and the others are those of p.
ReplayAt(k, p, q) ==
  /\ Len(p) = IF k <= Len(q) THEN Len(q) - 1 ELSE Len(q)
  /\ \A i \in 1..Len(p) : p[i] = IF i < k THEN q[i] ELSE q[i + 1]
  /\ k <= Len(q) => q[k].cb = "replay"

\* The events of q are those of p, and at most one that replays a key.
SameEvents(p, q) ==
  /\ NoReplay(p)
  /\ \E k \in 1..(Len(q) + 1) : ReplayAt(k, p, q)

LEMMA QueueIs ==
  ASSUME NEW now, NEW q, QueueOK(q, now)
  PROVE  /\ q \in Seq(Entry) /\ Len(q) \in Nat
         /\ \A i \in 1..Len(q) : q[i] \in Entry /\ q[i].time \in Nat
         /\ \A i, j \in 1..Len(q) : i < j => q[i].time <= q[j].time
  <1>1. q \in Seq(Entry)
    BY DEF QueueOK
  <1>2. Len(q) \in Nat /\ \A i \in 1..Len(q) : q[i] \in Entry
    BY <1>1, LenProperties, ElementOfSeq
  <1>3. QED
    BY <1>1, <1>2 DEF Entry, QueueOK

\* The place where an event is inserted is the only one of its kind.
LEMMA InsertPlaceIs ==
  ASSUME NEW now \in Nat, NEW q, QueueOK(q, now), NEW time \in Nat,
         NEW c \in 1..(Len(q) + 1),
         \A i \in 1..Len(q) : i < c => q[i].time <= time,
         \A i \in 1..Len(q) : i >= c => q[i].time > time
  PROVE  InsertPlace(q, time) = c
  <1> DEFINE k == InsertPlace(q, time)
             n == Len(q)
  <1>1. /\ k \in 1..(n + 1)
        /\ \A i \in 1..n : i < k => q[i].time <= time
        /\ \A i \in 1..n : i >= k => q[i].time > time
    BY InsertPlaceSplits
  <1>2. n \in Nat /\ \A i \in 1..n : q[i].time \in Nat
    BY QueueIs
  <1>3. c \in 1..(n + 1)
    OBVIOUS
  <1> HIDE DEF k, n
  <1>4. CASE k < c
    <2>1. k \in 1..n
      BY <1>1, <1>2, <1>3, <1>4
    <2>2. q[k].time <= time /\ q[k].time > time /\ q[k].time \in Nat
      BY <1>1, <1>2, <1>3, <1>4, <2>1 DEF n
    <2>3. QED
      BY <2>2
  <1>5. CASE c < k
    <2>1. c \in 1..n
      BY <1>1, <1>2, <1>3, <1>5
    <2>2. q[c].time <= time /\ q[c].time > time /\ q[c].time \in Nat
      BY <1>1, <1>2, <1>3, <1>5, <2>1 DEF n
    <2>3. QED
      BY <2>2
  <1>6. QED
    BY <1>1, <1>2, <1>3, <1>4, <1>5 DEF k

\* The places of an event in the two queues.
LEMMA PlacesAlike ==
  ASSUME NEW now \in Nat, NEW p, QueueOK(p, now), NEW q, QueueOK(q, now),
         NEW k \in 1..(Len(q) + 1), ReplayAt(k, p, q), NEW time \in Nat
  PROVE  \/ k <= Len(q) /\ k <= InsertPlace(p, time)
            /\ InsertPlace(q, time) = InsertPlace(p, time) + 1
         \/ k >= InsertPlace(p, time) /\ InsertPlace(q, time) = InsertPlace(p, time)
  <1> DEFINE a == InsertPlace(p, time)
             m == Len(p)
             n == Len(q)
  <1>1. /\ a \in 1..(m + 1)
        /\ \A i \in 1..m : i < a => p[i].time <= time
        /\ \A i \in 1..m : i >= a => p[i].time > time
    BY InsertPlaceSplits
  <1>2. /\ n \in Nat /\ m \in Nat
        /\ \A i \in 1..n : q[i].time \in Nat
        /\ \A i \in 1..m : p[i].time \in Nat
        /\ \A i, j \in 1..n : i < j => q[i].time <= q[j].time
    BY QueueIs
  <1>3. /\ m = IF k <= n THEN n - 1 ELSE n
        /\ \A i \in 1..m : p[i] = IF i < k THEN q[i] ELSE q[i + 1]
        /\ k \in 1..(n + 1)
    BY DEF ReplayAt
  <1> HIDE DEF a, m, n
  <1>4. CASE k <= n /\ q[k].time <= time
    <2>1. k \in 1..n /\ m = n - 1
      BY <1>2, <1>3, <1>4
    <2>2. k <= a
      <3> SUFFICES ASSUME a < k PROVE FALSE
        BY <1>1, <1>2, <2>1
      <3>1. a \in 1..m /\ a \in 1..n
        BY <1>1, <1>2, <2>1
      <3>2. p[a] = q[a] /\ p[a].time > time
        BY <1>1, <1>2, <1>3, <3>1
      <3>3. q[a].time <= q[k].time /\ q[a].time \in Nat /\ q[k].time \in Nat
        BY <1>2, <2>1, <3>1
      <3>4. QED
        BY SMTT(60), <1>4, <3>2, <3>3
    <2>3. ASSUME NEW i \in 1..n, i < a + 1 PROVE q[i].time <= time
      <3>1. CASE i <= k
        <4>1. q[i].time <= q[k].time \/ i = k
          BY <1>2, <2>1, <3>1
        <4>2. q[i].time \in Nat /\ q[k].time \in Nat
          BY <1>2, <2>1
        <4>3. QED
          BY SMTT(60), <1>4, <4>1, <4>2
      <3>2. CASE i > k
        <4>1. i - 1 \in 1..m /\ ~(i - 1 < k) /\ (i - 1) + 1 = i /\ i - 1 < a
          BY <1>1, <1>2, <2>1, <2>3, <3>2
        <4>2. p[i - 1] = q[i]
          BY <1>3, <4>1
        <4>3. QED
          BY <1>1, <4>1, <4>2
      <3>3. QED
        BY <2>1, <3>1, <3>2
    <2>4. ASSUME NEW i \in 1..n, i >= a + 1 PROVE q[i].time > time
      <3>1. i - 1 \in 1..m /\ ~(i - 1 < k) /\ (i - 1) + 1 = i /\ i - 1 >= a
        BY <1>1, <1>2, <2>1, <2>2, <2>4
      <3>2. p[i - 1] = q[i]
        BY <1>3, <3>1
      <3>3. QED
        BY <1>1, <3>1, <3>2
    <2>5. a + 1 \in 1..(n + 1)
      BY <1>1, <1>2, <2>1
    <2>6. InsertPlace(q, time) = a + 1
      BY <2>3, <2>4, <2>5, InsertPlaceIs DEF n
    <2>7. QED
      BY <1>4, <2>2, <2>6 DEF a, n
  <1>5. CASE ~(k <= n /\ q[k].time <= time)
    <2>1. k >= a
      <3>1. CASE k <= n
        <4> SUFFICES ASSUME k < a PROVE FALSE
          BY <1>1, <1>2, <1>3
        <4>1. a - 1 \in 1..m /\ a - 1 < a /\ ~(a - 1 < k) /\ (a - 1) + 1 = a /\ a \in 1..n /\ k \in 1..n
          BY <1>1, <1>2, <1>3, <3>1
        <4>2. p[a - 1] = q[a] /\ p[a - 1].time <= time
          BY <1>1, <1>3, <4>1
        <4>3. q[k].time <= q[a].time /\ q[a].time \in Nat /\ q[k].time \in Nat
          BY <1>2, <4>1
        <4>4. QED
          BY SMTT(60), <1>5, <3>1, <4>2, <4>3
      <3>2. CASE ~(k <= n)
        BY <1>1, <1>2, <1>3, <3>2
      <3>3. QED
        BY <3>1, <3>2
    <2>2. ASSUME NEW i \in 1..n, i < a PROVE q[i].time <= time
      <3>1. i \in 1..m /\ i < k
        BY <1>1, <1>2, <1>3, <2>1, <2>2
      <3>2. p[i] = q[i]
        BY <1>3, <3>1
      <3>3. QED
        BY <1>1, <2>2, <3>1, <3>2
    <2>3. ASSUME NEW i \in 1..n, i >= a PROVE q[i].time > time
      <3>1. CASE i < k
        <4>1. i \in 1..m
          BY <1>2, <1>3, <3>1
        <4>2. p[i] = q[i]
          BY <1>3, <3>1, <4>1
        <4>3. QED
          BY <1>1, <2>3, <4>1, <4>2
      <3>2. CASE ~(i < k)
        <4>1. k \in 1..n /\ (k < i \/ k = i)
          BY <1>2, <1>3, <3>2
        <4>2. q[k].time > time /\ q[k].time \in Nat /\ q[i].time \in Nat
              /\ (q[k].time <= q[i].time \/ k = i)
          BY SMTT(60), <1>2, <1>5, <4>1
        <4>3. QED
          BY <4>2
      <3>3. QED
        BY <3>1, <3>2
    <2>4. a \in 1..(n + 1)
      BY <1>1, <1>2, <1>3
    <2>5. InsertPlace(q, time) = a
      BY <2>2, <2>3, <2>4, InsertPlaceIs DEF n
    <2>6. QED
      BY <2>1, <2>5 DEF a
  <1>6. QED
    BY <1>4, <1>5

\* An event of the machine that is added to both leaves them alike.
LEMMA AddsAlike ==
  ASSUME ticks \in Nat, NEW p, QueueOK(p, ticks), NEW q, QueueOK(q, ticks), SameEvents(p, q),
         NEW delay \in Nat, NEW cb \in {"msec", "xfer"}
  PROVE  SameEvents(AddEvent(p, delay, cb), AddEvent(q, delay, cb))
  <1> DEFINE time == ticks + delay
             e == [time |-> time, cb |-> cb]
             a == InsertPlace(p, time)
             b == InsertPlace(q, time)
             m == Len(p)
             n == Len(q)
             pp == AddEvent(p, delay, cb)
             qq == AddEvent(q, delay, cb)
  <1>0. cb \in {"msec", "xfer", "replay"}
    OBVIOUS
  <1>1. /\ Len(pp) = m + 1
        /\ \A i \in 1..(m + 1) : pp[i] = IF i < a THEN p[i] ELSE IF i = a THEN e ELSE p[i - 1]
    BY <1>0, AddEventInserts
  <1>2. /\ Len(qq) = n + 1
        /\ \A i \in 1..(n + 1) : qq[i] = IF i < b THEN q[i] ELSE IF i = b THEN e ELSE q[i - 1]
    BY <1>0, AddEventInserts
  <1>3. NoReplay(pp)
    BY AddEventKeeps DEF SameEvents
  <1>4. PICK k \in 1..(n + 1) : ReplayAt(k, p, q)
    BY DEF SameEvents
  <1>5. \/ k <= n /\ k <= a /\ b = a + 1
        \/ k >= a /\ b = a
    <2>1. time \in Nat
      OBVIOUS
    <2> HIDE DEF time
    <2>2. QED
      BY <1>4, <2>1, PlacesAlike
  <1>6. /\ m = IF k <= n THEN n - 1 ELSE n
        /\ \A i \in 1..m : p[i] = IF i < k THEN q[i] ELSE q[i + 1]
        /\ k <= n => q[k].cb = "replay"
    BY <1>4 DEF ReplayAt
  <1>7. n \in Nat /\ m \in Nat /\ a \in 1..(m + 1)
    <2>1. time \in Nat
      OBVIOUS
    <2>2. QED
      BY <2>1, QueueIs, InsertPlaceSplits
  <1> HIDE DEF time, e, a, b, m, n, pp, qq
  <1>8. CASE k <= n /\ k <= a /\ b = a + 1
    <2>1. m = n - 1 /\ k \in 1..n
      BY <1>4, <1>6, <1>7, <1>8
    <2>2. ASSUME NEW i \in 1..n PROVE pp[i] = IF i < k THEN qq[i] ELSE qq[i + 1]
      <3>1. i \in 1..(m + 1) /\ i \in 1..(n + 1) /\ i + 1 \in 1..(n + 1) /\ (i + 1) - 1 = i
        BY <1>7, <2>1
      <3>2. CASE i < k
        <4>1. i < a /\ i < b /\ i \in 1..m
          BY <1>7, <1>8, <2>1, <3>2
        <4>2. pp[i] = p[i] /\ p[i] = q[i] /\ qq[i] = q[i]
          BY <1>1, <1>2, <1>6, <3>1, <3>2, <4>1
        <4>3. QED
          BY <3>2, <4>2
      <3>3. CASE ~(i < k) /\ i < a
        <4>1. i + 1 < b /\ i \in 1..m
          BY <1>7, <1>8, <2>1, <3>3
        <4>2. pp[i] = p[i] /\ p[i] = q[i + 1] /\ qq[i + 1] = q[i + 1]
          BY <1>1, <1>2, <1>6, <3>1, <3>3, <4>1
        <4>3. QED
          BY <3>3, <4>2
      <3>4. CASE i = a
        <4>1. i + 1 = b /\ ~(i + 1 < b) /\ ~(i < k) /\ ~(i < a)
          BY <1>7, <1>8, <2>1, <3>4
        <4>2. pp[i] = e /\ qq[i + 1] = e
          BY <1>1, <1>2, <3>1, <3>4, <4>1
        <4>3. QED
          BY <4>1, <4>2
      <3>5. CASE i > a
        <4>1. /\ i - 1 \in 1..m /\ ~(i - 1 < k) /\ (i - 1) + 1 = i
              /\ ~(i + 1 < b) /\ i + 1 # b /\ ~(i < k) /\ ~(i < a) /\ i # a
          BY <1>7, <1>8, <2>1, <3>5
        <4>2. pp[i] = p[i - 1] /\ p[i - 1] = q[i] /\ qq[i + 1] = q[i]
          BY <1>1, <1>2, <1>6, <3>1, <4>1
        <4>3. QED
          BY <4>1, <4>2
      <3>6. QED
        BY <1>7, <3>2, <3>3, <3>4, <3>5
    <2>3. qq[k].cb = "replay"
      <3>1. k < b /\ k \in 1..(n + 1)
        BY <1>7, <1>8, <2>1
      <3>2. QED
        BY <1>2, <1>6, <1>8, <3>1
    <2>4. ReplayAt(k, pp, qq)
      <3>1. m + 1 = n /\ k <= n + 1 /\ (n + 1) - 1 = n
        BY <1>7, <2>1
      <3>2. QED
        BY <1>1, <1>2, <2>2, <2>3, <3>1 DEF ReplayAt
    <2>5. k \in 1..((n + 1) + 1)
      BY <1>7, <2>1
    <2>6. QED
      BY <1>2, <1>3, <2>4, <2>5 DEF SameEvents, pp, qq
  <1>9. CASE k >= a /\ b = a
    <2>1. ASSUME NEW i \in 1..(m + 1) PROVE pp[i] = IF i < k + 1 THEN qq[i] ELSE qq[i + 1]
      <3>1. i \in 1..(n + 1) /\ (i >= k + 1 => i + 1 \in 1..(n + 1)) /\ (i + 1) - 1 = i
        BY <1>4, <1>6, <1>7
      <3>2. CASE i < a
        <4>1. i < k /\ i < b /\ i \in 1..m /\ i < k + 1
          BY <1>4, <1>7, <1>9, <3>2
        <4>2. pp[i] = p[i] /\ p[i] = q[i] /\ qq[i] = q[i]
          BY <1>1, <1>2, <1>6, <3>1, <3>2, <4>1
        <4>3. QED
          BY <4>1, <4>2
      <3>3. CASE i = a
        <4>1. ~(i < a) /\ ~(i < b) /\ i = b /\ i < k + 1
          BY <1>4, <1>7, <1>9, <3>3
        <4>2. pp[i] = e /\ qq[i] = e
          BY <1>1, <1>2, <3>1, <3>3, <4>1
        <4>3. QED
          BY <4>1, <4>2
      <3>4. CASE i > a /\ i < k + 1
        <4>1. ~(i < a) /\ ~(i < b) /\ i # b /\ i # a /\ i - 1 \in 1..m /\ i - 1 < k
          BY <1>4, <1>7, <1>9, <3>4
        <4>2. pp[i] = p[i - 1] /\ p[i - 1] = q[i - 1] /\ qq[i] = q[i - 1]
          BY <1>1, <1>2, <1>6, <3>1, <4>1
        <4>3. QED
          BY <3>4, <4>2
      <3>5. CASE i > a /\ ~(i < k + 1)
        <4>1. /\ ~(i < a) /\ i # a /\ ~(i + 1 < b) /\ i + 1 # b
              /\ i - 1 \in 1..m /\ ~(i - 1 < k) /\ (i - 1) + 1 = i /\ i + 1 \in 1..(n + 1)
          BY <1>4, <1>7, <1>9, <3>1, <3>5
        <4>2. pp[i] = p[i - 1] /\ p[i - 1] = q[i] /\ qq[i + 1] = q[i]
          BY <1>1, <1>2, <1>6, <3>1, <4>1
        <4>3. QED
          BY <3>5, <4>2
      <3>6. QED
        BY <1>7, <3>2, <3>3, <3>4, <3>5
    <2>2. k <= n => qq[k + 1].cb = "replay"
      <3> SUFFICES ASSUME k <= n PROVE qq[k + 1].cb = "replay"
        OBVIOUS
      <3>1. k + 1 \in 1..(n + 1) /\ ~(k + 1 < b) /\ k + 1 # b /\ (k + 1) - 1 = k
        BY <1>4, <1>7, <1>9
      <3>2. QED
        BY <1>2, <1>6, <3>1
    <2>3. ReplayAt(k + 1, pp, qq)
      <3>1. /\ k + 1 <= n + 1 <=> k <= n
            /\ m + 1 = IF k + 1 <= n + 1 THEN (n + 1) - 1 ELSE n + 1
        BY <1>4, <1>6, <1>7
      <3>2. QED
        BY <1>1, <1>2, <2>1, <2>2, <3>1 DEF ReplayAt
    <2>4. k + 1 \in 1..((n + 1) + 1)
      BY <1>4, <1>7
    <2>5. QED
      BY <1>2, <1>3, <2>3, <2>4 DEF SameEvents, pp, qq
  <1>10. QED
    BY <1>5, <1>8, <1>9

\* Nor does the event of a key, which goes into one of them.
LEMMA ReplayInserted ==
  ASSUME ticks \in Nat, NEW p, QueueOK(p, ticks), NoReplay(p), NEW delay \in Nat
  PROVE  SameEvents(p, AddEvent(p, delay, "replay"))
  <1> DEFINE time == ticks + delay
             e == [time |-> time, cb |-> "replay"]
             a == InsertPlace(p, time)
             m == Len(p)
             qq == AddEvent(p, delay, "replay")
  <1>1. /\ Len(qq) = m + 1
        /\ \A i \in 1..(m + 1) : qq[i] = IF i < a THEN p[i] ELSE IF i = a THEN e ELSE p[i - 1]
    BY AddEventInserts
  <1>2. m \in Nat /\ a \in 1..(m + 1) /\ e.cb = "replay"
    <2>1. time \in Nat
      OBVIOUS
    <2>2. QED
      BY <2>1, QueueIs, InsertPlaceSplits
  <1> HIDE DEF time, e, a, m, qq
  <1>3. ASSUME NEW i \in 1..m PROVE p[i] = IF i < a THEN qq[i] ELSE qq[i + 1]
    <2>1. i \in 1..(m + 1) /\ i + 1 \in 1..(m + 1) /\ (i + 1) - 1 = i
      BY <1>2
    <2>2. CASE i < a
      BY <1>1, <2>1, <2>2
    <2>3. CASE ~(i < a)
      <3>1. ~(i + 1 < a) /\ i + 1 # a
        BY <1>2, <2>3
      <3>2. qq[i + 1] = p[i]
        BY <1>1, <2>1, <3>1
      <3>3. QED
        BY <2>3, <3>2
    <2>4. QED
      BY <2>2, <2>3
  <1>4. qq[a].cb = "replay"
    <2>1. ~(a < a)
      BY <1>2
    <2>2. QED
      BY <1>1, <1>2, <2>1
  <1>5. ReplayAt(a, p, qq)
    <2>1. a <= m + 1 /\ m = (m + 1) - 1
      BY <1>2
    <2>2. QED
      BY <1>1, <1>3, <1>4, <2>1 DEF ReplayAt, m
  <1>6. a \in 1..((m + 1) + 1)
    BY <1>2
  <1>7. QED
    BY <1>1, <1>5, <1>6 DEF SameEvents, qq

LEMMA SameAlready ==
  ASSUME NEW now, NEW p, QueueOK(p, now), NoReplay(p)
  PROVE  SameEvents(p, p)
  <1> DEFINE m == Len(p)
  <1>1. m \in Nat
    BY QueueIs
  <1> HIDE DEF m
  <1>2. m + 1 \in 1..(m + 1) /\ ~(m + 1 <= m) /\ \A i \in 1..m : i < m + 1
    BY <1>1
  <1>3. ReplayAt(m + 1, p, p)
    BY <1>2 DEF ReplayAt, m
  <1>4. QED
    BY <1>2, <1>3 DEF SameEvents, m

\* The head of the queue with the key's event, when it is that event ...
LEMMA ReplayFirst ==
  ASSUME NEW now, NEW p, QueueOK(p, now), NEW q, QueueOK(q, now), SameEvents(p, q),
         q # <<>>, Head(q).cb = "replay"
  PROVE  Tail(q) = p
  <1> DEFINE m == Len(p)
             n == Len(q)
             rest == Tail(q)
  <1>1. n \in Nat \ {0} /\ m \in Nat /\ q \in Seq(Entry) /\ p \in Seq(Entry)
    BY QueueIs, EmptySeq
  <1>2. Head(q) = q[1] /\ rest \in Seq(Entry) /\ Len(rest) = n - 1 /\ \A i \in 1..(n - 1) : rest[i] = q[i + 1]
    BY <1>1, HeadTailProperties
  <1>3. PICK k \in 1..(n + 1) : ReplayAt(k, p, q)
    BY DEF SameEvents
  <1>4. /\ m = IF k <= n THEN n - 1 ELSE n
        /\ \A i \in 1..m : p[i] = IF i < k THEN q[i] ELSE q[i + 1]
        /\ \A i \in 1..m : p[i].cb # "replay"
    BY <1>3 DEF ReplayAt, SameEvents, NoReplay
  <1> HIDE DEF m, n, rest
  <1>5. k = 1
    <2> SUFFICES ASSUME k # 1 PROVE FALSE
      OBVIOUS
    <2>1. 1 \in 1..m /\ 1 < k
      BY <1>1, <1>3, <1>4
    <2>2. p[1] = q[1]
      BY <1>4, <2>1
    <2>3. QED
      BY <1>2, <1>4, <2>1, <2>2
  <1>6. m = n - 1 /\ \A i \in 1..m : ~(i < k)
    BY <1>1, <1>4, <1>5
  <1>7. \A i \in 1..m : p[i] = rest[i]
    BY <1>2, <1>4, <1>6
  <1>8. QED
    BY <1>1, <1>2, <1>6, <1>7, SeqEqual DEF m, n, rest

\* ... and when it is not.
LEMMA HeadsAlike ==
  ASSUME NEW now, NEW p, QueueOK(p, now), NEW q, QueueOK(q, now), SameEvents(p, q),
         q # <<>>, Head(q).cb # "replay"
  PROVE  p # <<>> /\ Head(p) = Head(q) /\ SameEvents(Tail(p), Tail(q))
  <1> DEFINE m == Len(p)
             n == Len(q)
             pp == Tail(p)
             qq == Tail(q)
  <1>1. n \in Nat \ {0} /\ m \in Nat /\ q \in Seq(Entry) /\ p \in Seq(Entry)
    BY QueueIs, EmptySeq
  <1>2. Head(q) = q[1] /\ Len(qq) = n - 1 /\ \A i \in 1..(n - 1) : qq[i] = q[i + 1]
    BY <1>1, HeadTailProperties
  <1>3. PICK k \in 1..(n + 1) : ReplayAt(k, p, q)
    BY DEF SameEvents
  <1>4. /\ m = IF k <= n THEN n - 1 ELSE n
        /\ \A i \in 1..m : p[i] = IF i < k THEN q[i] ELSE q[i + 1]
        /\ k <= n => q[k].cb = "replay"
        /\ \A i \in 1..m : p[i].cb # "replay"
    BY <1>3 DEF ReplayAt, SameEvents, NoReplay
  <1> HIDE DEF n
  <1>5. k # 1
    BY <1>1, <1>2, <1>4
  <1>6. m \in Nat \ {0} /\ 1 \in 1..m /\ 1 < k
    BY <1>1, <1>3, <1>4, <1>5
  <1>7. p # <<>> /\ Head(p) = p[1] /\ Len(pp) = m - 1 /\ \A i \in 1..(m - 1) : pp[i] = p[i + 1]
    <2>1. p # <<>>
      BY <1>1, <1>6, EmptySeq
    <2>2. QED
      BY <1>1, <2>1, HeadTailProperties
  <1> HIDE DEF m, pp, qq
  <1>8. p[1] = q[1]
    BY <1>4, <1>6
  <1>9. ASSUME NEW i \in 1..(m - 1) PROVE pp[i] = IF i < k - 1 THEN qq[i] ELSE qq[i + 1]
    <2>1. /\ i + 1 \in 1..m /\ i \in 1..(n - 1) /\ (i + 1 < k <=> i < k - 1)
          /\ ~(i < k - 1) => i + 1 \in 1..(n - 1)
      BY <1>1, <1>3, <1>4, <1>6
    <2>2. pp[i] = p[i + 1] /\ p[i + 1] = IF i + 1 < k THEN q[i + 1] ELSE q[(i + 1) + 1]
      BY <1>4, <1>7, <2>1
    <2>3. QED
      BY <1>2, <2>1, <2>2
  <1>10. k - 1 <= n - 1 => qq[k - 1].cb = "replay"
    <2> SUFFICES ASSUME k - 1 <= n - 1 PROVE qq[k - 1].cb = "replay"
      OBVIOUS
    <2>1. k - 1 \in 1..(n - 1) /\ (k - 1) + 1 = k /\ k <= n
      BY <1>1, <1>3, <1>6
    <2>2. QED
      BY <1>2, <1>4, <2>1
  <1>11. ReplayAt(k - 1, pp, qq)
    <2>1. /\ k - 1 <= n - 1 <=> k <= n
          /\ m - 1 = IF k - 1 <= n - 1 THEN (n - 1) - 1 ELSE n - 1
      BY <1>1, <1>3, <1>4
    <2>2. QED
      BY <1>2, <1>7, <1>9, <1>10, <2>1 DEF ReplayAt
  <1>12. NoReplay(pp)
    <2>1. \A i \in 1..(m - 1) : i + 1 \in 1..m
      BY <1>1
    <2>2. QED
      BY <1>4, <1>7, <2>1 DEF NoReplay
  <1>13. k - 1 \in 1..((n - 1) + 1)
    BY <1>1, <1>3, <1>6
  <1>14. QED
    BY <1>2, <1>7, <1>8, <1>11, <1>12, <1>13 DEF SameEvents, pp, qq

Due(q, now) == \E i \in 1..Len(q) : q[i].time <= now

\* What is due in one of them is due in the other, but for the key's event.
LEMMA DueAlike ==
  ASSUME NEW now, NEW p, QueueOK(p, now), NEW q, QueueOK(q, now), SameEvents(p, q), Due(p, now)
  PROVE  Due(q, now)
  <1> DEFINE m == Len(p)
             n == Len(q)
  <1>1. n \in Nat /\ m \in Nat
    BY QueueIs
  <1>2. PICK k \in 1..(n + 1) : ReplayAt(k, p, q)
    BY DEF SameEvents
  <1>3. /\ m = IF k <= n THEN n - 1 ELSE n
        /\ \A i \in 1..m : p[i] = IF i < k THEN q[i] ELSE q[i + 1]
    BY <1>2 DEF ReplayAt
  <1>4. PICK i \in 1..m : p[i].time <= now
    BY DEF Due
  <1> HIDE DEF m, n
  <1>5. i \in 1..n /\ (~(i < k) => i + 1 \in 1..n)
    BY <1>1, <1>2, <1>3
  <1>6. QED
    BY <1>3, <1>4, <1>5 DEF Due, n

LEMMA DueBoth ==
  ASSUME NEW now \in Nat, NEW p, QueueOK(p, now), NEW q, QueueOK(q, now), SameEvents(p, q),
         Due(q, now), q # <<>>, Head(q).cb # "replay"
  PROVE  Due(p, now)
  <1> DEFINE m == Len(p)
             n == Len(q)
  <1>1. p # <<>> /\ Head(p) = Head(q)
    BY HeadsAlike
  <1>2. n \in Nat \ {0} /\ m \in Nat \ {0} /\ Head(q) = q[1] /\ Head(p) = p[1]
    <2>1. q \in Seq(Entry) /\ p \in Seq(Entry)
      BY QueueIs
    <2>2. QED
      BY <1>1, <2>1, EmptySeq
  <1>3. /\ \A i \in 1..n : q[i].time \in Nat
        /\ \A i, j \in 1..n : i < j => q[i].time <= q[j].time
    BY QueueIs
  <1>4. PICK i \in 1..n : q[i].time <= now
    BY DEF Due
  <1> HIDE DEF m, n
  <1>5. 1 \in 1..n /\ 1 \in 1..m /\ (1 < i \/ i = 1)
    BY <1>2
  <1>6. q[1].time <= now
    BY <1>3, <1>4, <1>5
  <1>7. QED
    BY <1>1, <1>2, <1>5, <1>6 DEF Due, m

-----------------------------------------------------------------------------
(* The history of a recording, and the replay that follows it.             *)

\* add_event at a given tick.
AddedAt(q, time, cb) ==
  LET k == InsertPlace(q, time)
  IN SubSeq(q, 1, k - 1) \o <<[time |-> time, cb |-> cb]>> \o SubSeq(q, k, Len(q))

\* A state of the machine, with the number of keys it has had.
State(kbd, now, q, at, left, in, sent, bytes) ==
  [kbd |-> kbd, ticks |-> now, queue |-> q, phase |-> at, count |-> left, guest |-> in,
   sent |-> sent, handled |-> bytes]

Now == State(Kbd, ticks, queue, phase, count, guest, Len(injected), handled)

Start ==
  State([buffer |-> [i \in 0..(BufSize - 1) |-> 0], pos |-> 0, used |-> 0, p60data |-> 0,
         p60changed |-> FALSE, scheduled |-> FALSE, transfers |-> 0, irq1 |-> FALSE,
         repeat |-> [key |-> NoKey, wait |-> 0], held |-> {}],
        0, <<PowerOn>>, "irq", DecodeCount, "program", 0, <<>>)

\* What the steps of the machine make of a state.
Scheduling(q, before, after, now) ==
  IF after.transfers > before.transfers THEN AddedAt(q, now + KeyDelay, "xfer") ELSE q

Checked(s) ==
  IF s.count = 0
  THEN State(s.kbd, s.ticks, s.queue, "host", s.count, s.guest, s.sent, s.handled)
  ELSE IF s.kbd.irq1 /\ s.guest = "program"
  THEN State(Taken(s.kbd), s.ticks, s.queue, "events", s.count - 1, "stub", s.sent, s.handled)
  ELSE State(s.kbd, s.ticks, s.queue, "events", s.count - 1, s.guest, s.sent, s.handled)

MsecRun(s) ==
  LET after == MsecPassed(s.kbd)
      q == Scheduling(Tail(s.queue), s.kbd, after, s.ticks)
  IN State(after, s.ticks, AddedAt(q, s.ticks + MsecTicks, "msec"), s.phase, s.count, s.guest,
           s.sent, s.handled)

TransferRun(s) ==
  State(Transferred(s.kbd), s.ticks, Tail(s.queue), s.phase, s.count, s.guest, s.sent, s.handled)

Charged(s) ==
  State(s.kbd, s.ticks + 1, s.queue, "execute", s.count, s.guest, s.sent, s.handled)

Executed(s) ==
  IF s.guest = "program"
  THEN State(s.kbd, s.ticks, s.queue, "irq", s.count, s.guest, s.sent, s.handled)
  ELSE IF s.guest = "stub"
  THEN LET after == WasRead(s.kbd)
       IN State(after, s.ticks, Scheduling(s.queue, s.kbd, after, s.ticks), "irq", s.count,
                "handler", s.sent, Append(s.handled, <<s.ticks, s.kbd.p60data>>))
  ELSE State(s.kbd, s.ticks, s.queue, "host", s.count, "program", s.sent, s.handled)

LoopedAgain(s) ==
  State(s.kbd, s.ticks, s.queue, "irq", DecodeCount, s.guest, s.sent, s.handled)

Pressed(s, event) ==
  LET after == KeyAdded(s.kbd, event.key, event.pressed)
  IN State(after, s.ticks, Scheduling(s.queue, s.kbd, after, s.ticks), s.phase, s.count, s.guest,
           s.sent + 1, s.handled)

IsDue(s) == Due(s.queue, s.ticks)
Runs(s, cb) == s.phase \in {"events", "host"} /\ IsDue(s) /\ Head(s.queue).cb = cb

\* The step from s to t is one of the machine.
Moves(s, t) ==
  \/ s.phase = "irq" /\ t = Checked(s)
  \/ Runs(s, "msec") /\ t = MsecRun(s)
  \/ Runs(s, "xfer") /\ t = TransferRun(s)
  \/ s.phase = "events" /\ ~IsDue(s) /\ t = Charged(s)
  \/ s.phase = "execute" /\ t = Executed(s)
  \/ s.phase = "host" /\ ~IsDue(s) /\ t = LoopedAgain(s)

\* It is the next key of the recording F.
Presses(s, t, F) ==
  /\ s.phase = "host" /\ ~IsDue(s)
  /\ s.sent + 1 \in 1..Len(F)
  /\ F[s.sent + 1].time = s.ticks
  /\ t = Pressed(s, F[s.sent + 1])

LEMMA NowIs ==
  /\ Now.kbd = Kbd /\ Now.ticks = ticks /\ Now.queue = queue /\ Now.phase = phase
  /\ Now.count = count /\ Now.guest = guest /\ Now.sent = Len(injected) /\ Now.handled = handled
  /\ Now.kbd.transfers = transfers /\ Now.kbd.irq1 = irq1 /\ Now.kbd.p60data = p60data
  /\ IsDue(Now) = EventDue
  BY DEF Now, State, Kbd, IsDue, Due, EventDue

\* What the keyboard schedules in a step.
LEMMA SchedulingIs ==
  ASSUME NEW q
  PROVE  Scheduling(q, Kbd, Kbd', ticks) = WithTransfer(q)
  BY DEF Scheduling, WithTransfer, AddedAt, AddEvent, Kbd

\* The actions are the steps of the machine.
LEMMA ActionsMove ==
  ASSUME speed = FirstRate, injected' = injected,
         InterruptCheck \/ Msec \/ Transfer \/ Charge \/ Execute \/ LoopAgain
  PROVE  Moves(Now, Now')
  <1> DEFINE s == Now
             t == Now'
  <1>1. t = State(Kbd', ticks', queue', phase', count', guest', Len(injected), handled')
    BY DEF Now
  <1>2. CASE InterruptCheck
    <2>1. s.phase = "irq" /\ UNCHANGED <<ticks, queue, handled>>
      BY <1>2, NowIs DEF InterruptCheck, past_vars
    <2>2. t = Checked(s)
      <3>1. CASE count = 0
        <4>1. phase' = "host" /\ UNCHANGED <<kbd_vars, count, guest>>
          BY <1>2, <3>1 DEF InterruptCheck
        <4>2. Kbd' = Kbd
          BY <4>1 DEF Kbd, kbd_vars
        <4>3. QED
          BY <1>1, <2>1, <3>1, <4>1, <4>2, NowIs DEF Checked
      <3>2. CASE count # 0 /\ irq1 /\ guest = "program"
        <4>1. phase' = "events" /\ count' = count - 1 /\ guest' = "stub" /\ K!TakeIrq1
          BY <1>2, <3>2 DEF InterruptCheck
        <4>2. Kbd' = Taken(Kbd)
          BY <4>1, TakenIs
        <4>3. QED
          BY <1>1, <2>1, <3>2, <4>1, <4>2, NowIs DEF Checked
      <3>3. CASE count # 0 /\ ~(irq1 /\ guest = "program")
        <4>1. phase' = "events" /\ count' = count - 1 /\ UNCHANGED <<kbd_vars, guest>>
          BY <1>2, <3>3 DEF InterruptCheck
        <4>2. Kbd' = Kbd
          BY <4>1 DEF Kbd, kbd_vars
        <4>3. QED
          BY <1>1, <2>1, <3>3, <4>1, <4>2, NowIs DEF Checked
      <3>4. QED
        BY <3>1, <3>2, <3>3
    <2>3. QED
      BY <2>1, <2>2 DEF Moves
  <1>3. CASE Msec
    <2>1. /\ Runs(s, "msec") /\ UNCHANGED <<ticks, phase, count, guest, handled>>
          /\ queue' = AddEvent(WithTransfer(Tail(queue)), MsecTicks, "msec")
      BY <1>3, NowIs DEF Msec, RunEvent, Runs
    <2>2. Kbd' = MsecPassed(Kbd)
      BY <1>3, MsecPassedIs DEF Msec
    <2>3. queue' = AddedAt(Scheduling(Tail(queue), Kbd, Kbd', ticks), ticks + MsecTicks, "msec")
      BY <2>1, SchedulingIs DEF AddEvent, AddedAt
    <2>4. t = MsecRun(s)
      BY <1>1, <2>1, <2>2, <2>3, NowIs DEF MsecRun
    <2>5. QED
      BY <2>1, <2>4 DEF Moves
  <1>4. CASE Transfer
    <2>1. /\ Runs(s, "xfer") /\ UNCHANGED <<ticks, phase, count, guest, handled>>
          /\ queue' = Tail(queue)
      BY <1>4, NowIs DEF Transfer, RunEvent, Runs
    <2>2. Kbd' = Transferred(Kbd)
      BY <1>4, TransferredIs DEF Transfer
    <2>3. t = TransferRun(s)
      BY <1>1, <2>1, <2>2, NowIs DEF TransferRun
    <2>4. QED
      BY <2>1, <2>3 DEF Moves
  <1>5. CASE Charge
    <2>1. /\ s.phase = "events" /\ ~IsDue(s) /\ ticks' = ticks + 1 /\ phase' = "execute"
          /\ UNCHANGED <<kbd_vars, queue, count, guest, handled>>
      BY <1>5, NowIs DEF Charge
    <2>2. Kbd' = Kbd
      BY <2>1 DEF Kbd, kbd_vars
    <2>3. t = Charged(s)
      BY <1>1, <2>1, <2>2, NowIs DEF Charged
    <2>4. QED
      BY <2>1, <2>3 DEF Moves
  <1>6. CASE Execute
    <2>1. s.phase = "execute" /\ UNCHANGED <<ticks, count>>
      BY <1>6, NowIs DEF Execute
    <2>2. CASE guest = "program"
      <3>1. phase' = "irq" /\ UNCHANGED <<kbd_vars, queue, guest, handled>>
        BY <1>6, <2>2 DEF Execute
      <3>2. Kbd' = Kbd
        BY <3>1 DEF Kbd, kbd_vars
      <3>3. t = Executed(s)
        BY <1>1, <2>1, <2>2, <3>1, <3>2, NowIs DEF Executed
      <3>4. QED
        BY <2>1, <3>3 DEF Moves
    <2>3. CASE guest = "stub"
      <3>1. /\ phase' = "irq" /\ guest' = "handler" /\ K!ReadP60
            /\ handled' = Append(handled, <<ticks, p60data>>) /\ queue' = WithTransfer(queue)
        BY <1>6, <2>3 DEF Execute
      <3>2. Kbd' = WasRead(Kbd)
        BY <3>1, WasReadIs
      <3>3. queue' = Scheduling(queue, Kbd, Kbd', ticks)
        BY <3>1, SchedulingIs
      <3>4. t = Executed(s)
        BY <1>1, <2>1, <2>3, <3>1, <3>2, <3>3, NowIs DEF Executed
      <3>5. QED
        BY <2>1, <3>4 DEF Moves
    <2>4. CASE guest = "handler"
      <3>1. phase' = "host" /\ guest' = "program" /\ UNCHANGED <<kbd_vars, queue, handled>>
        BY <1>6, <2>4 DEF Execute
      <3>2. Kbd' = Kbd
        BY <3>1 DEF Kbd, kbd_vars
      <3>3. t = Executed(s)
        BY <1>1, <2>1, <2>4, <3>1, <3>2, NowIs DEF Executed
      <3>4. QED
        BY <2>1, <3>3 DEF Moves
    <2>5. QED
      BY <1>6, <2>2, <2>3, <2>4 DEF Execute
  <1>7. CASE LoopAgain
    <2>1. /\ s.phase = "host" /\ ~IsDue(s) /\ phase' = "irq" /\ count' = DecodeCount
          /\ UNCHANGED <<kbd_vars, ticks, queue, guest, handled>>
      BY <1>7, NowIs DEF LoopAgain, past_vars
    <2>2. Kbd' = Kbd
      BY <2>1 DEF Kbd, kbd_vars
    <2>3. t = LoopedAgain(s)
      BY <1>1, <2>1, <2>2, NowIs DEF LoopedAgain
    <2>4. QED
      BY <2>1, <2>3 DEF Moves
  <1>8. QED
    BY <1>2, <1>3, <1>4, <1>5, <1>6, <1>7

\* A key of the host is the next one of the recording that it makes longer.
LEMMA HostKeyPresses ==
  ASSUME speed = FirstRate, NEW key \in Keys, NEW pressed \in BOOLEAN, HostKey(key, pressed),
         ticks \in Nat, injected \in Seq(Event), file = injected
  PROVE  Presses(Now, Now', file')
  <1> DEFINE e == [time |-> ticks, key |-> key, pressed |-> pressed]
             n == Len(injected)
  <1>1. /\ phase = "host" /\ ~EventDue /\ K!AddKey(key, pressed) /\ queue' = WithTransfer(queue)
        /\ file' = Append(file, e) /\ injected' = Append(injected, e)
        /\ UNCHANGED <<ticks, phase, count, guest, handled>>
    BY DEF HostKey
  <1>2. e \in Event /\ n \in Nat /\ e.time = ticks /\ e.key = key /\ e.pressed = pressed
    BY LenProperties DEF Event
  <1> HIDE DEF e, n
  <1>3. Len(file') = n + 1 /\ Len(injected') = n + 1 /\ file'[n + 1] = e
    BY <1>1, <1>2, AppendProperties DEF n
  <1>4. n + 1 \in 1..(n + 1)
    BY <1>2
  <1>5. Kbd' = KeyAdded(Kbd, key, pressed)
    BY <1>1, KeyAddedIs
  <1>6. queue' = Scheduling(queue, Kbd, Kbd', ticks)
    BY <1>1, SchedulingIs
  <1>7. Now' = State(Kbd', ticks, queue', phase, count, guest, n + 1, handled)
    BY <1>1, <1>3 DEF Now
  <1>8. Now' = Pressed(Now, e)
    BY <1>2, <1>5, <1>6, <1>7, NowIs DEF Pressed, n
  <1>9. QED
    BY <1>1, <1>2, <1>3, <1>4, <1>8, NowIs DEF Presses, n

-----------------------------------------------------------------------------
(* The history of a recording.                                             *)

SoundState(s, S) ==
  /\ s.ticks \in Nat /\ QueueOK(s.queue, s.ticks) /\ NoReplay(s.queue)
  /\ s.sent \in Nat
  /\ s.handled \in Seq(S)

\* The bytes of h begin with those read up to the state s.
ReadBefore(s, h) ==
  /\ Prefix(s.handled, h)
  /\ \A n \in (Len(s.handled) + 1)..Len(h) : h[n][1] >= s.ticks

AllSound(T, N, S) == \A i \in 1..N : SoundState(T[i], S)
AllSteps(T, N, F) == \A i \in 1..(N - 1) : Moves(T[i], T[i + 1]) \/ Presses(T[i], T[i + 1], F)
OnlyForward(T, N) ==
  \A i, j \in 1..N : i <= j => T[i].ticks <= T[j].ticks /\ T[i].sent <= T[j].sent
AllReads(T, N) == \A i \in 1..N : ReadBefore(T[i], T[N].handled)

\* All the keys of F came, each by a step.
AllKeys(T, N, F) ==
  /\ T[N].sent = Len(F)
  /\ \A k \in 1..Len(F) : \E j \in 1..(N - 1) : T[j].sent = k - 1 /\ T[j + 1].sent = k

\* A state in which events run, left by a step that is not a key.
RanAt(T, i, now) ==
  T[i].ticks = now /\ T[i].phase \in {"events", "host"} /\ T[i + 1].sent = T[i].sent

\* No key came at a tick after another event could run.
KeysFirst(T, N) ==
  \A j \in 1..(N - 1) :
    T[j + 1].sent # T[j].sent => \A i \in 1..(j - 1) : ~RanAt(T, i, T[j].ticks)

Trace(T, N, S, F) ==
  /\ N \in Nat \ {0} /\ T[1] = Start
  /\ AllSound(T, N, S) /\ AllSteps(T, N, F) /\ OnlyForward(T, N) /\ AllReads(T, N)
  /\ AllKeys(T, N, F) /\ KeysFirst(T, N)

Longer(T, N, t) == [i \in 1..(N + 1) |-> IF i = N + 1 THEN t ELSE T[i]]

LEMMA LongerIs ==
  ASSUME NEW T, NEW N \in Nat \ {0}, NEW t
  PROVE  /\ \A i \in 1..N : Longer(T, N, t)[i] = T[i]
         /\ \A i \in 1..(N - 1) : Longer(T, N, t)[i + 1] = T[i + 1]
         /\ Longer(T, N, t)[N + 1] = t
         /\ Longer(T, N, t)[1] = T[1]
  <1>1. \A i \in 1..N : i \in 1..(N + 1) /\ i # N + 1
    OBVIOUS
  <1>2. \A i \in 1..(N - 1) : i + 1 \in 1..N
    OBVIOUS
  <1>3. N + 1 \in 1..(N + 1) /\ 1 \in 1..N
    OBVIOUS
  <1>4. QED
    BY <1>1, <1>2, <1>3 DEF Longer

LEMMA LongerAt ==
  ASSUME NEW T, NEW N \in Nat \ {0}, NEW t, NEW U, U = Longer(T, N, t)
  PROVE  /\ U[N + 1] = t
         /\ \A i \in 1..N : U[i] = T[i]
         /\ \A i \in 1..(N - 1) : U[i + 1] = T[i + 1]
  BY LongerIs

\* The places of a history that is one step longer.
LEMMA PlacesOf ==
  ASSUME NEW N \in Nat \ {0}
  PROVE  /\ \A i \in 1..(N + 1) : i \in 1..N \/ i = N + 1
         /\ \A i \in 1..N : i \in 1..(N - 1) \/ i = N
         /\ (N + 1) - 1 = N /\ N \in 1..N
         /\ \A i \in 1..(N - 1) : i \in 1..N
  OBVIOUS

LEMMA SoundLonger ==
  ASSUME NEW T, NEW N \in Nat \ {0}, NEW S, NEW R, NEW t, AllSound(T, N, S), SoundState(t, R),
         S \subseteq R
  PROVE  AllSound(Longer(T, N, t), N + 1, R)
  <1>1. Seq(S) \subseteq Seq(R)
    BY SeqMonotonic
  <1>2. \A s : SoundState(s, S) => SoundState(s, R)
    BY <1>1 DEF SoundState
  <1>3. \A i \in 1..N : SoundState(Longer(T, N, t)[i], R)
    BY <1>2, LongerIs DEF AllSound
  <1>4. SoundState(Longer(T, N, t)[N + 1], R)
    BY LongerIs
  <1>5. QED
    BY <1>3, <1>4, PlacesOf DEF AllSound

LEMMA StepsLonger ==
  ASSUME NEW T, NEW N \in Nat \ {0}, NEW t, NEW F, NEW G, AllSteps(T, N, F),
         Len(F) \in Nat, Len(G) \in Nat, Prefix(F, G),
         Moves(T[N], t) \/ Presses(T[N], t, G)
  PROVE  AllSteps(Longer(T, N, t), N + 1, G)
  <1> DEFINE U == Longer(T, N, t)
  <1>1. ASSUME NEW s, NEW r, Presses(s, r, F) PROVE Presses(s, r, G)
    <2> DEFINE k == s.sent + 1
    <2>1. k \in 1..Len(F) /\ F[k].time = s.ticks /\ r = Pressed(s, F[k])
      BY <1>1 DEF Presses
    <2> HIDE DEF k
    <2>2. k \in 1..Len(G) /\ G[k] = F[k]
      BY <2>1 DEF Prefix
    <2>3. QED
      BY <1>1, <2>1, <2>2 DEF Presses, k
  <1>2. ASSUME NEW i \in 1..(N - 1) PROVE Moves(U[i], U[i + 1]) \/ Presses(U[i], U[i + 1], G)
    <2>1. U[i] = T[i] /\ U[i + 1] = T[i + 1]
      BY LongerIs, PlacesOf
    <2>2. QED
      BY <1>1, <2>1 DEF AllSteps
  <1>3. U[N] = T[N] /\ U[N + 1] = t
    BY LongerIs, PlacesOf
  <1> HIDE DEF U
  <1>4. \A i \in 1..N : Moves(U[i], U[i + 1]) \/ Presses(U[i], U[i + 1], G)
    BY <1>2, <1>3, PlacesOf
  <1>5. QED
    BY <1>4, PlacesOf DEF AllSteps, U

LEMMA ForwardLonger ==
  ASSUME NEW T, NEW N \in Nat \ {0}, NEW t, OnlyForward(T, N),
         \A i \in 1..N : T[i].ticks \in Nat /\ T[i].sent \in Nat,
         t.ticks \in Nat, t.sent \in Nat, T[N].ticks <= t.ticks, T[N].sent <= t.sent
  PROVE  OnlyForward(Longer(T, N, t), N + 1)
  <1> DEFINE U == Longer(T, N, t)
  <1>1. U[N + 1] = t /\ \A i \in 1..N : U[i] = T[i]
    BY LongerIs
  <1> HIDE DEF U
  <1>2. ASSUME NEW i \in 1..N PROVE U[i].ticks <= t.ticks /\ U[i].sent <= t.sent
    <2>1. i <= N /\ N \in 1..N
      OBVIOUS
    <2>2. T[i].ticks <= T[N].ticks /\ T[i].sent <= T[N].sent
      BY <2>1 DEF OnlyForward
    <2>3. QED
      BY <1>1, <2>1, <2>2
  <1>3. ASSUME NEW i \in 1..(N + 1), NEW j \in 1..(N + 1), i <= j
        PROVE  U[i].ticks <= U[j].ticks /\ U[i].sent <= U[j].sent
    <2>1. CASE j \in 1..N
      <3>1. i \in 1..N
        BY <1>3, <2>1
      <3>2. QED
        BY <1>1, <1>3, <2>1, <3>1 DEF OnlyForward
    <2>2. CASE j = N + 1 /\ i \in 1..N
      BY <1>1, <1>2, <2>2
    <2>3. CASE j = N + 1 /\ i = N + 1
      BY <1>1, <2>3
    <2>4. QED
      BY <2>1, <2>2, <2>3, PlacesOf
  <1>4. QED
    BY <1>3 DEF OnlyForward, U

LEMMA ReadsLonger ==
  ASSUME NEW T, NEW N \in Nat \ {0}, NEW t, NEW S, AllReads(T, N), AllSound(T, N, S),
         OnlyForward(T, N),
         \/ t.handled = T[N].handled
         \/ \E x : t.handled = Append(T[N].handled, x) /\ x[1] = T[N].ticks
  PROVE  AllReads(Longer(T, N, t), N + 1)
  <1> DEFINE U == Longer(T, N, t)
             h == T[N].handled
             g == t.handled
  <1>1. U[N + 1] = t /\ \A i \in 1..N : U[i] = T[i]
    BY LongerIs
  <1>2. /\ h \in Seq(S) /\ Len(h) \in Nat
        /\ \A i \in 1..N : Len(T[i].handled) \in Nat
    BY PlacesOf, LenProperties DEF AllSound, SoundState
  <1>3. /\ Len(g) \in Nat /\ Prefix(h, g)
        /\ \A n \in (Len(h) + 1)..Len(g) : g[n][1] = T[N].ticks
    <2>1. CASE g = h
      BY <1>2, <2>1 DEF Prefix
    <2>2. CASE \E x : g = Append(h, x) /\ x[1] = T[N].ticks
      <3>1. PICK x : g = Append(h, x) /\ x[1] = T[N].ticks
        BY <2>2
      <3>2. h \in Seq(S \cup {x}) /\ x \in S \cup {x}
        BY <1>2, SeqMonotonic
      <3> HIDE DEF g, h
      <3>3. /\ Len(g) = Len(h) + 1 /\ \A i \in 1..Len(h) : g[i] = h[i]
            /\ g[Len(h) + 1] = x
        BY <3>1, <3>2, AppendProperties
      <3>4. QED
        BY <1>2, <3>1, <3>3 DEF Prefix
    <2>3. QED
      BY <2>1, <2>2
  <1> HIDE DEF U, h, g
  <1>4. ASSUME NEW i \in 1..N PROVE ReadBefore(U[i], g)
    <2> DEFINE f == T[i].handled
    <2>1. /\ Prefix(f, h) /\ \A n \in (Len(f) + 1)..Len(h) : h[n][1] >= T[i].ticks
      BY DEF AllReads, ReadBefore, h
    <2>2. Len(f) \in Nat
      BY <1>2
    <2>3. i <= N /\ N \in 1..N
      OBVIOUS
    <2>4. T[i].ticks <= T[N].ticks /\ T[i].ticks \in Nat /\ T[N].ticks \in Nat
      BY <2>3 DEF OnlyForward, AllSound, SoundState
    <2> HIDE DEF f
    <2>5. Prefix(f, g)
      BY <1>2, <1>3, <2>1, <2>2 DEF Prefix
    <2>6. ASSUME NEW n \in (Len(f) + 1)..Len(g) PROVE g[n][1] >= T[i].ticks
      <3>1. CASE n \in (Len(f) + 1)..Len(h)
        <4>1. n \in 1..Len(h)
          BY <2>2, <3>1
        <4>2. QED
          BY <1>3, <2>1, <3>1, <4>1 DEF Prefix
      <3>2. CASE n \in (Len(h) + 1)..Len(g)
        BY <1>3, <2>4, <3>2
      <3>3. QED
        BY <1>2, <1>3, <2>2, <3>1, <3>2
    <2>7. QED
      BY <1>1, <2>5, <2>6 DEF ReadBefore, f
  <1>5. ReadBefore(t, g)
    <2>1. Prefix(g, g) /\ \A n \in (Len(g) + 1)..Len(g) : FALSE
      BY <1>3 DEF Prefix
    <2>2. QED
      BY <2>1 DEF ReadBefore, g
  <1>6. QED
    BY <1>1, <1>4, <1>5, PlacesOf DEF AllReads, U, g

LEMMA KeysLonger ==
  ASSUME NEW T, NEW N \in Nat \ {0}, NEW t, NEW F, NEW G, AllKeys(T, N, F),
         Len(F) \in Nat, t.sent = Len(G), Len(G) \in {Len(F), Len(F) + 1}
  PROVE  AllKeys(Longer(T, N, t), N + 1, G)
  <1> DEFINE U == Longer(T, N, t)
  <1>1. /\ U[N + 1] = t /\ \A i \in 1..N : U[i] = T[i]
        /\ \A i \in 1..(N - 1) : U[i + 1] = T[i + 1]
    BY LongerIs
  <1> HIDE DEF U
  <1>2. ASSUME NEW k \in 1..Len(G) PROVE \E j \in 1..N : U[j].sent = k - 1 /\ U[j + 1].sent = k
    <2>1. CASE k \in 1..Len(F)
      <3>1. PICK j \in 1..(N - 1) : T[j].sent = k - 1 /\ T[j + 1].sent = k
        BY <2>1 DEF AllKeys
      <3>2. QED
        BY <1>1, <3>1, PlacesOf
    <2>2. CASE k = Len(F) + 1 /\ Len(G) = Len(F) + 1
      <3>1. T[N].sent = k - 1 /\ t.sent = k
        BY <2>2 DEF AllKeys
      <3>2. QED
        BY <1>1, <3>1, PlacesOf
    <2>3. QED
      BY <2>1, <2>2
  <1>3. QED
    BY <1>1, <1>2, PlacesOf DEF AllKeys, U

LEMMA FirstLonger ==
  ASSUME NEW T, NEW N \in Nat \ {0}, NEW t, KeysFirst(T, N),
         t.sent # T[N].sent => \A i \in 1..(N - 1) : ~RanAt(T, i, T[N].ticks)
  PROVE  KeysFirst(Longer(T, N, t), N + 1)
  <1> DEFINE U == Longer(T, N, t)
  <1>1. /\ U[N + 1] = t /\ \A i \in 1..N : U[i] = T[i]
        /\ \A i \in 1..(N - 1) : U[i + 1] = T[i + 1]
    BY LongerIs
  <1> HIDE DEF U
  <1>2. \A i \in 1..(N - 1) : \A now : RanAt(U, i, now) = RanAt(T, i, now)
    BY <1>1, PlacesOf DEF RanAt
  <1>3. ASSUME NEW j \in 1..N, U[j + 1].sent # U[j].sent, NEW i \in 1..(j - 1)
        PROVE  ~RanAt(U, i, U[j].ticks)
    <2>1. i \in 1..(N - 1)
      OBVIOUS
    <2>2. CASE j \in 1..(N - 1)
      BY <1>1, <1>2, <1>3, <2>1, <2>2 DEF KeysFirst
    <2>3. CASE j = N
      BY <1>1, <1>2, <1>3, <2>1, <2>3
    <2>4. QED
      BY <2>2, <2>3, PlacesOf
  <1>4. QED
    BY <1>3, PlacesOf DEF KeysFirst, U

LEMMA TraceLonger ==
  ASSUME NEW T, NEW N, NEW S, NEW F, NEW G, NEW R, NEW t,
         Trace(T, N, S, F), SoundState(t, R), S \subseteq R,
         Len(F) \in Nat, Prefix(F, G), Len(G) \in {Len(F), Len(F) + 1}, t.sent = Len(G),
         Moves(T[N], t) \/ Presses(T[N], t, G),
         T[N].ticks <= t.ticks,
         \/ t.handled = T[N].handled
         \/ \E x : t.handled = Append(T[N].handled, x) /\ x[1] = T[N].ticks,
         t.sent # T[N].sent => \A i \in 1..(N - 1) : ~RanAt(T, i, T[N].ticks)
  PROVE  Trace(Longer(T, N, t), N + 1, R, G)
  <1>1. N \in Nat \ {0} /\ N + 1 \in Nat \ {0} /\ T[1] = Start
    BY DEF Trace
  <1>2. Len(G) \in Nat /\ T[N].sent = Len(F)
    BY DEF Trace, AllKeys
  <1>3. /\ \A i \in 1..N : T[i].ticks \in Nat /\ T[i].sent \in Nat
        /\ t.ticks \in Nat /\ t.sent \in Nat
    BY DEF Trace, AllSound, SoundState
  <1>4. AllSound(Longer(T, N, t), N + 1, R)
    BY <1>1, SoundLonger DEF Trace
  <1>5. AllSteps(Longer(T, N, t), N + 1, G)
    BY <1>1, <1>2, StepsLonger DEF Trace
  <1>6. OnlyForward(Longer(T, N, t), N + 1)
    BY SMTT(60), <1>1, <1>2, <1>3, ForwardLonger DEF Trace
  <1>7. AllReads(Longer(T, N, t), N + 1)
    BY <1>1, ReadsLonger DEF Trace
  <1>8. AllKeys(Longer(T, N, t), N + 1, G)
    BY <1>1, KeysLonger DEF Trace
  <1>9. KeysFirst(Longer(T, N, t), N + 1)
    BY <1>1, FirstLonger DEF Trace
  <1>10. Longer(T, N, t)[1] = Start
    BY <1>1, LongerIs
  <1>11. QED
    BY <1>1, <1>4, <1>5, <1>6, <1>7, <1>8, <1>9, <1>10 DEF Trace

\* An event may have run at this tick before the next key could come.
LateOK(T, N) ==
  (\E i \in 1..(N - 1) : RanAt(T, i, ticks))
     => ran = ticks \/ phase = "events" \/ (phase = "irq" /\ count # 0)

RecordTrace == \E T, N, S : Trace(T, N, S, file) /\ T[N] = Now /\ LateOK(T, N)

Unloaded ==
  /\ speed = FirstRate
  /\ loads \in Nat
  /\ loads = 0 => ~released /\ phase # "release"

MachineStep ==
  InterruptCheck \/ Msec \/ Transfer \/ Charge \/ Execute \/ LoopAgain

LEMMA MachineStepIs ==
  ASSUME MachineStep
  PROVE  /\ UNCHANGED <<file, injected, next, run, recorded, loads, tied, released, speed>>
         /\ ticks' = ticks \/ ticks' = ticks + 1
         /\ handled' = handled \/ handled' = Append(handled, <<ticks, p60data>>)
         /\ phase' # "release"
  <1>1. CASE InterruptCheck
    BY <1>1 DEF InterruptCheck, file_vars, past_vars, kbd_vars, settings, K!TakeIrq1, K!mode_vars
  <1>2. CASE Msec
    BY <1>2 DEF Msec, RunEvent, file_vars, kbd_vars, settings, K!EveryMsec, K!mode_vars
  <1>3. CASE Transfer
    BY <1>3 DEF Transfer, RunEvent, file_vars, K!TransferBuffer, K!mode_vars
  <1>4. CASE Charge
    BY <1>4 DEF Charge, file_vars, kbd_vars, settings
  <1>5. CASE Execute
    BY <1>5 DEF Execute, file_vars, kbd_vars, settings, K!ReadP60, K!mode_vars
  <1>6. CASE LoopAgain
    BY <1>6 DEF LoopAgain, file_vars, past_vars, kbd_vars, settings
  <1>7. QED
    BY <1>1, <1>2, <1>3, <1>4, <1>5, <1>6 DEF MachineStep

\* What the invariant says of a state of a recording.
LEMMA RecordedState ==
  ASSUME ReplayInv, ~released, run = "record", phase # "release"
  PROVE  /\ ticks \in Nat /\ QueueOK(queue, ticks) /\ NoReplay(queue)
         /\ injected \in Seq(Event) /\ Len(injected) \in Nat /\ file = injected
  BY LenProperties DEF ReplayInv, Basics, Recording

LEMMA RecordMachineStep ==
  ASSUME ReplayInv, ReplayInv', Unloaded, run = "record", loads = 0, RecordTrace, MachineStep
  PROVE  RecordTrace'
  <1>0. PICK t : t = Now'
    OBVIOUS
  <1>1. PICK T, N, S : Trace(T, N, S, file) /\ T[N] = Now /\ LateOK(T, N)
    BY DEF RecordTrace
  <1>2. /\ UNCHANGED <<file, injected, next, run, recorded, loads, tied, released, speed>>
        /\ ticks' = ticks \/ ticks' = ticks + 1
        /\ handled' = handled \/ handled' = Append(handled, <<ticks, p60data>>)
        /\ phase' # "release" /\ phase # "release" /\ ~released /\ speed = FirstRate
    BY MachineStepIs DEF Unloaded
  <1>3. /\ ticks \in Nat /\ injected \in Seq(Event) /\ Len(injected) \in Nat /\ file = injected
    BY <1>2, RecordedState
  <1>4. /\ ticks' \in Nat /\ QueueOK(queue', ticks') /\ NoReplay(queue')
    <2>1. Basics' /\ Recording'
      BY <1>2 DEF ReplayInv
    <2>2. (NoReplay(queue))' = NoReplay(queue')
      BY DEF NoReplay
    <2>3. QED
      BY <2>1, <2>2 DEF Basics, Recording, QueueOK
  <1>5. Moves(Now, t)
    BY <1>0, <1>2, ActionsMove DEF MachineStep
  <1>6. /\ t.ticks = ticks' /\ t.queue = queue' /\ t.phase = phase' /\ t.handled = handled'
        /\ t.sent = Len(injected)
    BY <1>0, <1>2 DEF Now, State
  <1>7. /\ T[N].ticks = ticks /\ T[N].handled = handled /\ T[N].sent = Len(injected)
        /\ T[N].phase = phase
    BY <1>1, NowIs
  <1>8. N \in Nat \ {0} /\ N \in 1..N /\ handled \in Seq(S)
    <2>1. N \in Nat \ {0} /\ AllSound(T, N, S)
      BY <1>1 DEF Trace
    <2>2. N \in 1..N
      BY <2>1
    <2>3. QED
      BY <1>7, <2>1, <2>2 DEF AllSound, SoundState
  <1> DEFINE x == <<ticks, p60data>>
             R == S \cup {x}
  <1>9. handled' \in Seq(R) /\ S \subseteq R
    <2>1. handled \in Seq(R) /\ x \in R
      BY <1>8, SeqMonotonic
    <2> HIDE DEF R, x
    <2>2. Append(handled, x) \in Seq(R)
      BY <2>1, AppendProperties
    <2>3. QED
      BY <1>2, <2>1, <2>2 DEF R, x
  <1>10. \/ t.handled = T[N].handled
         \/ \E y : t.handled = Append(T[N].handled, y) /\ y[1] = T[N].ticks
    <2>1. x[1] = ticks
      OBVIOUS
    <2>2. QED
      BY <1>2, <1>6, <1>7, <2>1
  <1> HIDE DEF R, x
  <1>11. SoundState(t, R)
    BY <1>3, <1>4, <1>6, <1>9 DEF SoundState
  <1>12. Prefix(file, file) /\ Len(file) \in Nat
    BY <1>3 DEF Prefix
  <1>13. Trace(Longer(T, N, t), N + 1, R, file)
    <2>1. T[N].ticks <= t.ticks
      BY <1>2, <1>3, <1>6, <1>7
    <2>2. t.sent = Len(file) /\ T[N].sent = t.sent
      BY <1>3, <1>6, <1>7
    <2>3. QED
      BY <1>1, <1>5, <1>9, <1>10, <1>11, <1>12, <2>1, <2>2, TraceLonger
  <1>13a. PICK U : U = Longer(T, N, t)
    OBVIOUS
  <1>14. /\ U[N + 1] = t
         /\ \A i \in 1..N : U[i] = T[i]
         /\ \A i \in 1..(N - 1) : U[i + 1] = T[i + 1]
    BY <1>8, <1>13a, LongerAt
  <1>15. LateOK(U, N + 1)'
    <2> SUFFICES ASSUME NEW i \in 1..N, RanAt(U, i, ticks')
                 PROVE  ran' = ticks' \/ phase' = "events" \/ (phase' = "irq" /\ count' # 0)
      BY <1>8, PlacesOf DEF LateOK
    <2>1. i \in 1..(N - 1) \/ i = N
      BY <1>8, PlacesOf
    <2>2. U[i].ticks <= ticks /\ U[i].ticks = ticks' /\ U[i].ticks \in Nat
      <3>1. i <= N
        OBVIOUS
      <3>2. T[i].ticks <= T[N].ticks /\ T[i].ticks \in Nat
        BY <1>1, <1>8, <3>1 DEF Trace, OnlyForward, AllSound, SoundState
      <3>3. QED
        BY <1>7, <1>14, <3>2 DEF RanAt
    <2>3. ticks' = ticks
      BY <1>2, <1>3, <2>2
    <2>4. CASE Msec \/ Transfer
      BY <2>3, <2>4 DEF Msec, Transfer, RunEvent
    <2>5. CASE LoopAgain
      BY <2>5, ReplayAssumption DEF LoopAgain
    <2>6. CASE Charge
      BY <1>3, <2>3, <2>6 DEF Charge
    <2>7. CASE InterruptCheck \/ Execute
      <3>1. phase \in {"irq", "execute"} /\ ran' = ran
        BY <2>7 DEF InterruptCheck, Execute, past_vars
      <3>2. i # N
        BY <1>7, <1>8, <1>14, <3>1 DEF RanAt
      <3>3. RanAt(T, i, ticks)
        BY <1>14, <2>1, <2>3, <3>2, <1>8, PlacesOf DEF RanAt
      <3>4. ran = ticks \/ (phase = "irq" /\ count # 0)
        BY <1>1, <2>1, <3>1, <3>2, <3>3 DEF LateOK
      <3>5. phase = "irq" /\ count # 0 => phase' = "events"
        BY <2>7 DEF InterruptCheck, Execute
      <3>6. QED
        BY <2>3, <3>1, <3>4, <3>5
    <2>8. QED
      BY <2>4, <2>5, <2>6, <2>7 DEF MachineStep
  <1>16. QED
    BY <1>0, <1>2, <1>13, <1>14, <1>15, <1>13a DEF RecordTrace

LEMMA RecordHostKey ==
  ASSUME ReplayInv, ReplayInv', Unloaded, loads = 0, RecordTrace,
         NEW key \in Keys, NEW pressed \in BOOLEAN, HostKey(key, pressed), ~tied'
  PROVE  RecordTrace'
  <1> DEFINE e == [time |-> ticks, key |-> key, pressed |-> pressed]
             n == Len(injected)
  <1>0. PICK t : t = Now'
    OBVIOUS
  <1>1. PICK T, N, S : Trace(T, N, S, file) /\ T[N] = Now /\ LateOK(T, N)
    BY DEF RecordTrace
  <1>2. /\ phase = "host" /\ run = "record" /\ speed = FirstRate /\ ~released
        /\ file' = Append(file, e) /\ injected' = Append(injected, e)
        /\ tied' = (tied \/ ran = ticks)
        /\ UNCHANGED <<ticks, phase, run, handled, released, ran>>
    BY DEF HostKey, Unloaded
  <1>3. /\ ticks \in Nat /\ injected \in Seq(Event) /\ n \in Nat /\ file = injected
    BY <1>2, RecordedState
  <1>4. e \in Event
    BY <1>3 DEF Event
  <1> HIDE DEF e, n
  <1>5. /\ Len(file') = n + 1 /\ Len(injected') = n + 1 /\ Prefix(file, file')
    <2>1. Len(file') = n + 1 /\ \A i \in 1..n : file'[i] = file[i]
      BY <1>2, <1>3, <1>4, AppendProperties DEF n
    <2>2. QED
      BY <1>2, <1>3, <2>1 DEF Prefix, n
  <1>6. /\ ticks' \in Nat /\ QueueOK(queue', ticks') /\ NoReplay(queue')
    <2>1. Basics' /\ Recording'
      BY <1>2 DEF ReplayInv
    <2>2. (NoReplay(queue))' = NoReplay(queue')
      BY DEF NoReplay
    <2>3. QED
      BY <2>1, <2>2 DEF Basics, Recording, QueueOK
  <1>7. Presses(Now, t, file')
    BY <1>0, <1>2, <1>3, HostKeyPresses
  <1>8. /\ t.ticks = ticks /\ t.queue = queue' /\ t.phase = phase' /\ t.handled = handled
        /\ t.sent = n + 1
    BY <1>0, <1>2, <1>5 DEF Now, State
  <1>9. /\ T[N].ticks = ticks /\ T[N].handled = handled /\ T[N].sent = n /\ T[N].phase = phase
    BY <1>1, NowIs DEF n
  <1>10. N \in Nat \ {0} /\ N \in 1..N /\ handled \in Seq(S)
    <2>1. N \in Nat \ {0} /\ AllSound(T, N, S)
      BY <1>1 DEF Trace
    <2>2. N \in 1..N
      BY <2>1
    <2>3. QED
      BY <1>9, <2>1, <2>2 DEF AllSound, SoundState
  <1>11. SoundState(t, S)
    BY <1>2, <1>3, <1>6, <1>8, <1>10 DEF SoundState
  <1>12. \A i \in 1..(N - 1) : ~RanAt(T, i, ticks)
    BY <1>1, <1>2 DEF LateOK
  <1>13. Trace(Longer(T, N, t), N + 1, S, file')
    <2>1. Len(file) = n /\ n \in Nat /\ Len(file') \in {n, n + 1} /\ t.sent = Len(file')
      BY <1>3, <1>5, <1>8 DEF n
    <2>2. T[N].ticks <= t.ticks
      BY <1>3, <1>8, <1>9
    <2>3. QED
      BY <1>1, <1>5, <1>7, <1>8, <1>9, <1>11, <1>12, <2>1, <2>2, TraceLonger
  <1>14. PICK U : U = Longer(T, N, t)
    OBVIOUS
  <1>15. /\ U[N + 1] = t
         /\ \A i \in 1..N : U[i] = T[i]
         /\ \A i \in 1..(N - 1) : U[i + 1] = T[i + 1]
    <2>1. N \in Nat \ {0}
      BY <1>10
    <2>2. QED
      BY <1>14, <2>1, LongerAt
  <1>16. LateOK(U, N + 1)'
    <2> SUFFICES ASSUME NEW i \in 1..N, RanAt(U, i, ticks) PROVE FALSE
      BY <1>2, <1>10, PlacesOf DEF LateOK
    <2>1. CASE i \in 1..(N - 1)
      <3>1. RanAt(T, i, ticks)
        BY <1>10, <1>15, <2>1, PlacesOf DEF RanAt
      <3>2. QED
        BY <1>12, <2>1, <3>1
    <2>2. CASE i = N
      <3>1. U[N + 1].sent = n + 1 /\ U[N].sent = n
        BY <1>8, <1>9, <1>10, <1>15
      <3>2. QED
        BY <1>3, <2>2, <3>1 DEF RanAt
    <2>3. QED
      BY <1>10, <2>1, <2>2, PlacesOf
  <1>17. QED
    BY <1>0, <1>13, <1>14, <1>15, <1>16 DEF RecordTrace

LEMMA StartIsSound ==
  /\ Start.ticks = 0 /\ Start.queue = <<PowerOn>> /\ Start.sent = 0 /\ Start.handled = <<>>
  /\ SoundState(Start, {})
  <1> DEFINE e == PowerOn
  <1>1. /\ Start.ticks = 0 /\ Start.queue = <<e>> /\ Start.sent = 0 /\ Start.handled = <<>>
    BY DEF Start, State
  <1>2. e \in Entry /\ e.time \in Nat /\ e.cb = "msec"
    BY ReplayAssumption DEF PowerOn, Entry
  <1> HIDE DEF e
  <1>3. <<e>> \in Seq(Entry) /\ Len(<<e>>) = 1 /\ <<e>>[1] = e
    BY <1>2
  <1>4. QueueOK(<<e>>, 0) /\ NoReplay(<<e>>)
    BY <1>2, <1>3 DEF QueueOK, NoReplay
  <1>5. <<>> \in Seq({})
    BY EmptySeq
  <1>6. QED
    BY <1>1, <1>4, <1>5 DEF SoundState, e

LEMMA InitRecordTrace == Init => Unloaded /\ RecordTrace
  <1> SUFFICES ASSUME Init PROVE Unloaded /\ RecordTrace
    OBVIOUS
  <1>1. /\ ticks = 0 /\ queue = <<PowerOn>> /\ phase = "irq" /\ count = DecodeCount
        /\ guest = "program" /\ file = <<>> /\ injected = <<>> /\ handled = <<>>
        /\ loads = 0 /\ released = FALSE
    BY DEF Init
  <1>2. Len(injected) = 0 /\ Len(file) = 0
    BY <1>1
  <1>3. speed = FirstRate /\ Kbd = Start.kbd
    BY DEF Init, K!Init, Kbd, Start, State
  <1>4. Now = Start
    BY <1>1, <1>2, <1>3 DEF Now, Start, State
  <1>5. PICK T : T = [i \in 1..1 |-> Start]
    OBVIOUS
  <1>6. T[1] = Start /\ 1 \in Nat \ {0} /\ 1..(1 - 1) = {} /\ 1..1 = {1}
    BY <1>5
  <1>7. AllSound(T, 1, {})
    BY <1>6, StartIsSound DEF AllSound
  <1>8. AllSteps(T, 1, file) /\ KeysFirst(T, 1)
    BY <1>6 DEF AllSteps, KeysFirst
  <1>9. OnlyForward(T, 1)
    BY <1>6, StartIsSound DEF OnlyForward
  <1>10. AllReads(T, 1)
    <2>1. Len(<<>>) = 0
      BY EmptySeq
    <2>2. ReadBefore(Start, <<>>)
      BY <2>1, StartIsSound DEF ReadBefore, Prefix
    <2>3. QED
      BY <1>6, <2>2, StartIsSound DEF AllReads
  <1>11. AllKeys(T, 1, file)
    BY <1>2, <1>6, StartIsSound DEF AllKeys
  <1>12. Trace(T, 1, {}, file)
    BY <1>6, <1>7, <1>8, <1>9, <1>10, <1>11 DEF Trace
  <1>13. LateOK(T, 1)
    BY <1>6 DEF LateOK
  <1>14. QED
    BY <1>1, <1>3, <1>4, <1>6, <1>12, <1>13 DEF Unloaded, RecordTrace

LEMMA NextUnloaded == Unloaded /\ [Next]_vars => Unloaded'
  <1> SUFFICES ASSUME Unloaded, [Next]_vars PROVE Unloaded'
    OBVIOUS
  <1>1. CASE UNCHANGED vars
    BY <1>1 DEF Unloaded, vars, kbd_vars, settings, machine_vars, past_vars
  <1>2. CASE MachineStep
    BY <1>2, MachineStepIs DEF Unloaded
  <1>3. ASSUME NEW key \in Keys, NEW pressed \in BOOLEAN, HostKey(key, pressed) PROVE Unloaded'
    BY <1>3 DEF HostKey, Unloaded, K!AddKey, K!mode_vars
  <1>4. CASE ReplayEvent
    BY <1>4 DEF ReplayEvent, RunEvent, AddUserEvent, Unloaded, K!AddKey, K!mode_vars, kbd_vars, settings
  <1>5. CASE StartReplay
    BY <1>5 DEF StartReplay, Unloaded, settings
  <1>6. CASE Load
    BY <1>6 DEF Load, Unloaded, settings
  <1>7. CASE ReleaseKey
    BY <1>7 DEF ReleaseKey, Unloaded, K!AddKey, K!mode_vars
  <1>8. CASE StartRecord
    BY <1>8 DEF StartRecord, Unloaded, kbd_vars, settings, past_vars
  <1>9. QED
    BY <1>1, <1>2, <1>3, <1>4, <1>5, <1>6, <1>7, <1>8 DEF Next, MachineStep

-----------------------------------------------------------------------------
(* The replay goes through the states of the recording.                    *)

\* They differ at most by the event of the key that waits in the queue of c.
AlikeStates(s, c) ==
  /\ s.kbd = c.kbd /\ s.ticks = c.ticks /\ s.phase = c.phase /\ s.count = c.count
  /\ s.guest = c.guest /\ s.sent = c.sent /\ s.handled = c.handled
  /\ SameEvents(s.queue, c.queue)

LEMMA AddedAtAlike ==
  ASSUME ticks \in Nat, NEW p, QueueOK(p, ticks), NEW q, QueueOK(q, ticks), SameEvents(p, q),
         NEW delay \in Nat, NEW cb \in {"msec", "xfer"}
  PROVE  /\ SameEvents(AddedAt(p, ticks + delay, cb), AddedAt(q, ticks + delay, cb))
         /\ QueueOK(AddedAt(p, ticks + delay, cb), ticks)
         /\ QueueOK(AddedAt(q, ticks + delay, cb), ticks)
  <1>1. \A r : AddedAt(r, ticks + delay, cb) = AddEvent(r, delay, cb)
    BY DEF AddedAt, AddEvent
  <1>2. cb \in {"msec", "xfer", "replay"}
    OBVIOUS
  <1>3. SameEvents(AddEvent(p, delay, cb), AddEvent(q, delay, cb))
    BY AddsAlike
  <1>4. QueueOK(AddEvent(p, delay, cb), ticks) /\ QueueOK(AddEvent(q, delay, cb), ticks)
    BY <1>2, AddEventKeeps
  <1>5. QED
    BY <1>1, <1>3, <1>4

LEMMA SchedulingAlike ==
  ASSUME ticks \in Nat, NEW p, QueueOK(p, ticks), NEW q, QueueOK(q, ticks), SameEvents(p, q),
         NEW before, NEW after
  PROVE  /\ SameEvents(Scheduling(p, before, after, ticks), Scheduling(q, before, after, ticks))
         /\ QueueOK(Scheduling(p, before, after, ticks), ticks)
         /\ QueueOK(Scheduling(q, before, after, ticks), ticks)
  <1>1. KeyDelay \in Nat
    BY ReplayAssumption
  <1>2. CASE after.transfers > before.transfers
    BY <1>1, <1>2, AddedAtAlike DEF Scheduling
  <1>3. CASE ~(after.transfers > before.transfers)
    BY <1>3 DEF Scheduling
  <1>4. QED
    BY <1>2, <1>3

\* A device's event that runs in c runs in s, too.
LEMMA RunsAlike ==
  ASSUME NEW s, NEW c, AlikeStates(s, c), s.ticks \in Nat,
         QueueOK(s.queue, s.ticks), QueueOK(c.queue, s.ticks),
         IsDue(c), Head(c.queue).cb # "replay"
  PROVE  /\ IsDue(s) /\ Head(s.queue) = Head(c.queue)
         /\ SameEvents(Tail(s.queue), Tail(c.queue))
         /\ QueueOK(Tail(s.queue), s.ticks) /\ QueueOK(Tail(c.queue), s.ticks)
  <1> DEFINE p == s.queue
             q == c.queue
             now == s.ticks
  <1>1. /\ QueueOK(p, now) /\ QueueOK(q, now) /\ SameEvents(p, q) /\ now \in Nat
        /\ Due(q, now) /\ Head(q).cb # "replay"
    BY DEF AlikeStates, IsDue
  <1> HIDE DEF p, q, now
  <1>2. q # <<>>
    <2>1. PICK i \in 1..Len(q) : q[i].time <= now
      BY <1>1 DEF Due
    <2>2. Len(q) # 0
      BY <2>1
    <2>3. q \in Seq(Entry)
      BY <1>1, QueueIs
    <2>4. QED
      BY <2>2, <2>3, EmptySeq
  <1>3. Due(p, now)
    BY <1>1, <1>2, DueBoth
  <1>4. p # <<>> /\ Head(p) = Head(q) /\ SameEvents(Tail(p), Tail(q))
    BY <1>1, <1>2, HeadsAlike
  <1>5. QueueOK(Tail(p), now) /\ QueueOK(Tail(q), now)
    BY <1>1, <1>2, <1>4, TailKeeps
  <1>6. QED
    BY <1>3, <1>4, <1>5 DEF IsDue, p, q, now

\* The machine does the same in both.
LEMMA MovesAlike ==
  ASSUME NEW s, NEW t, NEW c, NEW d, AlikeStates(s, c), ticks \in Nat, s.ticks = ticks,
         QueueOK(s.queue, ticks), QueueOK(c.queue, ticks), Moves(s, t), Moves(c, d)
  PROVE  AlikeStates(t, d)
  <1>1. /\ s.kbd = c.kbd /\ s.ticks = c.ticks /\ s.phase = c.phase /\ s.count = c.count
        /\ s.guest = c.guest /\ s.sent = c.sent /\ s.handled = c.handled
        /\ SameEvents(s.queue, c.queue)
    BY DEF AlikeStates
  <1>2. CASE c.phase = "irq"
    <2>1. t = Checked(s) /\ d = Checked(c)
      BY <1>1, <1>2 DEF Moves, Runs
    <2>2. QED
      BY <1>1, <2>1 DEF Checked, State, AlikeStates
  <1>3. CASE c.phase = "execute"
    <2>1. t = Executed(s) /\ d = Executed(c)
      BY <1>1, <1>3 DEF Moves, Runs
    <2>2. CASE c.guest # "stub"
      BY <1>1, <2>1, <2>2 DEF Executed, State, AlikeStates
    <2>3. CASE c.guest = "stub"
      <3> DEFINE after == WasRead(c.kbd)
                 pp == Scheduling(s.queue, c.kbd, after, ticks)
                 qq == Scheduling(c.queue, c.kbd, after, ticks)
      <3>1. SameEvents(pp, qq)
        BY <1>1, SchedulingAlike
      <3>2. /\ t = State(after, ticks, pp, "irq", s.count, "handler", s.sent,
                         Append(s.handled, <<ticks, s.kbd.p60data>>))
            /\ d = State(after, ticks, qq, "irq", c.count, "handler", c.sent,
                         Append(c.handled, <<ticks, c.kbd.p60data>>))
        BY <1>1, <2>1, <2>3 DEF Executed
      <3> HIDE DEF after, pp, qq
      <3>3. QED
        BY <1>1, <3>1, <3>2 DEF State, AlikeStates
    <2>4. QED
      BY <2>2, <2>3
  <1>4. CASE c.phase \in {"events", "host"} /\ ~IsDue(c)
    <2>1. ~IsDue(s)
      BY <1>1, <1>4, DueAlike DEF IsDue
    <2>2. CASE c.phase = "events"
      <3>1. t = Charged(s) /\ d = Charged(c)
        BY <1>1, <1>4, <2>1, <2>2 DEF Moves, Runs
      <3>2. QED
        BY <1>1, <3>1 DEF Charged, State, AlikeStates
    <2>3. CASE c.phase = "host"
      <3>1. t = LoopedAgain(s) /\ d = LoopedAgain(c)
        BY <1>1, <1>4, <2>1, <2>3 DEF Moves, Runs
      <3>2. QED
        BY <1>1, <3>1 DEF LoopedAgain, State, AlikeStates
    <2>4. QED
      BY <1>4, <2>2, <2>3
  <1>5. CASE Runs(c, "msec") \/ Runs(c, "xfer")
    <2>1. IsDue(c) /\ Head(c.queue).cb # "replay" /\ c.phase \in {"events", "host"}
      BY <1>5 DEF Runs
    <2>2. /\ IsDue(s) /\ Head(s.queue) = Head(c.queue)
          /\ SameEvents(Tail(s.queue), Tail(c.queue))
          /\ QueueOK(Tail(s.queue), ticks) /\ QueueOK(Tail(c.queue), ticks)
      BY <2>1, RunsAlike
    <2>3. CASE Runs(c, "xfer")
      <3>1. t = TransferRun(s) /\ d = TransferRun(c)
        BY <1>1, <2>1, <2>2, <2>3 DEF Moves, Runs
      <3>2. QED
        BY <1>1, <2>2, <3>1 DEF TransferRun, State, AlikeStates
    <2>4. CASE Runs(c, "msec")
      <3>1. t = MsecRun(s) /\ d = MsecRun(c)
        BY <1>1, <2>1, <2>2, <2>4 DEF Moves, Runs
      <3> DEFINE after == MsecPassed(c.kbd)
                 pp == Scheduling(Tail(s.queue), c.kbd, after, ticks)
                 qq == Scheduling(Tail(c.queue), c.kbd, after, ticks)
      <3>2. SameEvents(pp, qq) /\ QueueOK(pp, ticks) /\ QueueOK(qq, ticks)
        BY <2>2, SchedulingAlike
      <3>3. /\ t = State(after, ticks, AddedAt(pp, ticks + MsecTicks, "msec"), s.phase, s.count,
                         s.guest, s.sent, s.handled)
            /\ d = State(after, ticks, AddedAt(qq, ticks + MsecTicks, "msec"), c.phase, c.count,
                         c.guest, c.sent, c.handled)
        BY <1>1, <3>1 DEF MsecRun
      <3> HIDE DEF after, pp, qq
      <3>4. SameEvents(AddedAt(pp, ticks + MsecTicks, "msec"), AddedAt(qq, ticks + MsecTicks, "msec"))
        BY <3>2, AddedAtAlike, ReplayAssumption
      <3>5. QED
        BY <1>1, <3>3, <3>4 DEF State, AlikeStates
    <2>5. QED
      BY <1>5, <2>3, <2>4
  <1>6. QED
    BY <1>2, <1>3, <1>4, <1>5 DEF Moves, Runs

\* The recording ends in a state like the last one of its history.
AtEnd(s) == s.phase = "events" /\ ~IsDue(s) /\ s.ticks = Horizon

ReplayTrace ==
  \E T, N, S : /\ Trace(T, N, S, file) /\ T[N].handled = recorded /\ AtEnd(T[N])
               /\ \E i \in 1..N : AlikeStates(T[i], Now)

LEMMA PowerOnAlike ==
  ASSUME file \in Seq(Event), StartReplay
  PROVE  SameEvents(<<PowerOn>>, queue')
  <1> DEFINE p == PowerOn
             e == [time |-> file[1].time, cb |-> "replay"]
  <1>1. QueueOK(<<p>>, 0) /\ NoReplay(<<p>>)
    BY StartIsSound DEF SoundState
  <1>2. p \in Entry /\ p.time = MsecTicks
    BY ReplayAssumption DEF PowerOn, Entry
  <1>3. CASE file = <<>>
    <2>1. queue' = <<p>> \o <<>>
      BY <1>3 DEF StartReplay
    <2> HIDE DEF p
    <2>2. queue' = <<p>>
      BY <2>1
    <2>3. QED
      BY <1>1, <2>2, SameAlready DEF p
  <1>4. CASE file # <<>>
    <2>1. file[1] \in Event
      <3>1. Len(file) \in Nat \ {0}
        BY <1>4, EmptySeq
      <3>2. 1 \in 1..Len(file)
        BY <3>1
      <3>3. QED
        BY <3>2, ElementOfSeq
    <2>2. e \in Entry /\ e.time = file[1].time /\ e.cb = "replay"
      BY <2>1 DEF Entry, Event
    <2>3. queue' = <<e>> \o <<p>> \/ queue' = <<p>> \o <<e>>
      BY <1>4 DEF StartReplay
    <2> HIDE DEF e, p
    <2>4. Len(<<p>>) = 1 /\ <<p>>[1] = p
      OBVIOUS
    <2>5. CASE queue' = <<e>> \o <<p>>
      <3> DEFINE pair == <<e>> \o <<p>>
      <3>5. Len(pair) = 2 /\ pair[1] = e /\ pair[2] = p
        BY <1>2, <2>2, PairOf
      <3> HIDE DEF pair
      <3>1. Len(queue') = 2 /\ queue'[1] = e /\ queue'[2] = p
        BY <2>5, <3>5 DEF pair
      <3>2. ReplayAt(1, <<p>>, queue')
        BY <2>2, <2>4, <3>1 DEF ReplayAt
      <3>3. 1 \in 1..(Len(queue') + 1)
        BY <3>1
      <3>4. QED
        BY <1>1, <3>2, <3>3 DEF SameEvents, p
    <2>6. CASE queue' = <<p>> \o <<e>>
      <3>1. Len(queue') = 2 /\ queue'[1] = p /\ queue'[2] = e
        BY <1>2, <2>2, <2>6, PairOf
      <3>2. ReplayAt(2, <<p>>, queue')
        BY <2>2, <2>4, <3>1 DEF ReplayAt
      <3>3. 2 \in 1..(Len(queue') + 1)
        BY <3>1
      <3>4. QED
        BY <1>1, <3>2, <3>3 DEF SameEvents, p
    <2>7. QED
      BY <2>3, <2>5, <2>6
  <1>5. QED
    BY <1>3, <1>4

LEMMA ReplayStarts ==
  ASSUME ReplayInv, Unloaded, loads = 0, RecordTrace, StartReplay
  PROVE  ReplayTrace'
  <1>1. PICK T, N, S : Trace(T, N, S, file) /\ T[N] = Now /\ LateOK(T, N)
    BY DEF RecordTrace
  <1>2. /\ run = "record" /\ phase = "events" /\ ~EventDue /\ ticks = Horizon
        /\ ticks' = 0 /\ phase' = "irq" /\ count' = DecodeCount /\ guest' = "program"
        /\ injected' = <<>> /\ handled' = <<>> /\ recorded' = handled /\ file' = file
    BY DEF StartReplay
  <1>3. file \in Seq(Event)
    BY <1>2, RecordedState DEF Unloaded
  <1>4. T[N].handled = recorded' /\ AtEnd(T[N])
    BY <1>1, <1>2, NowIs DEF AtEnd
  <1>5. N \in Nat \ {0} /\ T[1] = Start
    BY <1>1 DEF Trace
  <1>6. Kbd' = Start.kbd
    BY DEF StartReplay, Kbd, Start, State
  <1>7. Len(injected') = 0
    BY <1>2
  <1>8. SameEvents(<<PowerOn>>, queue')
    BY <1>3, PowerOnAlike
  <1>9. AlikeStates(Start, Now')
    <2>1. Now' = State(Start.kbd, 0, queue', "irq", DecodeCount, "program", 0, <<>>)
      BY <1>2, <1>6, <1>7 DEF Now
    <2>2. /\ Start.ticks = 0 /\ Start.queue = <<PowerOn>> /\ Start.phase = "irq"
          /\ Start.count = DecodeCount /\ Start.guest = "program" /\ Start.sent = 0
          /\ Start.handled = <<>>
      BY DEF Start, State
    <2>3. QED
      BY <1>8, <2>1, <2>2 DEF State, AlikeStates
  <1>10. 1 \in 1..N
    BY <1>5
  <1>11. QED
    BY <1>1, <1>2, <1>4, <1>5, <1>9, <1>10 DEF ReplayTrace

\* What the invariant says of a state of a replay.
LEMMA ReplayedState ==
  ASSUME ReplayInv, ~released, run = "replay"
  PROVE  /\ ticks \in Nat /\ QueueOK(queue, ticks)
         /\ injected \in Seq(Event) /\ Len(injected) \in Nat
         /\ file \in Seq(Event) /\ Len(file) \in Nat
         /\ Len(injected) + 1 <= Len(file) =>
              next = Len(injected) + 2 /\ OneReplay(queue, file[Len(injected) + 1].time)
         /\ Len(injected) + 1 > Len(file) => NoReplay(queue)
  <1>1. /\ ticks \in Nat /\ QueueOK(queue, ticks) /\ injected \in Seq(Event) /\ file \in Seq(Event)
    BY DEF ReplayInv, Basics
  <1>2. Len(injected) \in Nat /\ Len(file) \in Nat
    BY <1>1, LenProperties
  <1>3. Replaying
    BY DEF ReplayInv
  <1>4. QED
    BY <1>1, <1>2, <1>3 DEF Replaying

LEMMA ReplayMachineStep ==
  ASSUME ReplayInv, Unloaded, loads = 0, run = "replay", ReplayTrace, MachineStep
  PROVE  ReplayTrace'
  <1> DEFINE n == Len(injected)
  <1>1. PICK T, N, S : /\ Trace(T, N, S, file) /\ T[N].handled = recorded /\ AtEnd(T[N])
                       /\ \E i \in 1..N : AlikeStates(T[i], Now)
    BY DEF ReplayTrace
  <1>2. PICK i \in 1..N : AlikeStates(T[i], Now)
    BY <1>1
  <1>3. PICK s, c, d : s = T[i] /\ c = Now /\ d = Now'
    OBVIOUS
  <1>4. N \in Nat \ {0}
    BY <1>1 DEF Trace
  <1>5. /\ ticks \in Nat /\ QueueOK(queue, ticks) /\ n \in Nat
        /\ n + 1 <= Len(file) => OneReplay(queue, file[n + 1].time)
    BY ReplayedState DEF Unloaded
  <1>6. /\ UNCHANGED <<file, injected, recorded>>
        /\ Moves(c, d)
    BY <1>3, MachineStepIs, ActionsMove DEF MachineStep, Unloaded
  <1>7. /\ AlikeStates(s, c) /\ c.ticks = ticks /\ c.queue = queue /\ c.phase = phase
        /\ c.sent = n /\ (IsDue(c) <=> EventDue)
    BY <1>2, <1>3, NowIs
  <1>8. /\ s.ticks = ticks /\ s.phase = phase /\ s.sent = n
        /\ QueueOK(s.queue, ticks)
    <2>1. s.ticks = ticks /\ s.phase = phase /\ s.sent = n
      BY <1>7 DEF AlikeStates
    <2>2. QueueOK(s.queue, s.ticks)
      BY <1>1, <1>3 DEF Trace, AllSound, SoundState
    <2>3. QED
      BY <2>1, <2>2
  <1> HIDE DEF n
  <1>9. EventDue /\ Head(queue).cb # "replay" => IsDue(s)
    BY <1>5, <1>7, <1>8, RunsAlike
  <1>10. i # N
    <2> SUFFICES ASSUME i = N PROVE FALSE
      OBVIOUS
    <2>1. phase = "events" /\ ~IsDue(s) /\ ticks = Horizon
      BY <1>1, <1>3, <1>8 DEF AtEnd
    <2>2. CASE Msec \/ Transfer
      BY <1>9, <2>1, <2>2 DEF Msec, Transfer, RunEvent
    <2>3. CASE Charge
      BY <1>5, <2>1, <2>3 DEF Charge
    <2>4. CASE InterruptCheck \/ Execute \/ LoopAgain
      BY <2>1, <2>4 DEF InterruptCheck, Execute, LoopAgain
    <2>5. QED
      BY <2>2, <2>3, <2>4 DEF MachineStep
  <1>11. i \in 1..(N - 1) /\ i + 1 \in 1..N
    BY <1>4, <1>10
  <1>12. PICK t : t = T[i + 1]
    OBVIOUS
  <1>13. Moves(s, t) \/ Presses(s, t, file)
    BY <1>1, <1>3, <1>11, <1>12 DEF Trace, AllSteps
  <1>14. ~Presses(s, t, file)
    <2> SUFFICES ASSUME Presses(s, t, file) PROVE FALSE
      OBVIOUS
    <2>1. phase = "host" /\ ~IsDue(s) /\ n + 1 \in 1..Len(file) /\ file[n + 1].time = ticks
      BY <1>8 DEF Presses
    <2>2. EventDue
      <3>1. OneReplay(queue, ticks)
        BY <1>5, <2>1
      <3>2. QED
        BY <1>5, <3>1 DEF OneReplay, EventDue
    <2>3. CASE Msec \/ Transfer
      BY <1>9, <2>1, <2>3 DEF Msec, Transfer, RunEvent
    <2>4. CASE InterruptCheck \/ Execute \/ LoopAgain \/ Charge
      BY <2>1, <2>2, <2>4 DEF InterruptCheck, Execute, LoopAgain, Charge
    <2>5. QED
      BY <2>3, <2>4 DEF MachineStep
  <1>15. AlikeStates(t, d)
    BY <1>5, <1>6, <1>7, <1>8, <1>13, <1>14, MovesAlike
  <1>16. AlikeStates(T[i + 1], Now')
    BY <1>3, <1>12, <1>15
  <1>17. QED
    BY <1>1, <1>6, <1>11, <1>16 DEF ReplayTrace

\* The event of a key comes when the recording had the key, and in that state.
LEMMA ReplayKeyStep ==
  ASSUME ReplayInv, Unloaded, loads = 0, run = "replay", ReplayTrace, ReplayEvent
  PROVE  ReplayTrace'
  <1> DEFINE n == Len(injected)
             event == file[next - 1]
             q == WithTransfer(Tail(queue))
  <1>1. PICK T, N, S : /\ Trace(T, N, S, file) /\ T[N].handled = recorded /\ AtEnd(T[N])
                       /\ \E i \in 1..N : AlikeStates(T[i], Now)
    BY DEF ReplayTrace
  <1>2. PICK i \in 1..N : AlikeStates(T[i], Now)
    BY <1>1
  <1>3. PICK s : s = T[i]
    OBVIOUS
  <1>4. N \in Nat \ {0} /\ speed = FirstRate /\ ~released
    BY <1>1 DEF Trace, Unloaded
  <1>5. /\ ticks \in Nat /\ QueueOK(queue, ticks) /\ n \in Nat
        /\ injected \in Seq(Event) /\ file \in Seq(Event) /\ Len(file) \in Nat
        /\ n + 1 <= Len(file) => next = n + 2 /\ OneReplay(queue, file[n + 1].time)
        /\ n + 1 > Len(file) => NoReplay(queue)
    BY <1>4, ReplayedState
  <1>6. /\ EventDue /\ Head(queue).cb = "replay" /\ AddUserEvent(event)
        /\ injected' = Append(injected, [event EXCEPT !.time = ticks])
        /\ queue' = ReplayOneEvent(q, next, ticks)[2]
        /\ UNCHANGED <<file, recorded, ticks, phase, count, guest, handled>>
    BY DEF ReplayEvent, RunEvent
  <1>7. queue # <<>> /\ Head(queue).time = ticks
    BY <1>5, <1>6, HeadIsNow
  <1>8. ~NoReplay(queue)
    <2>1. queue \in Seq(Entry)
      BY <1>5 DEF QueueOK
    <2>2. Len(queue) \in Nat \ {0} /\ Head(queue) = queue[1]
      BY <1>7, <2>1, EmptySeq
    <2>3. 1 \in 1..Len(queue)
      BY <2>2
    <2>4. QED
      BY <1>6, <2>2, <2>3 DEF NoReplay
  <1>9. n + 1 \in 1..Len(file) /\ next - 1 = n + 1 /\ file[n + 1].time = ticks
    <2>1. n + 1 <= Len(file)
      BY <1>5, <1>8
    <2>2. next = n + 2 /\ OneReplay(queue, file[n + 1].time)
      BY <1>5, <2>1
    <2>3. file[n + 1].time = ticks
      BY <1>5, <1>6, <1>7, <2>2, TailKeeps
    <2>4. QED
      BY <1>5, <2>1, <2>2, <2>3
  <1>10. event = file[n + 1] /\ event \in Event
    BY <1>5, <1>9, ElementOfSeq
  <1>11. /\ AlikeStates(s, Now) /\ s.kbd = Kbd /\ s.ticks = ticks /\ s.phase = phase
         /\ s.count = count /\ s.guest = guest /\ s.sent = n /\ s.handled = handled
         /\ SameEvents(s.queue, queue)
    <2>1. AlikeStates(s, Now)
      BY <1>2, <1>3
    <2>2. QED
      BY <2>1, NowIs DEF AlikeStates
  <1>12. QueueOK(s.queue, ticks) /\ NoReplay(s.queue)
    <2>1. SoundState(s, S)
      BY <1>1, <1>3 DEF Trace, AllSound
    <2>2. QED
      BY <1>11, <2>1 DEF SoundState
  <1>13. Tail(queue) = s.queue
    BY <1>5, <1>6, <1>7, <1>11, <1>12, ReplayFirst
  <1>14. phase \in {"events", "host"}
    BY DEF ReplayEvent, RunEvent
  <1> HIDE DEF n, event, q
  \* The key is the step that leads on from s.
  <1>15. PICK j \in 1..(N - 1) : T[j].sent = n /\ T[j + 1].sent = n + 1
    <2>1. \A k \in 1..Len(file) : \E j \in 1..(N - 1) : T[j].sent = k - 1 /\ T[j + 1].sent = k
      BY <1>1 DEF Trace, AllKeys
    <2>2. (n + 1) - 1 = n
      BY <1>5
    <2>3. \E j \in 1..(N - 1) : T[j].sent = (n + 1) - 1 /\ T[j + 1].sent = n + 1
      BY <1>9, <2>1
    <2>4. QED
      BY <2>2, <2>3
  <1>16. j \in 1..N /\ j + 1 \in 1..N
    BY <1>4
  <1>17. T[j].ticks = ticks
    <2>1. Moves(T[j], T[j + 1]) \/ Presses(T[j], T[j + 1], file)
      BY <1>1 DEF Trace, AllSteps
    <2>2. ~Moves(T[j], T[j + 1])
      <3>1. \A a, b : Moves(a, b) => b.sent = a.sent
        BY DEF Moves, Checked, MsecRun, TransferRun, Charged, Executed, LoopedAgain, State
      <3>2. QED
        BY <1>5, <1>15, <3>1
    <2>3. QED
      BY <1>9, <1>15, <2>1, <2>2 DEF Presses
  <1>18. i <= j
    <2> SUFFICES ASSUME j < i PROVE FALSE
      BY <1>16
    <2>1. j + 1 <= i
      BY <1>16
    <2>2. T[j + 1].sent <= T[i].sent
      BY <1>1, <1>16, <2>1 DEF Trace, OnlyForward
    <2>3. QED
      BY <1>3, <1>5, <1>11, <1>15, <2>2
  <1>19. T[i + 1].sent # T[i].sent /\ i \in 1..(N - 1)
    <2>1. CASE i = j
      BY <1>5, <1>15, <2>1
    <2>2. CASE i # j
      <3>1. i \in 1..(j - 1) /\ i \in 1..(N - 1)
        BY <1>4, <1>18, <2>2
      <3>2. T[j + 1].sent # T[j].sent
        BY <1>5, <1>15
      <3>3. ~RanAt(T, i, T[j].ticks)
        BY <1>1, <3>1, <3>2 DEF Trace, KeysFirst
      <3>4. QED
        BY <1>3, <1>11, <1>14, <1>17, <3>1, <3>3 DEF RanAt
    <2>3. QED
      BY <2>1, <2>2
  <1>20. PICK t : t = T[i + 1]
    OBVIOUS
  <1>21. i + 1 \in 1..N
    BY <1>4, <1>19
  <1>22. t = Pressed(s, event)
    <2>1. Moves(s, t) \/ Presses(s, t, file)
      BY <1>1, <1>3, <1>19, <1>20 DEF Trace, AllSteps
    <2>2. ~Moves(s, t)
      <3>1. \A a, b : Moves(a, b) => b.sent = a.sent
        BY DEF Moves, Checked, MsecRun, TransferRun, Charged, Executed, LoopedAgain, State
      <3>2. QED
        BY <1>3, <1>19, <1>20, <3>1
    <2>3. QED
      BY <1>10, <1>11, <2>1, <2>2 DEF Presses
  \* What the event makes of the machine.
  <1>23. Kbd' = KeyAdded(Kbd, event.key, event.pressed)
    <2>1. event.key # NoKey
      BY <1>10, ReplayAssumption DEF Event
    <2>2. K!AddKey(event.key, event.pressed)
      BY <1>6, <2>1 DEF AddUserEvent
    <2>3. QED
      BY <1>4, <2>2, KeyAddedIs
  <1>24. q = Scheduling(s.queue, Kbd, Kbd', ticks) /\ QueueOK(q, ticks) /\ NoReplay(q)
    <2>1. q = WithTransfer(s.queue)
      BY <1>13 DEF q
    <2>2. QED
      BY <1>5, <1>12, <2>1, SchedulingIs, WithTransferKeeps
  <1>25. t = State(Kbd', ticks, q, phase, count, guest, n + 1, handled)
    BY <1>11, <1>22, <1>23, <1>24 DEF Pressed
  <1>26. SameEvents(q, queue')
    <2>1. CASE queue' = q
      BY <1>24, <2>1, SameAlready
    <2>2. CASE \E m \in 1..Len(file) : /\ file[m].time >= ticks
                                       /\ queue' = AddEvent(q, file[m].time - ticks, "replay")
      <3>1. PICK m \in 1..Len(file) : /\ file[m].time >= ticks
                                      /\ queue' = AddEvent(q, file[m].time - ticks, "replay")
        BY <2>2
      <3>2. file[m] \in Event
        BY <1>5, ElementOfSeq
      <3>3. file[m].time - ticks \in Nat
        BY <1>5, <3>1, <3>2 DEF Event
      <3>4. QED
        BY <1>5, <1>24, <3>1, <3>3, ReplayInserted
    <2>3. CASE ~\E m \in 1..Len(file) : IsNext(m, next, ticks)
      <3>1. queue' = q
        BY <1>6, <2>3 DEF ReplayOneEvent
      <3>2. QED
        BY <2>1, <3>1
    <2>4. CASE \E m \in 1..Len(file) : IsNext(m, next, ticks)
      <3>1. PICK m \in 1..Len(file) :
              IsNext(m, next, ticks) /\ m = CHOOSE x \in 1..Len(file) : IsNext(x, next, ticks)
        BY <2>4
      <3>2. queue' = AddEvent(q, file[m].time - ticks, "replay")
        BY <1>6, <2>4, <3>1 DEF ReplayOneEvent
      <3>3. file[m].time >= ticks
        BY <3>1 DEF IsNext
      <3>4. QED
        BY <2>2, <3>1, <3>2, <3>3
    <2>5. QED
      BY <2>3, <2>4
  <1>27. Len(injected') = n + 1
    <2>1. [event EXCEPT !.time = ticks] \in Event
      BY <1>5, <1>10 DEF Event
    <2>2. QED
      BY <1>5, <1>6, <2>1, AppendProperties DEF n
  <1>28. AlikeStates(T[i + 1], Now')
    <2>1. Now' = State(Kbd', ticks, queue', phase, count, guest, n + 1, handled)
      BY <1>6, <1>27 DEF Now
    <2>2. AlikeStates(t, Now')
      BY <1>25, <1>26, <2>1 DEF State, AlikeStates
    <2>3. QED
      BY <1>20, <2>2
  <1>29. QED
    BY <1>1, <1>6, <1>21, <1>28 DEF ReplayTrace

LEMMA ReplaySameBytes ==
  ASSUME ReplayTrace
  PROVE  SameBytes
  <1>1. PICK T, N, S : /\ Trace(T, N, S, file) /\ T[N].handled = recorded /\ AtEnd(T[N])
                       /\ \E i \in 1..N : AlikeStates(T[i], Now)
    BY DEF ReplayTrace
  <1>2. PICK i \in 1..N : AlikeStates(T[i], Now)
    BY <1>1
  <1>3. T[i].handled = handled /\ T[i].ticks = ticks
    BY <1>2, NowIs DEF AlikeStates
  <1>4. N \in 1..N
    BY <1>1 DEF Trace
  <1>5. handled \in Seq(S) /\ recorded \in Seq(S)
    BY <1>1, <1>3, <1>4 DEF Trace, AllSound, SoundState
  <1>6. ReadBefore(T[i], recorded)
    BY <1>1 DEF Trace, AllReads
  <1>7. /\ Prefix(handled, recorded)
        /\ \A k \in (Len(handled) + 1)..Len(recorded) : recorded[k][1] >= ticks
    BY <1>3, <1>6 DEF ReadBefore
  <1>8. handled = SubSeq(recorded, 1, Len(handled))
    BY <1>5, <1>7, PrefixIsSubSeq
  <1>9. QED
    BY <1>7, <1>8 DEF SameBytes, Prefix

\* What the recording and its replay have in common.
DeterminismInv ==
  /\ ReplayInv /\ Unloaded
  /\ run = "record" /\ loads = 0 /\ ~tied => RecordTrace
  /\ run = "replay" /\ loads = 0 /\ ~tied => ReplayTrace

LEMMA NextDeterminismInv == DeterminismInv /\ [Next]_vars => DeterminismInv'
  <1> SUFFICES ASSUME DeterminismInv, [Next]_vars PROVE DeterminismInv'
    OBVIOUS
  <1>1. ReplayInv /\ Unloaded /\ ReplayInv' /\ Unloaded'
    BY NextReplayInv, NextUnloaded DEF DeterminismInv
  <1> SUFFICES ASSUME loads' = 0, ~tied'
               PROVE  /\ run' = "record" => RecordTrace'
                      /\ run' = "replay" => ReplayTrace'
    BY <1>1 DEF DeterminismInv
  <1>2. ~released /\ phase # "release" => run \in {"record", "replay"}
    BY <1>1 DEF ReplayInv, Basics
  <1>3. CASE MachineStep
    <2>1. run' = run /\ loads = 0 /\ ~tied
      BY <1>3, MachineStepIs
    <2>2. QED
      BY <1>1, <1>3, <2>1, RecordMachineStep, ReplayMachineStep DEF DeterminismInv
  <1>4. CASE \E key \in Keys, pressed \in BOOLEAN : HostKey(key, pressed)
    <2>1. PICK key \in Keys, pressed \in BOOLEAN : HostKey(key, pressed)
      BY <1>4
    <2>2. run = "record" /\ run' = run /\ loads = 0 /\ ~tied
      BY <2>1 DEF HostKey
    <2>3. QED
      BY <1>1, <2>1, <2>2, RecordHostKey DEF DeterminismInv
  <1>5. CASE StartReplay
    <2>1. run = "record" /\ run' = "replay" /\ loads = 0 /\ ~tied
      BY <1>5 DEF StartReplay
    <2>2. QED
      BY <1>1, <1>5, <2>1, ReplayStarts DEF DeterminismInv
  <1>6. CASE ReplayEvent
    <2>1. run' = run /\ loads = 0 /\ ~tied /\ EventDue /\ Head(queue).cb = "replay"
      BY <1>6 DEF ReplayEvent, RunEvent
    <2>2. run # "record"
      <3> SUFFICES ASSUME run = "record" PROVE FALSE
        OBVIOUS
      <3>1. ticks \in Nat /\ QueueOK(queue, ticks) /\ NoReplay(queue)
        BY <1>1, <2>1, RecordedState DEF Unloaded
      <3>2. queue # <<>>
        BY <2>1, <3>1, HeadIsNow
      <3>3. Len(queue) \in Nat \ {0} /\ Head(queue) = queue[1]
        BY <3>1, <3>2, EmptySeq DEF QueueOK
      <3>4. 1 \in 1..Len(queue)
        BY <3>3
      <3>5. QED
        BY <2>1, <3>1, <3>3, <3>4 DEF NoReplay
    <2>3. QED
      BY <1>1, <1>6, <2>1, <2>2, ReplayKeyStep DEF DeterminismInv
  <1>7. CASE Load \/ ReleaseKey \/ StartRecord
    BY <1>1, <1>7 DEF Load, ReleaseKey, StartRecord, past_vars, Unloaded
  <1>8. CASE UNCHANGED vars
    <2>1. /\ Now' = Now
          /\ UNCHANGED <<file, recorded, run, loads, tied, ticks, ran, phase, count>>
      BY <1>8 DEF Now, Kbd, vars, kbd_vars, machine_vars, file_vars, past_vars
    <2>2. (RecordTrace => RecordTrace') /\ (ReplayTrace => ReplayTrace')
      BY <2>1 DEF RecordTrace, ReplayTrace, LateOK
    <2>3. QED
      BY <2>1, <2>2 DEF DeterminismInv
  <1>9. QED
    BY <1>3, <1>4, <1>5, <1>6, <1>7, <1>8 DEF Next, MachineStep

\* Without a key in a tick whose events had begun to run, and without a loaded
\* snapshot, a replay reads what the recording read, byte by byte and tick by
\* tick: for any keys, delays, lengths of a call and of the run.
THEOREM RecordReplayUntiedReplayedAsRecorded == Spec => []UntiedReplayedAsRecorded
  <1>1. Init => DeterminismInv
    <2>1. Init => run = "record"
      BY DEF Init
    <2>2. QED
      BY <2>1, InitReplayInv, InitRecordTrace DEF DeterminismInv
  <1>2. DeterminismInv => UntiedReplayedAsRecorded
    BY ReplaySameBytes DEF DeterminismInv, UntiedReplayedAsRecorded
  <1>3. QED
    BY <1>1, <1>2, NextDeterminismInv, PTL DEF Spec

=============================================================================
