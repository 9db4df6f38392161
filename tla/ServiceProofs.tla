--------------------------- MODULE ServiceProofs ----------------------------
(* Proofs about the services programs are given: BiosKeyboard's int 9 and  *)
(* int 16h, for any keys, any rows of the table and any size of the ring,  *)
(* and Dos's memory, for any word size, any memory and any files.          *)
EXTENDS BiosKeyboard, Dos, SequenceTheorems, FiniteSetTheorems, WellFoundedInduction, TLAPS

-----------------------------------------------------------------------------
(* The BIOS: the ring of keystrokes.                                       *)

Places == 0..(Slots - 1)

LEMMA FollowingPlace ==
  ASSUME NEW place \in Places
  PROVE  Following(place) \in Places
  BY BiosKeyboardAssumption DEF Following, Places

\* The remainder of a place, and of a place one round further.
LEMMA PlaceModulo ==
  ASSUME NEW place \in Places
  PROVE  place % Slots = place /\ (place + Slots) % Slots = place
  <1>1. Slots \in Nat \ {0} /\ place \in Nat /\ place < Slots
    BY BiosKeyboardAssumption DEF Places
  <1>2. \A s \in Nat \ {0}, p \in Nat : p < s => p % s = p /\ (p + s) % s = p
    <2> SUFFICES ASSUME NEW s \in Nat \ {0}, NEW p \in Nat, p < s
                 PROVE  p % s = p /\ (p + s) % s = p
      OBVIOUS
    <2>1. p % s = p
      OBVIOUS
    <2>2. (p + s) % s = p
      OBVIOUS
    <2>3. QED
      BY <2>1, <2>2
  <1>3. QED
    BY <1>1, <1>2

\* The keystrokes in a ring, from its first place on.
ContentsAt(places, from, to) ==
  [n \in 1..((to - from) % Slots) |-> places[(from + n - 1) % Slots]]

\* How many places on from a place another one is.
Distance(from, to) == IF from <= to THEN to - from ELSE to - from + Slots

LEMMA DistanceIs ==
  ASSUME NEW from \in Places, NEW to \in Places
  PROVE  /\ Distance(from, to) \in 0..(Slots - 1)
         /\ (to - from) % Slots = Distance(from, to)
         /\ Distance(from, to) = 0 <=> from = to
  <1> DEFINE m == IF from <= to THEN to - from ELSE to - from + Slots
  <1>1. /\ Slots \in Nat \ {0} /\ from \in Nat /\ to \in Nat
        /\ from < Slots /\ to < Slots
    BY BiosKeyboardAssumption DEF Places
  <1>2. m \in 0..(Slots - 1) /\ m \in Places /\ (m = 0 <=> from = to)
    BY <1>1 DEF Places
  <1>3. (to - from) % Slots = m
    <2>1. CASE from <= to
      BY <1>2, <2>1, PlaceModulo
    <2>2. CASE ~(from <= to)
      <3>1. m = (to - from) + Slots
        BY <2>2
      <3>2. \A s \in Nat \ {0}, d \in Int : d < 0 /\ d + s > 0 => d % s = d + s
        OBVIOUS
      <3>3. QED
        BY <1>1, <2>2, <3>2, SMTT(60)
    <2>3. QED
      BY <2>1, <2>2
  <1>4. Distance(from, to) = m
    BY DEF Distance, m
  <1>5. QED
    BY <1>2, <1>3, <1>4

\* The places that many places on.
LEMMA PlacesOn ==
  ASSUME NEW from \in Places, NEW to \in Places, NEW n \in 0..Distance(from, to)
  PROVE  /\ (from + n) % Slots = IF from + n < Slots THEN from + n ELSE from + n - Slots
         /\ (from + n) % Slots \in Places
         /\ (from + n) % Slots = to <=> n = Distance(from, to)
  <1> DEFINE m == Distance(from, to)
             place == IF from + n < Slots THEN from + n ELSE from + n - Slots
  <1>1. /\ Slots \in Nat \ {0} /\ from \in Nat /\ to \in Nat
        /\ from < Slots /\ to < Slots /\ m \in 0..(Slots - 1)
    BY DistanceIs, BiosKeyboardAssumption DEF Places
  <1>2. m = to - from \/ m = to - from + Slots
    BY DEF Distance
  <1> HIDE DEF m
  <1>3. n \in Nat /\ n <= m
    BY <1>1 DEF m
  <1>4. place \in Places
    BY <1>1, <1>3 DEF Places
  <1>5. place = to <=> n = m
    BY <1>1, <1>2, <1>3
  <1>6. from + n = place \/ from + n = place + Slots
    BY <1>1
  <1> HIDE DEF place
  <1>7. (from + n) % Slots = place
    BY <1>4, <1>6, PlaceModulo
  <1>8. QED
    BY <1>4, <1>5, <1>7 DEF place, m

LEMMA ContentsLength ==
  ASSUME NEW places, NEW from \in Places, NEW to \in Places
  PROVE  Len(ContentsAt(places, from, to)) = Distance(from, to)
  <1>1. Distance(from, to) \in Nat /\ (to - from) % Slots = Distance(from, to)
    BY DistanceIs, BiosKeyboardAssumption
  <1>2. QED
    BY <1>1 DEF ContentsAt

LEMMA ContentsPlace ==
  ASSUME NEW places, NEW from \in Places, NEW to \in Places,
         NEW n \in 0..(Distance(from, to) - 1)
  PROVE  /\ (from + n) % Slots \in Places \ {to}
         /\ ContentsAt(places, from, to)[n + 1] = places[(from + n) % Slots]
  <1> DEFINE m == Distance(from, to)
             k == n + 1
  <1>1. /\ n \in 0..m /\ n # m /\ k \in 1..m /\ from + k - 1 = from + n
    <2>1. m \in Nat /\ from \in Nat
      BY DistanceIs, BiosKeyboardAssumption DEF Places
    <2> HIDE DEF m
    <2>2. n \in Nat /\ n < m
      BY <2>1 DEF m
    <2>3. QED
      BY <2>1, <2>2
  <1>2. (from + n) % Slots \in Places \ {to}
    BY <1>1, PlacesOn
  <1>3. ContentsAt(places, from, to)[k] = places[(from + n) % Slots]
    <2>1. ContentsAt(places, from, to) = [i \in 1..m |-> places[(from + i - 1) % Slots]]
      BY DistanceIs DEF ContentsAt
    <2> HIDE DEF k, m
    <2>2. QED
      BY <1>1, <2>1
  <1>4. QED
    BY <1>2, <1>3

\* The keystrokes in the ring, from the head on.
LEMMA ContentsOf ==
  ASSUME head \in Places, tail \in Places
  PROVE  /\ Distance(head, tail) \in 0..(Slots - 1)
         /\ Len(Contents) = Distance(head, tail)
         /\ \A n \in 0..(Distance(head, tail) - 1) :
              /\ (head + n) % Slots \in Places \ {tail}
              /\ Contents[n + 1] = buffer[(head + n) % Slots]
         /\ (head + Distance(head, tail)) % Slots = tail
         /\ (Distance(head, tail) = 0 <=> head = tail)
  <1>1. Contents = ContentsAt(buffer, head, tail)
    BY DEF Contents, ContentsAt
  <1>2. Len(Contents) = Distance(head, tail)
    BY <1>1, ContentsLength
  <1>3. \A n \in 0..(Distance(head, tail) - 1) :
          /\ (head + n) % Slots \in Places \ {tail}
          /\ Contents[n + 1] = buffer[(head + n) % Slots]
    BY <1>1, ContentsPlace
  <1>4. /\ Distance(head, tail) \in 0..(Slots - 1)
        /\ (Distance(head, tail) = 0 <=> head = tail)
    BY DistanceIs
  <1>5. (head + Distance(head, tail)) % Slots = tail
    <2>1. Distance(head, tail) \in 0..Distance(head, tail)
      BY <1>4, BiosKeyboardAssumption
    <2>2. QED
      BY <2>1, PlacesOn
  <1>6. QED
    BY <1>2, <1>3, <1>4, <1>5

-----------------------------------------------------------------------------
(* The invariant.                                                          *)

RingOK ==
  /\ head \in Places
  /\ tail \in Places
  /\ buffer = [place \in Places |-> buffer[place]]

\* What function 1 showed is the keystroke at the head.
ShownIsFirst ==
  announced # <<>> =>
    /\ head # tail
    /\ ~Enhanced(buffer[head])
    /\ announced = <<Plain(buffer[head])>>

KeystrokeInv == RingOK /\ ShownIsFirst /\ AltCodeEnds

LEMMA InitKeystrokeInv == Init => KeystrokeInv
  BY BiosKeyboardAssumption DEF Init, KeystrokeInv, RingOK, ShownIsFirst, AltCodeEnds, Places

\* A keystroke that is added takes a place behind the head of a ring that is
\* not empty.
LEMMA AddKeyPreserves ==
  ASSUME RingOK, ShownIsFirst, UNCHANGED announced, NEW code, AddKey(code) \/ NoKey
  PROVE  RingOK' /\ ShownIsFirst'
  <1>1. CASE UNCHANGED ring_vars
    BY <1>1 DEF RingOK, ShownIsFirst, ring_vars, Enhanced, Plain, ScanOf, AsciiOf
  <1>2. CASE /\ Following(tail) # head
             /\ buffer' = [buffer EXCEPT ![tail] = code]
             /\ tail' = Following(tail)
             /\ head' = head
    <2>1. head' \in Places /\ tail' \in Places
      BY <1>2, FollowingPlace DEF RingOK
    <2>2. buffer' = [place \in Places |-> buffer'[place]]
      BY <1>2 DEF RingOK
    <2>3. head # tail => buffer'[head'] = buffer[head] /\ head' # tail'
      BY <1>2 DEF RingOK
    <2>4. ShownIsFirst'
      BY <2>3 DEF ShownIsFirst, Enhanced, Plain, ScanOf, AsciiOf
    <2>5. QED
      BY <2>1, <2>2, <2>4 DEF RingOK
  <1>3. QED
    BY <1>1, <1>2 DEF AddKey, NoKey

\* The number typed grows only while Alt is down, and Alt takes it along when
\* it comes up.
LEMMA ScanCodePreserves ==
  ASSUME KeystrokeInv, Int9
  PROVE  KeystrokeInv'
  <1> DEFINE scan == Head(wire)
  <1>1. UNCHANGED announced
    BY DEF Int9, guest_vars
  <1>2. \E code : AddKey(code) \/ NoKey
    BY DEF Int9, Special, Control, Shift, Alt, Lock, PauseCode, InsertRelease, Cursor, Pad, Normal
  <1>3. RingOK' /\ ShownIsFirst'
    BY <1>1, <1>2, AddKeyPreserves DEF KeystrokeInv
  <1>4. AltCodeEnds'
    <2>1. CASE token' = token /\ ("alt" \in flags1' <=> "alt" \in flags1)
      BY <2>1 DEF KeystrokeInv, AltCodeEnds
    <2>2. CASE Special(scan) \/ Control(scan) \/ Shift(scan)
      <3>1. token' = token /\ ("alt" \in flags1' <=> "alt" \in flags1)
        BY <2>2 DEF Special, Control, Shift, End, SetIf
      <3>2. QED
        BY <2>1, <3>1
    <2>3. CASE Lock(scan)
      <3>1. LockOf(Code(scan)) # "alt"
        BY <2>3 DEF Lock, LockOf
      <3>2. token' = token /\ ("alt" \in flags1' <=> "alt" \in flags1)
        BY <2>3, <3>1 DEF Lock, End, SetIf, Toggle
      <3>3. QED
        BY <2>1, <3>2
    <2>4. CASE PauseCode(scan) \/ InsertRelease(scan) \/ Cursor(scan) \/ Normal(scan)
      <3>1. token' = token /\ ("alt" \in flags1' <=> "alt" \in flags1)
        BY <2>4 DEF PauseCode, InsertRelease, Cursor, Normal, End, SetIf, Toggle
      <3>2. QED
        BY <2>1, <3>1
    <2>5. CASE Pad(scan)
      BY <2>5 DEF KeystrokeInv, AltCodeEnds, Pad, End
    <2>6. CASE Alt(scan)
      BY <2>6 DEF KeystrokeInv, AltCodeEnds, Alt, End, SetIf
    <2>7. QED
      BY <2>2, <2>3, <2>4, <2>5, <2>6 DEF Int9
  <1>5. QED
    BY <1>3, <1>4 DEF KeystrokeInv

\* Function 0 takes the keystroke at the head, which is no longer shown.
LEMMA GetPreserves ==
  ASSUME KeystrokeInv, GetKeystroke
  PROVE  KeystrokeInv'
  <1>1. CASE head = tail
    BY <1>1 DEF GetKeystroke, KeystrokeInv, RingOK, ShownIsFirst, AltCodeEnds, flag_vars
  <1>2. CASE head # tail
    <2>1. head' \in Places
      BY <1>2, FollowingPlace DEF GetKeystroke, KeystrokeInv, RingOK
    <2>2. QED
      BY <1>2, <2>1 DEF GetKeystroke, KeystrokeInv, RingOK, ShownIsFirst, AltCodeEnds, flag_vars
  <1>3. QED
    BY <1>1, <1>2

\* Function 1 stops at the first keystroke that is not enhanced, and shows it.
LEMMA CheckPreserves ==
  ASSUME KeystrokeInv, CheckKeystroke
  PROVE  KeystrokeInv' /\ (announced # <<>> => announced' = announced)
  <1> DEFINE m == Distance(head, tail)
  <1>1. /\ m \in 0..(Slots - 1) /\ Len(Contents) = m
        /\ \A n \in 0..(m - 1) : /\ (head + n) % Slots \in Places \ {tail}
                                 /\ Contents[n + 1] = buffer[(head + n) % Slots]
        /\ (head + m) % Slots = tail
        /\ (m = 0 <=> head = tail)
        /\ head \in Places /\ tail \in Places
    BY ContentsOf DEF KeystrokeInv, RingOK
  <1> HIDE DEF m
  <1>2. Slots \in Nat \ {0} /\ m \in Nat
    BY <1>1, BiosKeyboardAssumption
  <1>3. PICK n \in 0..m :
          /\ \A i \in 1..n : Enhanced(Contents[i])
          /\ n < m => ~Enhanced(Contents[n + 1])
          /\ head' = (head + n) % Slots
          /\ announced' = IF n = m THEN <<>> ELSE <<Plain(Contents[n + 1])>>
    BY <1>1 DEF CheckKeystroke
  <1>4. UNCHANGED <<buffer, tail, token, flags1>>
    BY DEF CheckKeystroke, flag_vars
  <1>5. n < m => n \in 0..(m - 1)
    BY <1>2
  <1>6. head' \in Places
    BY <1>1, <1>2, <1>3, <1>5
  <1>7. RingOK'
    BY <1>4, <1>6 DEF KeystrokeInv, RingOK
  <1>8. ShownIsFirst'
    <2>1. CASE n = m
      BY <1>3, <2>1 DEF ShownIsFirst
    <2>2. CASE n < m
      <3>1. head' # tail /\ Contents[n + 1] = buffer[head']
        BY <1>1, <1>3, <1>5, <2>2
      <3>2. ~Enhanced(buffer[head']) /\ announced' = <<Plain(buffer[head'])>>
        BY <1>2, <1>3, <2>2, <3>1
      <3>3. QED
        BY <1>4, <3>1, <3>2 DEF ShownIsFirst, Enhanced, Plain, ScanOf, AsciiOf
    <2>3. QED
      BY <1>2, <2>1, <2>2
  <1>9. ASSUME announced # <<>> PROVE announced' = announced
    <2>1. m # 0 /\ ~Enhanced(buffer[head]) /\ announced = <<Plain(buffer[head])>>
      BY <1>1, <1>9 DEF KeystrokeInv, ShownIsFirst
    <2>2. Contents[0 + 1] = buffer[(head + 0) % Slots]
      BY <1>1, <1>2, <2>1
    <2>3. (head + 0) % Slots = head
      BY <1>1, PlaceModulo DEF Places
    <2>4. Contents[1] = buffer[head]
      BY <2>2, <2>3
    <2>5. n = 0
      <3>1. n # 0 => 1 \in 1..n
        BY <1>2
      <3>2. QED
        BY <1>3, <2>1, <2>4, <3>1
    <2>6. QED
      BY <1>3, <2>1, <2>4, <2>5
  <1>10. AltCodeEnds'
    BY <1>4 DEF KeystrokeInv, AltCodeEnds
  <1>11. QED
    BY <1>7, <1>8, <1>9, <1>10 DEF KeystrokeInv

LEMMA NextKeystrokeInv == KeystrokeInv /\ [Next]_vars => KeystrokeInv'
  <1> SUFFICES ASSUME KeystrokeInv, [Next]_vars PROVE KeystrokeInv'
    OBVIOUS
  <1>1. CASE UNCHANGED <<ring_vars, announced, token, flags1>>
    BY <1>1 DEF KeystrokeInv, RingOK, ShownIsFirst, AltCodeEnds, ring_vars,
                Enhanced, Plain, ScanOf, AsciiOf
  <1>2. CASE UNCHANGED vars
    BY <1>1, <1>2 DEF vars, flag_vars, guest_vars
  <1>3. ASSUME NEW key \in Keys, NEW pressed \in BOOLEAN, TypeKey(key, pressed)
        PROVE  KeystrokeInv'
    BY <1>1, <1>3 DEF TypeKey, flag_vars, guest_vars
  <1>4. QED
    BY <1>2, <1>3, ScanCodePreserves, GetPreserves, CheckPreserves DEF Next

LEMMA KeystrokeInvHolds == Spec => []KeystrokeInv
  BY InitKeystrokeInv, NextKeystrokeInv, PTL DEF Spec

\* A number typed with Alt never outlives the hold of Alt, for any keys and
\* in any order of them.
THEOREM BiosAltCodeEnds == Spec => []AltCodeEnds
  BY KeystrokeInvHolds, PTL DEF KeystrokeInv

\* What function 1 of int 16h shows is what function 0 returns next, for any
\* size of the ring and any keystrokes that come in between.
THEOREM BiosPeekedIsTaken == Spec => PeekedIsTaken
  <1> DEFINE Kept == announced # <<>> /\ announced' # announced =>
                       announced' = <<>> /\ ax' = announced[1]
  <1>1. KeystrokeInv /\ [Next]_vars => [Kept]_vars
    <2> SUFFICES ASSUME KeystrokeInv, Next, announced # <<>>, announced' # announced
                 PROVE  announced' = <<>> /\ ax' = announced[1]
      OBVIOUS
    <2>1. GetKeystroke
      BY CheckPreserves DEF Next, TypeKey, Int9, guest_vars
    <2>2. /\ head # tail /\ ~Enhanced(buffer[head])
          /\ announced = <<Plain(buffer[head])>>
      BY DEF KeystrokeInv, ShownIsFirst
    <2>3. QED
      BY <2>1, <2>2 DEF GetKeystroke
  <1>2. QED
    BY <1>1, KeystrokeInvHolds, PTL DEF Spec, PeekedIsTaken

-----------------------------------------------------------------------------
(* The bytes of a key.                                                     *)

Scan(code, pressed) == IF pressed THEN code ELSE code + 128

LEMMA ScanIs ==
  ASSUME NEW code \in 1..88, NEW pressed \in BOOLEAN
  PROVE  /\ Scan(code, pressed) \in 1..216
         /\ Code(Scan(code, pressed)) = code
         /\ Make(Scan(code, pressed)) <=> pressed
         /\ pressed => Scan(code, pressed) = code
         /\ ~pressed => Scan(code, pressed) = code + 128
  <1>1. code % 128 = code /\ (code + 128) % 128 = code /\ code < 128 /\ ~(code + 128 < 128)
    BY SMT
  <1>2. CASE pressed
    BY <1>1, <1>2 DEF Scan, Code, Make
  <1>3. CASE ~pressed
    BY <1>1, <1>3 DEF Scan, Code, Make
  <1>4. QED
    BY <1>2, <1>3

LEMMA SingleKeyIs ==
  ASSUME NEW key \in SingleKey
  PROVE  /\ key.prefix = <<>>
         /\ key.codes[1] \in 1..88
         /\ key.codes = <<key.codes[1]>>
         /\ key = [prefix |-> key.prefix, codes |-> key.codes]
  <1>1. PICK code \in (1..83) \cup (86..88) : key.codes = <<code>>
    BY DEF SingleKey
  <1>2. code \in 1..88
    OBVIOUS
  <1>3. QED
    BY <1>1, <1>2 DEF SingleKey

LEMMA ExtendedKeyIs ==
  ASSUME NEW key \in ExtendedKey
  PROVE  /\ key.prefix = <<224>>
         /\ key.codes[1] \in 1..88
         /\ key.codes = <<key.codes[1]>>
         /\ key = [prefix |-> key.prefix, codes |-> key.codes]
  <1>1. PICK code \in {28, 29, 53, 56, 71, 72, 73, 75, 77} \cup (79..83) : key.codes = <<code>>
    BY DEF ExtendedKey
  <1>2. code \in 1..88
    OBVIOUS
  <1>3. QED
    BY <1>1, <1>2 DEF ExtendedKey

LEMMA PairConcat ==
  ASSUME NEW a, NEW b, NEW c
  PROVE  <<a>> \o <<b>> = <<a, b>> /\ <<a>> \o <<b, c>> = <<a, b, c>>
  <1>1. /\ <<a>> \in Seq({a, b, c}) /\ <<b>> \in Seq({a, b, c}) /\ <<c>> \in Seq({a, b, c})
        /\ <<a, b>> \in Seq({a, b, c})
    OBVIOUS
  <1>2. <<a, b>> = Append(<<a>>, b)
    OBVIOUS
  <1>7. <<b, c>> = Append(<<b>>, c)
    OBVIOUS
  <1>6. <<a, b, c>> = Append(<<a, b>>, c)
    <2> DEFINE longer == Append(<<a, b>>, c)
    <2>1. Len(longer) = 3 /\ longer \in Seq({a, b, c})
      BY <1>1
    <2>2. longer[1] = a /\ longer[2] = b /\ longer[3] = c
      BY <1>1
    <2> HIDE DEF longer
    <2>3. longer = <<a, b, c>>
      BY <2>1, <2>2
    <2>4. QED
      BY <2>3 DEF longer
  <1>3. <<a>> \o <<b>> = <<a, b>> /\ <<b>> \o <<c>> = <<b, c>>
        /\ <<a, b>> \o <<c>> = <<a, b, c>>
    BY <1>1, <1>2, <1>6, <1>7, AppendIsConcat
  <1>4. (<<a>> \o <<b>>) \o <<c>> = <<a>> \o (<<b>> \o <<c>>)
    BY <1>1, ConcatAssociative
  <1>5. QED
    BY <1>3, <1>4

\* Arithmetic of bytes and words.
LEMMA WordSizeIs == WordSize \in Nat \ {0} /\ 65536 <= WordSize /\ WordSize <= 65536
  BY DEF WordSize

LEMMA InWord ==
  ASSUME NEW n \in Int, 0 <= n, n <= 65535
  PROVE  n \in Word
  BY WordSizeIs DEF Word

LEMMA ByteArithmetic ==
  ASSUME NEW n \in 0..255
  PROVE  n + 7168 \in Word /\ n + 13568 \in Word /\ n * 256 \in Word
         /\ n * 256 + 224 \in Word /\ n + 57344 \in Word
  <1>1. n \in Int /\ 0 <= n /\ n <= 255
    OBVIOUS
  <1>2. n * 256 \in Int /\ 0 <= n * 256
    BY <1>1
  <1>3. n * 256 <= 65280
    BY <1>1
  <1> DEFINE k == n * 256
  <1> HIDE DEF k
  <1>4. k \in Int /\ 0 <= k /\ k <= 65280
    BY <1>2, <1>3 DEF k
  <1>5. /\ k + 224 \in Int /\ 0 <= k + 224 /\ k + 224 <= 65535
        /\ k <= 65535
    BY <1>4
  <1>6. n + 7168 \in Int /\ 0 <= n + 7168 /\ n + 7168 <= 65535
    BY <1>1
  <1>7. n + 13568 \in Int /\ 0 <= n + 13568 /\ n + 13568 <= 65535
    BY <1>1
  <1>8. n + 57344 \in Int /\ 0 <= n + 57344 /\ n + 57344 <= 65535
    BY <1>1
  <1>9. k \in Word /\ k + 224 \in Word
    BY <1>4, <1>5, InWord
  <1>10. QED
    BY <1>6, <1>7, <1>8, <1>9, InWord DEF k

LEMMA Remainders ==
  ASSUME NEW n \in Int, NEW m \in Nat \ {0}
  PROVE  n % m \in 0..(m - 1)
  OBVIOUS

LEMMA WordArithmetic ==
  ASSUME NEW n \in Word
  PROVE  n \div 256 \in 0..255 /\ n % 256 \in 0..255
  <1>1. n \in Int /\ 0 <= n /\ n <= 65535
    BY WordSizeIs DEF Word
  <1>2. n \div 256 \in Int /\ n \div 256 >= 0
    BY <1>1
  <1>3. n \div 256 <= 255
    BY <1>1
  <1>4. n % 256 \in 0..255
    BY <1>1, Remainders
  <1>5. QED
    BY <1>2, <1>3, <1>4

LEMMA KeySent ==
  ASSUME NEW key \in Key, NEW pressed \in BOOLEAN
  PROVE  LET first == Scan(key.codes[1], pressed)
         IN /\ key \in SingleKey => KeyBytes(key, pressed) = <<first>>
            /\ key \in ExtendedKey => KeyBytes(key, pressed) = <<224, first>>
            /\ key = PauseKey =>
                 KeyBytes(key, pressed) = <<225, first, Scan(69, pressed)>>
  <1> DEFINE first == Scan(key.codes[1], pressed)
             codes == [n \in DOMAIN key.codes |->
                         IF pressed THEN key.codes[n] ELSE key.codes[n] + 128]
  <1>1. KeyBytes(key, pressed) = key.prefix \o codes
    BY DEF KeyBytes
  <1>2. ASSUME NEW code, key.codes = <<code>>
        PROVE  codes = <<Scan(code, pressed)>>
    <2>1. DOMAIN key.codes = {1} /\ key.codes[1] = code
      BY <1>2
    <2>2. codes[1] = Scan(code, pressed) /\ DOMAIN codes = {1}
      BY <2>1 DEF Scan
    <2>3. QED
      BY <2>1, <2>2
  <1>3. ASSUME key \in SingleKey PROVE KeyBytes(key, pressed) = <<first>>
    <2>1. codes = <<first>> /\ key.prefix = <<>>
      BY <1>2, <1>3, SingleKeyIs
    <2> HIDE DEF codes, first
    <2>2. QED
      BY <1>1, <2>1
  <1>4. ASSUME key \in ExtendedKey PROVE KeyBytes(key, pressed) = <<224, first>>
    <2>1. codes = <<first>> /\ key.prefix = <<224>>
      BY <1>2, <1>4, ExtendedKeyIs
    <2> HIDE DEF codes, first
    <2>2. <<224>> \o <<first>> = <<224, first>>
      <3> DEFINE prefix == 224
      <3> HIDE DEF prefix
      <3>1. <<prefix>> \o <<first>> = <<prefix, first>>
        BY PairConcat, Zenon
      <3>2. QED
        BY <3>1 DEF prefix
    <2>3. QED
      BY <1>1, <2>1, <2>2
  <1>5. ASSUME key = PauseKey
        PROVE  KeyBytes(key, pressed) = <<225, first, Scan(69, pressed)>>
    <2>1. key.prefix = <<225>> /\ key.codes = <<29, 69>>
      BY <1>5 DEF PauseKey
    <2>2. DOMAIN codes = {1, 2} /\ codes[1] = first /\ codes[2] = Scan(69, pressed)
      BY <2>1 DEF Scan
    <2>3. codes = <<first, Scan(69, pressed)>>
      BY <2>1, <2>2
    <2> HIDE DEF codes, first
    <2>4. <<225>> \o <<first, Scan(69, pressed)>> = <<225, first, Scan(69, pressed)>>
      <3> DEFINE prefix == 225
                 last == Scan(69, pressed)
      <3> HIDE DEF prefix, last
      <3>1. <<prefix>> \o <<first, last>> = <<prefix, first, last>>
        BY PairConcat, Zenon
      <3>2. QED
        BY <3>1 DEF prefix, last
    <2>5. QED
      BY <1>1, <2>1, <2>3, <2>4
  <1>6. QED
    BY <1>3, <1>4, <1>5

\* The bytes of a key that are left on the wire, and the prefixes that the
\* handler remembers of it.
Prefixes == flags3 \cap {"e0", "e1"}

Sending(key, pressed) ==
  LET first == Scan(key.codes[1], pressed)
      last == Scan(69, pressed)
  IN \/ key \in SingleKey /\ wire = <<first>> /\ Prefixes = {}
     \/ key \in ExtendedKey /\ wire = <<224, first>> /\ Prefixes = {}
     \/ key \in ExtendedKey /\ wire = <<first>> /\ Prefixes = {"e0"}
     \/ key = PauseKey /\ wire = <<225, first, last>> /\ Prefixes = {}
     \/ key = PauseKey /\ wire = <<first, last>> /\ Prefixes = {"e1"}
     \/ key = PauseKey /\ wire = <<last>> /\ Prefixes = {"e1"}

\* What can come first on the wire: a prefix, or a code that is a shift key's
\* or has a row in the table.
LEMMA FirstOfWire ==
  ASSUME NEW key \in Keys, NEW pressed \in BOOLEAN, Sending(key, pressed)
  PROVE  \/ Head(wire) \in {224, 225}
         \/ \E code \in 1..88 :
              /\ Head(wire) = Scan(code, pressed)
              /\ code \in ShiftCodes \cup DOMAIN ScanAscii
  <1>1. key \in Key /\ key.codes[1] \in ShiftCodes \cup DOMAIN ScanAscii
    BY BiosKeyboardAssumption
  <1>2. key.codes[1] \in 1..88
    BY <1>1, SingleKeyIs, ExtendedKeyIs DEF Key, PauseKey
  <1>3. Head(wire) \in {224, 225, Scan(key.codes[1], pressed), Scan(69, pressed)}
    BY DEF Sending
  <1>4. 69 \in 1..88 /\ 69 \in ShiftCodes
    BY DEF ShiftCodes
  <1>5. QED
    BY <1>1, <1>2, <1>3, <1>4

-----------------------------------------------------------------------------
(* Types.                                                                  *)

LEMMA CodeIs ==
  ASSUME NEW code \in Word
  PROVE  /\ ScanOf(code) \in 0..255
         /\ AsciiOf(code) \in 0..255
         /\ Plain(code) \in Word
  <1>1. code \div 256 \in 0..255 /\ code % 256 \in 0..255
    BY WordArithmetic
  <1>2. ScanOf(code) \in 0..255 /\ AsciiOf(code) \in 0..255
    BY <1>1 DEF ScanOf, AsciiOf
  <1>3. Plain(code) \in {AsciiOf(code) + 7168, AsciiOf(code) + 13568, ScanOf(code) * 256, code}
    BY DEF Plain
  <1>4. QED
    BY <1>2, <1>3, ByteArithmetic

LEMMA ColumnIsWord ==
  ASSUME NEW row \in Row
  PROVE  /\ Column(row) \in Word
         /\ CapsColumn(row) \in Word
         /\ PadCode(row) \in Word
         /\ CursorCode(row) \in Word
  <1>1. row.normal \in Word /\ row.shift \in Word /\ row.control \in Word /\ row.alt \in Word
    BY DEF Row
  <1>2. Column(row) \in Word
    <2>1. Column(row) \in {row.normal, row.shift, row.control, row.alt}
      BY DEF Column
    <2>2. QED
      BY <1>1, <2>1
  <1>3. CapsColumn(row) \in Word
    <2>1. CapsColumn(row) \in {row.normal, row.shift, Column(row)}
      BY DEF CapsColumn
    <2>2. QED
      BY <1>1, <1>2, <2>1
  <1>4. PadCode(row) \in Word
    <2>1. PadCode(row) \in {row.normal, row.shift, row.control}
      BY DEF PadCode
    <2>2. QED
      BY <1>1, <2>1
  <1>5. CursorCode(row) \in Word
    <2>1. CursorCode(row) \in {(row.normal + 20480) % WordSize, ScanOf(row.control) * 256 + 224,
                               ScanOf(row.shift) * 256 + 224, ScanOf(row.normal) * 256 + 224}
      BY DEF CursorCode
    <2>2. (row.normal + 20480) % WordSize \in Word
      <3>1. row.normal + 20480 \in Int
        BY <1>1, WordSizeIs DEF Word
      <3>2. \A n \in Int : n % WordSize \in 0..(WordSize - 1)
        BY WordSizeIs, Remainders
      <3>3. QED
        BY <3>1, <3>2 DEF Word
    <2>3. QED
      BY <1>1, <2>1, <2>2, CodeIs, ByteArithmetic
  <1>6. QED
    BY <1>2, <1>3, <1>4, <1>5

LEMMA NormalCodeIsWord ==
  ASSUME NEW scan \in DOMAIN ScanAscii
  PROVE  NormalCode(scan) \in Word
  <1> DEFINE code == CapsColumn(ScanAscii[scan])
  <1>1. code \in Word
    BY ColumnIsWord, BiosKeyboardAssumption
  <1> HIDE DEF code
  <1>2. ExtendedCode(scan, code) \in Word
    <2>1. ExtendedCode(scan, code) \in {42496, AsciiOf(code) + 57344, 41984, 38144, 57391, code}
      BY DEF ExtendedCode
    <2>2. AsciiOf(code) + 57344 \in Word
      BY <1>1, CodeIs, ByteArithmetic
    <2>3. 42496 \in Word /\ 41984 \in Word /\ 38144 \in Word /\ 57391 \in Word
      BY InWord
    <2>4. QED
      BY <1>1, <2>1, <2>2, <2>3
  <1>3. NormalCode(scan) \in {code, ExtendedCode(scan, code)}
    BY DEF NormalCode, code
  <1>4. QED
    BY <1>1, <1>2, <1>3

\* What the ring does to the types of its places.
LEMMA AddKeyTypes ==
  ASSUME TypeOK, NEW code \in Word, AddKey(code)
  PROVE  /\ buffer' \in [0..(Slots - 1) -> Word]
         /\ head' \in 0..(Slots - 1)
         /\ tail' \in 0..(Slots - 1)
  <1>1. Following(tail) \in 0..(Slots - 1)
    BY FollowingPlace DEF TypeOK, Places
  <1>2. CASE UNCHANGED ring_vars
    BY <1>2 DEF TypeOK, ring_vars
  <1>3. CASE /\ buffer' = [buffer EXCEPT ![tail] = code]
             /\ tail' = Following(tail)
             /\ head' = head
    BY <1>1, <1>3 DEF TypeOK
  <1>4. QED
    BY <1>2, <1>3 DEF AddKey

Flags1 == {"lshift", "rshift", "ctrl", "alt", "scroll", "num", "caps", "insert"}
Flags2 == {"lctrl", "lalt", "scroll", "num", "caps", "insert"}
Flags3 == {"e0", "e1", "rctrl", "ralt"}
Leds == {"scroll", "num", "caps"}

FlagTypes ==
  /\ flags1 \subseteq Flags1
  /\ flags2 \subseteq Flags2
  /\ flags3 \subseteq Flags3
  /\ leds \subseteq Leds

\* A name that is set or reset leaves a set of names one.
LEMMA SetIfSubset ==
  ASSUME NEW names, NEW set \in SUBSET names, NEW name \in names, NEW on
  PROVE  SetIf(set, name, on) \subseteq names /\ Toggle(set, name) \subseteq names
  <1>1. \A b : SetIf(set, name, b) \subseteq names
    BY Zenon DEF SetIf
  <1>2. QED
    BY <1>1, Zenon DEF Toggle

LEMMA EndTypes ==
  ASSUME NEW scan, NEW f1 \in SUBSET Flags1, NEW f2 \in SUBSET Flags2,
         NEW f3 \in SUBSET Flags3, End(scan, f1, f2, f3)
  PROVE  flags1' \subseteq Flags1 /\ flags2' \subseteq Flags2 /\ flags3' \subseteq Flags3
  BY Zenon DEF End

RingTypes ==
  /\ buffer \in [0..(Slots - 1) -> Word]
  /\ head \in 0..(Slots - 1)
  /\ tail \in 0..(Slots - 1)

LEMMA LocksAre ==
  ASSUME NEW code \in {58, 69, 70}
  PROVE  LockOf(code) \in {"caps", "num", "scroll"}
  BY DEF LockOf

\* One code: the flag bytes stay sets of their names, and only a word is added
\* to the ring.
LEMMA CodeTypes ==
  ASSUME TypeOK, Int9,
         Head(wire) <= 88 /\ Code(Head(wire)) \notin ShiftCodes => Head(wire) \in DOMAIN ScanAscii,
         Head(wire) \in Nat
  PROVE  FlagTypes' /\ token' \in Byte /\ (NoKey \/ \E code \in Word : AddKey(code))
  <1> DEFINE scan == Head(wire)
             Added == NoKey \/ \E code \in Word : AddKey(code)
  <1>1. FlagTypes /\ token \in Byte /\ token \in Word /\ 0 \in Word
    <2>1. FlagTypes /\ token \in Byte
      BY DEF TypeOK, FlagTypes, Flags1, Flags2, Flags3, Leds
    <2>2. \A byte \in Byte : byte \in Nat /\ byte < 65536
      BY DEF Byte
    <2>3. token \in Word /\ 0 \in Word
      BY <2>1, <2>2, InWord
    <2>4. QED
      BY <2>1, <2>3
  <1>2. NoKey => Added
    OBVIOUS
  <1>3. \A code \in Word : AddKey(code) => Added
    OBVIOUS
  <1> HIDE DEF Added
  <1>4. ASSUME Special(scan) PROVE FlagTypes' /\ token' \in Byte /\ Added
    <2> DEFINE f3 == flags3 \cup (CASE scan = 224 -> {"e0"} [] scan = 225 -> {"e1"}
                                    [] OTHER -> {})
    <2>1. f3 \subseteq Flags3
      <3>1. f3 \in {flags3 \cup {"e0"}, flags3 \cup {"e1"}, flags3 \cup {}}
        OBVIOUS
      <3>2. QED
        BY <1>1, <3>1 DEF FlagTypes, Flags3
    <2>2. End(scan, flags1, flags2, f3)
      BY <1>4 DEF Special
    <2> HIDE DEF f3
    <2>3. flags1' \subseteq Flags1 /\ flags2' \subseteq Flags2 /\ flags3' \subseteq Flags3
      BY <1>1, <2>1, <2>2, EndTypes DEF FlagTypes
    <2>4. QED
      BY <1>1, <1>2, <1>4, <2>3 DEF Special, FlagTypes
  <1>5. ASSUME Control(scan) PROVE FlagTypes' /\ token' \in Byte /\ Added
    <2>1. "ctrl" \in Flags1 /\ "lctrl" \in Flags2 /\ "rctrl" \in Flags3
      BY DEF Flags1, Flags2, Flags3
    <2>2. /\ \A on : SetIf(flags1, "ctrl", on) \subseteq Flags1
          /\ \A on : SetIf(flags2, "lctrl", on) \subseteq Flags2
          /\ \A on : SetIf(flags3, "rctrl", on) \subseteq Flags3
      BY <1>1, <2>1, SetIfSubset DEF FlagTypes
    <2>3. CASE "e1" \in flags3
      BY <1>1, <1>2, <1>5, <2>3, EndTypes DEF Control, FlagTypes
    <2>4. CASE "e1" \notin flags3
      <3> DEFINE right == "e0" \in flags3
                 f2 == IF right THEN flags2 ELSE SetIf(flags2, "lctrl", Make(scan))
                 f3 == IF right THEN SetIf(flags3, "rctrl", Make(scan)) ELSE flags3
                 f1 == SetIf(flags1, "ctrl", "lctrl" \in f2 \/ "rctrl" \in f3)
      <3>1. f1 \subseteq Flags1 /\ f2 \subseteq Flags2 /\ f3 \subseteq Flags3
        BY <1>1, <2>2 DEF FlagTypes
      <3>2. End(scan, f1, f2, f3)
        BY <1>5, <2>4 DEF Control
      <3> HIDE DEF f1, f2, f3
      <3>3. flags1' \subseteq Flags1 /\ flags2' \subseteq Flags2 /\ flags3' \subseteq Flags3
        BY <3>1, <3>2, EndTypes
      <3>4. QED
        BY <1>1, <1>2, <1>5, <3>3 DEF Control, FlagTypes
    <2>5. QED
      BY <2>3, <2>4
  <1>6. ASSUME Shift(scan) PROVE FlagTypes' /\ token' \in Byte /\ Added
    <2>1. "lshift" \in Flags1 /\ "rshift" \in Flags1
      BY DEF Flags1
    <2>2. \A on : SetIf(flags1, "lshift", on) \subseteq Flags1 /\ SetIf(flags1, "rshift", on) \subseteq Flags1
      BY <1>1, <2>1, SetIfSubset DEF FlagTypes
    <2>3. \E f1 \in SUBSET Flags1 : End(scan, f1, flags2, flags3)
      <3>1. CASE Code(scan) = 42
        BY <1>6, <2>2, <3>1 DEF Shift
      <3>2. CASE Code(scan) # 42
        BY <1>6, <2>2, <3>2 DEF Shift
      <3>3. QED
        BY <3>1, <3>2
    <2>4. flags1' \subseteq Flags1 /\ flags2' \subseteq Flags2 /\ flags3' \subseteq Flags3
      BY <1>1, <2>3, EndTypes DEF FlagTypes
    <2>5. QED
      BY <1>1, <1>2, <1>6, <2>4 DEF Shift, FlagTypes
  <1>7. ASSUME Alt(scan) PROVE FlagTypes' /\ token' \in Byte /\ Added
    <2>4. "alt" \in Flags1 /\ "lalt" \in Flags2 /\ "ralt" \in Flags3
      BY DEF Flags1, Flags2, Flags3
    <2>5. /\ \A on : SetIf(flags1, "alt", on) \subseteq Flags1
          /\ \A on : SetIf(flags2, "lalt", on) \subseteq Flags2
          /\ \A on : SetIf(flags3, "ralt", on) \subseteq Flags3
      BY <1>1, <2>4, SetIfSubset DEF FlagTypes
    <2>1. FlagTypes' /\ token' \in Byte
      <3> DEFINE right == "e0" \in flags3
                 f2 == IF right THEN flags2 ELSE SetIf(flags2, "lalt", Make(scan))
                 f3 == IF right THEN SetIf(flags3, "ralt", Make(scan)) ELSE flags3
                 f1 == SetIf(flags1, "alt", "lalt" \in f2 \/ "ralt" \in f3)
      <3>1. f1 \subseteq Flags1 /\ f2 \subseteq Flags2 /\ f3 \subseteq Flags3
        BY <1>1, <2>5 DEF FlagTypes
      <3>2. End(scan, f1, f2, f3) /\ leds' = leds /\ token' \in {token, 0}
        BY <1>7 DEF Alt
      <3> HIDE DEF f1, f2, f3
      <3>3. flags1' \subseteq Flags1 /\ flags2' \subseteq Flags2 /\ flags3' \subseteq Flags3
        BY <3>1, <3>2, EndTypes
      <3>4. QED
        BY <1>1, <3>2, <3>3 DEF FlagTypes, Byte
    <2>2. AddKey(0) \/ AddKey(token)
      BY <1>7 DEF Alt
    <2>3. QED
      BY <1>1, <1>3, <2>1, <2>2
  <1>8. ASSUME Lock(scan) PROVE FlagTypes' /\ token' \in Byte /\ Added
    <2>1. LockOf(Code(scan)) \in {"caps", "num", "scroll"}
      BY <1>8, LocksAre DEF Lock
    <2>2. QED
      <3> DEFINE lock == LockOf(Code(scan))
      <3>1. lock \in Flags1 /\ lock \in Flags2 /\ lock \in Leds
        BY <2>1 DEF Flags1, Flags2, Leds
      <3>2. CASE Make(scan)
        <4>1. End(scan, flags1, flags2 \cup {lock}, flags3) /\ leds' = leds
          BY <1>8, <3>2 DEF Lock
        <4> HIDE DEF lock
        <4>2. flags2 \cup {lock} \subseteq Flags2
          BY <1>1, <3>1 DEF FlagTypes
        <4>3. flags1' \subseteq Flags1 /\ flags2' \subseteq Flags2 /\ flags3' \subseteq Flags3
          BY <1>1, <4>1, <4>2, EndTypes DEF FlagTypes
        <4>4. QED
          BY <1>1, <1>2, <1>8, <4>1, <4>3 DEF Lock, FlagTypes
      <3>3. CASE ~Make(scan)
        <4>1. End(scan, Toggle(flags1, lock), flags2 \ {lock}, flags3) /\ leds' = Toggle(leds, lock)
          BY <1>8, <3>3 DEF Lock
        <4> HIDE DEF lock
        <4>2. /\ flags2 \ {lock} \subseteq Flags2 /\ Toggle(flags1, lock) \subseteq Flags1
              /\ Toggle(leds, lock) \subseteq Leds
          BY <1>1, <3>1, SetIfSubset DEF FlagTypes
        <4>3. flags1' \subseteq Flags1 /\ flags2' \subseteq Flags2 /\ flags3' \subseteq Flags3
          BY <1>1, <4>1, <4>2, EndTypes DEF FlagTypes
        <4>4. QED
          BY <1>1, <1>2, <1>8, <4>1, <4>2, <4>3 DEF Lock, FlagTypes
      <3>4. QED
        BY <3>2, <3>3
  <1>9. ASSUME PauseCode(scan) PROVE FlagTypes' /\ token' \in Byte /\ Added
    BY <1>1, <1>2, <1>9 DEF PauseCode, End, FlagTypes
  <1>10. ASSUME InsertRelease(scan) PROVE FlagTypes' /\ token' \in Byte /\ Added
    <2>1. "insert" \in Flags1
      BY DEF Flags1
    <2>2. Toggle(flags1, "insert") \subseteq Flags1 /\ flags2 \ {"insert"} \subseteq Flags2
      BY <1>1, <2>1, SetIfSubset DEF FlagTypes
    <2>3. \E f1 \in SUBSET Flags1, f2 \in SUBSET Flags2 : End(scan, f1, f2, flags3)
      BY <1>1, <1>10, <2>2 DEF InsertRelease, FlagTypes
    <2>4. flags1' \subseteq Flags1 /\ flags2' \subseteq Flags2 /\ flags3' \subseteq Flags3
      BY <1>1, <2>3, EndTypes DEF FlagTypes
    <2>5. QED
      BY <1>1, <1>2, <1>10, <2>4 DEF InsertRelease, FlagTypes
  <1>11. ASSUME scan \in PadCodes PROVE ScanAscii[scan] \in Row
    <2>1. scan % 128 = scan /\ scan <= 88 /\ scan \notin ShiftCodes
      BY <1>11 DEF PadCodes, ShiftCodes
    <2>2. QED
      BY <2>1, BiosKeyboardAssumption DEF Code
  <1>12. ASSUME Cursor(scan) PROVE FlagTypes' /\ token' \in Byte /\ Added
    <2>1. CursorCode(ScanAscii[scan]) \in Word
      BY <1>11, <1>12, ColumnIsWord DEF Cursor
    <2>2. QED
      <3>1. flags2 \cup {"insert"} \subseteq Flags2
        BY <1>1 DEF FlagTypes, Flags2
      <3>2. \E f2 \in SUBSET Flags2 : End(scan, flags1, f2, flags3)
        BY <1>1, <1>12, <3>1 DEF Cursor, FlagTypes
      <3>3. flags1' \subseteq Flags1 /\ flags2' \subseteq Flags2 /\ flags3' \subseteq Flags3
        BY <1>1, <3>2, EndTypes DEF FlagTypes
      <3>4. QED
        BY <1>1, <1>3, <1>12, <2>1, <3>3 DEF Cursor, FlagTypes
  <1>13. ASSUME Pad(scan) PROVE FlagTypes' /\ token' \in Byte /\ Added
    <2>1. PadCode(ScanAscii[scan]) \in Word /\ ScanAscii[scan].alt \in Word
      BY <1>11, <1>13, ColumnIsWord DEF Pad, Row
    <2>2. (token * 10 + AsciiOf(ScanAscii[scan].alt)) % 256 \in Byte
      <3>0. AsciiOf(ScanAscii[scan].alt) \in 0..255
        BY <2>1, CodeIs
      <3>1. AsciiOf(ScanAscii[scan].alt) \in Int /\ token \in Int
        BY <1>1, <3>0 DEF Byte
      <3>2. \A n \in Int : n % 256 \in 0..255
        BY Remainders
      <3>3. \A m, n \in Int : m * 10 + n \in Int
        OBVIOUS
      <3>4. QED
        BY <3>1, <3>2, <3>3 DEF Byte
    <2>3. QED
      BY <1>1, <1>2, <1>3, <1>13, <2>1, <2>2 DEF Pad, End, FlagTypes
  <1>14. ASSUME Normal(scan) PROVE FlagTypes' /\ token' \in Byte /\ Added
    <2>1. scan <= 88 => NormalCode(scan) \in Word
      BY <1>14, NormalCodeIsWord DEF Normal
    <2>2. AddKey(0) \/ (scan <= 88 /\ AddKey(NormalCode(scan)))
      <3>1. CASE scan <= 88
        BY <1>14, <3>1 DEF Normal
      <3>2. CASE ~(scan <= 88)
        BY <1>14, <3>2 DEF Normal
      <3>3. QED
        BY <3>1, <3>2
    <2>3. QED
      BY <1>1, <1>3, <1>14, <2>1, <2>2 DEF Normal, End, FlagTypes
  <1>15. FlagTypes' /\ token' \in Byte /\ Added
    BY <1>4, <1>5, <1>6, <1>7, <1>8, <1>9, <1>10, <1>12, <1>13, <1>14 DEF Int9
  <1>16. QED
    BY <1>15 DEF Added

-----------------------------------------------------------------------------
(* The shift keys.                                                         *)

DownIn(keys, prefix, code) ==
  \E key \in keys : key.prefix = prefix /\ key.codes = <<code>>

After(old, key, pressed) == IF pressed THEN old \cup {key} ELSE old \ {key}

\* The flag bytes say of a set of keys that they are the ones that are down.
Follow(keys) ==
  /\ ("lshift" \in flags1) <=> DownIn(keys, <<>>, 42)
  /\ ("rshift" \in flags1) <=> DownIn(keys, <<>>, 54)
  /\ ("lctrl" \in flags2) <=> DownIn(keys, <<>>, 29)
  /\ ("rctrl" \in flags3) <=> DownIn(keys, <<224>>, 29)
  /\ ("lalt" \in flags2) <=> DownIn(keys, <<>>, 56)
  /\ ("ralt" \in flags3) <=> DownIn(keys, <<224>>, 56)
  /\ ("ctrl" \in flags1) <=> ("lctrl" \in flags2 \/ "rctrl" \in flags3)
  /\ ("alt" \in flags1) <=> ("lalt" \in flags2 \/ "ralt" \in flags3)
  /\ ("caps" \in flags2) <=> DownIn(keys, <<>>, 58)
  /\ ("num" \in flags2) <=> DownIn(keys, <<>>, 69)
  /\ leds = flags1 \cap {"scroll", "num", "caps"}

\* Between keys the flag bytes follow the keys that are down.  While a key is
\* on the wire they still follow the keys that were down before it.
KeysFollowed ==
  \/ wire = <<>> /\ Prefixes = {} /\ Follow(held)
  \/ \E key \in Keys, pressed \in BOOLEAN, old \in SUBSET Keys :
       /\ held = After(old, key, pressed)
       /\ Follow(old)
       /\ Sending(key, pressed)

\* A key of one code is alone with its prefix and code.
LEMMA AfterKey ==
  ASSUME NEW key \in SingleKey \cup ExtendedKey, NEW old \in SUBSET Key,
         NEW pressed \in BOOLEAN, NEW prefix, NEW code
  PROVE  LET this == key.prefix = prefix /\ key.codes = <<code>>
         IN DownIn(After(old, key, pressed), prefix, code)
              <=> (this /\ pressed) \/ (~this /\ DownIn(old, prefix, code))
  <1>1. ASSUME NEW other \in Key, other.prefix = key.prefix, other.codes = key.codes
        PROVE  other = key
    <2>1. other = [prefix |-> other.prefix, codes |-> other.codes]
      BY SingleKeyIs, ExtendedKeyIs DEF Key, PauseKey
    <2>2. key = [prefix |-> key.prefix, codes |-> key.codes]
      BY SingleKeyIs, ExtendedKeyIs
    <2>3. QED
      BY <1>1, <2>1, <2>2
  <1>2. CASE pressed
    BY <1>2 DEF DownIn, After
  <1>3. CASE ~pressed
    BY <1>1, <1>3 DEF DownIn, After
  <1>4. QED
    BY <1>2, <1>3

LEMMA SetIfHas ==
  ASSUME NEW set, NEW name, NEW on \in BOOLEAN, NEW other
  PROVE  other \in SetIf(set, name, on) <=>
           (other = name /\ on) \/ (other # name /\ other \in set)
  BY DEF SetIf

\* Only the codes of the shift keys change the names that follow the keys.
Untouched ==
  /\ \A name \in {"lshift", "rshift", "ctrl", "alt", "scroll", "num", "caps"} :
       name \in flags1' <=> name \in flags1
  /\ \A name \in {"lctrl", "lalt", "caps", "num"} : name \in flags2' <=> name \in flags2
  /\ \A name \in {"rctrl", "ralt"} : name \in flags3' <=> name \in flags3
  /\ leds' = leds

LEMMA UntouchedFollows ==
  ASSUME NEW keys, Follow(keys), Untouched
  PROVE  Follow(keys)'
  <1>1. flags1' \cap {"scroll", "num", "caps"} = flags1 \cap {"scroll", "num", "caps"}
    BY Zenon DEF Untouched
  <1>2. QED
    BY <1>1 DEF Follow, Untouched

\* The last code of a key that has one code.
LastCode(old, key, pressed, code) ==
  /\ key \in Keys /\ pressed \in BOOLEAN /\ old \in SUBSET Keys
  /\ Follow(old)
  /\ code \in 1..88
  /\ key.codes = <<code>>
  /\ Head(wire) = Scan(code, pressed)
  /\ "e1" \notin flags3
  /\ \/ key \in SingleKey /\ key.prefix = <<>> /\ "e0" \notin flags3
     \/ key \in ExtendedKey /\ key.prefix = <<224>> /\ "e0" \in flags3

\* Which keys are down after it.
LEMMA DownAfter ==
  ASSUME NEW old, NEW key, NEW pressed, NEW code, LastCode(old, key, pressed, code),
         NEW prefix, NEW other
  PROVE  LET this == key.prefix = prefix /\ code = other
         IN DownIn(After(old, key, pressed), prefix, other)
              <=> (this /\ pressed) \/ (~this /\ DownIn(old, prefix, other))
  <1>1. key \in SingleKey \cup ExtendedKey /\ old \in SUBSET Key /\ pressed \in BOOLEAN
    BY BiosKeyboardAssumption DEF LastCode, Key
  <1>2. (key.codes = <<other>>) <=> code = other
    <2>1. key.codes = <<code>>
      BY DEF LastCode
    <2>2. <<code>> = <<other>> => code = other
      OBVIOUS
    <2>3. QED
      BY <2>1, <2>2
  <1>3. QED
    BY <1>1, <1>2, AfterKey

\* A key that is no shift key: it neither changes the names nor what is down.
LEMMA OtherKeyFollows ==
  ASSUME NEW old, NEW key, NEW pressed, NEW code, LastCode(old, key, pressed, code),
         code \notin {29, 42, 54, 56, 58, 69}, Untouched
  PROVE  Follow(After(old, key, pressed))'
  <1>1. ASSUME NEW prefix, NEW other \in {29, 42, 54, 56, 58, 69}
        PROVE  DownIn(After(old, key, pressed), prefix, other) <=> DownIn(old, prefix, other)
    BY DownAfter
  <1>2. Follow(old)'
    BY UntouchedFollows DEF LastCode
  <1> DEFINE new == After(old, key, pressed)
  <1> HIDE DEF new
  <1>3. \A prefix : \A other \in {29, 42, 54, 56, 58, 69} :
          DownIn(new, prefix, other) <=> DownIn(old, prefix, other)
    BY <1>1 DEF new
  <1>4. Follow(new)'
    BY <1>2, <1>3 DEF Follow
  <1>5. QED
    BY <1>4 DEF new

LEMMA Tuples == <<>> # <<224>> /\ <<224>> # <<225>> /\ <<>> # <<225>>
  OBVIOUS

LEMMA LastCodeScan ==
  ASSUME NEW old, NEW key, NEW pressed, NEW code, LastCode(old, key, pressed, code)
  PROVE  /\ Head(wire) \in 1..216
         /\ Head(wire) # 224
         /\ Code(Head(wire)) = code
         /\ Make(Head(wire)) <=> pressed
         /\ pressed => Head(wire) = code
         /\ ~pressed => Head(wire) = code + 128
  <1>1. code \in 1..88 /\ pressed \in BOOLEAN /\ Head(wire) = Scan(code, pressed)
    BY DEF LastCode
  <1> DEFINE scan == Scan(code, pressed)
  <1>2. /\ scan \in 1..216 /\ Code(scan) = code /\ (Make(scan) <=> pressed)
        /\ (pressed => scan = code) /\ (~pressed => scan = code + 128)
    BY <1>1, ScanIs
  <1> HIDE DEF scan
  <1>3. scan # 224
    BY <1>2
  <1>4. QED
    BY <1>1, <1>2, <1>3 DEF scan

LEMMA ControlFollows ==
  ASSUME NEW old, NEW key, NEW pressed, NEW code, LastCode(old, key, pressed, code),
         code = 29, Control(Head(wire))
  PROVE  Follow(After(old, key, pressed))'
  <1> DEFINE new == After(old, key, pressed)
             right == key.prefix = <<224>>
  <1>1. Head(wire) # 224 /\ (Make(Head(wire)) <=> pressed)
    BY LastCodeScan
  <1>2. "e1" \notin flags3 /\ ("e0" \in flags3 <=> right) /\ (~right <=> key.prefix = <<>>)
    BY Tuples DEF LastCode
  <1> DEFINE scan == Head(wire)
             f2 == IF right THEN flags2 ELSE SetIf(flags2, "lctrl", Make(scan))
             f3 == IF right THEN SetIf(flags3, "rctrl", Make(scan)) ELSE flags3
             ctrl == "lctrl" \in f2 \/ "rctrl" \in f3
             f1 == SetIf(flags1, "ctrl", ctrl)
  <1>10. ("e0" \in flags3) = right
    BY <1>2
  <1>11. flags1' = f1 /\ flags2' = f2 /\ flags3' = f3 \ {"e0"} /\ leds' = leds
    BY <1>1, <1>2, <1>10 DEF Control, End
  <1>12. \A name : name \in f2 <=> IF name = "lctrl" /\ ~right THEN pressed ELSE name \in flags2
    BY <1>1, Zenon DEF SetIf
  <1>13. \A name : name \in f3 <=> IF name = "rctrl" /\ right THEN pressed ELSE name \in flags3
    BY <1>1, Zenon DEF SetIf
  <1>14. \A name : name \in f1 <=> IF name = "ctrl" THEN ctrl ELSE name \in flags1
    BY Zenon DEF SetIf
  <1>3. /\ "lctrl" \in flags2' <=> (~right /\ pressed) \/ (right /\ "lctrl" \in flags2)
        /\ "rctrl" \in flags3' <=> (right /\ pressed) \/ (~right /\ "rctrl" \in flags3)
        /\ "ctrl" \in flags1' <=> ("lctrl" \in flags2' \/ "rctrl" \in flags3')
    <2> HIDE DEF f1, f2, f3, right
    <2>1. "lctrl" # "e0" /\ "rctrl" # "e0"
      OBVIOUS
    <2>2. QED
      BY <1>11, <1>12, <1>13, <1>14, <2>1, Zenon
  <1>4. /\ \A name \in {"lshift", "rshift", "alt", "scroll", "num", "caps"} :
             name \in flags1' <=> name \in flags1
        /\ \A name \in {"lalt", "caps", "num"} : name \in flags2' <=> name \in flags2
        /\ "ralt" \in flags3' <=> "ralt" \in flags3
        /\ leds' = leds
    <2> HIDE DEF f1, f2, f3, right, ctrl
    <2>1. QED
      BY <1>11, <1>12, <1>13, <1>14
  <1>5. ASSUME NEW prefix, NEW other \in {42, 54, 56, 58, 69}
        PROVE  DownIn(new, prefix, other) <=> DownIn(old, prefix, other)
    BY DownAfter
  <1>6. /\ DownIn(new, <<>>, 29) <=> (~right /\ pressed) \/ (right /\ DownIn(old, <<>>, 29))
        /\ DownIn(new, <<224>>, 29) <=> (right /\ pressed) \/ (~right /\ DownIn(old, <<224>>, 29))
    BY <1>2, DownAfter
  <1>7. flags1' \cap {"scroll", "num", "caps"} = flags1 \cap {"scroll", "num", "caps"}
    BY <1>4, Zenon
  <1> HIDE DEF new, right
  <1>8. Follow(old)
    BY DEF LastCode
  <1>9. Follow(new)'
    BY <1>3, <1>4, <1>5, <1>6, <1>7, <1>8 DEF Follow
  <1>15. QED
    BY <1>9 DEF new

LEMMA AltFollows ==
  ASSUME NEW old, NEW key, NEW pressed, NEW code, LastCode(old, key, pressed, code),
         code = 56, Alt(Head(wire))
  PROVE  Follow(After(old, key, pressed))'
  <1> DEFINE new == After(old, key, pressed)
             right == key.prefix = <<224>>
  <1>1. Head(wire) # 224 /\ (Make(Head(wire)) <=> pressed)
    BY LastCodeScan
  <1>2. "e1" \notin flags3 /\ ("e0" \in flags3 <=> right) /\ (~right <=> key.prefix = <<>>)
    BY Tuples DEF LastCode
  <1> DEFINE scan == Head(wire)
             f2 == IF right THEN flags2 ELSE SetIf(flags2, "lalt", Make(scan))
             f3 == IF right THEN SetIf(flags3, "ralt", Make(scan)) ELSE flags3
             alt == "lalt" \in f2 \/ "ralt" \in f3
             f1 == SetIf(flags1, "alt", alt)
  <1>10. ("e0" \in flags3) = right
    BY <1>2
  <1>11. flags1' = f1 /\ flags2' = f2 /\ flags3' = f3 \ {"e0"} /\ leds' = leds
    BY <1>1, <1>2, <1>10 DEF Alt, End
  <1>12. \A name : name \in f2 <=> IF name = "lalt" /\ ~right THEN pressed ELSE name \in flags2
    BY <1>1, Zenon DEF SetIf
  <1>13. \A name : name \in f3 <=> IF name = "ralt" /\ right THEN pressed ELSE name \in flags3
    BY <1>1, Zenon DEF SetIf
  <1>14. \A name : name \in f1 <=> IF name = "alt" THEN alt ELSE name \in flags1
    BY Zenon DEF SetIf
  <1>3. /\ "lalt" \in flags2' <=> (~right /\ pressed) \/ (right /\ "lalt" \in flags2)
        /\ "ralt" \in flags3' <=> (right /\ pressed) \/ (~right /\ "ralt" \in flags3)
        /\ "alt" \in flags1' <=> ("lalt" \in flags2' \/ "ralt" \in flags3')
    <2> HIDE DEF f1, f2, f3, right
    <2>1. "lalt" # "e0" /\ "ralt" # "e0"
      OBVIOUS
    <2>2. QED
      BY <1>11, <1>12, <1>13, <1>14, <2>1, Zenon
  <1>4. /\ \A name \in {"lshift", "rshift", "ctrl", "scroll", "num", "caps"} :
             name \in flags1' <=> name \in flags1
        /\ \A name \in {"lctrl", "caps", "num"} : name \in flags2' <=> name \in flags2
        /\ "rctrl" \in flags3' <=> "rctrl" \in flags3
        /\ leds' = leds
    <2> HIDE DEF f1, f2, f3, right, alt
    <2>1. QED
      BY <1>11, <1>12, <1>13, <1>14
  <1>5. ASSUME NEW prefix, NEW other \in {29, 42, 54, 58, 69}
        PROVE  DownIn(new, prefix, other) <=> DownIn(old, prefix, other)
    BY DownAfter
  <1>6. /\ DownIn(new, <<>>, 56) <=> (~right /\ pressed) \/ (right /\ DownIn(old, <<>>, 56))
        /\ DownIn(new, <<224>>, 56) <=> (right /\ pressed) \/ (~right /\ DownIn(old, <<224>>, 56))
    BY <1>2, DownAfter
  <1>7. flags1' \cap {"scroll", "num", "caps"} = flags1 \cap {"scroll", "num", "caps"}
    BY <1>4, Zenon
  <1> HIDE DEF new, right
  <1>8. Follow(old)
    BY DEF LastCode
  <1>9. Follow(new)'
    BY <1>3, <1>4, <1>5, <1>6, <1>7, <1>8 DEF Follow
  <1>15. QED
    BY <1>9 DEF new

LEMMA ShiftFollows ==
  ASSUME NEW old, NEW key, NEW pressed, NEW code, LastCode(old, key, pressed, code),
         code \in {42, 54}, key \in SingleKey, Shift(Head(wire))
  PROVE  Follow(After(old, key, pressed))'
  <1> DEFINE new == After(old, key, pressed)
             name == IF code = 42 THEN "lshift" ELSE "rshift"
             f1 == SetIf(flags1, name, Make(Head(wire)))
  <1>1. Head(wire) # 224 /\ (Make(Head(wire)) <=> pressed) /\ Code(Head(wire)) = code
    BY LastCodeScan
  <1>2. key.prefix = <<>>
    BY SingleKeyIs
  <1>3. flags1' = f1 /\ flags2' = flags2 /\ flags3' = flags3 \ {"e0"} /\ leds' = leds
    BY <1>1 DEF Shift, End
  <1>4. \A other : other \in f1 <=> IF other = name THEN pressed ELSE other \in flags1
    BY <1>1, Zenon DEF SetIf
  <1>5. \A other : other \in flags1' <=> IF other = name THEN pressed ELSE other \in flags1
    BY <1>3, <1>4
  <1>6. flags1' \cap {"scroll", "num", "caps"} = flags1 \cap {"scroll", "num", "caps"}
    BY <1>5
  <1>7. ASSUME NEW prefix, NEW other \in {29, 56, 58, 69}
        PROVE  DownIn(new, prefix, other) <=> DownIn(old, prefix, other)
    BY DownAfter
  <1>8. /\ DownIn(new, <<>>, 42) <=> (code = 42 /\ pressed) \/ (code # 42 /\ DownIn(old, <<>>, 42))
        /\ DownIn(new, <<>>, 54) <=> (code = 54 /\ pressed) \/ (code # 54 /\ DownIn(old, <<>>, 54))
    BY <1>2, DownAfter
  <1>9. Follow(old)
    BY DEF LastCode
  <1> HIDE DEF new, f1
  <1>10. CASE code = 42
    <2>1. Follow(new)'
      BY <1>3, <1>5, <1>6, <1>7, <1>8, <1>9, <1>10 DEF Follow
    <2>2. QED
      BY <2>1 DEF new
  <1>11. CASE code = 54
    <2>1. Follow(new)'
      BY <1>3, <1>5, <1>6, <1>7, <1>8, <1>9, <1>11 DEF Follow
    <2>2. QED
      BY <2>1 DEF new
  <1>12. QED
    BY <1>10, <1>11

\* A lock is reported as down while its key is, and changes when it comes up,
\* its light together with its state.
LEMMA LockFollows ==
  ASSUME NEW old, NEW key, NEW pressed, NEW code, LastCode(old, key, pressed, code),
         code \in {58, 69, 70}, key \in SingleKey, Lock(Head(wire))
  PROVE  Follow(After(old, key, pressed))'
  <1> DEFINE new == After(old, key, pressed)
             scan == Head(wire)
             lock == LockOf(code)
             locks == {"scroll", "num", "caps"}
  <1>1. scan # 224 /\ (Make(scan) <=> pressed) /\ Code(scan) = code
    BY LastCodeScan
  <1>2. key.prefix = <<>>
    BY SingleKeyIs
  <1>3. lock = IF code = 58 THEN "caps" ELSE IF code = 69 THEN "num" ELSE "scroll"
    BY DEF LockOf
  <1>4. flags3' = flags3 \ {"e0"}
    BY <1>1 DEF Lock, End
  <1>6. flags2' = IF pressed THEN flags2 \cup {lock} ELSE flags2 \ {lock}
    BY <1>1 DEF Lock, End
  <1>7. /\ pressed => flags1' = flags1 /\ leds' = leds
        /\ ~pressed => flags1' = Toggle(flags1, lock) /\ leds' = Toggle(leds, lock)
    BY <1>1 DEF Lock, End
  <1>8. Follow(old)
    BY DEF LastCode
  <1>9. ASSUME NEW prefix, NEW other \in {29, 42, 54, 56}
        PROVE  DownIn(new, prefix, other) <=> DownIn(old, prefix, other)
    BY DownAfter
  <1>10. /\ DownIn(new, <<>>, 58) <=> (code = 58 /\ pressed) \/ (code # 58 /\ DownIn(old, <<>>, 58))
         /\ DownIn(new, <<>>, 69) <=> (code = 69 /\ pressed) \/ (code # 69 /\ DownIn(old, <<>>, 69))
    BY <1>2, DownAfter
  <1> HIDE DEF lock, new
  <1>11. \A set, other : other \in Toggle(set, lock) <=>
           IF other = lock THEN lock \notin set ELSE other \in set
    BY Zenon DEF Toggle, SetIf
  <1>12. leds' = flags1' \cap locks
    <2>1. leds = flags1 \cap locks /\ lock \in locks
      BY <1>3, <1>8 DEF Follow
    <2>2. CASE pressed
      BY <1>7, <2>1, <2>2
    <2>3. CASE ~pressed
      <3>1. flags1' = Toggle(flags1, lock) /\ leds' = Toggle(leds, lock)
        BY <1>7, <2>3
      <3>2. CASE lock \in flags1
        <4>1. leds' = leds \ {lock} /\ flags1' = flags1 \ {lock}
          BY <2>1, <3>1, <3>2, Zenon DEF Toggle, SetIf
        <4>2. QED
          BY <2>1, <4>1
      <3>3. CASE lock \notin flags1
        <4>1. leds' = leds \cup {lock} /\ flags1' = flags1 \cup {lock}
          BY <2>1, <3>1, <3>3, Zenon DEF Toggle, SetIf
        <4>2. QED
          BY <2>1, <4>1
      <3>4. QED
        BY <3>2, <3>3
    <2>4. QED
      BY <2>2, <2>3, <1>8 DEF LastCode
  <1>13. \A name \in {"lshift", "rshift", "ctrl", "alt"} : name \in flags1' <=> name \in flags1
    BY <1>3, <1>7, <1>11
  <1>14. \A name \in {"lctrl", "lalt"} : name \in flags2' <=> name \in flags2
    BY <1>3, <1>6
  <1>15. /\ "caps" \in flags2' <=> (code = 58 /\ pressed) \/ (code # 58 /\ "caps" \in flags2)
         /\ "num" \in flags2' <=> (code = 69 /\ pressed) \/ (code # 69 /\ "num" \in flags2)
    BY <1>3, <1>6
  <1>16. Follow(new)'
    BY <1>4, <1>8, <1>9, <1>10, <1>12, <1>13, <1>14, <1>15 DEF Follow
  <1>17. QED
    BY <1>16 DEF new

\* The code of a key that changes none of these names: a key that is looked
\* up, and the release of Insert.
LEMMA OthersUntouched ==
  ASSUME NEW scan, scan # 224,
         Normal(scan) \/ Cursor(scan) \/ Pad(scan) \/ InsertRelease(scan)
  PROVE  Untouched
  <1>1. flags3' = flags3 \ {"e0"} /\ leds' = leds
    BY DEF Normal, Cursor, Pad, InsertRelease, End
  <1>2. flags1' = flags1 \/ flags1' = Toggle(flags1, "insert")
    BY DEF Normal, Cursor, Pad, InsertRelease, End
  <1>3. flags2' \in {flags2, flags2 \cup {"insert"}, flags2 \ {"insert"}}
    BY DEF Normal, Cursor, Pad, InsertRelease, End
  <1>4. \A name : name # "insert" => (name \in flags1' <=> name \in flags1)
    BY <1>2, Zenon DEF Toggle, SetIf
  <1>5. \A name : name # "insert" => (name \in flags2' <=> name \in flags2)
    BY <1>3
  <1>6. QED
    BY <1>1, <1>4, <1>5 DEF Untouched

\* The prefix e0 is over after the code that follows it, e1 after Pause's last.
LEMMA PrefixOver ==
  ASSUME Int9, Head(wire) # 224, Head(wire) # 225, "e1" \notin flags3
  PROVE  Prefixes' = {}
  <1> DEFINE scan == Head(wire)
  <1>1. ASSUME NEW f1, NEW f2, NEW f3, End(scan, f1, f2, f3), "e1" \notin f3
        PROVE  Prefixes' = {}
    BY <1>1 DEF End, Prefixes
  <1>2. "e1" \notin SetIf(flags3, "rctrl", Make(scan)) /\ "e1" \notin SetIf(flags3, "ralt", Make(scan))
    BY Zenon DEF SetIf
  <1>3. CASE Special(scan)
    BY <1>3 DEF Special, End, Prefixes
  <1>4. CASE Control(scan)
    BY <1>1, <1>2, <1>4 DEF Control
  <1>5. CASE Alt(scan)
    BY <1>1, <1>2, <1>5 DEF Alt
  <1>6. CASE Shift(scan) \/ Lock(scan) \/ PauseCode(scan)
    BY <1>1, <1>6 DEF Shift, Lock, PauseCode
  <1>7. CASE InsertRelease(scan) \/ Cursor(scan) \/ Pad(scan) \/ Normal(scan)
    BY <1>1, <1>7 DEF InsertRelease, Cursor, Pad, Normal
  <1>8. QED
    BY <1>3, <1>4, <1>5, <1>6, <1>7 DEF Int9

LEMMA LastCodeFollows ==
  ASSUME NEW old, NEW key, NEW pressed, NEW code, LastCode(old, key, pressed, code), Int9
  PROVE  Follow(After(old, key, pressed))' /\ Prefixes' = {}
  <1> DEFINE scan == Head(wire)
  <1>1. /\ scan \in 1..216 /\ scan # 224 /\ Code(scan) = code
        /\ code \in 1..88 /\ "e1" \notin flags3
        /\ (scan = code \/ scan = code + 128)
    <2>1. code \in 1..88 /\ "e1" \notin flags3 /\ pressed \in BOOLEAN
      BY DEF LastCode
    <2>2. /\ scan \in 1..216 /\ scan # 224 /\ Code(scan) = code
          /\ pressed => scan = code
          /\ ~pressed => scan = code + 128
      BY LastCodeScan
    <2>3. QED
      BY <2>1, <2>2
  <1>2. scan \notin {224, 225, 250}
    BY <1>1
  <1>3. Prefixes' = {}
    BY <1>1, <1>2, PrefixOver
  <1>4. scan \in PadCodes \cup {210} => code \notin ShiftCodes
    BY <1>1 DEF PadCodes, ShiftCodes
  <1>5. key \in ExtendedKey => code \notin {42, 54, 58, 69, 70}
    <2>1. key.codes = <<code>>
      BY DEF LastCode
    <2>2. ASSUME key \in ExtendedKey PROVE code \in {28, 29, 53, 56, 71, 72, 73, 75, 77} \cup (79..83)
      <3>1. key.codes[1] \in {28, 29, 53, 56, 71, 72, 73, 75, 77} \cup (79..83)
        <4>1. PICK c \in {28, 29, 53, 56, 71, 72, 73, 75, 77} \cup (79..83) : key.codes = <<c>>
          BY <2>2 DEF ExtendedKey
        <4>2. QED
          BY <4>1
      <3>2. QED
        BY <2>1, <3>1
    <2>3. QED
      BY <2>2
  <1>6. key \in SingleKey \cup ExtendedKey
    BY DEF LastCode
  <1>7. CASE Special(scan) \/ PauseCode(scan)
    BY <1>1, <1>2, <1>7 DEF Special, PauseCode
  <1>8. CASE Control(scan)
    BY <1>1, <1>3, <1>8, ControlFollows DEF Control
  <1>9. CASE Alt(scan)
    BY <1>1, <1>3, <1>9, AltFollows DEF Alt
  <1>10. CASE Shift(scan)
    BY <1>1, <1>3, <1>5, <1>6, <1>10, ShiftFollows DEF Shift
  <1>11. CASE Lock(scan)
    BY <1>1, <1>3, <1>5, <1>6, <1>11, LockFollows DEF Lock
  <1>12. CASE InsertRelease(scan) \/ Cursor(scan) \/ Pad(scan) \/ Normal(scan)
    <2>1. code \notin ShiftCodes
      BY <1>1, <1>4, <1>12 DEF InsertRelease, Cursor, Pad, Normal
    <2>2. Untouched
      BY <1>1, <1>12, OthersUntouched
    <2>3. QED
      BY <1>3, <2>1, <2>2, OtherKeyFollows DEF ShiftCodes
  <1>13. QED
    BY <1>7, <1>8, <1>9, <1>10, <1>11, <1>12 DEF Int9

\* Pause is no shift key.
LEMMA PauseFollows ==
  ASSUME NEW old, NEW pressed \in BOOLEAN, Follow(old), Untouched
  PROVE  Follow(After(old, PauseKey, pressed))'
  <1> DEFINE new == After(old, PauseKey, pressed)
  <1>1. ASSUME NEW prefix, NEW code
        PROVE  DownIn(new, prefix, code) <=> DownIn(old, prefix, code)
    <2>1. PauseKey.codes # <<code>>
      BY DEF PauseKey
    <2>2. CASE pressed
      BY <2>1, <2>2 DEF DownIn, After
    <2>3. CASE ~pressed
      BY <2>1, <2>3 DEF DownIn, After
    <2>4. QED
      BY <2>2, <2>3
  <1>2. Follow(old)'
    BY UntouchedFollows
  <1> HIDE DEF new
  <1>3. Follow(new)'
    BY <1>1, <1>2 DEF Follow
  <1>4. QED
    BY <1>3 DEF new

\* One byte of a key: a prefix is remembered, and the last code makes the flag
\* bytes follow the keys that are down now.
LEMMA ByteSeen ==
  ASSUME NEW key \in Keys, NEW pressed \in BOOLEAN, NEW old \in SUBSET Keys,
         held = After(old, key, pressed), Follow(old), Sending(key, pressed), Int9
  PROVE  KeysFollowed'
  <1> DEFINE first == Scan(key.codes[1], pressed)
             last == Scan(69, pressed)
             new == After(old, key, pressed)
  <1>1. wire' = Tail(wire) /\ held' = new
    BY DEF Int9, host_vars
  <1>2. ASSUME wire' = <<>>, Prefixes' = {}, Follow(new)'
        PROVE  KeysFollowed'
    <2> HIDE DEF new
    <2>1. Follow(held)'
      BY <1>1, <1>2 DEF Follow
    <2>2. QED
      BY <1>2, <2>1 DEF KeysFollowed
  <1>3. ASSUME Sending(key, pressed)', Follow(old)'
        PROVE  KeysFollowed'
    BY <1>1, <1>3 DEF KeysFollowed
  <1>4. ASSUME Special(Head(wire)), Head(wire) \in {224, 225}
        PROVE  /\ Untouched
               /\ Follow(old)'
               /\ flags3' = IF Head(wire) = 224 THEN flags3 \cup {"e0"}
                            ELSE (flags3 \cup {"e1"}) \ {"e0"}
    <2>1. /\ flags1' = flags1 /\ flags2' = flags2 /\ leds' = leds
          /\ flags3' = IF Head(wire) = 224 THEN flags3 \cup {"e0"}
                       ELSE (flags3 \cup {"e1"}) \ {"e0"}
      BY <1>4 DEF Special, End
    <2>2. Untouched
      BY <2>1 DEF Untouched
    <2>3. QED
      BY <2>1, <2>2, UntouchedFollows
  <1>5. ASSUME Head(wire) \in {224, 225} PROVE Special(Head(wire))
    <2> DEFINE scan == Head(wire)
    <2>1. Code(scan) \in {96, 97}
      <3>1. Code(224) = 96 /\ Code(225) = 97
        BY DEF Code
      <3>2. QED
        BY <1>5, <3>1
    <2>2. scan # 210 /\ scan \notin PadCodes
      BY <1>5 DEF PadCodes
    <2>3. ~Control(scan) /\ ~Shift(scan) /\ ~Alt(scan) /\ ~Lock(scan) /\ ~PauseCode(scan)
      BY <2>1 DEF Control, Shift, Alt, Lock, PauseCode
    <2>4. ~InsertRelease(scan) /\ ~Cursor(scan) /\ ~Pad(scan) /\ ~Normal(scan)
      BY <1>5, <2>2 DEF InsertRelease, Cursor, Pad, Normal
    <2>5. QED
      BY <2>3, <2>4 DEF Int9
  <1>6. ASSUME wire = <<first>>,
               \/ key \in SingleKey /\ Prefixes = {}
               \/ key \in ExtendedKey /\ Prefixes = {"e0"}
        PROVE  KeysFollowed'
    <2>1. /\ key.codes = <<key.codes[1]>> /\ key.codes[1] \in 1..88
          /\ key \in SingleKey => key.prefix = <<>>
          /\ key \in ExtendedKey => key.prefix = <<224>>
      BY <1>6, SingleKeyIs, ExtendedKeyIs
    <2>2. Head(wire) = first /\ Tail(wire) = <<>>
      BY <1>6
    <2>3. "e1" \notin flags3 /\ (Prefixes = {} => "e0" \notin flags3)
          /\ (Prefixes = {"e0"} => "e0" \in flags3)
      BY <1>6 DEF Prefixes
    <2>4. LastCode(old, key, pressed, key.codes[1])
      BY <1>6, <2>1, <2>2, <2>3, Zenon DEF LastCode
    <2>5. Follow(new)' /\ Prefixes' = {}
      BY <2>4, LastCodeFollows
    <2>6. QED
      BY <1>1, <1>2, <2>2, <2>5
  <1>7. ASSUME key \in ExtendedKey, wire = <<224, first>>, Prefixes = {}
        PROVE  KeysFollowed'
    <2>1. Head(wire) = 224 /\ Tail(wire) = <<first>>
      BY <1>7
    <2>2. flags3' = flags3 \cup {"e0"} /\ Follow(old)'
      BY <1>4, <1>5, <2>1
    <2>3. Prefixes' = {"e0"}
      BY <1>7, <2>2 DEF Prefixes
    <2>4. Sending(key, pressed)'
      BY <1>1, <1>7, <2>1, <2>3 DEF Sending
    <2>5. QED
      BY <1>3, <2>2, <2>4
  <1>8. ASSUME key = PauseKey, wire = <<225, first, last>>, Prefixes = {}
        PROVE  KeysFollowed'
    <2>1. Head(wire) = 225 /\ Tail(wire) = <<first, last>>
      BY <1>8
    <2>2. flags3' = (flags3 \cup {"e1"}) \ {"e0"} /\ Follow(old)'
      BY <1>4, <1>5, <2>1
    <2>3. Prefixes' = {"e1"}
      BY <1>8, <2>2 DEF Prefixes
    <2>4. Sending(key, pressed)'
      BY <1>1, <1>8, <2>1, <2>3 DEF Sending
    <2>5. QED
      BY <1>3, <2>2, <2>4
  <1>9. ASSUME key = PauseKey, wire = <<first, last>>, Prefixes = {"e1"}
        PROVE  KeysFollowed'
    <2>1. Head(wire) = first /\ Tail(wire) = <<last>> /\ first = Scan(29, pressed)
      BY <1>9 DEF PauseKey
    <2>2. Code(first) = 29 /\ first \in {29, 157}
      BY <2>1, ScanIs
    <2>3. Control(first)
      BY <2>1, <2>2, SMTT(60) DEF Int9, Special, Shift, Alt, Lock, PauseCode, InsertRelease, Cursor,
                        Pad, Normal, PadCodes, ShiftCodes
    <2>4. "e1" \in flags3 /\ "e0" \notin flags3
      BY <1>9 DEF Prefixes
    <2>5. UNCHANGED flag_vars
      BY <2>2, <2>3, <2>4 DEF Control, End, flag_vars
    <2>6. Untouched /\ Prefixes' = {"e1"}
      BY <1>9, <2>5 DEF Untouched, Prefixes, flag_vars
    <2>7. Follow(old)' /\ Sending(key, pressed)'
      BY <1>1, <1>9, <2>1, <2>6, UntouchedFollows DEF Sending
    <2>8. QED
      BY <1>3, <2>7
  <1>10. ASSUME key = PauseKey, wire = <<last>>, Prefixes = {"e1"}
         PROVE  KeysFollowed'
    <2>1. Head(wire) = last /\ Tail(wire) = <<>>
      BY <1>10
    <2>2. Code(last) = 69 /\ last \in {69, 197}
      BY ScanIs
    <2>4. "e1" \in flags3 /\ "e0" \notin flags3
      BY <1>10 DEF Prefixes
    <2>3. PauseCode(last)
      BY <2>1, <2>2, <2>4, SMTT(60) DEF Int9, Special, Control, Shift, Alt, Lock, InsertRelease, Cursor,
                        Pad, Normal, PadCodes, ShiftCodes
    <2>5. /\ flags1' = flags1 /\ flags2' = flags2 /\ leds' = leds
          /\ flags3' = (flags3 \ {"e1"}) \ {"e0"}
      BY <2>2, <2>3 DEF PauseCode, End
    <2>6. Untouched /\ Prefixes' = {}
      BY <2>5 DEF Untouched, Prefixes
    <2>7. Follow(new)'
      BY <1>10, <2>6, PauseFollows
    <2>8. QED
      BY <1>1, <1>2, <2>1, <2>6, <2>7
  <1>11. QED
    BY <1>6, <1>7, <1>8, <1>9, <1>10 DEF Sending

\* A key that is pressed or released, or repeated, comes onto the wire.
LEMMA TypeKeyFollows ==
  ASSUME KeysFollowed, TypeOK, NEW key \in Keys, NEW pressed \in BOOLEAN, TypeKey(key, pressed)
  PROVE  KeysFollowed' /\ wire' \in Seq(Byte)
  <1> DEFINE first == Scan(key.codes[1], pressed)
             last == Scan(69, pressed)
  <1>1. wire' = KeyBytes(key, pressed) /\ held' = After(held, key, pressed)
        /\ UNCHANGED flag_vars
    BY DEF TypeKey, After
  <1>2. wire = <<>> => Prefixes = {} /\ Follow(held)
    BY DEF KeysFollowed, Sending
  <1>3. wire = <<>>
    BY DEF TypeKey
  <1>4. PICK old : old = held
    OBVIOUS
  <1>5. held' = After(old, key, pressed) /\ old \in SUBSET Keys
    BY <1>1, <1>4 DEF TypeOK
  <1>6. Follow(old)'
    <2>1. Follow(old)
      BY <1>2, <1>3, <1>4
    <2>2. Untouched
      BY <1>1 DEF Untouched, flag_vars
    <2>3. QED
      BY <2>1, <2>2, UntouchedFollows
  <1>7. Prefixes' = {}
    BY <1>1, <1>2, <1>3 DEF Prefixes, flag_vars
  <1>8. key \in Key
    BY BiosKeyboardAssumption
  <1>9. /\ key \in SingleKey => wire' = <<first>>
        /\ key \in ExtendedKey => wire' = <<224, first>>
        /\ key = PauseKey => wire' = <<225, first, last>>
    BY <1>1, <1>8, KeySent
  <1>10. Sending(key, pressed)'
    BY <1>7, <1>8, <1>9 DEF Sending, Key
  <1>11. first \in Byte /\ last \in Byte /\ 224 \in Byte /\ 225 \in Byte
    <2>1. key.codes[1] \in 1..88 /\ 69 \in 1..88
      BY <1>8, SingleKeyIs, ExtendedKeyIs DEF Key, PauseKey
    <2>2. first \in 1..216 /\ last \in 1..216
      BY <2>1, ScanIs
    <2> HIDE DEF first, last
    <2>3. QED
      BY <2>2 DEF Byte
  <1>12. wire' \in Seq(Byte)
    <2> HIDE DEF first, last
    <2>1. <<first>> \in Seq(Byte) /\ <<224, first>> \in Seq(Byte)
      BY <1>11
    <2>2. <<225, first, last>> \in Seq(Byte)
      BY <1>11
    <2>3. QED
      BY <1>8, <1>9, <2>1, <2>2, Zenon DEF Key
  <1>13. QED
    BY <1>5, <1>6, <1>10, <1>12 DEF KeysFollowed

TypedKeysInv == TypeOK /\ KeysFollowed

LEMMA InitTypedKeysInv == Init => TypedKeysInv
  <1> SUFFICES ASSUME Init PROVE TypedKeysInv
    OBVIOUS
  <1>1. 0 \in Word /\ 0 \in Byte
    BY InWord DEF Byte
  <1>2. TypeOK
    BY <1>1, BiosKeyboardAssumption DEF Init, TypeOK
  <1>3. Follow(held)
    BY DEF Init, Follow, DownIn
  <1>4. QED
    BY <1>2, <1>3 DEF Init, TypedKeysInv, KeysFollowed, Prefixes

\* One byte keeps the types, and adds at most one word to the ring.
LEMMA Int9Types ==
  ASSUME TypedKeysInv, Int9
  PROVE  /\ KeysFollowed' /\ wire' \in Seq(Byte)
         /\ FlagTypes' /\ token' \in Byte
         /\ NoKey \/ \E code \in Word : AddKey(code)
  <1>1. wire # <<>> /\ wire' = Tail(wire) /\ UNCHANGED <<guest_vars, host_vars>>
    BY DEF Int9
  <1>2. PICK key \in Keys, pressed \in BOOLEAN, old \in SUBSET Keys :
          held = After(old, key, pressed) /\ Follow(old) /\ Sending(key, pressed)
    BY <1>1 DEF TypedKeysInv, KeysFollowed
  <1>3. KeysFollowed'
    BY <1>2, ByteSeen
  <1>4. wire \in Seq(Byte)
    BY DEF TypedKeysInv, TypeOK
  <1>5. wire' \in Seq(Byte) /\ Head(wire) \in Byte
    BY <1>1, <1>4
  <1>6. Head(wire) <= 88 /\ Code(Head(wire)) \notin ShiftCodes => Head(wire) \in DOMAIN ScanAscii
    <2> DEFINE scan == Head(wire)
    <2>1. CASE scan \in {224, 225}
      BY <2>1
    <2>2. ASSUME NEW code \in 1..88, scan = Scan(code, pressed),
                 code \in ShiftCodes \cup DOMAIN ScanAscii
          PROVE  scan <= 88 /\ Code(scan) \notin ShiftCodes => scan \in DOMAIN ScanAscii
      <3>1. /\ Code(scan) = code
            /\ pressed => scan = code
            /\ ~pressed => scan = code + 128
        BY <2>2, ScanIs
      <3>2. QED
        BY <2>2, <3>1
    <2>3. QED
      BY <1>2, <2>1, <2>2, FirstOfWire
  <1>7. FlagTypes' /\ token' \in Byte /\ (NoKey \/ \E code \in Word : AddKey(code))
    <2>1. Head(wire) \in Nat
      <3>1. \A byte \in Byte : byte \in Nat
        BY DEF Byte
      <3>2. QED
        BY <1>5, <3>1
    <2>2. QED
      BY <1>6, <2>1, CodeTypes DEF TypedKeysInv
  <1>8. QED
    BY <1>3, <1>5, <1>7

LEMMA Int9Preserves ==
  ASSUME TypedKeysInv, Int9
  PROVE  TypedKeysInv'
  <1>1. UNCHANGED <<guest_vars, host_vars>>
    BY DEF Int9
  <1>2. /\ KeysFollowed' /\ wire' \in Seq(Byte)
        /\ FlagTypes' /\ token' \in Byte
        /\ NoKey \/ \E code \in Word : AddKey(code)
    BY Int9Types
  <1>3. RingTypes'
    <2>1. CASE NoKey
      BY <2>1 DEF TypedKeysInv, TypeOK, NoKey, ring_vars, RingTypes
    <2>2. ASSUME NEW code \in Word, AddKey(code) PROVE RingTypes'
      BY <2>2, AddKeyTypes DEF TypedKeysInv, RingTypes
    <2>3. QED
      BY <1>2, <2>1, <2>2
  <1>4. TypeOK'
    BY <1>1, <1>2, <1>3 DEF TypedKeysInv, TypeOK, FlagTypes, RingTypes, guest_vars, host_vars,
                            Flags1, Flags2, Flags3, Leds
  <1>5. QED
    BY <1>2, <1>4 DEF TypedKeysInv

LEMMA GetTypes ==
  ASSUME TypeOK, GetKeystroke
  PROVE  TypeOK'
  <1>1. Following(head) \in 0..(Slots - 1)
    BY FollowingPlace DEF TypeOK, Places
  <1>2. head' \in 0..(Slots - 1)
    BY <1>1 DEF GetKeystroke, TypeOK
  <1>3. ax' \in Word
    <2>1. 0 \in Word
      BY InWord
    <2>2. buffer[head] \in Word
      BY DEF TypeOK
    <2>3. ax' = 0 \/ ax' = Plain(buffer[head])
      BY DEF GetKeystroke
    <2>4. QED
      BY <2>1, <2>2, <2>3, CodeIs
  <1>4. QED
    BY <1>2, <1>3 DEF GetKeystroke, TypeOK, flag_vars, host_vars

LEMMA CheckTypes ==
  ASSUME TypeOK, CheckKeystroke
  PROVE  TypeOK'
  <1>1. head \in Places /\ tail \in Places
    BY DEF TypeOK, Places
  <1>2. PICK n \in 0..Len(Contents) :
          /\ head' = (head + n) % Slots
          /\ ax' = IF n = Len(Contents) THEN ax ELSE Plain(Contents[n + 1])
    BY DEF CheckKeystroke
  <1>3. Len(Contents) \in Nat
    BY <1>1, ContentsOf, BiosKeyboardAssumption
  <1>4. head' \in 0..(Slots - 1)
    <2>1. head + n \in Int
      BY <1>1, <1>3 DEF Places
    <2>2. QED
      BY <1>2, <2>1, Remainders, BiosKeyboardAssumption
  <1>5. ax' \in Word
    <2>1. CASE n = Len(Contents)
      BY <1>2, <2>1 DEF TypeOK
    <2>2. CASE n # Len(Contents)
      <3>1. n \in 0..(Len(Contents) - 1)
        BY <1>3, <2>2
      <3>2. (head + n) % Slots \in Places /\ Contents[n + 1] = buffer[(head + n) % Slots]
        BY <1>1, <3>1, ContentsOf
      <3>3. Contents[n + 1] \in Word
        BY <3>2 DEF TypeOK, Places
      <3>4. QED
        BY <1>2, <2>2, <3>3, CodeIs
    <2>3. QED
      BY <2>1, <2>2
  <1>6. QED
    BY <1>4, <1>5 DEF CheckKeystroke, TypeOK, flag_vars, host_vars

LEMMA SameKeysFollowed ==
  ASSUME KeysFollowed, UNCHANGED <<wire, flag_vars, host_vars>>
  PROVE  KeysFollowed'
  BY DEF KeysFollowed, Follow, Sending, Prefixes, flag_vars, host_vars

LEMMA NextTypedKeysInv == TypedKeysInv /\ [Next]_vars => TypedKeysInv'
  <1> SUFFICES ASSUME TypedKeysInv, [Next]_vars PROVE TypedKeysInv'
    OBVIOUS
  <1>1. CASE UNCHANGED vars
    <2>1. TypeOK'
      BY <1>1 DEF vars, flag_vars, ring_vars, guest_vars, host_vars, TypedKeysInv, TypeOK
    <2>2. UNCHANGED <<wire, flag_vars, host_vars>>
      BY <1>1 DEF vars
    <2>3. QED
      BY <2>1, <2>2, SameKeysFollowed DEF TypedKeysInv
  <1>2. ASSUME NEW key \in Keys, NEW pressed \in BOOLEAN, TypeKey(key, pressed)
        PROVE  TypedKeysInv'
    <2>1. KeysFollowed' /\ wire' \in Seq(Byte)
      BY <1>2, TypeKeyFollows DEF TypedKeysInv
    <2>2. held' \subseteq Keys /\ typed' \in 0..MaxEvents
      BY <1>2, BiosKeyboardAssumption DEF TypeKey, TypedKeysInv, TypeOK
    <2>3. QED
      BY <1>2, <2>1, <2>2 DEF TypeKey, TypedKeysInv, TypeOK, flag_vars, ring_vars, guest_vars
  <1>3. CASE GetKeystroke
    BY <1>3, GetTypes, SameKeysFollowed DEF TypedKeysInv, GetKeystroke
  <1>4. CASE CheckKeystroke
    BY <1>4, CheckTypes, SameKeysFollowed DEF TypedKeysInv, CheckKeystroke
  <1>5. QED
    BY <1>1, <1>2, <1>3, <1>4, Int9Preserves DEF Next

LEMMA TypedKeysInvHolds == Spec => []TypedKeysInv
  BY InitTypedKeysInv, NextTypedKeysInv, PTL DEF Spec

\* The flag bytes, the ring and the bytes on the wire keep their types, for any
\* keys of dp_keyboard_add_key, any rows of the table and any size of the ring.
THEOREM BiosTypeCorrect == Spec => []TypeOK
  BY TypedKeysInvHolds, PTL DEF TypedKeysInv

\* Between keys the flag bytes say which Shift, Ctrl and Alt keys and locks are
\* down, for any set of keys and any order in which they are pressed, repeated
\* and released.
THEOREM BiosModifiersFollowKeys == Spec => []ModifiersFollowKeys
  <1>1. TypedKeysInv => ModifiersFollowKeys
    <2> SUFFICES ASSUME KeysFollowed, wire = <<>>
                 PROVE  ModifiersFollowKeys
      BY DEF TypedKeysInv, ModifiersFollowKeys
    <2>1. Follow(held)
      BY DEF KeysFollowed, Sending
    <2>2. \A prefix, code : Down(prefix, code) <=> DownIn(held, prefix, code)
      BY DEF Down, DownIn
    <2>3. QED
      BY <2>1, <2>2 DEF Follow, ModifiersFollowKeys
  <1>2. QED
    BY <1>1, TypedKeysInvHolds, PTL

-----------------------------------------------------------------------------
(* The keystrokes that old programs know.                                  *)

\* Every set of numbers has a least one.
LEMMA LeastOfNaturals ==
  ASSUME NEW T \in SUBSET Nat, T # {}
  PROVE  \E n \in T : \A m \in T : n <= m
  <1> DEFINE R == {ss \in Nat \X Nat : ss[1] < ss[2]}
  <1>1. IsWellFoundedOn(R, Nat)
    BY NatLessThanWellFounded DEF OpToRel
  <1>2. PICK n \in T : \A m \in T : <<m, n>> \notin R
    <2> HIDE DEF R
    <2> QED
      BY <1>1, WFMin
  <1>3. \A m \in T : m \in Nat /\ n \in Nat /\ ~(m < n)
    BY <1>2
  <1>4. QED
    BY <1>3

KnownNext(known, code) ==
  IF Enhanced(code) THEN known ELSE Append(known, Plain(code))

\* What is known of the first keystrokes, one after the other.
KnownSteps(steps, codes, length) ==
  /\ steps[0] = <<>>
  /\ \A n \in 1..length : steps[n] = KnownNext(steps[n - 1], codes[n])

LEMMA OneMoreStep ==
  ASSUME NEW codes, NEW length \in Nat, NEW steps, KnownSteps(steps, codes, length)
  PROVE  LET longer == [n \in 0..(length + 1) |->
                          IF n = length + 1 THEN KnownNext(steps[length], codes[length + 1])
                          ELSE steps[n]]
         IN KnownSteps(longer, codes, length + 1)
  <1> DEFINE longer == [n \in 0..(length + 1) |->
                          IF n = length + 1 THEN KnownNext(steps[length], codes[length + 1])
                          ELSE steps[n]]
  <1>1. longer[0] = <<>>
    BY DEF KnownSteps
  <1>2. ASSUME NEW n \in 1..(length + 1)
        PROVE  longer[n] = KnownNext(longer[n - 1], codes[n])
    <2>1. n - 1 \in 0..(length + 1) /\ n - 1 # length + 1 /\ n \in 0..(length + 1)
      OBVIOUS
    <2>2. longer[n - 1] = steps[n - 1]
      BY <2>1
    <2>3. CASE n = length + 1
      <3>1. longer[n] = KnownNext(steps[length], codes[length + 1]) /\ n - 1 = length
        BY <2>1, <2>3
      <3>2. QED
        BY <2>2, <2>3, <3>1
    <2>4. CASE n # length + 1
      <3>1. longer[n] = steps[n] /\ n \in 1..length
        BY <2>1, <2>4
      <3>2. QED
        BY <2>2, <3>1 DEF KnownSteps
    <2>5. QED
      BY <2>3, <2>4
  <1> HIDE DEF longer
  <1>3. KnownSteps(longer, codes, length + 1)
    BY <1>1, <1>2 DEF KnownSteps
  <1>4. QED
    BY <1>3 DEF longer

LEMMA StepsExist ==
  ASSUME NEW codes, NEW length \in Nat
  PROVE  \E steps : KnownSteps(steps, codes, length)
  <1> DEFINE without == {n \in Nat : ~\E steps : KnownSteps(steps, codes, n)}
  <1>1. CASE without # {}
    <2>1. PICK n \in without : \A m \in without : n <= m
      <3>1. without \in SUBSET Nat
        OBVIOUS
      <3> HIDE DEF without
      <3>2. QED
        BY <1>1, <3>1, LeastOfNaturals
    <2>2. n # 0
      <3>1. KnownSteps([m \in {0} |-> <<>>], codes, 0)
        BY DEF KnownSteps
      <3>2. QED
        BY <2>1, <3>1
    <2>3. n - 1 \in Nat /\ n - 1 \notin without /\ (n - 1) + 1 = n
      BY <2>1, <2>2
    <2>4. PICK steps : KnownSteps(steps, codes, n - 1)
      BY <2>3
    <2>5. \E longer : KnownSteps(longer, codes, (n - 1) + 1)
      BY <2>3, <2>4, OneMoreStep
    <2>6. QED
      BY <2>1, <2>3, <2>5
  <1>2. CASE without = {}
    BY <1>2
  <1>3. QED
    BY <1>1, <1>2

\* There is one such way, and Known is where it ends.
LEMMA KnownIsLast ==
  ASSUME NEW codes, Len(codes) \in Nat, NEW steps, KnownSteps(steps, codes, Len(codes))
  PROVE  Known(codes) = steps[Len(codes)]
  <1> DEFINE length == Len(codes)
             IsKnown(f) == f = [n \in 0..length |->
                                  IF n = 0 THEN <<>>
                                  ELSE IF Enhanced(codes[n]) THEN f[n - 1]
                                  ELSE Append(f[n - 1], Plain(codes[n]))]
             known == CHOOSE f : IsKnown(f)
             cut == [n \in 0..length |-> steps[n]]
  <1> HIDE DEF length
  <1>0. length \in Nat
    BY DEF length
  <1>1. IsKnown(cut)
    <2> DEFINE next == [n \in 0..length |->
                          IF n = 0 THEN <<>>
                          ELSE IF Enhanced(codes[n]) THEN cut[n - 1]
                          ELSE Append(cut[n - 1], Plain(codes[n]))]
    <2>1. ASSUME NEW n \in 0..length PROVE cut[n] = next[n]
      <3>1. CASE n = 0
        BY <3>1 DEF KnownSteps
      <3>2. CASE n # 0
        <4>1. n \in 1..length /\ n - 1 \in 0..length
          BY <1>0, <3>2
        <4>2. steps[n] = KnownNext(steps[n - 1], codes[n])
          BY <4>1 DEF KnownSteps, length
        <4>3. cut[n] = steps[n] /\ cut[n - 1] = steps[n - 1]
          BY <4>1
        <4>4. next[n] = KnownNext(cut[n - 1], codes[n])
          BY <3>2 DEF KnownNext
        <4>5. QED
          BY <4>2, <4>3, <4>4
      <3>3. QED
        BY <3>1, <3>2
    <2>2. QED
      BY <2>1
  <1>2. IsKnown(known)
    <2> HIDE DEF IsKnown, cut
    <2>1. QED
      BY <1>1
  <1>3. KnownSteps(known, codes, length)
    <2> HIDE DEF known
    <2>1. known[0] = <<>>
      BY <1>0, <1>2
    <2>2. ASSUME NEW n \in 1..length
          PROVE  known[n] = KnownNext(known[n - 1], codes[n])
      <3>1. n \in 0..length /\ n # 0
        BY <1>0
      <3>2. known[n] = IF n = 0 THEN <<>>
                       ELSE IF Enhanced(codes[n]) THEN known[n - 1]
                       ELSE Append(known[n - 1], Plain(codes[n]))
        BY <1>2, <3>1
      <3>3. QED
        BY <3>1, <3>2 DEF KnownNext
    <2>3. QED
      BY <2>1, <2>2 DEF KnownSteps
  <1>4. ASSUME NEW n \in 0..length PROVE known[n] = steps[n]
    <2> HIDE DEF known
    <2> DEFINE wrong == {m \in 0..length : known[m] # steps[m]}
    <2>1. CASE wrong # {}
      <3>1. PICK m \in wrong : \A k \in wrong : m <= k
        <4>1. wrong \in SUBSET Nat
          BY <1>0
        <4> HIDE DEF wrong
        <4>2. QED
          BY <2>1, <4>1, LeastOfNaturals
      <3>2. m # 0
        BY <1>3, <3>1 DEF KnownSteps
      <3>3. m \in 1..length /\ m - 1 \in 0..length /\ m - 1 \notin wrong
        BY <1>0, <3>1, <3>2
      <3>4. known[m - 1] = steps[m - 1]
        BY <3>3
      <3>5. /\ known[m] = KnownNext(known[m - 1], codes[m])
            /\ steps[m] = KnownNext(steps[m - 1], codes[m])
        BY <1>3, <3>3 DEF KnownSteps, length
      <3>6. QED
        BY <3>1, <3>4, <3>5
    <2>2. CASE wrong = {}
      BY <2>2
    <2>3. QED
      BY <2>1, <2>2
  <1>5. Known(codes) = known[length]
    BY DEF Known, length
  <1>6. QED
    BY <1>0, <1>4, <1>5 DEF length

LEMMA KnownEmpty == Known(<<>>) = <<>>
  <1> DEFINE none == [n \in {0} |-> <<>>]
  <1>1. Len(<<>>) = 0 /\ KnownSteps(none, <<>>, 0)
    BY DEF KnownSteps
  <1>2. Known(<<>>) = none[0]
    <2> HIDE DEF none
    <2>1. QED
      BY <1>1, KnownIsLast
  <1>3. QED
    BY <1>2

LEMMA KnownAppend ==
  ASSUME NEW codes \in Seq(Word), NEW code \in Word
  PROVE  Known(Append(codes, code)) = KnownNext(Known(codes), code)
  <1> DEFINE length == Len(codes)
             more == Append(codes, code)
  <1>1. length \in Nat
    OBVIOUS
  <1>2. /\ Len(more) = length + 1 /\ more[length + 1] = code
        /\ \A n \in 1..length : more[n] = codes[n]
    BY AppendProperties
  <1>3. PICK steps : KnownSteps(steps, codes, length)
    BY <1>1, StepsExist
  <1>4. Known(codes) = steps[length]
    BY <1>1, <1>3, KnownIsLast
  <1> HIDE DEF length, more
  <1>5. KnownSteps(steps, more, length)
    BY <1>2, <1>3 DEF KnownSteps
  <1> DEFINE longer == [n \in 0..(length + 1) |->
                          IF n = length + 1 THEN KnownNext(steps[length], more[length + 1])
                          ELSE steps[n]]
  <1>6. KnownSteps(longer, more, length + 1)
    BY <1>1, <1>5, OneMoreStep
  <1>7. longer[length + 1] = KnownNext(steps[length], code)
    BY <1>1, <1>2
  <1> HIDE DEF longer
  <1>8. Len(more) \in Nat /\ KnownSteps(longer, more, Len(more))
    BY <1>1, <1>2, <1>6
  <1>9. Known(more) = longer[length + 1]
    BY <1>2, <1>8, KnownIsLast
  <1>10. QED
    BY <1>4, <1>7, <1>9 DEF more

LEMMA ConcatAppend ==
  ASSUME NEW s \in Seq(Word), NEW t \in Seq(Word), NEW code \in Word
  PROVE  s \o t \in Seq(Word) /\ s \o Append(t, code) = Append(s \o t, code)
  <1>1. <<code>> \in Seq(Word) /\ s \o t \in Seq(Word)
    BY ConcatProperties
  <1>2. Append(t, code) = t \o <<code>> /\ Append(s \o t, code) = (s \o t) \o <<code>>
    BY <1>1, AppendIsConcat
  <1>3. (s \o t) \o <<code>> = s \o (t \o <<code>>)
    BY <1>1, ConcatAssociative
  <1>4. QED
    BY <1>1, <1>2, <1>3

\* What holds of no keystroke, and of one more when it holds of some, holds of
\* any number of them.
LEMMA KnownConcat ==
  ASSUME NEW codes \in Seq(Word), NEW more \in Seq(Word)
  PROVE  Known(more) \in Seq(Word) /\ Known(codes \o more) = Known(codes) \o Known(more)
  <1> DEFINE Splits(s) == /\ Known(s) \in Seq(Word)
                          /\ \A c \in Seq(Word) :
                               Known(c) \in Seq(Word) => Known(c \o s) = Known(c) \o Known(s)
             wrong == {n \in Nat : \E s \in Seq(Word) : Len(s) = n /\ ~Splits(s)}
  <1>1. Splits(<<>>)
    <2>1. ASSUME NEW c \in Seq(Word), Known(c) \in Seq(Word)
          PROVE  Known(c \o <<>>) = Known(c) \o <<>>
      BY <2>1, ConcatEmptySeq
    <2>2. Known(<<>>) = <<>> /\ <<>> \in Seq(Word)
      BY KnownEmpty, EmptySeq
    <2>3. QED
      BY <2>1, <2>2, Zenon
  <1>2. ASSUME NEW s \in Seq(Word), NEW code \in Word, Splits(s)
        PROVE  Splits(Append(s, code))
    <2>1. Plain(code) \in Word
      BY CodeIs
    <2>2. Known(Append(s, code)) = KnownNext(Known(s), code)
      BY KnownAppend
    <2>3. Known(s) \in Seq(Word)
      BY <1>2
    <2>4. Known(Append(s, code)) \in Seq(Word)
      BY <2>1, <2>2, <2>3, AppendProperties DEF KnownNext
    <2>5. ASSUME NEW c \in Seq(Word), Known(c) \in Seq(Word)
          PROVE  Known(c \o Append(s, code)) = Known(c) \o Known(Append(s, code))
      <3>1. c \o Append(s, code) = Append(c \o s, code) /\ c \o s \in Seq(Word)
        BY ConcatAppend
      <3>2. Known(c \o Append(s, code)) = KnownNext(Known(c) \o Known(s), code)
        <4>1. Known(c \o s) = Known(c) \o Known(s)
          BY <1>2, <2>5
        <4>2. QED
          BY <3>1, <4>1, KnownAppend
      <3>3. KnownNext(Known(c) \o Known(s), code) = Known(c) \o KnownNext(Known(s), code)
        <4>1. \A w1, w2 \in Seq(Word) :
                w1 \o Append(w2, Plain(code)) = Append(w1 \o w2, Plain(code))
          BY <2>1, ConcatAppend
        <4>2. Known(c) \o Append(Known(s), Plain(code)) = Append(Known(c) \o Known(s), Plain(code))
          BY <2>3, <2>5, <4>1, Zenon
        <4>3. QED
          BY <4>2 DEF KnownNext
      <3>4. QED
        BY <2>2, <3>2, <3>3
    <2>6. QED
      BY <2>4, <2>5
  <1> HIDE DEF Splits
  <1>3. CASE wrong # {}
    <2>1. PICK n \in wrong : \A m \in wrong : n <= m
      <3>1. wrong \in SUBSET Nat
        OBVIOUS
      <3> HIDE DEF wrong
      <3>2. QED
        BY <1>3, <3>1, LeastOfNaturals
    <2>2. PICK s \in Seq(Word) : Len(s) = n /\ ~Splits(s)
      BY <2>1
    <2>3. s # <<>>
      BY <1>1, <2>2
    <2>4. PICK front \in Seq(Word), code \in Word : s = Append(front, code)
      BY <2>3, SequenceEmptyOrAppend
    <2>5. Len(front) \in Nat /\ Len(front) < n
      BY <2>2, <2>4, AppendProperties
    <2>6. Splits(front)
      BY <2>1, <2>5
    <2>7. QED
      BY <1>2, <2>2, <2>4, <2>6
  <1>4. CASE wrong = {}
    <2>1. Len(codes) \in Nat /\ Len(more) \in Nat
      OBVIOUS
    <2>2. Splits(codes) /\ Splits(more)
      BY <1>4, <2>1
    <2>3. QED
      BY <2>2 DEF Splits
  <1>5. QED
    BY <1>3, <1>4

\* Nothing is known of enhanced keystrokes.
LEMMA NoneKnown ==
  ASSUME NEW codes \in Seq(Word), \A n \in 1..Len(codes) : Enhanced(codes[n])
  PROVE  Known(codes) = <<>>
  <1> DEFINE length == Len(codes)
             none == [n \in 0..length |-> <<>>]
  <1>1. length \in Nat
    OBVIOUS
  <1>2. KnownSteps(none, codes, length)
    <2> HIDE DEF length
    <2>1. none[0] = <<>>
      BY <1>1
    <2>2. ASSUME NEW n \in 1..length PROVE none[n] = KnownNext(none[n - 1], codes[n])
      <3>1. n \in 0..length /\ n - 1 \in 0..length
        BY <1>1
      <3>2. Enhanced(codes[n])
        BY DEF length
      <3>3. QED
        BY <3>1, <3>2 DEF KnownNext
    <2> HIDE DEF none
    <2>3. QED
      BY <2>1, <2>2 DEF KnownSteps
  <1>3. Known(codes) = none[length]
    <2> HIDE DEF none
    <2>1. QED
      BY <1>1, <1>2, KnownIsLast
  <1>4. QED
    BY <1>1, <1>3

LEMMA KnownOne ==
  ASSUME NEW code \in Word
  PROVE  Known(<<code>>) = IF Enhanced(code) THEN <<>> ELSE <<Plain(code)>>
  <1>1. <<code>> = Append(<<>>, code) /\ <<>> \in Seq(Word)
    OBVIOUS
  <1>2. Known(<<code>>) = KnownNext(<<>>, code)
    BY <1>1, KnownAppend, KnownEmpty
  <1>3. Append(<<>>, Plain(code)) = <<Plain(code)>>
    OBVIOUS
  <1>4. QED
    BY <1>2, <1>3 DEF KnownNext

-----------------------------------------------------------------------------
(* The keystrokes that go into the ring and out of it.                     *)

LEMMA SameSequence ==
  ASSUME NEW s \in Seq(Word), NEW t \in Seq(Word), Len(s) = Len(t),
         \A n \in 1..Len(s) : s[n] = t[n]
  PROVE  s = t
  BY SMT

LEMMA ContentsType ==
  ASSUME NEW places \in [Places -> Word], NEW from \in Places, NEW to \in Places
  PROVE  ContentsAt(places, from, to) \in Seq(Word)
  <1> DEFINE m == Distance(from, to)
             contents == ContentsAt(places, from, to)
  <1>1. m \in Nat /\ Len(contents) = m
    BY DistanceIs, ContentsLength, BiosKeyboardAssumption
  <1>2. ASSUME NEW n \in 1..m PROVE places[(from + n - 1) % Slots] \in Word
    <2> DEFINE k == n - 1
    <2>1. k \in 0..m /\ from + n - 1 = from + k
      BY <1>1 DEF Places
    <2>2. (from + k) % Slots \in Places
      BY <2>1, PlacesOn
    <2> HIDE DEF k
    <2>3. QED
      BY <2>1, <2>2
  <1>3. contents = [n \in 1..m |-> places[(from + n - 1) % Slots]]
    BY DistanceIs DEF ContentsAt
  <1> HIDE DEF m, contents
  <1>4. QED
    BY <1>1, <1>2, <1>3 DEF contents

\* A keystroke that is added is behind all the others.
LEMMA RingLonger ==
  ASSUME NEW places \in [Places -> Word], NEW from \in Places, NEW to \in Places,
         NEW code \in Word, Following(to) # from
  PROVE  ContentsAt([places EXCEPT ![to] = code], from, Following(to))
           = Append(ContentsAt(places, from, to), code)
  <1> DEFINE next == Following(to)
             longer == [places EXCEPT ![to] = code]
             m == Distance(from, to)
             before == ContentsAt(places, from, to)
             after == ContentsAt(longer, from, next)
  <1>1. next \in Places /\ longer \in [Places -> Word]
    BY FollowingPlace
  <1>2. Distance(from, next) = m + 1 /\ m \in Nat
    <2>1. Slots \in Nat /\ from \in Nat /\ to \in Nat /\ from < Slots /\ to < Slots
      BY BiosKeyboardAssumption DEF Places
    <2>2. QED
      BY <2>1 DEF Distance, Following
  <1>3. /\ before \in Seq(Word) /\ Len(before) = m
        /\ after \in Seq(Word) /\ Len(after) = m + 1
    <2> HIDE DEF next, longer
    <2>1. QED
      BY <1>1, <1>2, ContentsType, ContentsLength
  <1>4. ASSUME NEW n \in 0..m
        PROVE  after[n + 1] = IF n = m THEN code ELSE before[n + 1]
    <2>1. n \in 0..(Distance(from, next) - 1)
      BY <1>2
    <2>2. after[n + 1] = longer[(from + n) % Slots]
      <3> HIDE DEF next, longer
      <3>1. QED
        BY <1>1, <2>1, ContentsPlace
    <2>3. /\ (from + n) % Slots \in Places
          /\ (from + n) % Slots = to <=> n = m
      BY PlacesOn
    <2>4. n # m => before[n + 1] = places[(from + n) % Slots]
      <3>1. n # m => n \in 0..(m - 1)
        BY <1>2
      <3>2. QED
        BY <3>1, ContentsPlace
    <2> HIDE DEF before, after, m, next
    <2>5. QED
      BY <2>2, <2>3, <2>4
  <1> HIDE DEF before, after, m, next, longer
  <1>5. /\ Append(before, code) \in Seq(Word) /\ Len(Append(before, code)) = m + 1
        /\ Append(before, code)[m + 1] = code
        /\ \A n \in 1..m : Append(before, code)[n] = before[n]
    BY <1>3, AppendProperties
  <1>6. ASSUME NEW n \in 1..(m + 1) PROVE after[n] = Append(before, code)[n]
    <2> DEFINE k == n - 1
    <2>1. k \in 0..m /\ n = k + 1
      BY <1>2
    <2> HIDE DEF k
    <2>2. after[n] = IF k = m THEN code ELSE before[n]
      BY <1>4, <2>1
    <2>3. CASE k = m
      BY <1>5, <2>1, <2>2, <2>3
    <2>4. CASE k # m
      <3>1. n \in 1..m
        BY <1>2, <2>1, <2>4
      <3>2. QED
        BY <1>5, <2>2, <2>4, <3>1
    <2>5. QED
      BY <2>3, <2>4
  <1>7. after = Append(before, code)
    BY <1>3, <1>5, <1>6, SameSequence
  <1>8. QED
    BY <1>7 DEF before, after, next, longer

\* The keystrokes at the front are those that are gone when the head moves on.
LEMMA RingShorter ==
  ASSUME NEW places \in [Places -> Word], NEW from \in Places, NEW to \in Places,
         NEW n \in 0..Distance(from, to)
  PROVE  /\ (from + n) % Slots \in Places
         /\ SubSeq(ContentsAt(places, from, to), 1, n) \in Seq(Word)
         /\ Len(SubSeq(ContentsAt(places, from, to), 1, n)) = n
         /\ \A i \in 1..n : SubSeq(ContentsAt(places, from, to), 1, n)[i]
                              = ContentsAt(places, from, to)[i]
         /\ ContentsAt(places, from, to)
              = SubSeq(ContentsAt(places, from, to), 1, n)
                  \o ContentsAt(places, (from + n) % Slots, to)
  <1> DEFINE next == (from + n) % Slots
             m == Distance(from, to)
             before == ContentsAt(places, from, to)
             after == ContentsAt(places, next, to)
             gone == SubSeq(before, 1, n)
             both == gone \o after
  <1>1. /\ Slots \in Nat \ {0} /\ from \in Nat /\ to \in Nat /\ from < Slots /\ to < Slots
        /\ m \in Nat /\ m < Slots /\ n \in Nat /\ n <= m
    <2>1. m \in 0..(Slots - 1)
      BY DistanceIs
    <2>2. QED
      BY <2>1, BiosKeyboardAssumption DEF Places
  <1>2. /\ next = IF from + n < Slots THEN from + n ELSE from + n - Slots
        /\ next \in Places
    BY PlacesOn
  <1>3. next \in Nat /\ next < Slots
    BY <1>2, BiosKeyboardAssumption DEF Places
  <1> HIDE DEF next
  <1>4. Distance(next, to) = m - n
    <2>1. m = IF from <= to THEN to - from ELSE to - from + Slots
      BY DEF m, Distance
    <2>2. Distance(next, to) = IF next <= to THEN to - next ELSE to - next + Slots
      BY DEF Distance
    <2> HIDE DEF m
    <2>3. QED
      BY <1>1, <1>2, <1>3, <2>1, <2>2
  <1>5. /\ before \in Seq(Word) /\ Len(before) = m
        /\ after \in Seq(Word) /\ Len(after) = m - n
    BY <1>2, <1>4, ContentsType, ContentsLength
  <1>6. ASSUME NEW i \in 0..(m - n - 1) PROVE after[i + 1] = before[n + i + 1]
    <2> DEFINE k == n + i
    <2>1. k \in 0..(m - 1) /\ k \in 0..m /\ i \in 0..(m - n)
      BY <1>1
    <2>2. after[i + 1] = places[(next + i) % Slots]
      BY <1>2, <1>4, ContentsPlace
    <2>3. before[k + 1] = places[(from + k) % Slots]
      BY <2>1, ContentsPlace
    <2>4. (next + i) % Slots = IF next + i < Slots THEN next + i ELSE next + i - Slots
      BY <1>2, <1>4, <2>1, PlacesOn
    <2>5. (from + k) % Slots = IF from + k < Slots THEN from + k ELSE from + k - Slots
      BY <2>1, PlacesOn
    <2>6. (next + i) % Slots = (from + k) % Slots
      BY <1>1, <1>2, <1>3, <2>1, <2>4, <2>5
    <2> HIDE DEF before, after
    <2>7. QED
      BY <2>2, <2>3, <2>6
  <1> HIDE DEF before, after, m
  <1>7. \A i \in 1..n : before[i] \in Word
    BY <1>1, <1>5, ElementOfSeq
  <1>8. /\ gone \in Seq(Word) /\ Len(gone) = n
        /\ \A i \in 1..n : gone[i] = before[i]
    <2>1. gone \in Seq(Word) /\ Len(gone) = IF 1 <= n THEN n - 1 + 1 ELSE 0
      BY <1>1, <1>7, SubSeqProperties
    <2>2. \A i \in 1..(n - 1 + 1) : gone[i] = before[1 + i - 1]
      BY <1>1, <1>7, SubSeqProperties
    <2> HIDE DEF gone
    <2>3. QED
      BY <1>1, <2>1, <2>2
  <1> HIDE DEF gone
  <1>9. /\ both \in Seq(Word) /\ Len(both) = m
        /\ \A i \in 1..m : both[i] = IF i <= n THEN gone[i] ELSE after[i - n]
    <2>1. /\ both \in Seq(Word) /\ Len(both) = n + (m - n)
          /\ \A i \in 1..(n + (m - n)) : both[i] = IF i <= n THEN gone[i] ELSE after[i - n]
      <3>1. /\ both \in Seq(Word) /\ Len(both) = Len(gone) + Len(after)
            /\ \A i \in 1..(Len(gone) + Len(after)) :
                 both[i] = IF i <= Len(gone) THEN gone[i] ELSE after[i - Len(gone)]
        BY <1>5, <1>8, ConcatProperties, Zenon
      <3>2. Len(gone) = n /\ Len(after) = m - n
        BY <1>5, <1>8
      <3> HIDE DEF both
      <3>3. QED
        BY <3>1, <3>2, Zenon
    <2> HIDE DEF both
    <2>2. n + (m - n) = m
      BY <1>1
    <2>3. QED
      BY <2>1, <2>2
  <1> HIDE DEF both
  <1>10. ASSUME NEW i \in 1..m PROVE before[i] = both[i]
    <2>1. CASE i <= n
      BY <1>1, <1>8, <1>9, <2>1
    <2>2. CASE ~(i <= n)
      <3> DEFINE k == i - n - 1
      <3>1. k \in 0..(m - n - 1) /\ k + 1 = i - n /\ n + k + 1 = i
        BY <1>1, <2>2
      <3> HIDE DEF k
      <3>2. after[i - n] = before[i]
        BY <1>6, <3>1
      <3>3. QED
        BY <1>9, <2>2, <3>2
    <2>3. QED
      BY <2>1, <2>2
  <1>11. before = both
    BY <1>5, <1>9, <1>10, SameSequence
  <1>12. QED
    BY <1>2, <1>8, <1>11 DEF both, gone, before, after, next

-----------------------------------------------------------------------------
(* What function 0 returned and what is in the ring is what the ring took. *)

HistoryInv ==
  /\ accepted \in Seq(Word)
  /\ given \in Seq(Word)
  /\ ReturnedInOrder

LEMMA ContentsAre ==
  ASSUME TypeOK
  PROVE  /\ head \in Places /\ tail \in Places /\ buffer \in [Places -> Word]
         /\ Contents = ContentsAt(buffer, head, tail)
         /\ Contents \in Seq(Word)
         /\ Len(Contents) = Distance(head, tail)
  <1>1. head \in Places /\ tail \in Places /\ buffer \in [Places -> Word]
    BY DEF TypeOK, Places
  <1>2. Contents = ContentsAt(buffer, head, tail)
    BY DEF Contents, ContentsAt
  <1>3. ContentsAt(buffer, head, tail) \in Seq(Word)
    BY <1>1, ContentsType
  <1>4. Len(ContentsAt(buffer, head, tail)) = Distance(head, tail)
    BY <1>1, ContentsLength
  <1>5. QED
    BY <1>1, <1>2, <1>3, <1>4

LEMMA NothingMoves ==
  ASSUME HistoryInv, UNCHANGED <<ring_vars, accepted, given>>
  PROVE  HistoryInv'
  <1>1. Contents' = Contents
    BY DEF Contents, ring_vars
  <1>2. QED
    BY <1>1 DEF HistoryInv, ReturnedInOrder

\* A keystroke that is added is the last one taken and the last one in the ring.
LEMMA AddedInOrder ==
  ASSUME TypeOK, HistoryInv, UNCHANGED given,
         NoKey \/ \E code \in Word : AddKey(code)
  PROVE  HistoryInv'
  <1>1. CASE UNCHANGED <<ring_vars, accepted>>
    BY <1>1, NothingMoves DEF ring_vars
  <1>2. ASSUME NEW code \in Word, Following(tail) # head,
               buffer' = [buffer EXCEPT ![tail] = code], tail' = Following(tail),
               head' = head, accepted' = Append(accepted, code)
        PROVE  HistoryInv'
    <2>1. /\ head \in Places /\ tail \in Places /\ buffer \in [Places -> Word]
          /\ Contents = ContentsAt(buffer, head, tail) /\ Contents \in Seq(Word)
      BY ContentsAre
    <2>2. Contents' = Append(Contents, code)
      <3>1. Contents' = ContentsAt(buffer', head', tail')
        BY DEF Contents, ContentsAt
      <3>2. ContentsAt([buffer EXCEPT ![tail] = code], head, Following(tail))
              = Append(ContentsAt(buffer, head, tail), code)
        BY <1>2, <2>1, RingLonger
      <3>3. QED
        BY <1>2, <2>1, <3>1, <3>2
    <2>3. /\ Known(Contents') = KnownNext(Known(Contents), code)
          /\ Known(accepted') = KnownNext(Known(accepted), code)
      BY <1>2, <2>1, <2>2, KnownAppend DEF HistoryInv
    <2>4. Known(Contents) \in Seq(Word) /\ Plain(code) \in Word
      BY <2>1, KnownConcat, CodeIs
    <2>5. given \o KnownNext(Known(Contents), code) = KnownNext(given \o Known(Contents), code)
      <3>1. given \o Append(Known(Contents), Plain(code))
              = Append(given \o Known(Contents), Plain(code))
        BY <2>4, ConcatAppend DEF HistoryInv
      <3>2. QED
        BY <3>1 DEF KnownNext
    <2>6. accepted' \in Seq(Word)
      BY <1>2 DEF HistoryInv
    <2>7. QED
      BY <2>3, <2>5, <2>6 DEF HistoryInv, ReturnedInOrder
  <1>3. QED
    BY <1>1, <1>2 DEF AddKey, NoKey

\* What is left when the head moves on over n keystrokes.
LEMMA HeadMoves ==
  ASSUME TypeOK, HistoryInv, NEW n \in 0..Len(Contents)
  PROVE  LET left == ContentsAt(buffer, (head + n) % Slots, tail)
             gone == SubSeq(Contents, 1, n)
         IN /\ left \in Seq(Word) /\ gone \in Seq(Word) /\ Len(gone) = n
            /\ \A i \in 1..n : gone[i] = Contents[i]
            /\ Known(left) \in Seq(Word) /\ Known(gone) \in Seq(Word)
            /\ given \o (Known(gone) \o Known(left)) = Known(accepted)
  <1> DEFINE left == ContentsAt(buffer, (head + n) % Slots, tail)
             gone == SubSeq(Contents, 1, n)
  <1>1. /\ head \in Places /\ tail \in Places /\ buffer \in [Places -> Word]
        /\ Contents = ContentsAt(buffer, head, tail) /\ Len(Contents) = Distance(head, tail)
    BY ContentsAre
  <1>2. n \in 0..Distance(head, tail)
    BY <1>1
  <1>3. /\ (head + n) % Slots \in Places
        /\ gone \in Seq(Word) /\ Len(gone) = n
        /\ \A i \in 1..n : gone[i] = Contents[i]
        /\ Contents = gone \o left
    BY <1>1, <1>2, RingShorter
  <1>4. left \in Seq(Word)
    BY <1>1, <1>3, ContentsType
  <1> HIDE DEF left, gone
  <1>5. /\ Known(left) \in Seq(Word) /\ Known(gone) \in Seq(Word)
        /\ Known(gone \o left) = Known(gone) \o Known(left)
    BY <1>3, <1>4, KnownConcat
  <1>6. given \o (Known(gone) \o Known(left)) = Known(accepted)
    BY <1>3, <1>5 DEF HistoryInv, ReturnedInOrder
  <1>7. QED
    BY <1>3, <1>4, <1>5, <1>6 DEF left, gone

\* Function 0 returns the first keystroke, unless it is an enhanced one.
LEMMA GetInOrder ==
  ASSUME TypeOK, HistoryInv, GetKeystroke
  PROVE  HistoryInv'
  <1>1. CASE head = tail
    BY <1>1, NothingMoves DEF GetKeystroke, ring_vars
  <1>2. CASE head # tail
    <2> DEFINE next == (head + 1) % Slots
               left == ContentsAt(buffer, next, tail)
               gone == SubSeq(Contents, 1, 1)
               code == buffer[head]
    <2>1. /\ head \in Places /\ tail \in Places /\ buffer \in [Places -> Word]
          /\ Len(Contents) = Distance(head, tail)
      BY ContentsAre
    <2>2. /\ Distance(head, tail) \in Nat /\ 1 <= Distance(head, tail)
          /\ 1 \in 0..Len(Contents)
      <3>1. Distance(head, tail) \in Nat /\ Distance(head, tail) # 0
        BY <1>2, <2>1, DistanceIs, BiosKeyboardAssumption
      <3>2. QED
        BY <2>1, <3>1
    <2>3. Following(head) = next
      <3>1. next = IF head + 1 < Slots THEN head + 1 ELSE head + 1 - Slots
        BY <2>1, <2>2, PlacesOn
      <3>2. Slots \in Nat /\ head \in Nat /\ head < Slots
        BY <2>1, BiosKeyboardAssumption DEF Places
      <3> HIDE DEF next
      <3>3. QED
        BY <3>1, <3>2 DEF Following
    <2>4. /\ left \in Seq(Word) /\ gone \in Seq(Word) /\ Len(gone) = 1
          /\ \A i \in 1..1 : gone[i] = Contents[i]
          /\ Known(left) \in Seq(Word) /\ Known(gone) \in Seq(Word)
          /\ given \o (Known(gone) \o Known(left)) = Known(accepted)
      <3> HIDE DEF next
      <3>1. QED
        BY <2>2, HeadMoves DEF next
    <2>5. Contents[1] = code /\ code \in Word
      <3>1. 0 \in 0..(Distance(head, tail) - 1) /\ (head + 0) % Slots = head
        BY <2>1, <2>2, PlaceModulo DEF Places
      <3>2. Contents[0 + 1] = buffer[(head + 0) % Slots]
        BY <2>1, <3>1, ContentsOf
      <3>3. QED
        BY <2>1, <3>1, <3>2
    <2>6. /\ Contents' = left
          /\ buffer' = buffer /\ tail' = tail /\ accepted' = accepted
          /\ given' = IF Enhanced(code) THEN given ELSE Append(given, Plain(code))
      <3>1. Contents' = ContentsAt(buffer', head', tail')
        BY DEF Contents, ContentsAt
      <3>2. /\ head' = next /\ buffer' = buffer /\ tail' = tail /\ accepted' = accepted
            /\ given' = IF Enhanced(code) THEN given ELSE Append(given, Plain(code))
        BY <1>2, <2>3 DEF GetKeystroke
      <3> HIDE DEF next
      <3>3. QED
        BY <3>1, <3>2
    <2> HIDE DEF left, gone, code, next
    <2>7. gone = <<code>>
      BY <2>4, <2>5
    <2>8. Known(gone) = IF Enhanced(code) THEN <<>> ELSE <<Plain(code)>>
      BY <2>5, <2>7, KnownOne
    <2>9. given' = given \o Known(gone) /\ given' \in Seq(Word)
      <3>1. Plain(code) \in Word /\ given \in Seq(Word)
        BY <2>5, CodeIs DEF HistoryInv
      <3>2. given \o <<>> = given /\ Append(given, Plain(code)) = given \o <<Plain(code)>>
        BY <3>1, ConcatEmptySeq, AppendIsConcat
      <3>3. QED
        BY <2>6, <2>8, <3>1, <3>2
    <2>10. given' \o Known(left) = given \o (Known(gone) \o Known(left))
      <3>1. \A s, t, u \in Seq(Word) : (s \o t) \o u = s \o (t \o u)
        BY ConcatAssociative
      <3>2. given \in Seq(Word)
        BY DEF HistoryInv
      <3>3. (given \o Known(gone)) \o Known(left) = given \o (Known(gone) \o Known(left))
        BY <2>4, <3>1, <3>2, Zenon
      <3>4. QED
        BY <2>9, <3>3
    <2>11. QED
      BY <2>4, <2>6, <2>9, <2>10 DEF HistoryInv, ReturnedInOrder
  <1>3. QED
    BY <1>1, <1>2

\* Function 1 throws enhanced keystrokes away only.
LEMMA CheckInOrder ==
  ASSUME TypeOK, HistoryInv, CheckKeystroke
  PROVE  HistoryInv'
  <1>1. PICK n \in 0..Len(Contents) :
          /\ \A i \in 1..n : Enhanced(Contents[i])
          /\ head' = (head + n) % Slots
    BY DEF CheckKeystroke
  <1> DEFINE left == ContentsAt(buffer, (head + n) % Slots, tail)
             gone == SubSeq(Contents, 1, n)
  <1>2. /\ left \in Seq(Word) /\ gone \in Seq(Word) /\ Len(gone) = n
        /\ \A i \in 1..n : gone[i] = Contents[i]
        /\ Known(left) \in Seq(Word)
        /\ given \o (Known(gone) \o Known(left)) = Known(accepted)
    BY HeadMoves
  <1>3. Contents' = left /\ UNCHANGED <<accepted, given>>
    <2>1. Contents' = ContentsAt(buffer', head', tail')
      BY DEF Contents, ContentsAt
    <2>2. QED
      BY <1>1, <2>1 DEF CheckKeystroke
  <1> HIDE DEF left, gone
  <1>4. Known(gone) = <<>>
    BY <1>1, <1>2, NoneKnown
  <1>5. Known(gone) \o Known(left) = Known(left)
    BY <1>2, <1>4, ConcatEmptySeq
  <1>6. QED
    BY <1>2, <1>3, <1>5 DEF HistoryInv, ReturnedInOrder

LEMMA InitHistoryInv == Init => HistoryInv
  <1> SUFFICES ASSUME Init PROVE HistoryInv
    OBVIOUS
  <1>1. /\ accepted = <<>> /\ given = <<>> /\ head = 0 /\ tail = 0
    BY DEF Init
  <1>2. Contents = <<>>
    <2>1. head \in Places /\ tail \in Places /\ Contents = ContentsAt(buffer, head, tail)
      BY <1>1, BiosKeyboardAssumption DEF Places, Contents, ContentsAt
    <2>2. (tail - head) % Slots = 0
      BY <1>1, <2>1, DistanceIs
    <2>3. QED
      BY <2>2 DEF Contents
  <1>3. QED
    BY <1>1, <1>2, KnownEmpty DEF HistoryInv, ReturnedInOrder

LEMMA NextHistoryInv == TypedKeysInv /\ HistoryInv /\ [Next]_vars => HistoryInv'
  <1> SUFFICES ASSUME TypedKeysInv, HistoryInv, [Next]_vars PROVE HistoryInv'
    OBVIOUS
  <1>1. TypeOK
    BY DEF TypedKeysInv
  <1>2. CASE UNCHANGED <<ring_vars, accepted, given>>
    BY <1>2, NothingMoves
  <1>3. CASE UNCHANGED vars
    BY <1>2, <1>3 DEF vars, guest_vars
  <1>4. ASSUME NEW key \in Keys, NEW pressed \in BOOLEAN, TypeKey(key, pressed)
        PROVE  HistoryInv'
    BY <1>2, <1>4 DEF TypeKey, guest_vars
  <1>5. CASE Int9
    <2>1. UNCHANGED given
      BY <1>5 DEF Int9, guest_vars
    <2>2. NoKey \/ \E code \in Word : AddKey(code)
      BY <1>5, Int9Types
    <2>3. QED
      BY <1>1, <2>1, <2>2, AddedInOrder
  <1>6. QED
    BY <1>1, <1>3, <1>4, <1>5, GetInOrder, CheckInOrder DEF Next

\* The keystrokes that the ring took are those that function 0 returned and
\* those still in the ring, in order and but for the enhanced ones, for any size
\* of the ring, any keys and any calls of int 16h.
THEOREM BiosReturnedInOrder == Spec => []ReturnedInOrder
  <1>1. Spec => [](TypedKeysInv /\ HistoryInv)
    BY InitTypedKeysInv, NextTypedKeysInv, InitHistoryInv, NextHistoryInv, PTL DEF Spec
  <1>2. QED
    BY <1>1, PTL DEF HistoryInv

-----------------------------------------------------------------------------
(* DOS: the shapes that the chain of control blocks has.  DOS's own blocks *)
(* stay, and the room behind them is the program's, or begins with the     *)
(* program's block.                                                        *)

\* The first control block behind DOS's own: the program's.
Program == MemStart + 24
Room == MemEnd - Program
Owners == {Program, Program + 1}

InternalBlocks(chain) ==
  /\ chain[MemStart] = Cont(DOS, 1)
  /\ chain[MemStart + 2] = Cont(DOS, 4)
  /\ chain[MemStart + 7] = Cont(64, 16)

InternalPlaces == {MemStart, MemStart + 2, MemStart + 7}

\* The program has all of the room.
Whole(chain, owner) ==
  /\ DOMAIN chain = InternalPlaces \cup {Program}
  /\ InternalBlocks(chain)
  /\ chain[Program] = Block("END", owner, Room)

\* The program has `size` paragraphs, and the rest is free.
Halves(chain, owner, size) ==
  /\ DOMAIN chain = InternalPlaces \cup {Program, Program + 1 + size}
  /\ InternalBlocks(chain)
  /\ chain[Program] = Cont(owner, size)
  /\ chain[Program + 1 + size] = Block("END", FREE, Remainder(Room, size))

\* The program has given back `rest` paragraphs and those behind them.
Thirds(chain, owner, size, rest) ==
  /\ DOMAIN chain =
       InternalPlaces \cup {Program, Program + 1 + size, Program + 2 + size + rest}
  /\ InternalBlocks(chain)
  /\ chain[Program] = Cont(owner, size)
  /\ chain[Program + 1 + size] = Cont(FREE, rest)
  /\ chain[Program + 2 + size + rest] = Block("END", FREE, Remainder(Room, size + 1 + rest))

Tidy(chain, owner) ==
  \/ Whole(chain, owner)
  \/ \E size \in 0 .. Room : Halves(chain, owner, size)

Split(chain, owner) ==
  \E size, rest \in 0 .. Room : size + 1 + rest <= Room /\ Thirds(chain, owner, size, rest)

Shape(chain, owner) == Tidy(chain, owner) \/ Split(chain, owner)

DosInv ==
  /\ file \in Files
  /\ answer.bx \in 0 .. Words - 1
  /\ \/ phase \in {"loading", "stopped"} /\ mcb = InitialChain /\ current_psp = 0
     \/ phase = "stopped" /\ Tidy(mcb, Program) /\ current_psp = 0
     \/ /\ phase \in {"running", "overrun", "stopped"}
        /\ current_psp = Program + 1
        /\ \E owner \in Owners : Shape(mcb, owner)
  /\ ImageInItsBlock

-----------------------------------------------------------------------------
LEMMA Constants ==
  /\ Words \in Nat /\ MemStart \in Nat /\ MemEnd \in Nat
  /\ MemStart + 24 < MemEnd /\ MemEnd < Words - 1
  /\ Program \in Nat /\ Room \in Nat /\ 0 < Room
  /\ Program + Room = MemEnd /\ Program = MemStart + 24
  BY DosAssumption DEF Program, Room

\* A word that has gone past its end once, in either direction.
LEMMA WrappedIs ==
  ASSUME NEW x \in Int, -Words <= x, x < 2 * Words
  PROVE  Wrapped(x) = IF x < 0 THEN x + Words ELSE IF x < Words THEN x ELSE x - Words
  <1>1. \A w \in Nat \ {0}, y \in Int :
          -w <= y /\ y < 2 * w =>
            y % w = IF y < 0 THEN y + w ELSE IF y < w THEN y ELSE y - w
    <2> SUFFICES ASSUME NEW w \in Nat \ {0}, NEW y \in Int, -w <= y, y < 2 * w
                 PROVE  y % w = IF y < 0 THEN y + w ELSE IF y < w THEN y ELSE y - w
      OBVIOUS
    <2>1. CASE y < 0
      BY <2>1, SMTT(60)
    <2>2. CASE 0 <= y /\ y < w
      BY <2>2, SMTT(60)
    <2>3. CASE w <= y
      BY <2>3, SMTT(60)
    <2>4. QED
      BY <2>1, <2>2, <2>3
  <1>2. Words \in Nat \ {0}
    BY Constants
  <1>3. QED
    BY <1>1, <1>2 DEF Wrapped

\* What is left of the room: the word before zero when nothing is.
LEMMA RemainderIs ==
  ASSUME NEW total \in 0 .. Room, NEW size \in 0 .. total
  PROVE  Remainder(total, size) = IF size = total THEN Words - 1 ELSE total - 1 - size
  <1>1. total - 1 - size \in Int /\ -Words <= total - 1 - size /\ total - 1 - size < Words
    BY Constants
  <1>2. QED
    BY <1>1, WrappedIs, Constants DEF Remainder

IsWalk(walk, last) == walk = [n \in 0 .. last |-> walk[n]]

\* Two walks that start alike and step alike are the same.
LEMMA SameWalk ==
  ASSUME NEW last \in Nat, NEW one, NEW other,
         IsWalk(one, last), IsWalk(other, last),
         one[0] = other[0],
         \A n \in 1 .. last : one[n - 1] = other[n - 1] => one[n] = other[n]
  PROVE  one = other
  <1> DEFINE wrong == {n \in 0 .. last : one[n] # other[n]}
  <1>1. CASE wrong # {}
    <2>1. PICK n \in wrong : \A m \in wrong : n <= m
      <3>1. wrong \in SUBSET Nat
        OBVIOUS
      <3> HIDE DEF wrong
      <3>2. QED
        BY <1>1, <3>1, LeastOfNaturals
    <2>2. n \in 0 .. last /\ one[n] # other[n]
      BY <2>1
    <2>3. n \in 1 .. last
      BY <2>2
    <2>4. n - 1 \in 0 .. last /\ n - 1 \notin wrong
      BY <2>1, <2>3
    <2>5. QED
      BY <2>2, <2>3, <2>4
  <1>2. CASE wrong = {}
    BY <1>2 DEF IsWalk
  <1>3. QED
    BY <1>1, <1>2

LEMMA CompactWalk ==
  ASSUME NEW chain, NEW last \in Nat, Rounds(chain) = last,
         NEW walk, IsWalk(walk, last),
         walk[0] = [chain |-> chain, at |-> MemStart],
         \A n \in 1 .. last : walk[n] = CompactOnce(walk[n - 1])
  PROVE  Compact(chain) = walk[last].chain
  <1> DEFINE Follows(w) == w = [n \in 0 .. last |->
               IF n = 0 THEN [chain |-> chain, at |-> MemStart] ELSE CompactOnce(w[n - 1])]
             found == CHOOSE w : Follows(w)
  <1>1. Follows(walk)
    <2> DEFINE next == [n \in 0 .. last |->
                 IF n = 0 THEN [chain |-> chain, at |-> MemStart] ELSE CompactOnce(walk[n - 1])]
    <2>1. ASSUME NEW n \in 0 .. last PROVE walk[n] = next[n]
      <3>1. CASE n = 0
        BY <3>1
      <3>2. CASE n # 0
        <4>1. n \in 1 .. last
          BY <3>2
        <4>2. walk[n] = CompactOnce(walk[n - 1])
          BY <4>1
        <4>3. QED
          BY <3>2, <4>2
      <3>3. QED
        BY <3>1, <3>2
    <2>2. next = [n \in 0 .. last |-> next[n]]
      OBVIOUS
    <2> HIDE DEF next
    <2>3. walk = next
      BY <2>1, <2>2 DEF IsWalk
    <2>4. QED
      BY <2>3 DEF next
  <1>2. Follows(found)
    <2> HIDE DEF Follows
    <2>1. QED
      BY <1>1
  <1>3. found = walk
    <2> HIDE DEF found
    <2>1. IsWalk(found, last)
      BY <1>2 DEF IsWalk
    <2>2. found[0] = walk[0]
      BY <1>2
    <2>3. ASSUME NEW n \in 1 .. last PROVE found[n] = CompactOnce(found[n - 1])
      <3>1. n \in 0 .. last /\ n # 0
        OBVIOUS
      <3>2. QED
        BY <1>2, <3>1
    <2>4. \A n \in 1 .. last : found[n - 1] = walk[n - 1] => found[n] = walk[n]
      BY <2>3
    <2>5. QED
      BY <2>1, <2>2, <2>4, SameWalk
  <1>4. Compact(chain) = found[last].chain
    BY DEF Compact
  <1>5. QED
    BY <1>3, <1>4

LEMMA SearchWalk ==
  ASSUME NEW chain, NEW size, NEW last \in Nat, Rounds(chain) = last,
         NEW walk, IsWalk(walk, last),
         walk[0] = MemStart,
         \A n \in 1 .. last : walk[n] = SearchOnce(chain, size, walk[n - 1])
  PROVE  Search(chain, size) = walk[last]
  <1> DEFINE Follows(w) == w = [n \in 0 .. last |->
               IF n = 0 THEN MemStart ELSE SearchOnce(chain, size, w[n - 1])]
             found == CHOOSE w : Follows(w)
  <1>1. Follows(walk)
    <2> DEFINE next == [n \in 0 .. last |->
                 IF n = 0 THEN MemStart ELSE SearchOnce(chain, size, walk[n - 1])]
    <2>1. ASSUME NEW n \in 0 .. last PROVE walk[n] = next[n]
      <3>1. CASE n = 0
        BY <3>1
      <3>2. CASE n # 0
        <4>1. n \in 1 .. last
          BY <3>2
        <4>2. walk[n] = SearchOnce(chain, size, walk[n - 1])
          BY <4>1
        <4>3. QED
          BY <3>2, <4>2
      <3>3. QED
        BY <3>1, <3>2
    <2>2. next = [n \in 0 .. last |-> next[n]]
      OBVIOUS
    <2> HIDE DEF next
    <2>3. walk = next
      BY <2>1, <2>2 DEF IsWalk
    <2>4. QED
      BY <2>3 DEF next
  <1>2. Follows(found)
    <2> HIDE DEF Follows
    <2>1. QED
      BY <1>1
  <1>3. found = walk
    <2> HIDE DEF found
    <2>1. IsWalk(found, last)
      BY <1>2 DEF IsWalk
    <2>2. found[0] = walk[0]
      BY <1>2
    <2>3. ASSUME NEW n \in 1 .. last PROVE found[n] = SearchOnce(chain, size, found[n - 1])
      <3>1. n \in 0 .. last /\ n # 0
        OBVIOUS
      <3>2. QED
        BY <1>2, <3>1
    <2>4. \A n \in 1 .. last : found[n - 1] = walk[n - 1] => found[n] = walk[n]
      BY <2>3
    <2>5. QED
      BY <2>1, <2>2, <2>4, SameWalk
  <1>4. Search(chain, size) = found[last]
    BY DEF Search
  <1>5. QED
    BY <1>3, <1>4

GatherStart(chain, s) ==
  [at |-> s, total |-> 0, blocks |-> {}, type |-> chain[s].type, done |-> FALSE]

LEMMA GatherWalk ==
  ASSUME NEW chain, NEW size, NEW s, NEW last \in Nat, Rounds(chain) = last,
         NEW walk, IsWalk(walk, last),
         walk[0] = GatherStart(chain, s),
         \A n \in 1 .. last : walk[n] = GatherOnce(chain, size, walk[n - 1])
  PROVE  Gather(chain, size, s) = walk[last]
  <1> DEFINE Follows(w) == w = [n \in 0 .. last |->
               IF n = 0 THEN [at |-> s, total |-> 0, blocks |-> {}, type |-> chain[s].type,
                              done |-> FALSE]
               ELSE GatherOnce(chain, size, w[n - 1])]
             found == CHOOSE w : Follows(w)
  <1>1. Follows(walk)
    <2> DEFINE next == [n \in 0 .. last |->
                 IF n = 0 THEN [at |-> s, total |-> 0, blocks |-> {}, type |-> chain[s].type,
                                done |-> FALSE]
                 ELSE GatherOnce(chain, size, walk[n - 1])]
    <2>1. ASSUME NEW n \in 0 .. last PROVE walk[n] = next[n]
      <3>1. CASE n = 0
        BY <3>1 DEF GatherStart
      <3>2. CASE n # 0
        <4>1. n \in 1 .. last
          BY <3>2
        <4>2. walk[n] = GatherOnce(chain, size, walk[n - 1])
          BY <4>1
        <4>3. QED
          BY <3>2, <4>2
      <3>3. QED
        BY <3>1, <3>2
    <2>2. next = [n \in 0 .. last |-> next[n]]
      OBVIOUS
    <2> HIDE DEF next
    <2>3. walk = next
      BY <2>1, <2>2 DEF IsWalk
    <2>4. QED
      BY <2>3 DEF next
  <1>2. Follows(found)
    <2> HIDE DEF Follows
    <2>1. QED
      BY <1>1
  <1>3. found = walk
    <2> HIDE DEF found
    <2>1. IsWalk(found, last)
      BY <1>2 DEF IsWalk
    <2>2. found[0] = walk[0]
      BY <1>2 DEF GatherStart
    <2>3. ASSUME NEW n \in 1 .. last PROVE found[n] = GatherOnce(chain, size, found[n - 1])
      <3>1. n \in 0 .. last /\ n # 0
        OBVIOUS
      <3>2. QED
        BY <1>2, <3>1
    <2>4. \A n \in 1 .. last : found[n - 1] = walk[n - 1] => found[n] = walk[n]
      BY <2>3
    <2>5. QED
      BY <2>1, <2>2, <2>4, SameWalk
  <1>4. Gather(chain, size, s) = found[last]
    BY DEF Gather
  <1>5. QED
    BY <1>3, <1>4

\* A compaction that has come to its end after five rounds at the most.
LEMMA CompactEnds ==
  ASSUME NEW chain, NEW w1, NEW w2, NEW w3, NEW w4, NEW w5,
         CompactOnce([chain |-> chain, at |-> MemStart]) = w1,
         CompactOnce(w1) = w2, CompactOnce(w2) = w3, CompactOnce(w3) = w4,
         CompactOnce(w4) = w5, CompactOnce(w5) = w5,
         Rounds(chain) \in {4, 5, 6}, Rounds(chain) = 4 => w4 = w5
  PROVE  Compact(chain) = w5.chain
  <1> DEFINE last == Rounds(chain)
             walk == [n \in 0 .. last |->
                        IF n = 0 THEN [chain |-> chain, at |-> MemStart]
                        ELSE IF n = 1 THEN w1 ELSE IF n = 2 THEN w2
                        ELSE IF n = 3 THEN w3 ELSE IF n = 4 THEN w4 ELSE w5]
  <1>1. last \in Nat /\ last \in {4, 5, 6}
    OBVIOUS
  <1> HIDE DEF last
  <1>2. /\ walk[0] = [chain |-> chain, at |-> MemStart]
        /\ walk[1] = w1 /\ walk[2] = w2 /\ walk[3] = w3 /\ walk[4] = w4
        /\ \A n \in 5 .. last : walk[n] = w5
    BY <1>1
  <1>3. IsWalk(walk, last)
    BY DEF IsWalk
  <1> HIDE DEF walk
  <1>4. ASSUME NEW n \in 1 .. last PROVE walk[n] = CompactOnce(walk[n - 1])
    <2>1. n \in {1, 2, 3, 4, 5} \/ (n = 6 /\ last = 6)
      BY <1>1
    <2>2. 5 <= last => walk[5] = w5
      BY <1>1, <1>2
    <2>3. CASE n \in {1, 2, 3, 4, 5}
      BY <1>1, <1>2, <2>2, <2>3
    <2>4. CASE n = 6 /\ last = 6
      <3>1. walk[6] = w5 /\ walk[5] = w5 /\ n - 1 = 5
        BY <1>2, <2>4
      <3>2. QED
        BY <2>4, <3>1
    <2>5. QED
      BY <2>1, <2>3, <2>4
  <1>5. walk[last] = w5
    <2>1. CASE last = 4
      BY <1>2, <2>1 DEF last
    <2>2. CASE last # 4
      BY <1>1, <1>2, <2>2
    <2>3. QED
      BY <2>1, <2>2
  <1>6. Compact(chain) = walk[last].chain
    BY <1>1, <1>2, <1>3, <1>4, CompactWalk DEF last
  <1>7. QED
    BY <1>5, <1>6

\* A search that has come to its end after three rounds.
LEMMA SearchEnds ==
  ASSUME NEW chain, NEW size, NEW s1, NEW s2, NEW s3,
         SearchOnce(chain, size, MemStart) = s1, SearchOnce(chain, size, s1) = s2,
         SearchOnce(chain, size, s2) = s3, SearchOnce(chain, size, s3) = s3,
         Rounds(chain) = 4
  PROVE  Search(chain, size) = s3
  <1> DEFINE walk == [n \in 0 .. 4 |-> IF n = 0 THEN MemStart ELSE IF n = 1 THEN s1
                                       ELSE IF n = 2 THEN s2 ELSE s3]
  <1>1. /\ walk[0] = MemStart /\ walk[1] = s1 /\ walk[2] = s2 /\ walk[3] = s3 /\ walk[4] = s3
        /\ IsWalk(walk, 4)
    BY DEF IsWalk
  <1> HIDE DEF walk
  <1>2. ASSUME NEW n \in 1 .. 4 PROVE walk[n] = SearchOnce(chain, size, walk[n - 1])
    <2>1. n \in {1, 2, 3, 4}
      OBVIOUS
    <2>2. QED
      BY <1>1, <2>1
  <1>3. QED
    BY <1>1, <1>2, SearchWalk

\* A resize that has gathered what there is after two rounds.
LEMMA GatherEnds ==
  ASSUME NEW chain, NEW size, NEW s, NEW g1, NEW g2,
         GatherOnce(chain, size, GatherStart(chain, s)) = g1,
         GatherOnce(chain, size, g1) = g2, GatherOnce(chain, size, g2) = g2,
         Rounds(chain) \in {4, 5}
  PROVE  Gather(chain, size, s) = g2
  <1> DEFINE last == Rounds(chain)
             walk == [n \in 0 .. last |-> IF n = 0 THEN GatherStart(chain, s)
                                          ELSE IF n = 1 THEN g1 ELSE g2]
  <1>1. last \in Nat /\ last \in {4, 5}
    OBVIOUS
  <1> HIDE DEF last
  <1>2. /\ walk[0] = GatherStart(chain, s) /\ walk[1] = g1
        /\ \A n \in 2 .. last : walk[n] = g2
        /\ IsWalk(walk, last)
    BY <1>1 DEF IsWalk
  <1> HIDE DEF walk
  <1>3. ASSUME NEW n \in 1 .. last PROVE walk[n] = GatherOnce(chain, size, walk[n - 1])
    <2>1. n = 1 \/ n = 2 \/ (n \in 2 .. last /\ n - 1 \in 2 .. last)
      BY <1>1
    <2>2. 2 \in 2 .. last /\ 2 - 1 = 1 /\ 1 - 1 = 0
      BY <1>1
    <2>3. QED
      BY <1>2, <2>1, <2>2
  <1>4. walk[last] = g2
    BY <1>1, <1>2
  <1>5. QED
    BY <1>1, <1>2, <1>3, <1>4, GatherWalk DEF last

-----------------------------------------------------------------------------
(* How many control blocks the shapes have.                                *)

LEMMA FourBlocks ==
  ASSUME NEW S, S = InternalPlaces \cup {Program}
  PROVE  IsFiniteSet(S) /\ Cardinality(S) = 4
  <1> DEFINE one == {} \cup {MemStart}
             two == one \cup {MemStart + 2}
             three == two \cup {MemStart + 7}
             four == three \cup {Program}
  <1>1. /\ MemStart \notin {} /\ MemStart + 2 \notin one /\ MemStart + 7 \notin two
        /\ Program \notin three /\ S = four
    BY Constants DEF InternalPlaces
  <1>2. IsFiniteSet({}) /\ Cardinality({}) = 0
    BY FS_EmptySet
  <1>3. IsFiniteSet(one) /\ Cardinality(one) = 1
    BY <1>1, <1>2, FS_AddElement
  <1>4. IsFiniteSet(two) /\ Cardinality(two) = 2
    <2> HIDE DEF one
    <2> QED BY <1>1, <1>3, FS_AddElement
  <1>5. IsFiniteSet(three) /\ Cardinality(three) = 3
    <2> HIDE DEF two
    <2> QED BY <1>1, <1>4, FS_AddElement
  <1>6. IsFiniteSet(four) /\ Cardinality(four) = 4
    <2> HIDE DEF three
    <2> QED BY <1>1, <1>5, FS_AddElement
  <1>7. QED
    BY <1>1, <1>6

LEMMA FiveBlocks ==
  ASSUME NEW size \in 0 .. Room, NEW S, S = InternalPlaces \cup {Program, Program + 1 + size}
  PROVE  IsFiniteSet(S) /\ Cardinality(S) = 5
  <1> DEFINE four == InternalPlaces \cup {Program}
             five == four \cup {Program + 1 + size}
  <1>1. IsFiniteSet(four) /\ Cardinality(four) = 4
    BY FourBlocks
  <1>2. Program + 1 + size \notin four /\ S = five
    BY Constants DEF InternalPlaces
  <1> HIDE DEF four
  <1>3. IsFiniteSet(five) /\ Cardinality(five) = 5
    BY <1>1, <1>2, FS_AddElement
  <1>4. QED
    BY <1>2, <1>3

LEMMA SixBlocks ==
  ASSUME NEW size \in 0 .. Room, NEW rest \in 0 .. Room, NEW S,
         S = InternalPlaces \cup {Program, Program + 1 + size, Program + 2 + size + rest}
  PROVE  IsFiniteSet(S) /\ Cardinality(S) = 6
  <1> DEFINE five == InternalPlaces \cup {Program, Program + 1 + size}
             six == five \cup {Program + 2 + size + rest}
  <1>1. IsFiniteSet(five) /\ Cardinality(five) = 5
    BY FiveBlocks
  <1>2. Program + 2 + size + rest \notin five /\ S = six
    BY Constants DEF InternalPlaces
  <1> HIDE DEF five
  <1>3. IsFiniteSet(six) /\ Cardinality(six) = 6
    BY <1>1, <1>2, FS_AddElement
  <1>4. QED
    BY <1>2, <1>3

-----------------------------------------------------------------------------
(* Control blocks written and taken out.                                   *)

LEMMA PutPlaces ==
  ASSUME NEW chain, NEW s, NEW block
  PROVE  DOMAIN Put(chain, s, block) = DOMAIN chain \cup {s}
  BY DEF Put

LEMMA PutHere ==
  ASSUME NEW chain, NEW s, NEW block
  PROVE  Put(chain, s, block)[s] = block
  BY DEF Put

LEMMA PutElsewhere ==
  ASSUME NEW chain, NEW s, NEW block, NEW t \in DOMAIN chain, t # s
  PROVE  Put(chain, s, block)[t] = chain[t]
  BY DEF Put

LEMMA RestrictIs ==
  ASSUME NEW chain, NEW S
  PROVE  /\ DOMAIN Restrict(chain, S) = S
         /\ \A t \in S : Restrict(chain, S)[t] = chain[t]
  BY DEF Restrict

-----------------------------------------------------------------------------
(* Compaction.                                                             *)

LEMMA InternalNext ==
  ASSUME NEW chain, InternalBlocks(chain)
  PROVE  /\ NextBlock(chain, MemStart) = MemStart + 2
         /\ NextBlock(chain, MemStart + 2) = MemStart + 7
         /\ NextBlock(chain, MemStart + 7) = Program
         /\ \A s \in InternalPlaces : ~IsFree(chain, s) /\ chain[s].type = "CONT"
  <1>1. /\ NextBlock(chain, MemStart) = Wrapped(MemStart + 2)
        /\ NextBlock(chain, MemStart + 2) = Wrapped(MemStart + 7)
        /\ NextBlock(chain, MemStart + 7) = Wrapped(Program)
    BY Constants DEF NextBlock, InternalBlocks, Cont, Block
  <1>2. /\ Wrapped(MemStart + 2) = MemStart + 2
        /\ Wrapped(MemStart + 7) = MemStart + 7
        /\ Wrapped(Program) = Program
    BY Constants, WrappedIs
  <1>3. \A s \in InternalPlaces : ~IsFree(chain, s) /\ chain[s].type = "CONT"
    BY DEF InternalPlaces, InternalBlocks, IsFree, FREE, DOS, Cont, Block
  <1>4. QED
    BY <1>1, <1>2, <1>3

\* The walk passes DOS's own blocks.
LEMMA CompactPasses ==
  ASSUME NEW chain, NEW s, ~IsFree(chain, s), chain[s].type = "CONT"
  PROVE  CompactOnce([chain |-> chain, at |-> s]) = [chain |-> chain, at |-> NextBlock(chain, s)]
  BY DEF CompactOnce

LEMMA CompactStops ==
  ASSUME NEW chain, NEW s, chain[s].type = "END"
  PROVE  CompactOnce([chain |-> chain, at |-> s]) = [chain |-> chain, at |-> s]
  BY DEF CompactOnce

LEMMA CompactWhole ==
  ASSUME NEW chain, NEW owner, Whole(chain, owner)
  PROVE  Compact(chain) = chain
  <1> DEFINE At(s) == [chain |-> chain, at |-> s]
  <1>1. /\ CompactOnce(At(MemStart)) = At(MemStart + 2)
        /\ CompactOnce(At(MemStart + 2)) = At(MemStart + 7)
        /\ CompactOnce(At(MemStart + 7)) = At(Program)
    BY InternalNext, CompactPasses DEF Whole, InternalPlaces
  <1>2. CompactOnce(At(Program)) = At(Program)
    BY CompactStops DEF Whole, Block
  <1>3. Rounds(chain) = 4
    BY FourBlocks DEF Rounds, Whole
  <1>4. Compact(chain) = At(Program).chain
    BY <1>1, <1>2, <1>3, CompactEnds
  <1>5. QED
    BY <1>4

LEMMA HalvesNext ==
  ASSUME NEW chain, NEW owner, NEW size \in 0 .. Room, Halves(chain, owner, size)
  PROVE  /\ NextBlock(chain, Program) = Program + 1 + size
         /\ NextBlock(chain, Program + 1 + size) = MemEnd + 1
  <1>1. NextBlock(chain, Program) = Wrapped(Program + 1 + size)
    BY Constants DEF NextBlock, Halves, Cont, Block
  <1>2. Wrapped(Program + 1 + size) = Program + 1 + size
    BY Constants, WrappedIs
  <1> DEFINE left == Remainder(Room, size)
  <1>3. left = IF size = Room THEN Words - 1 ELSE Room - 1 - size
    BY Constants, RemainderIs
  <1>4. NextBlock(chain, Program + 1 + size) = Wrapped(Program + 1 + size + left + 1)
    BY DEF NextBlock, Halves, Block
  <1> HIDE DEF left
  <1>5. Program + 1 + size + left + 1 = IF size = Room THEN MemEnd + 1 + Words ELSE MemEnd + 1
    BY <1>3, Constants
  <1>6. Wrapped(MemEnd + 1 + Words) = MemEnd + 1 /\ Wrapped(MemEnd + 1) = MemEnd + 1
    BY Constants, WrappedIs
  <1>7. QED
    BY <1>1, <1>2, <1>4, <1>5, <1>6

LEMMA CompactHalves ==
  ASSUME NEW chain, NEW owner, owner # FREE, NEW size \in 0 .. Room, Halves(chain, owner, size)
  PROVE  Compact(chain) = chain
  <1> DEFINE At(s) == [chain |-> chain, at |-> s]
             free == Program + 1 + size
  <1>1. /\ CompactOnce(At(MemStart)) = At(MemStart + 2)
        /\ CompactOnce(At(MemStart + 2)) = At(MemStart + 7)
        /\ CompactOnce(At(MemStart + 7)) = At(Program)
    BY InternalNext, CompactPasses DEF Halves, InternalPlaces
  <1>2. ~IsFree(chain, Program) /\ chain[Program].type = "CONT" /\ chain[free].type = "END"
    BY DEF Halves, IsFree, Block, Cont
  <1>3. CompactOnce(At(Program)) = At(free)
    BY <1>2, HalvesNext, CompactPasses
  <1>4. CompactOnce(At(free)) = At(free)
    BY <1>2, CompactStops
  <1>5. Rounds(chain) = 5
    BY FiveBlocks DEF Rounds, Halves
  <1>6. Compact(chain) = At(free).chain
    BY <1>1, <1>3, <1>4, <1>5, CompactEnds
  <1>7. QED
    BY <1>6

LEMMA ThirdsNext ==
  ASSUME NEW chain, NEW owner, NEW size \in 0 .. Room, NEW rest \in 0 .. Room,
         size + 1 + rest <= Room, Thirds(chain, owner, size, rest)
  PROVE  /\ NextBlock(chain, Program) = Program + 1 + size
         /\ NextBlock(chain, Program + 1 + size) = Program + 2 + size + rest
         /\ NextBlock(chain, Program + 2 + size + rest) = MemEnd + 1
  <1>1. /\ NextBlock(chain, Program) = Wrapped(Program + 1 + size)
        /\ NextBlock(chain, Program + 1 + size) = Wrapped(Program + 2 + size + rest)
    BY Constants DEF NextBlock, Thirds, Cont, Block
  <1>2. /\ Wrapped(Program + 1 + size) = Program + 1 + size
        /\ Wrapped(Program + 2 + size + rest) = Program + 2 + size + rest
    BY Constants, WrappedIs
  <1> DEFINE left == Remainder(Room, size + 1 + rest)
  <1>3. left = IF size + 1 + rest = Room THEN Words - 1 ELSE Room - 1 - (size + 1 + rest)
    BY Constants, RemainderIs
  <1>4. NextBlock(chain, Program + 2 + size + rest) = Wrapped(Program + 2 + size + rest + left + 1)
    BY DEF NextBlock, Thirds, Block
  <1> HIDE DEF left
  <1>5. Program + 2 + size + rest + left + 1 =
          IF size + 1 + rest = Room THEN MemEnd + 1 + Words ELSE MemEnd + 1
    BY <1>3, Constants
  <1>6. Wrapped(MemEnd + 1 + Words) = MemEnd + 1 /\ Wrapped(MemEnd + 1) = MemEnd + 1
    BY Constants, WrappedIs
  <1>7. QED
    BY <1>1, <1>2, <1>4, <1>5, <1>6

\* The two free blocks become one, which again ends with the memory.
LEMMA CompactThirds ==
  ASSUME NEW chain, NEW owner, owner # FREE, NEW size \in 0 .. Room, NEW rest \in 0 .. Room,
         size + 1 + rest <= Room, Thirds(chain, owner, size, rest)
  PROVE  Halves(Compact(chain), owner, size)
  <1> DEFINE At(c, s) == [chain |-> c, at |-> s]
             free == Program + 1 + size
             last == Program + 2 + size + rest
             left == Remainder(Room, size + 1 + rest)
             joined == Block("END", FREE, Wrapped(rest + left + 1))
             fewer == Restrict(chain, DOMAIN chain \ {last})
             after == Put(fewer, free, joined)
  <1>1. /\ CompactOnce(At(chain, MemStart)) = At(chain, MemStart + 2)
        /\ CompactOnce(At(chain, MemStart + 2)) = At(chain, MemStart + 7)
        /\ CompactOnce(At(chain, MemStart + 7)) = At(chain, Program)
    BY InternalNext, CompactPasses DEF Thirds, InternalPlaces
  <1>2. /\ ~IsFree(chain, Program) /\ chain[Program].type = "CONT"
        /\ chain[free] = Cont(FREE, rest) /\ chain[last] = Block("END", FREE, left)
    BY DEF Thirds, IsFree, Block, Cont
  <1>3. CompactOnce(At(chain, Program)) = At(chain, free)
    BY <1>2, ThirdsNext, CompactPasses
  <1>4. CompactOnce(At(chain, free)) = At(after, free)
    <2>1. NextBlock(chain, free) = last
      BY ThirdsNext
    <2> HIDE DEF free, last, left
    <2>2. QED
      BY <1>2, <2>1 DEF CompactOnce, IsFree, Block, Cont
  <1>5. CompactOnce(At(after, free)) = At(after, free)
    <2>1. after[free] = joined
      <3> HIDE DEF fewer, joined, free
      <3>1. QED
        BY PutHere
    <2> HIDE DEF after, free
    <2>2. QED
      BY <2>1, CompactStops DEF Block
  <1>6. Rounds(chain) = 6
    BY SixBlocks DEF Rounds, Thirds
  <1>7. Compact(chain) = At(after, free).chain
    <2> HIDE DEF after, free
    <2> QED
      BY <1>1, <1>3, <1>4, <1>5, <1>6, CompactEnds
  <1>8. Wrapped(rest + left + 1) = Remainder(Room, size)
    <2>1. left = IF size + 1 + rest = Room THEN Words - 1 ELSE Room - 1 - (size + 1 + rest)
      BY Constants, RemainderIs
    <2>2. Remainder(Room, size) = Room - 1 - size
      BY Constants, RemainderIs
    <2> HIDE DEF left
    <2>3. rest + left + 1 = IF size + 1 + rest = Room THEN rest + Words ELSE Room - 1 - size
      BY <2>1, Constants
    <2>4. Wrapped(rest + Words) = rest /\ Wrapped(Room - 1 - size) = Room - 1 - size
      BY Constants, WrappedIs
    <2>5. QED
      BY <2>2, <2>3, <2>4, Constants
  <1>9. Halves(after, owner, size)
    <2>1. DOMAIN chain = InternalPlaces \cup {Program, free, last}
      BY DEF Thirds
    <2>2. last \notin InternalPlaces \cup {Program, free} /\ free \notin InternalPlaces \cup {Program}
      BY Constants DEF InternalPlaces
    <2>3. /\ DOMAIN fewer = InternalPlaces \cup {Program, free}
          /\ \A t \in InternalPlaces \cup {Program} : fewer[t] = chain[t]
      BY <2>1, <2>2, RestrictIs
    <2> HIDE DEF fewer, free, last, joined
    <2>4. /\ DOMAIN after = InternalPlaces \cup {Program, free}
          /\ \A t \in InternalPlaces \cup {Program} : after[t] = chain[t]
          /\ after[free] = joined
      <3>1. DOMAIN after = DOMAIN fewer \cup {free}
        BY PutPlaces
      <3>2. \A t \in DOMAIN fewer \ {free} : after[t] = fewer[t]
        BY PutElsewhere
      <3>3. \A t \in InternalPlaces \cup {Program} : t \in DOMAIN fewer \ {free}
        BY <2>2, <2>3
      <3>4. after[free] = joined
        BY PutHere
      <3> HIDE DEF after
      <3>5. QED
        BY <2>3, <3>1, <3>2, <3>3, <3>4
    <2> HIDE DEF after
    <2>5. InternalBlocks(after) /\ after[Program] = Cont(owner, size)
      BY <2>4 DEF Thirds, InternalBlocks, InternalPlaces
    <2>6. QED
      BY <1>8, <2>4, <2>5 DEF Halves, free, joined
  <1>10. QED
    BY <1>7, <1>9

-----------------------------------------------------------------------------
(* A free block split off behind the program's.                            *)

LEMMA InternalKept ==
  ASSUME NEW chain, NEW new, InternalBlocks(chain),
         \A s \in InternalPlaces : new[s] = chain[s]
  PROVE  InternalBlocks(new)
  BY DEF InternalBlocks, InternalPlaces

\* A chain that has another two control blocks, and is otherwise as it was.
Rewritten(new, chain, s, block, t, other) ==
  /\ DOMAIN new = DOMAIN chain \cup {s, t}
  /\ new[s] = block /\ new[t] = other
  /\ \A u \in DOMAIN chain : u # s /\ u # t => new[u] = chain[u]

LEMMA TwoPuts ==
  ASSUME NEW chain, NEW s, NEW block, NEW t, t # s, NEW other
  PROVE  Rewritten(Put(Put(chain, s, block), t, other), chain, s, block, t, other)
  <1> DEFINE first == Put(chain, s, block)
             new == Put(first, t, other)
  <1>1. DOMAIN first = DOMAIN chain \cup {s}
    BY PutPlaces
  <1>2. first[s] = block
    BY PutHere
  <1>3. \A u \in DOMAIN chain : u # s => first[u] = chain[u]
    BY PutElsewhere
  <1> HIDE DEF first
  <1>4. new = Put(first, t, other)
    OBVIOUS
  <1> HIDE DEF new
  <1>5. DOMAIN new = DOMAIN chain \cup {s, t}
    <2>1. DOMAIN new = DOMAIN first \cup {t}
      BY <1>4, PutPlaces
    <2>2. QED
      BY <1>1, <2>1
  <1>6. new[t] = other
    BY <1>4, PutHere
  <1>7. ASSUME NEW u \in DOMAIN chain \cup {s}, u # t PROVE new[u] = first[u]
    BY <1>1, <1>4, <1>7, PutElsewhere
  <1>8. new[s] = block
    BY <1>2, <1>7
  <1>9. \A u \in DOMAIN chain : u # s /\ u # t => new[u] = chain[u]
    BY <1>3, <1>7
  <1>10. Rewritten(new, chain, s, block, t, other)
    BY <1>5, <1>6, <1>8, <1>9 DEF Rewritten
  <1>11. QED
    BY <1>10 DEF new, first

LEMMA SplitLast ==
  ASSUME NEW base, NEW owner, NEW size \in 0 .. Room,
         InternalPlaces \subseteq DOMAIN base,
         DOMAIN base \subseteq InternalPlaces \cup {Program, Program + 1 + size},
         InternalBlocks(base),
         NEW new, new = Put(Put(base, Program, Cont(owner, size)), Program + 1 + size,
                            Block("END", FREE, Remainder(Room, size)))
  PROVE  Halves(new, owner, size)
  <1> DEFINE free == Program + 1 + size
  <1>1. free # Program /\ free \notin InternalPlaces /\ Program \notin InternalPlaces
    BY Constants DEF InternalPlaces
  <1>2. /\ DOMAIN new = DOMAIN base \cup {Program, free}
        /\ new[Program] = Cont(owner, size)
        /\ new[free] = Block("END", FREE, Remainder(Room, size))
        /\ \A u \in DOMAIN base : u # Program /\ u # free => new[u] = base[u]
    <2> DEFINE block == Cont(owner, size)
               other == Block("END", FREE, Remainder(Room, size))
    <2>1. Rewritten(Put(Put(base, Program, block), free, other), base, Program, block, free, other)
      <3> HIDE DEF free, block, other
      <3>1. QED
        BY <1>1, TwoPuts
    <2>2. Rewritten(new, base, Program, block, free, other)
      BY <2>1
    <2> HIDE DEF free
    <2>3. QED
      BY <2>2 DEF Rewritten
  <1>3. \A s \in InternalPlaces : new[s] = base[s]
    BY <1>1, <1>2
  <1>4. InternalBlocks(new)
    BY <1>3, InternalKept
  <1>5. DOMAIN new = InternalPlaces \cup {Program, free}
    BY <1>2
  <1>6. QED
    BY <1>2, <1>4, <1>5 DEF Halves

LEMMA SplitMiddle ==
  ASSUME NEW base, NEW owner, NEW old, NEW was \in 0 .. Room, NEW size \in 0 .. was, size # was,
         Halves(base, old, was),
         NEW new, new = Put(Put(base, Program, Cont(owner, size)), Program + 1 + size,
                            Block("CONT", FREE, Remainder(was, size)))
  PROVE  Thirds(new, owner, size, was - 1 - size)
  <1> DEFINE free == Program + 1 + size
             last == Program + 1 + was
  <1>1. /\ free # Program /\ free \notin InternalPlaces /\ Program \notin InternalPlaces
        /\ last # Program /\ last # free /\ last \notin InternalPlaces
        /\ last = Program + 2 + size + (was - 1 - size)
        /\ was = size + 1 + (was - 1 - size)
    BY Constants DEF InternalPlaces
  <1>2. Remainder(was, size) = was - 1 - size
    <2>1. was - 1 - size \in 0 .. Words - 1 /\ -Words <= was - 1 - size
      BY Constants
    <2>2. QED
      BY <2>1, Constants, WrappedIs DEF Remainder
  <1>3. /\ DOMAIN new = DOMAIN base \cup {Program, free}
        /\ new[Program] = Cont(owner, size)
        /\ new[free] = Cont(FREE, was - 1 - size)
        /\ \A u \in DOMAIN base : u # Program /\ u # free => new[u] = base[u]
    <2> DEFINE block == Cont(owner, size)
               other == Block("CONT", FREE, Remainder(was, size))
    <2>1. Rewritten(Put(Put(base, Program, block), free, other), base, Program, block, free, other)
      <3> HIDE DEF free, block, other
      <3>1. QED
        BY <1>1, TwoPuts
    <2>2. Rewritten(new, base, Program, block, free, other)
      BY <2>1
    <2> HIDE DEF free
    <2>3. other = Cont(FREE, was - 1 - size)
      BY <1>2 DEF Cont
    <2> HIDE DEF other
    <2>4. QED
      BY <2>2, <2>3 DEF Rewritten
  <1>4. /\ DOMAIN base = InternalPlaces \cup {Program, last}
        /\ InternalBlocks(base)
        /\ base[last] = Block("END", FREE, Remainder(Room, was))
    BY DEF Halves
  <1>5. \A s \in InternalPlaces : new[s] = base[s]
    BY <1>1, <1>3, <1>4
  <1>6. InternalBlocks(new)
    BY <1>4, <1>5, InternalKept
  <1>7. new[last] = Block("END", FREE, Remainder(Room, was))
    BY <1>1, <1>3, <1>4
  <1>8. DOMAIN new = InternalPlaces \cup {Program, free, last}
    BY <1>3, <1>4
  <1> HIDE DEF last
  <1>9. QED
    BY <1>1, <1>3, <1>6, <1>7, <1>8 DEF Thirds

-----------------------------------------------------------------------------
(* What a resize does: its four cases.                                     *)

SplitAt(base, s, size, owner, total, type) ==
  Put(Put(base, s, Cont(owner, size)), s + 1 + size, Block(type, FREE, Remainder(total, size)))

LEMMA ResizedSame ==
  ASSUME NEW chain, NEW psp, NEW size, size = chain[Program].size
  PROVE  Resized(chain, Program + 1, size, psp) = [ok |-> TRUE, bx |-> size, chain |-> chain]
  <1>1. Wrapped((Program + 1) - 1) = Program
    <2>1. (Program + 1) - 1 = Program
      BY Constants
    <2>2. QED
      BY <2>1, Constants, WrappedIs
  <1>2. QED
    BY <1>1 DEF Resized

LEMMA ResizedSmaller ==
  ASSUME NEW chain, NEW psp, NEW size \in 0 .. Room,
         size # chain[Program].size, size < chain[Program].size
  PROVE  Resized(chain, Program + 1, size, psp) =
           [ok |-> TRUE, bx |-> size,
            chain |-> SplitAt(Restrict(chain, DOMAIN chain), Program, size, psp,
                              chain[Program].size, chain[Program].type)]
  <1>1. Wrapped((Program + 1) - 1) = Program
    <2>1. (Program + 1) - 1 = Program
      BY Constants
    <2>2. QED
      BY <2>1, Constants, WrappedIs
  <1>2. Wrapped(Program + 1 + size) = Program + 1 + size
    BY Constants, WrappedIs
  <1>3. QED
    BY <1>1, <1>2 DEF Resized, SplitAt

LEMMA ResizedLarger ==
  ASSUME NEW chain, NEW psp, NEW size \in 0 .. Words - 1,
         size # chain[Program].size, ~(size < chain[Program].size),
         NEW all, Gather(chain, size, Program) = all, all.total = Room
  PROVE  Resized(chain, Program + 1, size, psp) =
           IF Room < size THEN [ok |-> FALSE, bx |-> Room, chain |-> chain]
           ELSE [ok |-> TRUE, bx |-> size,
                 chain |-> SplitAt(Restrict(chain, DOMAIN chain \ all.blocks), Program, size, psp,
                                   Room, all.type)]
  <1>1. Wrapped((Program + 1) - 1) = Program
    <2>1. (Program + 1) - 1 = Program
      BY Constants
    <2>2. QED
      BY <2>1, Constants, WrappedIs
  <1>2. CASE Room < size
    BY <1>1, <1>2 DEF Resized
  <1>3. CASE ~(Room < size)
    <2>1. Wrapped(Program + 1 + size) = Program + 1 + size
      BY <1>3, Constants, WrappedIs
    <2>2. QED
      BY <1>1, <1>3, <2>1 DEF Resized, SplitAt
  <1>4. QED
    BY <1>2, <1>3

\* A resize is answered as ResizeGrantsWhatThereIs has it.
Answered(done, size) ==
  /\ done.ok = (size <= Room)
  /\ done.bx = IF size <= Room THEN size ELSE Room
  /\ done.ok => done.chain[Program].size = size

LEMMA GrantedIs ==
  ASSUME NEW done, NEW chain, NEW size \in 0 .. Room,
         done = [ok |-> TRUE, bx |-> size, chain |-> chain], chain[Program].size = size
  PROVE  Answered(done, size) /\ done.chain = chain
  <1>1. done.ok = TRUE /\ done.bx = size /\ done.chain = chain
    OBVIOUS
  <1>2. (size <= Room) = TRUE
    BY Constants
  <1>3. QED
    BY <1>1, <1>2, Zenon DEF Answered

LEMMA RefusedIs ==
  ASSUME NEW done, NEW chain, NEW size \in 0 .. Words - 1, Room < size,
         done = [ok |-> FALSE, bx |-> Room, chain |-> chain]
  PROVE  Answered(done, size) /\ done.chain = chain
  <1>1. done.ok = FALSE /\ done.bx = Room /\ done.chain = chain
    OBVIOUS
  <1>2. (size <= Room) = FALSE
    BY Constants
  <1>3. QED
    BY <1>1, <1>2, Zenon DEF Answered

LEMMA WholeKept ==
  ASSUME NEW chain, NEW owner, Whole(chain, owner), NEW base, NEW size \in 0 .. Room,
         base = Restrict(chain, DOMAIN chain)
  PROVE  /\ InternalPlaces \subseteq DOMAIN base /\ InternalBlocks(base)
         /\ DOMAIN base \subseteq InternalPlaces \cup {Program, Program + 1 + size}
  <1>1. DOMAIN base = InternalPlaces \cup {Program}
    BY RestrictIs DEF Whole
  <1>2. \A s \in InternalPlaces : base[s] = chain[s]
    BY RestrictIs DEF Whole
  <1>3. QED
    BY <1>1, <1>2, InternalKept DEF Whole

\* The program has all of the room: it gives some back, or gets no more.
LEMMA ResizedWhole ==
  ASSUME NEW chain, NEW owner, Whole(chain, owner), NEW psp, NEW size \in 0 .. Words - 1,
         NEW done, done = Resized(chain, Program + 1, size, psp)
  PROVE  /\ Answered(done, size)
         /\ done.chain = chain \/ (size \in 0 .. Room /\ Halves(done.chain, psp, size))
  <1>1. chain[Program].size = Room /\ chain[Program].type = "END"
    BY DEF Whole, Block
  <1>2. CASE size = Room
    <2>1. done = [ok |-> TRUE, bx |-> size, chain |-> chain]
      BY <1>1, <1>2, ResizedSame
    <2>2. QED
      BY <1>1, <1>2, <2>1, GrantedIs, Constants
  <1>3. CASE size < Room
    <2> DEFINE base == Restrict(chain, DOMAIN chain)
               new == SplitAt(base, Program, size, psp, Room, "END")
    <2>1. size \in 0 .. Room /\ size # Room
      BY <1>3, Constants
    <2>2. done = [ok |-> TRUE, bx |-> size, chain |-> new]
      BY <1>1, <1>3, <2>1, ResizedSmaller
    <2>3. Halves(new, psp, size)
      <3>1. /\ InternalPlaces \subseteq DOMAIN base /\ InternalBlocks(base)
            /\ DOMAIN base \subseteq InternalPlaces \cup {Program, Program + 1 + size}
        BY <2>1, WholeKept
      <3> HIDE DEF base
      <3>2. QED
        BY <2>1, <3>1, SplitLast DEF SplitAt
    <2> HIDE DEF new
    <2>4. new[Program].size = size
      BY <2>3 DEF Halves, Cont, Block
    <2>5. QED
      BY <2>1, <2>2, <2>3, <2>4, GrantedIs
  <1>4. CASE Room < size
    <2> DEFINE g0 == GatherStart(chain, Program)
               g1 == [at |-> Program, total |-> Room, blocks |-> {Program}, type |-> "END",
                      done |-> TRUE]
    <2>1. GatherOnce(chain, size, g0) = g1
      <3>1. Wrapped(0 + (Room + 0)) = Room
        BY Constants, WrappedIs
      <3>2. g0 = [at |-> Program, total |-> 0, blocks |-> {}, type |-> "END", done |-> FALSE]
        BY <1>1 DEF GatherStart
      <3> HIDE DEF g0
      <3>3. ~(size <= g0.total) /\ g0.done = FALSE /\ g0.at = Program /\ g0.blocks = {}
        BY <1>4, <3>2, Constants
      <3>4. GatherOnce(chain, size, g0) =
              [[g0 EXCEPT !.total = Wrapped(0 + (Room + 0)), !.blocks = {} \cup {Program}]
                 EXCEPT !.done = TRUE]
        BY <1>1, <3>2, <3>3 DEF GatherOnce
      <3>5. QED
        BY <3>1, <3>2, <3>4
    <2>2. GatherOnce(chain, size, g1) = g1
      BY DEF GatherOnce
    <2>3. Rounds(chain) = 4
      BY FourBlocks DEF Rounds, Whole
    <2>4. Gather(chain, size, Program) = g1
      <3> HIDE DEF g1
      <3>1. QED
        BY <2>1, <2>2, <2>3, GatherEnds
    <2>5. size # Room /\ ~(size < Room) /\ g1.total = Room
      BY <1>4, Constants
    <2> HIDE DEF g1
    <2>6. done = [ok |-> FALSE, bx |-> Room, chain |-> chain]
      BY <1>1, <1>4, <2>4, <2>5, ResizedLarger
    <2>7. QED
      BY <1>4, <2>6, RefusedIs
  <1>5. QED
    BY <1>2, <1>3, <1>4, Constants

LEMMA HalvesKept ==
  ASSUME NEW chain, NEW owner, NEW size, Halves(chain, owner, size),
         NEW base, base = Restrict(chain, DOMAIN chain)
  PROVE  Halves(base, owner, size)
  <1>1. DOMAIN base = DOMAIN chain
    BY RestrictIs
  <1>2. \A s \in DOMAIN chain : base[s] = chain[s]
    BY RestrictIs
  <1>3. QED
    BY <1>1, <1>2, InternalKept DEF Halves

\* What the program can have when the rest of the room is free: all of it.
LEMMA GatherHalves ==
  ASSUME NEW chain, NEW owner, NEW was \in 0 .. Room, Halves(chain, owner, was),
         NEW size \in 0 .. Words - 1, was < size
  PROVE  Gather(chain, size, Program) =
           [at |-> Program + 1 + was, total |-> Room, blocks |-> {Program, Program + 1 + was},
            type |-> "END", done |-> TRUE]
  <1> DEFINE free == Program + 1 + was
             left == Remainder(Room, was)
             g0 == GatherStart(chain, Program)
             g1 == [at |-> free, total |-> was, blocks |-> {Program}, type |-> "END",
                    done |-> FALSE]
             g2 == [at |-> free, total |-> Room, blocks |-> {Program, free}, type |-> "END",
                    done |-> TRUE]
  <1>1. /\ chain[Program].size = was /\ chain[Program].type = "CONT"
        /\ chain[free].size = left /\ chain[free].type = "END" /\ IsFree(chain, free)
    BY DEF Halves, Block, Cont, IsFree
  <1>2. NextBlock(chain, Program) = free
    BY HalvesNext
  <1>3. GatherOnce(chain, size, g0) = g1
    <2>1. Wrapped(0 + (was + 0)) = was
      BY Constants, WrappedIs
    <2>2. g0 = [at |-> Program, total |-> 0, blocks |-> {}, type |-> "CONT", done |-> FALSE]
      BY <1>1 DEF GatherStart
    <2> HIDE DEF g0, free
    <2>3. ~(size <= g0.total) /\ g0.done = FALSE /\ g0.at = Program /\ g0.blocks = {}
      BY <2>2, Constants
    <2>4. GatherOnce(chain, size, g0) =
            [[g0 EXCEPT !.total = Wrapped(0 + (was + 0)), !.blocks = {} \cup {Program}]
               EXCEPT !.at = free, !.type = "END"]
      BY <1>1, <1>2, <2>2, <2>3 DEF GatherOnce
    <2>5. QED
      BY <2>1, <2>2, <2>4
  <1>4. GatherOnce(chain, size, g1) = g2
    <2>1. Wrapped(was + (left + 1)) = Room
      <3>1. left = IF was = Room THEN Words - 1 ELSE Room - 1 - was
        BY Constants, RemainderIs
      <3> HIDE DEF left
      <3>2. was + (left + 1) = IF was = Room THEN Room + Words ELSE Room
        BY <3>1, Constants
      <3>3. Wrapped(Room + Words) = Room /\ Wrapped(Room) = Room
        BY Constants, WrappedIs
      <3>4. QED
        BY <3>2, <3>3
    <2> HIDE DEF left, free
    <2>2. /\ ~(size <= g1.total) /\ g1.done = FALSE /\ g1.at = free /\ g1.blocks # {}
          /\ g1.blocks = {Program} /\ g1.total = was
      BY Constants
    <2> HIDE DEF g1
    <2>3. GatherOnce(chain, size, g1) =
            [[g1 EXCEPT !.total = Wrapped(was + (left + 1)), !.blocks = {Program} \cup {free}]
               EXCEPT !.done = TRUE]
      BY <1>1, <2>2 DEF GatherOnce
    <2>4. QED
      BY <2>1, <2>3 DEF g1
  <1>5. GatherOnce(chain, size, g2) = g2
    BY DEF GatherOnce
  <1>6. Rounds(chain) = 5
    BY FiveBlocks DEF Rounds, Halves
  <1> HIDE DEF g0, g1, g2
  <1>7. Gather(chain, size, Program) = g2
    BY <1>3, <1>4, <1>5, <1>6, GatherEnds DEF g0
  <1>8. QED
    BY <1>7 DEF g2

\* The program has part of the room: it gives back more, or gets what there is.
LEMMA ResizedHalves ==
  ASSUME NEW chain, NEW owner, NEW was \in 0 .. Room, Halves(chain, owner, was),
         NEW psp, NEW size \in 0 .. Words - 1,
         NEW done, done = Resized(chain, Program + 1, size, psp)
  PROVE  /\ Answered(done, size)
         /\ \/ done.chain = chain
            \/ size \in 0 .. Room /\ Halves(done.chain, psp, size)
            \/ /\ size \in 0 .. Room /\ was - 1 - size \in 0 .. Room
               /\ size + 1 + (was - 1 - size) <= Room
               /\ Thirds(done.chain, psp, size, was - 1 - size)
  <1>1. chain[Program].size = was /\ chain[Program].type = "CONT"
    BY DEF Halves, Block, Cont
  <1>2. CASE size = was
    <2>1. done = [ok |-> TRUE, bx |-> size, chain |-> chain]
      BY <1>1, <1>2, ResizedSame
    <2>2. QED
      BY <1>1, <1>2, <2>1, GrantedIs, Constants
  <1>3. CASE size < was
    <2> DEFINE base == Restrict(chain, DOMAIN chain)
               rest == was - 1 - size
               new == SplitAt(base, Program, size, psp, was, "CONT")
    <2>1. /\ size \in 0 .. Room /\ size \in 0 .. was /\ size # was
          /\ rest \in 0 .. Room /\ size + 1 + rest <= Room
      BY <1>3, Constants
    <2>2. done = [ok |-> TRUE, bx |-> size, chain |-> new]
      BY <1>1, <1>3, <2>1, ResizedSmaller
    <2>3. Thirds(new, psp, size, rest)
      <3>1. Halves(base, owner, was)
        BY HalvesKept
      <3> HIDE DEF base
      <3>2. QED
        BY <2>1, <3>1, SplitMiddle DEF SplitAt
    <2> HIDE DEF new
    <2>4. new[Program].size = size
      BY <2>3 DEF Thirds, Cont, Block
    <2>5. QED
      BY <2>1, <2>2, <2>3, <2>4, GrantedIs
  <1>4. CASE was < size
    <2> DEFINE free == Program + 1 + was
               all == Gather(chain, size, Program)
               base == Restrict(chain, DOMAIN chain \ {Program, free})
               new == SplitAt(base, Program, size, psp, Room, "END")
    <2>1. all.total = Room /\ all.blocks = {Program, free} /\ all.type = "END"
      BY <1>4, GatherHalves
    <2> HIDE DEF all
    <2>2. Gather(chain, size, Program) = all /\ size # was /\ ~(size < was)
      BY <1>4, Constants DEF all
    <2>3. done = IF Room < size THEN [ok |-> FALSE, bx |-> Room, chain |-> chain]
                 ELSE [ok |-> TRUE, bx |-> size, chain |-> new]
      BY <1>1, <2>1, <2>2, ResizedLarger
    <2>4. CASE Room < size
      <3>1. done = [ok |-> FALSE, bx |-> Room, chain |-> chain]
        BY <2>3, <2>4
      <3>2. QED
        BY <2>4, <3>1, RefusedIs
    <2>5. CASE ~(Room < size)
      <3>1. size \in 0 .. Room
        BY <2>5, Constants
      <3>2. done = [ok |-> TRUE, bx |-> size, chain |-> new]
        BY <2>3, <2>5
      <3>3. Halves(new, psp, size)
        <4>1. DOMAIN chain = InternalPlaces \cup {Program, free} /\ InternalBlocks(chain)
          BY DEF Halves
        <4>2. Program \notin InternalPlaces /\ free \notin InternalPlaces
          BY Constants DEF InternalPlaces
        <4>3. DOMAIN chain \ {Program, free} = InternalPlaces
          BY <4>1, <4>2
        <4> HIDE DEF free
        <4>4. DOMAIN base = InternalPlaces
          BY <4>3, RestrictIs
        <4>5. \A s \in InternalPlaces : base[s] = chain[s]
          BY <4>3, RestrictIs
        <4> HIDE DEF base
        <4>6. InternalBlocks(base)
          BY <4>1, <4>5, InternalKept
        <4>7. QED
          BY <3>1, <4>4, <4>6, SplitLast DEF SplitAt
      <3> HIDE DEF new
      <3>4. new[Program].size = size
        BY <3>3 DEF Halves, Cont, Block
      <3>5. QED
        BY <3>1, <3>2, <3>3, <3>4, GrantedIs
    <2>6. QED
      BY <2>4, <2>5
  <1>5. QED
    BY <1>2, <1>3, <1>4, Constants

-----------------------------------------------------------------------------
(* The shapes have no gap and no overlap.                                  *)

Tile(chain, s) ==
  LET later == {t \in DOMAIN chain : t > s}
  IN  /\ NextBlock(chain, s) = IF later = {} THEN MemEnd + 1 ELSE Min(later)
      /\ chain[s].type = IF later = {} THEN "END" ELSE "CONT"

LEMMA MinIs ==
  ASSUME NEW S \in SUBSET Int, NEW x \in S, \A y \in S : x <= y
  PROVE  Min(S) = x
  <1> DEFINE min == CHOOSE y \in S : \A z \in S : y <= z
  <1>1. min \in S /\ \A z \in S : min <= z
    OBVIOUS
  <1> HIDE DEF min
  <1>2. min = x
    BY <1>1
  <1>3. QED
    BY <1>2 DEF Min, min

LEMMA MaxIs ==
  ASSUME NEW S \in SUBSET Int, NEW x \in S, \A y \in S : x >= y
  PROVE  Max(S) = x
  <1> DEFINE max == CHOOSE y \in S : \A z \in S : y >= z
  <1>1. max \in S /\ \A z \in S : max >= z
    OBVIOUS
  <1> HIDE DEF max
  <1>2. max = x
    BY <1>1
  <1>3. QED
    BY <1>2 DEF Max, max

LEMMA NextTile ==
  ASSUME NEW chain, DOMAIN chain \subseteq Int, NEW s \in DOMAIN chain, NEW t \in DOMAIN chain,
         t > s, \A u \in DOMAIN chain : u <= s \/ u >= t,
         NextBlock(chain, s) = t, chain[s].type = "CONT"
  PROVE  Tile(chain, s)
  <1> DEFINE later == {u \in DOMAIN chain : u > s}
  <1>1. later \in SUBSET Int /\ t \in later /\ later # {}
    OBVIOUS
  <1>2. \A u \in later : t <= u
    OBVIOUS
  <1>3. Min(later) = t
    <2> HIDE DEF later
    <2>1. QED
      BY <1>1, <1>2, MinIs
  <1> HIDE DEF later
  <1>4. NextBlock(chain, s) = IF later = {} THEN MemEnd + 1 ELSE Min(later)
    BY <1>1, <1>3
  <1>5. chain[s].type = IF later = {} THEN "END" ELSE "CONT"
    BY <1>1
  <1>6. QED
    BY <1>4, <1>5 DEF Tile, later

LEMMA LastTile ==
  ASSUME NEW chain, DOMAIN chain \subseteq Int, NEW s \in DOMAIN chain,
         \A u \in DOMAIN chain : u <= s,
         NextBlock(chain, s) = MemEnd + 1, chain[s].type = "END"
  PROVE  Tile(chain, s)
  <1> DEFINE later == {u \in DOMAIN chain : u > s}
  <1>1. later = {}
    OBVIOUS
  <1> HIDE DEF later
  <1>2. QED
    BY <1>1 DEF Tile, later

LEMMA InternalTiles ==
  ASSUME NEW chain, InternalBlocks(chain), InternalPlaces \cup {Program} \subseteq DOMAIN chain,
         \A s \in DOMAIN chain : s \in InternalPlaces \/ (s \in Nat /\ s >= Program)
  PROVE  \A s \in InternalPlaces : Tile(chain, s)
  <1>1. /\ {MemStart, MemStart + 2, MemStart + 7, Program} \subseteq DOMAIN chain
        /\ DOMAIN chain \subseteq Int
    BY Constants DEF InternalPlaces
  <1>2. /\ NextBlock(chain, MemStart) = MemStart + 2
        /\ NextBlock(chain, MemStart + 2) = MemStart + 7
        /\ NextBlock(chain, MemStart + 7) = Program
        /\ \A s \in InternalPlaces : chain[s].type = "CONT"
    BY InternalNext
  <1>3. Tile(chain, MemStart)
    <2>1. \A u \in DOMAIN chain : u <= MemStart \/ u >= MemStart + 2
      BY Constants DEF InternalPlaces
    <2>2. QED
      BY <1>1, <1>2, <2>1, NextTile, Constants DEF InternalPlaces
  <1>4. Tile(chain, MemStart + 2)
    <2>1. \A u \in DOMAIN chain : u <= MemStart + 2 \/ u >= MemStart + 7
      BY Constants DEF InternalPlaces
    <2>2. QED
      BY <1>1, <1>2, <2>1, NextTile, Constants DEF InternalPlaces
  <1>5. Tile(chain, MemStart + 7)
    <2>1. \A u \in DOMAIN chain : u <= MemStart + 7 \/ u >= Program
      BY Constants DEF InternalPlaces
    <2>2. QED
      BY <1>1, <1>2, <2>1, NextTile, Constants DEF InternalPlaces
  <1>6. QED
    BY <1>3, <1>4, <1>5 DEF InternalPlaces

LEMMA WholeTiles ==
  ASSUME NEW chain, NEW owner, Whole(chain, owner)
  PROVE  \A s \in DOMAIN chain : Tile(chain, s)
  <1>1. /\ DOMAIN chain = InternalPlaces \cup {Program} /\ InternalBlocks(chain)
        /\ chain[Program].type = "END" /\ chain[Program].size = Room
    BY DEF Whole, Block
  <1>2. DOMAIN chain \subseteq Int /\ \A u \in DOMAIN chain : u <= Program
    BY <1>1, Constants DEF InternalPlaces
  <1>3. \A s \in InternalPlaces : Tile(chain, s)
    <2>1. InternalPlaces \cup {Program} \subseteq DOMAIN chain
      BY <1>1
    <2>2. \A s \in DOMAIN chain : s \in InternalPlaces \/ (s \in Nat /\ s >= Program)
      BY <1>1, Constants
    <2>3. QED
      BY <1>1, <2>1, <2>2, InternalTiles
  <1>4. NextBlock(chain, Program) = MemEnd + 1
    <2>1. Wrapped(MemEnd + 1) = MemEnd + 1
      BY Constants, WrappedIs
    <2>2. Program + Room + 1 = MemEnd + 1
      BY Constants
    <2>3. QED
      BY <1>1, <2>1, <2>2 DEF NextBlock
  <1>5. Tile(chain, Program)
    BY <1>1, <1>2, <1>4, LastTile
  <1>6. QED
    BY <1>1, <1>3, <1>5

LEMMA HalvesTiles ==
  ASSUME NEW chain, NEW owner, NEW size \in 0 .. Room, Halves(chain, owner, size)
  PROVE  \A s \in DOMAIN chain : Tile(chain, s)
  <1> DEFINE free == Program + 1 + size
  <1>1. /\ DOMAIN chain = InternalPlaces \cup {Program, free} /\ InternalBlocks(chain)
        /\ chain[Program].type = "CONT" /\ chain[free].type = "END"
    BY DEF Halves, Block, Cont
  <1>2. free \in Nat /\ Program < free
    BY Constants
  <1>3. NextBlock(chain, Program) = free /\ NextBlock(chain, free) = MemEnd + 1
    BY HalvesNext
  <1> HIDE DEF free
  <1>4. /\ DOMAIN chain \subseteq Int /\ \A u \in DOMAIN chain : u <= free
        /\ \A u \in DOMAIN chain : u <= Program \/ u >= free
    BY <1>1, <1>2, Constants DEF InternalPlaces
  <1>5. \A s \in InternalPlaces : Tile(chain, s)
    <2>1. InternalPlaces \cup {Program} \subseteq DOMAIN chain
      BY <1>1
    <2>2. \A s \in DOMAIN chain : s \in InternalPlaces \/ (s \in Nat /\ s >= Program)
      BY <1>1, <1>2, Constants
    <2>3. QED
      BY <1>1, <2>1, <2>2, InternalTiles
  <1>6. Tile(chain, Program)
    BY <1>1, <1>2, <1>3, <1>4, NextTile
  <1>7. Tile(chain, free)
    BY <1>1, <1>3, <1>4, LastTile
  <1>8. QED
    BY <1>1, <1>5, <1>6, <1>7

LEMMA ThirdsTiles ==
  ASSUME NEW chain, NEW owner, NEW size \in 0 .. Room, NEW rest \in 0 .. Room,
         size + 1 + rest <= Room, Thirds(chain, owner, size, rest)
  PROVE  \A s \in DOMAIN chain : Tile(chain, s)
  <1> DEFINE free == Program + 1 + size
             last == Program + 2 + size + rest
  <1>1. /\ DOMAIN chain = InternalPlaces \cup {Program, free, last} /\ InternalBlocks(chain)
        /\ chain[Program].type = "CONT" /\ chain[free].type = "CONT" /\ chain[last].type = "END"
    BY DEF Thirds, Block, Cont
  <1>2. free \in Nat /\ last \in Nat /\ Program < free /\ free < last
    BY Constants
  <1>3. /\ NextBlock(chain, Program) = free /\ NextBlock(chain, free) = last
        /\ NextBlock(chain, last) = MemEnd + 1
    BY ThirdsNext
  <1> HIDE DEF free, last
  <1>4. /\ DOMAIN chain \subseteq Int /\ \A u \in DOMAIN chain : u <= last
        /\ \A u \in DOMAIN chain : u <= Program \/ u >= free
        /\ \A u \in DOMAIN chain : u <= free \/ u >= last
    BY <1>1, <1>2, Constants DEF InternalPlaces
  <1>5. \A s \in InternalPlaces : Tile(chain, s)
    <2>1. InternalPlaces \cup {Program} \subseteq DOMAIN chain
      BY <1>1
    <2>2. \A s \in DOMAIN chain : s \in InternalPlaces \/ (s \in Nat /\ s >= Program)
      BY <1>1, <1>2, Constants
    <2>3. QED
      BY <1>1, <2>1, <2>2, InternalTiles
  <1>6. Tile(chain, Program)
    BY <1>1, <1>2, <1>3, <1>4, NextTile
  <1>7. Tile(chain, free)
    BY <1>1, <1>2, <1>3, <1>4, NextTile
  <1>8. Tile(chain, last)
    BY <1>1, <1>3, <1>4, LastTile
  <1>9. QED
    BY <1>1, <1>5, <1>6, <1>7, <1>8

LEMMA ShapeTiles ==
  ASSUME NEW chain, NEW owner, Shape(chain, owner)
  PROVE  MemStart \in DOMAIN chain /\ \A s \in DOMAIN chain : Tile(chain, s)
  <1>1. CASE Whole(chain, owner)
    BY <1>1, WholeTiles DEF Whole, InternalPlaces
  <1>2. CASE \E size \in 0 .. Room : Halves(chain, owner, size)
    BY <1>2, HalvesTiles DEF Halves, InternalPlaces
  <1>3. CASE Split(chain, owner)
    BY <1>3, ThirdsTiles DEF Split, Thirds, InternalPlaces
  <1>4. QED
    BY <1>1, <1>2, <1>3 DEF Shape, Tidy

\* A control block as the type invariant has it.
Typed(chain, owner, s) ==
  /\ s \in 0 .. Words - 1
  /\ chain[s].type \in {"CONT", "END"}
  /\ chain[s].size \in 0 .. Words - 1
  /\ chain[s].psp \in {FREE, DOS, 64} \/ (s = Program /\ chain[s].psp = owner)

LEMMA RemainderTyped ==
  ASSUME NEW size \in 0 .. Room
  PROVE  Remainder(Room, size) \in 0 .. Words - 1
  <1>1. Remainder(Room, size) = IF size = Room THEN Words - 1 ELSE Room - 1 - size
    BY RemainderIs, Constants
  <1>2. QED
    BY <1>1, Constants

LEMMA InternalTyped ==
  ASSUME NEW chain, NEW owner, InternalBlocks(chain)
  PROVE  \A s \in InternalPlaces : Typed(chain, owner, s)
  BY Constants DEF InternalPlaces, InternalBlocks, Typed, Cont, Block, DOS

LEMMA ShapeTyped ==
  ASSUME NEW chain, NEW owner, Shape(chain, owner)
  PROVE  \A s \in DOMAIN chain : Typed(chain, owner, s)
  <1>1. CASE Whole(chain, owner)
    <2>1. Typed(chain, owner, Program)
      BY <1>1, Constants DEF Whole, Typed, Block
    <2>2. QED
      BY <1>1, <2>1, InternalTyped DEF Whole
  <1>2. CASE \E size \in 0 .. Room : Halves(chain, owner, size)
    <2>1. PICK size \in 0 .. Room : Halves(chain, owner, size)
      BY <1>2
    <2>2. Typed(chain, owner, Program)
      BY <2>1, Constants DEF Halves, Typed, Cont, Block
    <2>3. Typed(chain, owner, Program + 1 + size)
      BY <2>1, RemainderTyped, Constants DEF Halves, Typed, Block
    <2>4. QED
      BY <2>1, <2>2, <2>3, InternalTyped DEF Halves
  <1>3. CASE Split(chain, owner)
    <2>1. PICK size \in 0 .. Room, rest \in 0 .. Room :
            size + 1 + rest <= Room /\ Thirds(chain, owner, size, rest)
      BY <1>3 DEF Split
    <2>2. Typed(chain, owner, Program)
      BY <2>1, Constants DEF Thirds, Typed, Cont, Block
    <2>3. Typed(chain, owner, Program + 1 + size)
      BY <2>1, Constants DEF Thirds, Typed, Cont, Block
    <2>4. Typed(chain, owner, Program + 2 + size + rest)
      <3>1. size + 1 + rest \in 0 .. Room
        BY <2>1, Constants
      <3>2. Remainder(Room, size + 1 + rest) \in 0 .. Words - 1
        BY <3>1, RemainderTyped
      <3>3. QED
        BY <2>1, <3>2, Constants DEF Thirds, Typed, Block
    <2>5. QED
      BY <2>1, <2>2, <2>3, <2>4, InternalTyped DEF Thirds
  <1>4. QED
    BY <1>1, <1>2, <1>3 DEF Shape, Tidy

LEMMA CompactShape ==
  ASSUME NEW chain, NEW owner \in Owners, Shape(chain, owner)
  PROVE  Tidy(Compact(chain), owner)
  <1>0. owner # FREE
    BY Constants DEF Owners, FREE
  <1>1. CASE Whole(chain, owner)
    BY <1>1, CompactWhole DEF Tidy
  <1>2. CASE \E size \in 0 .. Room : Halves(chain, owner, size)
    <2>1. PICK size \in 0 .. Room : Halves(chain, owner, size)
      BY <1>2
    <2>2. Compact(chain) = chain
      BY <1>0, <2>1, CompactHalves
    <2>3. QED
      BY <2>1, <2>2 DEF Tidy
  <1>3. CASE Split(chain, owner)
    <2>1. PICK size \in 0 .. Room, rest \in 0 .. Room :
            size + 1 + rest <= Room /\ Thirds(chain, owner, size, rest)
      BY <1>3 DEF Split
    <2>2. Halves(Compact(chain), owner, size)
      BY <1>0, <2>1, CompactThirds
    <2>3. QED
      BY <2>2 DEF Tidy
  <1>4. QED
    BY <1>1, <1>2, <1>3 DEF Shape, Tidy

\* A resize of a compacted chain is answered as it should be, and leaves the
\* block the owner's it was, or makes it the program's that asked.
LEMMA ResizedTidy ==
  ASSUME NEW chain, NEW owner, Tidy(chain, owner), NEW psp, NEW size \in 0 .. Words - 1,
         NEW done, done = Resized(chain, Program + 1, size, psp)
  PROVE  Answered(done, size) /\ (Shape(done.chain, owner) \/ Shape(done.chain, psp))
  <1>1. CASE Whole(chain, owner)
    <2>1. /\ Answered(done, size)
          /\ done.chain = chain \/ (size \in 0 .. Room /\ Halves(done.chain, psp, size))
      BY <1>1, ResizedWhole
    <2>2. QED
      BY <2>1 DEF Shape, Tidy
  <1>2. CASE \E was \in 0 .. Room : Halves(chain, owner, was)
    <2>1. PICK was \in 0 .. Room : Halves(chain, owner, was)
      BY <1>2
    <2>2. /\ Answered(done, size)
          /\ \/ done.chain = chain
             \/ size \in 0 .. Room /\ Halves(done.chain, psp, size)
             \/ /\ size \in 0 .. Room /\ was - 1 - size \in 0 .. Room
                /\ size + 1 + (was - 1 - size) <= Room
                /\ Thirds(done.chain, psp, size, was - 1 - size)
      BY <2>1, ResizedHalves
    <2>3. QED
      BY <2>2 DEF Shape, Tidy, Split
  <1>3. QED
    BY <1>1, <1>2 DEF Tidy

-----------------------------------------------------------------------------
(* The loading of the program.                                             *)

LEMMA InitialWhole == Whole(InitialChain, FREE)
  <1>1. /\ MemStart # MemStart + 2 /\ MemStart # MemStart + 7 /\ MemStart # Program
        /\ MemStart + 2 # MemStart + 7 /\ MemStart + 2 # Program /\ MemStart + 7 # Program
    BY Constants
  <1>2. DOMAIN InitialChain = InternalPlaces \cup {Program}
    BY DEF InitialChain, InternalPlaces, Program
  <1>3. InternalBlocks(InitialChain)
    BY <1>1 DEF InitialChain, InternalBlocks, Program
  <1>4. InitialChain[Program] = Block("END", FREE, Room)
    BY <1>1 DEF InitialChain, Program, Room
  <1>5. QED
    BY <1>2, <1>3, <1>4 DEF Whole

LEMMA InitialLargest == Largest(InitialChain) = Room
  <1> DEFINE sizes == {InitialChain[s].size : s \in {t \in DOMAIN InitialChain : IsFree(InitialChain, t)}}
  <1>1. \A s \in InternalPlaces : ~IsFree(InitialChain, s)
    BY InitialWhole, InternalNext DEF Whole
  <1>2. IsFree(InitialChain, Program) /\ InitialChain[Program].size = Room
    BY InitialWhole DEF Whole, IsFree, Block
  <1>3. DOMAIN InitialChain = InternalPlaces \cup {Program}
    BY InitialWhole DEF Whole
  <1>4. {t \in DOMAIN InitialChain : IsFree(InitialChain, t)} = {Program}
    BY <1>1, <1>2, <1>3
  <1>5. sizes = {Room}
    BY <1>2, <1>4
  <1>6. Max({Room} \cup {0}) = Room
    BY MaxIs, Constants
  <1>7. QED
    BY <1>5, <1>6 DEF Largest

LEMMA SearchInitial ==
  ASSUME NEW size \in 0 .. Room
  PROVE  Search(InitialChain, size) = Program /\ Fits(InitialChain, Program, size)
  <1>1. Fits(InitialChain, Program, size)
    BY InitialWhole, Constants DEF Whole, Fits, IsFree, Block
  <1>2. \A s \in InternalPlaces : SearchOnce(InitialChain, size, s) = NextBlock(InitialChain, s)
    BY InitialWhole, InternalNext DEF Whole, SearchOnce, Fits
  <1>3. /\ SearchOnce(InitialChain, size, MemStart) = MemStart + 2
        /\ SearchOnce(InitialChain, size, MemStart + 2) = MemStart + 7
        /\ SearchOnce(InitialChain, size, MemStart + 7) = Program
    BY <1>2, InitialWhole, InternalNext DEF Whole, InternalPlaces
  <1>4. SearchOnce(InitialChain, size, Program) = Program
    BY <1>1 DEF SearchOnce
  <1>5. Rounds(InitialChain) = 4
    BY InitialWhole, FourBlocks DEF Rounds, Whole
  <1>6. QED
    BY <1>1, <1>3, <1>4, <1>5, SearchEnds

\* The program's block is the first one behind DOS's own.
LEMMA AllocateInitial ==
  ASSUME NEW size \in 0 .. Room
  PROVE  /\ Allocate(InitialChain, size).seg = Program + 1
         /\ Tidy(Allocate(InitialChain, size).chain, Program)
  <1> DEFINE chain == AllocatedAt(InitialChain, Program, size)
  <1>1. Compact(InitialChain) = InitialChain
    BY InitialWhole, CompactWhole
  <1>2. Wrapped(Program + 1) = Program + 1
    BY Constants, WrappedIs
  <1>3. Allocate(InitialChain, size) = [seg |-> Program + 1, chain |-> chain]
    <2> HIDE DEF chain
    <2>1. Allocate(InitialChain, size) = [seg |-> Wrapped(Program + 1), chain |-> chain]
      BY <1>1, SearchInitial DEF Allocate, chain
    <2>2. QED
      BY <1>2, <2>1
  <1>4. /\ DOMAIN InitialChain = InternalPlaces \cup {Program} /\ InternalBlocks(InitialChain)
        /\ InitialChain[Program] = Block("END", FREE, Room)
    BY InitialWhole DEF Whole
  <1>5. CASE size = Room
    <2>1. chain = [InitialChain EXCEPT ![Program].psp = Program]
      BY <1>4, <1>5 DEF AllocatedAt, Block
    <2>2. Program \notin InternalPlaces
      BY Constants DEF InternalPlaces
    <2>3. /\ DOMAIN chain = InternalPlaces \cup {Program}
          /\ \A s \in InternalPlaces : chain[s] = InitialChain[s]
      BY <1>4, <2>1, <2>2
    <2>4. chain[Program] = Block("END", Program, Room)
      BY <1>4, <2>1 DEF Block
    <2> HIDE DEF chain
    <2>5. Whole(chain, Program)
      BY <1>4, <2>3, <2>4, InternalKept DEF Whole
    <2>6. QED
      BY <1>3, <2>5 DEF Tidy
  <1>6. CASE size # Room
    <2>1. Wrapped(Program + 1 + size) = Program + 1 + size
      BY Constants, WrappedIs
    <2>2. chain = Put(Put(InitialChain, Program, Cont(Program, size)), Program + 1 + size,
                      Block("END", FREE, Remainder(Room, size)))
      BY <1>4, <1>6, <2>1 DEF AllocatedAt, Block
    <2>3. /\ InternalPlaces \subseteq DOMAIN InitialChain
          /\ DOMAIN InitialChain \subseteq InternalPlaces \cup {Program, Program + 1 + size}
      BY <1>4
    <2> HIDE DEF chain
    <2>4. Halves(chain, Program, size)
      BY <1>4, <2>2, <2>3, SplitLast
    <2>5. QED
      BY <1>3, <2>4 DEF Tidy
  <1>7. QED
    BY <1>5, <1>6

LEMMA ImageIs ==
  ASSUME file \in Files
  PROVE  Image \in Nat /\ 0 < Image /\ file.max \in Nat /\ file.read \in Nat
  <1>1. {file.pages, file.header, file.read, file.min, file.max} \subseteq Nat
    BY DosAssumption
  <1>2. Max({file.pages, 1}) \in Nat
    <2> DEFINE pages == file.pages
    <2>1. pages \in Nat
      BY <1>1
    <2> HIDE DEF pages
    <2>2. Max({pages, 1}) = IF pages >= 1 THEN pages ELSE 1
      <3>1. CASE pages >= 1
        BY <2>1, <3>1, MaxIs
      <3>2. CASE ~(pages >= 1)
        BY <2>1, <3>2, MaxIs
      <3>3. QED
        BY <3>1, <3>2
    <2>3. Max({pages, 1}) \in Nat
      BY <2>1, <2>2
    <2>4. QED
      BY <2>3 DEF pages
  <1>3. file.header < 32 * Max({file.pages, 1})
    BY DosAssumption
  <1>4. QED
    BY <1>1, <1>2, <1>3 DEF Image

LEMMA WantedIs ==
  ASSUME file \in Files, mcb = InitialChain
  PROVE  /\ Wanted = IF Image + file.max <= Room THEN Image + file.max ELSE Room
         /\ Wanted \in 0 .. Room
  <1>1. Image \in Nat /\ file.max \in Nat
    BY ImageIs
  <1> DEFINE asked == Image + file.max
  <1>2. asked \in Nat
    BY <1>1
  <1>3. Wanted = Min({asked, Room})
    BY InitialLargest DEF Wanted
  <1> HIDE DEF asked
  <1>4. Min({asked, Room}) = IF asked <= Room THEN asked ELSE Room
    <2>1. CASE asked <= Room
      BY <1>2, <2>1, MinIs, Constants
    <2>2. CASE ~(asked <= Room)
      BY <1>2, <2>2, MinIs, Constants
    <2>3. QED
      BY <2>1, <2>2
  <1>5. QED
    BY <1>2, <1>3, <1>4, Constants DEF asked

-----------------------------------------------------------------------------
(* The invariant.                                                          *)

LEMMA InitDosInv == DosInit => DosInv
  <1> SUFFICES ASSUME DosInit PROVE DosInv
    OBVIOUS
  <1>1. answer.bx \in 0 .. Words - 1
    BY Constants DEF DosInit
  <1>2. ImageInItsBlock
    BY DEF DosInit, ImageInItsBlock
  <1>3. QED
    BY <1>1, <1>2 DEF DosInit, DosInv

LEMMA RefusePreserves ==
  ASSUME DosInv, RefuseProgram
  PROVE  DosInv'
  <1>1. /\ phase = "loading" /\ phase' = "stopped"
        /\ mcb' = mcb /\ current_psp' = current_psp /\ file' = file /\ answer' = answer
    BY DEF RefuseProgram
  <1>2. ImageInItsBlock'
    BY <1>1 DEF ImageInItsBlock
  <1>3. QED
    BY <1>1, <1>2 DEF DosInv

LEMMA LoadPreserves ==
  ASSUME DosInv, LoadProgram
  PROVE  DosInv'
  <1> DEFINE block == Allocate(mcb, Wanted)
             loads == file.read < Image /\ ~file.relocations
  <1>1. /\ phase = "loading" /\ mcb = InitialChain /\ current_psp = 0
        /\ file \in Files /\ answer.bx \in 0 .. Words - 1
    BY DEF DosInv, LoadProgram
  <1>2. block.seg = Program + 1 /\ Tidy(block.chain, Program)
    BY <1>1, WantedIs, AllocateInitial
  <1> HIDE DEF block, loads
  <1>3. /\ mcb' = block.chain
        /\ current_psp' = IF loads THEN block.seg ELSE current_psp
        /\ phase' = IF ~loads THEN "stopped"
                    ELSE IF 16 + file.read <= Wanted THEN "running" ELSE "overrun"
        /\ file' = file /\ answer' = answer
    BY DEF LoadProgram, block, loads
  <1>4. Tidy(mcb', Program)
    BY <1>2, <1>3
  <1>5. CASE ~loads
    <2>1. phase' = "stopped" /\ current_psp' = 0
      BY <1>1, <1>3, <1>5
    <2>2. ImageInItsBlock'
      BY <2>1 DEF ImageInItsBlock
    <2>3. QED
      BY <1>1, <1>3, <1>4, <2>1, <2>2 DEF DosInv
  <1>6. CASE loads
    <2>1. phase' = IF 16 + file.read <= Wanted THEN "running" ELSE "overrun"
      BY <1>3, <1>6
    <2>2. current_psp' = Program + 1
      BY <1>2, <1>3, <1>6
    <2>3. ASSUME phase' = "overrun"
          PROVE  file.max < 16 \/ Image + 16 > Room
      <3>1. ~(16 + file.read <= Wanted) /\ file.read < Image
        BY <1>6, <2>1, <2>3 DEF loads
      <3>2. Wanted = IF Image + file.max <= Room THEN Image + file.max ELSE Room
        BY <1>1, WantedIs
      <3>3. Image \in Nat /\ file.max \in Nat /\ file.read \in Nat
        BY <1>1, ImageIs
      <3>4. QED
        BY <3>1, <3>2, <3>3, Constants
    <2>4. ImageInItsBlock'
      BY <1>3, <2>3, InitialLargest DEF ImageInItsBlock, Image
    <2>5. Shape(mcb', Program) /\ Program \in Owners
      BY <1>4 DEF Shape, Owners
    <2>6. QED
      BY <1>1, <1>3, <2>1, <2>2, <2>4, <2>5 DEF DosInv
  <1>7. QED
    BY <1>5, <1>6

\* What a resize by the running program does to its chain.
LEMMA RunningResize ==
  ASSUME DosInv, phase = "running", NEW size \in 0 .. Words - 1,
         NEW done, done = Resized(Compact(mcb), current_psp, size, current_psp)
  PROVE  /\ current_psp = Program + 1
         /\ Answered(done, size)
         /\ \E owner \in Owners : Shape(done.chain, owner)
  <1>1. current_psp = Program + 1
    BY DEF DosInv
  <1>2. PICK owner \in Owners : Shape(mcb, owner)
    BY DEF DosInv
  <1>3. Tidy(Compact(mcb), owner)
    BY <1>2, CompactShape
  <1>4. done = Resized(Compact(mcb), Program + 1, size, current_psp)
    BY <1>1
  <1>5. Answered(done, size) /\ (Shape(done.chain, owner) \/ Shape(done.chain, current_psp))
    BY <1>3, <1>4, ResizedTidy
  <1>6. QED
    BY <1>1, <1>5 DEF Owners

LEMMA ResizePreserves ==
  ASSUME DosInv, NEW size \in 0 .. Words - 1, Resize(size)
  PROVE  DosInv'
  <1> DEFINE done == Resized(Compact(mcb), current_psp, size, current_psp)
  <1>1. /\ phase = "running" /\ mcb' = done.chain
        /\ answer' = [ok |-> done.ok, bx |-> done.bx]
        /\ current_psp' = current_psp /\ file' = file /\ phase' = phase
    BY DEF Resize
  <1>2. /\ current_psp = Program + 1 /\ Answered(done, size)
        /\ \E owner \in Owners : Shape(done.chain, owner)
    BY <1>1, RunningResize
  <1> HIDE DEF done
  <1>3. answer'.bx \in 0 .. Words - 1
    <2>1. done.bx = IF size <= Room THEN size ELSE Room
      BY <1>2 DEF Answered
    <2>2. answer'.bx = done.bx
      BY <1>1
    <2>3. QED
      BY <2>1, <2>2, Constants
  <1>4. ImageInItsBlock'
    BY <1>1 DEF ImageInItsBlock
  <1>5. file \in Files
    BY DEF DosInv
  <1>6. QED
    BY <1>1, <1>2, <1>3, <1>4, <1>5 DEF DosInv

LEMMA TerminatePreserves ==
  ASSUME DosInv, Terminate
  PROVE  DosInv'
  <1>1. /\ phase = "running" /\ phase' = "stopped"
        /\ mcb' = mcb /\ current_psp' = current_psp /\ file' = file /\ answer' = answer
    BY DEF Terminate
  <1>2. ImageInItsBlock'
    BY <1>1 DEF ImageInItsBlock
  <1>3. QED
    BY <1>1, <1>2 DEF DosInv

LEMMA NextDosInv == DosInv /\ [DosNext]_dosVars => DosInv'
  <1> SUFFICES ASSUME DosInv, [DosNext]_dosVars PROVE DosInv'
    OBVIOUS
  <1>1. CASE RefuseProgram
    BY <1>1, RefusePreserves
  <1>2. CASE LoadProgram
    BY <1>2, LoadPreserves
  <1>3. CASE \E size \in 0 .. Words - 1 : Resize(size)
    BY <1>3, ResizePreserves
  <1>4. CASE Terminate
    BY <1>4, TerminatePreserves
  <1>5. CASE UNCHANGED dosVars
    BY <1>5 DEF dosVars, DosInv, ImageInItsBlock, Image
  <1>6. QED
    BY <1>1, <1>2, <1>3, <1>4, <1>5 DEF DosNext

LEMMA DosInvHolds == DosSpec => []DosInv
  BY InitDosInv, NextDosInv, PTL DEF DosSpec

LEMMA DosShaped ==
  ASSUME DosInv
  PROVE  \E owner : Shape(mcb, owner) /\ (owner = Program \/ owner = current_psp \/ owner = FREE)
  <1>1. CASE mcb = InitialChain
    BY <1>1, InitialWhole DEF Shape, Tidy
  <1>2. CASE Tidy(mcb, Program)
    BY <1>2 DEF Shape
  <1>3. CASE current_psp = Program + 1 /\ \E owner \in Owners : Shape(mcb, owner)
    BY <1>3 DEF Owners
  <1>4. QED
    BY <1>1, <1>2, <1>3 DEF DosInv

\* DOS's state is of its types: every control block is free, DOS's own, the
\* data area's, the program's or its own, with a size that is a word.
THEOREM DosTypeCorrect == DosSpec => []DosTypeOK
  <1>1. DosInv => DosTypeOK
    <2> SUFFICES ASSUME DosInv PROVE DosTypeOK
      OBVIOUS
    <2>1. PICK owner : Shape(mcb, owner) /\ (owner = Program \/ owner = current_psp \/ owner = FREE)
      BY DosShaped
    <2>2. ASSUME NEW s \in DOMAIN mcb
          PROVE  /\ s \in 0 .. Words - 1 /\ mcb[s].type \in {"CONT", "END"}
                 /\ mcb[s].size \in 0 .. Words - 1
                 /\ mcb[s].psp \in {FREE, DOS, 64, current_psp, s}
      <3>1. Typed(mcb, owner, s)
        BY <2>1, ShapeTyped
      <3>2. QED
        BY <2>1, <3>1 DEF Typed
    <2>3. current_psp \in 0 .. MemEnd
      BY Constants DEF DosInv
    <2>4. phase \in {"loading", "running", "overrun", "stopped"} /\ answer.bx \in 0 .. Words - 1
      BY DEF DosInv
    <2>5. QED
      BY <2>2, <2>3, <2>4 DEF DosTypeOK
  <1>2. QED
    BY <1>1, DosInvHolds, PTL

\* However often the program resizes its block, and whatever the sizes, the
\* chain of control blocks has no gap and no overlap and ends with the memory:
\* dp_dosblock_mem_resize splits and joins blocks without losing a paragraph.
THEOREM DosChainTilesMemory == DosSpec => []ChainTilesMemory
  <1>1. DosInv => ChainTilesMemory
    <2> SUFFICES ASSUME DosInv PROVE ChainTilesMemory
      OBVIOUS
    <2>1. MemStart \in DOMAIN mcb /\ \A s \in DOMAIN mcb : Tile(mcb, s)
      BY DosShaped, ShapeTiles
    <2>2. QED
      BY <2>1 DEF ChainTilesMemory, Tile
  <1>2. QED
    BY <1>1, DosInvHolds, PTL

\* After any resizes, dp_dosblock_mem_resize grants every size up to the end
\* of memory and no other, and tells the largest one when it refuses.
THEOREM DosResizeGrantsWhatThereIs == DosSpec => []ResizeGrantsWhatThereIs
  <1>1. DosInv => ResizeGrantsWhatThereIs
    <2> SUFFICES ASSUME DosInv, phase = "running", NEW size \in 0 .. Words - 1
                 PROVE  LET room == (MemEnd + 1) - current_psp
                            done == Resized(Compact(mcb), current_psp, size, current_psp)
                        IN  /\ done.ok = (size <= room)
                            /\ done.bx = IF size <= room THEN size ELSE room
                            /\ done.ok => done.chain[current_psp - 1].size = size
      BY DEF ResizeGrantsWhatThereIs
    <2> DEFINE done == Resized(Compact(mcb), current_psp, size, current_psp)
    <2>1. current_psp = Program + 1 /\ Answered(done, size)
      BY RunningResize
    <2> HIDE DEF done
    <2>2. (MemEnd + 1) - current_psp = Room /\ current_psp - 1 = Program
      BY <2>1, Constants
    <2>3. LET room == (MemEnd + 1) - current_psp
          IN  /\ done.ok = (size <= room)
              /\ done.bx = IF size <= room THEN size ELSE room
              /\ done.ok => done.chain[current_psp - 1].size = size
      BY <2>1, <2>2 DEF Answered
    <2>4. QED
      BY <2>3 DEF done
  <1>2. QED
    BY <1>1, DosInvHolds, PTL

\* For any file: what dp_dosblock_load reads spares the control block behind
\* the program's block, if the file asks for 16 paragraphs more than its image
\* and they are there.
THEOREM DosImageInItsBlock == DosSpec => []ImageInItsBlock
  <1>1. DosInv => ImageInItsBlock
    BY DEF DosInv
  <1>2. QED
    BY <1>1, DosInvHolds, PTL
=============================================================================
