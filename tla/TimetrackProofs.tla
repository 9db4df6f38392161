-------------------------- MODULE TimetrackProofs ---------------------------
(***************************************************************************)
(* Proofs about Timetrack, for any callbacks, delays and size of the       *)
(* table: the two linked lists divide the table, and they implement the    *)
(* abstract queue of timed events.                                         *)
(***************************************************************************)
EXTENDS Timetrack, SequenceTheorems, FiniteSetTheorems, WellFoundedInduction, TLAPS

-----------------------------------------------------------------------------
(***************************************************************************)
(* Chain finds a list that is there.                                       *)
(***************************************************************************)

\* Every set of numbers has a least one.
LEMMA LeastOfNaturals ==
  ASSUME NEW T \in SUBSET Nat, T # {}
  PROVE  \E n \in T : \A m \in T : n <= m
  <1> DEFINE R == {ss \in Nat \X Nat : ss[1] < ss[2]}
  <1>1. IsWellFoundedOn(R, Nat)
    BY NatLessThanWellFounded DEF OpToRel
  <1>2. PICK n \in T : \A m \in T : <<m, n>> \notin R
    <2> HIDE DEF R
    <2> QED
      BY <1>1, WFMin
  <1>3. \A m \in T : m \in Nat /\ n \in Nat /\ ~(m < n)
    BY <1>2
  <1>4. QED
    BY <1>3

\* A sequence of nodes without repetition that the links of the table follow.
IsList(table, start, list) ==
  /\ list \in Seq(Index)
  /\ Len(list) \in 0..MaxEvents
  /\ start = NodeAt(list, 1)
  /\ \A k \in 1..Len(list) : table[list[k]].next_event = NodeAt(list, k + 1)

Distinct(list) == \A j, k \in 1..Len(list) : list[j] = list[k] => j = k

\* The nodes of a list, and Null after them, are a walk along its links.
LEMMA WalkAlong ==
  ASSUME NEW table, NEW start, NEW list, IsList(table, start, list)
  PROVE  Walk(table, start) = [n \in 0..MaxEvents |-> NodeAt(list, n + 1)]
  <1> DEFINE size == Len(list)
             nodes == [n \in 0..MaxEvents |-> NodeAt(list, n + 1)]
             Follows(at) ==
               at = [n \in 0..MaxEvents |->
                       IF n = 0 THEN start
                       ELSE IF at[n - 1] = Null THEN Null
                       ELSE table[at[n - 1]].next_event]
  <1>1. /\ MaxEvents \in Nat \ {0} /\ size \in 0..MaxEvents
        /\ start = NodeAt(list, 1)
        /\ \A k \in 1..size : list[k] \in Index /\ table[list[k]].next_event = NodeAt(list, k + 1)
    <2>1. list \in Seq(Index)
      BY DEF IsList
    <2>2. \A k \in 1..size : list[k] \in Index
      BY <2>1
    <2>3. QED
      BY <2>2, TimetrackAssumption DEF IsList
  <1>2. \A k \in 1..size : list[k] # Null
    BY <1>1 DEF Index, Null
  <1>3. ASSUME NEW n \in 1..MaxEvents
        PROVE  nodes[n] = IF nodes[n - 1] = Null THEN Null
                          ELSE table[nodes[n - 1]].next_event
    <2>1. n - 1 \in 0..MaxEvents /\ nodes[n - 1] = NodeAt(list, n) /\ nodes[n] = NodeAt(list, n + 1)
      BY <1>1
    <2>2. CASE n <= size
      BY <1>1, <1>2, <2>1, <2>2 DEF NodeAt
    <2>3. CASE n > size
      BY <1>1, <2>1, <2>3 DEF NodeAt
    <2>4. QED
      BY <1>1, <2>2, <2>3
  <1>4. Follows(nodes)
    <2>1. nodes[0] = start
      BY <1>1
    <2>2. \A n \in 0..MaxEvents :
            nodes[n] = IF n = 0 THEN start
                       ELSE IF nodes[n - 1] = Null THEN Null
                       ELSE table[nodes[n - 1]].next_event
      <3> SUFFICES ASSUME NEW n \in 0..MaxEvents
                   PROVE  nodes[n] = IF n = 0 THEN start
                                     ELSE IF nodes[n - 1] = Null THEN Null
                                     ELSE table[nodes[n - 1]].next_event
        OBVIOUS
      <3>1. CASE n = 0
        BY <2>1, <3>1
      <3>2. CASE n # 0
        <4>1. n \in 1..MaxEvents
          BY <1>1, <3>2
        <4> HIDE DEF nodes
        <4>2. QED
          BY <1>3, <3>2, <4>1
      <3>3. QED
        BY <3>1, <3>2
    <2> DEFINE next == [n \in 0..MaxEvents |->
                          IF n = 0 THEN start
                          ELSE IF nodes[n - 1] = Null THEN Null
                          ELSE table[nodes[n - 1]].next_event]
    <2>3. \A n \in 0..MaxEvents : nodes[n] = next[n]
      BY <2>2
    <2>4. QED
      BY <2>3
  <1>5. ASSUME NEW at, Follows(at)
        PROVE  at = nodes
    <2> DEFINE wrong == {n \in 0..MaxEvents : at[n] # nodes[n]}
    <2>1. \A n \in 0..MaxEvents :
            at[n] = IF n = 0 THEN start
                    ELSE IF at[n - 1] = Null THEN Null
                    ELSE table[at[n - 1]].next_event
      BY <1>5
    <2>2. CASE wrong # {}
      <3>1. PICK n \in wrong : \A m \in wrong : n <= m
        <4>1. wrong \in SUBSET Nat
          BY <1>1
        <4> HIDE DEF wrong
        <4>2. QED
          BY <2>2, <4>1, LeastOfNaturals
      <3>2. n # 0
        BY <1>1, <2>1, <3>1
      <3>3. n - 1 \in 0..MaxEvents /\ n - 1 \notin wrong /\ n \in 1..MaxEvents
        BY <1>1, <3>1, <3>2
      <3>4. at[n - 1] = nodes[n - 1]
        BY <3>3
      <3>5. at[n] = nodes[n]
        BY <1>3, <2>1, <3>2, <3>3, <3>4
      <3>6. QED
        BY <3>1, <3>5
    <2>3. CASE wrong = {}
      BY <1>5, <2>3
    <2>4. QED
      BY <2>2, <2>3
  <1>6. QED
    <2> DEFINE at == CHOOSE at : Follows(at)
    <2> HIDE DEF Follows, nodes
    <2>1. Follows(at)
      BY <1>4
    <2>2. at = nodes
      BY <1>5, <2>1
    <2>3. Walk(table, start) = at
      BY DEF Walk, Follows
    <2>4. QED
      BY <2>2, <2>3 DEF nodes

LEMMA ChainOf ==
  ASSUME NEW table, NEW start, NEW list, IsList(table, start, list)
  PROVE  Chain(table, start) = list
  <1> DEFINE size == Len(list)
             at == Walk(table, start)
             ends == {n \in 0..MaxEvents : at[n] = Null}
             length == IF ends = {} THEN MaxEvents + 1
                       ELSE CHOOSE n \in ends : \A m \in ends : n <= m
  <1>1. /\ MaxEvents \in Nat \ {0} /\ size \in 0..MaxEvents
        /\ list \in Seq(Index)
    BY TimetrackAssumption DEF IsList
  <1>2. \A k \in 1..size : list[k] \in Index /\ list[k] # Null
    <2>1. \A k \in 1..size : list[k] \in Index
      BY <1>1
    <2>2. QED
      BY <2>1 DEF Index, Null
  <1>3. at = [n \in 0..MaxEvents |-> NodeAt(list, n + 1)]
    BY WalkAlong
  <1> HIDE DEF at
  <1>4. \A n \in 0..MaxEvents : at[n] = IF n + 1 <= size THEN list[n + 1] ELSE Null
    BY <1>3 DEF NodeAt
  <1>5. ends = size..MaxEvents
    <2>1. ASSUME NEW n \in 0..MaxEvents PROVE at[n] = Null <=> size <= n
      <3>1. CASE n + 1 <= size
        <4>1. n + 1 \in 1..size
          BY <1>1, <3>1
        <4>2. QED
          BY <1>1, <1>2, <1>4, <3>1, <4>1
      <3>2. CASE ~(n + 1 <= size)
        BY <1>1, <1>4, <3>2
      <3>3. QED
        BY <3>1, <3>2
    <2>2. QED
      BY <1>1, <2>1
  <1>6. length = size
    <2>1. size \in ends /\ \A n \in ends : size <= n /\ n \in Nat
      BY <1>1, <1>5
    <2> DEFINE least == CHOOSE n \in ends : \A m \in ends : n <= m
    <2> HIDE DEF ends
    <2>2. least \in ends /\ \A m \in ends : least <= m
      BY <2>1
    <2>3. least = size
      BY <1>1, <2>1, <2>2
    <2>4. QED
      BY <2>1, <2>3
  <1>7. Chain(table, start) = [n \in 1..length |-> at[n - 1]]
    BY DEF Chain, at
  <1> HIDE DEF length
  <1>8. \A n \in 1..size : at[n - 1] = list[n]
    BY <1>1, <1>4, SMTT(60)
  <1>9. list = [n \in 1..size |-> list[n]]
    BY <1>1
  <1>10. QED
    BY <1>6, <1>7, <1>8, <1>9

-----------------------------------------------------------------------------
(***************************************************************************)
(* What the splices do to a list.                                          *)
(***************************************************************************)

Inserted(list, k, node) ==
  [j \in 1..(Len(list) + 1) |->
     IF j < k THEN list[j] ELSE IF j = k THEN node ELSE list[j - 1]]

Removed(list, k) ==
  [j \in 1..(Len(list) - 1) |-> IF j < k THEN list[j] ELSE list[j + 1]]

LEMMA InsertedShape ==
  ASSUME NEW list \in Seq(Index), Len(list) \in Nat,
         NEW k \in 1..(Len(list) + 1), NEW node \in Index
  PROVE  /\ Inserted(list, k, node) \in Seq(Index)
         /\ Len(Inserted(list, k, node)) = Len(list) + 1
         /\ Members(Inserted(list, k, node)) = Members(list) \cup {node}
         /\ (Distinct(list) /\ node \notin Members(list)) => Distinct(Inserted(list, k, node))
  <1> DEFINE size == Len(list)
             new == Inserted(list, k, node)
  <1>1. size \in Nat /\ \A j \in 1..size : list[j] \in Index
    OBVIOUS
  <1>2. /\ DOMAIN new = 1..(size + 1)
        /\ \A j \in 1..(size + 1) : new[j] = IF j < k THEN list[j] ELSE IF j = k THEN node ELSE list[j - 1]
    BY DEF Inserted
  <1>3. ASSUME NEW j \in 1..(size + 1)
        PROVE  \/ j < k /\ j \in 1..size /\ new[j] = list[j]
               \/ j = k /\ new[j] = node
               \/ j > k /\ j - 1 \in 1..size /\ new[j] = list[j - 1]
    BY <1>1, <1>2
  <1>4. new \in [1..(size + 1) -> Index]
    <2>1. \A j \in 1..(size + 1) : new[j] \in Index
      BY <1>1, <1>3
    <2>2. new = [j \in 1..(size + 1) |-> new[j]]
      BY DEF Inserted
    <2> HIDE DEF new
    <2>3. QED
      BY <2>1, <2>2
  <1> HIDE DEF new
  <1>5. new \in Seq(Index) /\ Len(new) = size + 1
    BY <1>1, <1>4
  <1>6. Members(new) = Members(list) \cup {node}
    <2>1. \A j \in 1..(size + 1) : new[j] \in Members(list) \cup {node}
      BY <1>3 DEF Members
    <2>2. ASSUME NEW j \in 1..size PROVE \E i \in 1..(size + 1) : new[i] = list[j]
      <3>1. CASE j < k
        BY <1>1, <1>2, <3>1
      <3>2. CASE j >= k
        <4>1. j + 1 \in 1..(size + 1) /\ ~(j + 1 < k) /\ j + 1 # k /\ (j + 1) - 1 = j
          BY <1>1, <3>2
        <4>2. new[j + 1] = list[j]
          BY <1>2, <4>1
        <4>3. QED
          BY <4>1, <4>2
      <3>3. QED
        BY <1>1, <3>1, <3>2
    <2>3. k \in 1..(size + 1) /\ new[k] = node
      BY <1>1, <1>2
    <2>4. QED
      BY <1>5, <2>1, <2>2, <2>3 DEF Members
  <1>7. ASSUME Distinct(list), node \notin Members(list) PROVE Distinct(new)
    <2> SUFFICES ASSUME NEW i \in 1..(size + 1), NEW j \in 1..(size + 1), new[i] = new[j], i < j
                 PROVE  FALSE
      BY <1>1, <1>5 DEF Distinct
    <2>1. \A m \in 1..size : list[m] # node
      BY <1>7 DEF Members
    <2>2. \A m, n \in 1..size : list[m] = list[n] => m = n
      BY <1>7 DEF Distinct
    <2>3. QED
      BY <1>1, <1>3, <2>1, <2>2
  <1>8. QED
    BY <1>5, <1>6, <1>7 DEF new

LEMMA RemovedShape ==
  ASSUME NEW list \in Seq(Index), Len(list) \in Nat, NEW k \in 1..Len(list)
  PROVE  /\ Removed(list, k) \in Seq(Index)
         /\ Len(Removed(list, k)) = Len(list) - 1
         /\ Members(list) = Members(Removed(list, k)) \cup {list[k]}
         /\ Distinct(list) =>
              Distinct(Removed(list, k)) /\ list[k] \notin Members(Removed(list, k))
  <1> DEFINE size == Len(list)
             new == Removed(list, k)
  <1>1. size \in Nat /\ \A j \in 1..size : list[j] \in Index
    OBVIOUS
  <1>2. /\ DOMAIN new = 1..(size - 1)
        /\ \A j \in 1..(size - 1) : new[j] = IF j < k THEN list[j] ELSE list[j + 1]
    BY DEF Removed
  <1>3. ASSUME NEW j \in 1..(size - 1)
        PROVE  \/ j < k /\ j \in 1..size /\ new[j] = list[j]
               \/ j >= k /\ j + 1 \in 1..size /\ new[j] = list[j + 1]
    BY <1>1, <1>2
  <1>4. new \in [1..(size - 1) -> Index]
    <2>1. \A j \in 1..(size - 1) : new[j] \in Index
      BY <1>1, <1>3
    <2>2. new = [j \in 1..(size - 1) |-> new[j]]
      BY DEF Removed
    <2> HIDE DEF new
    <2>3. QED
      BY <2>1, <2>2
  <1> HIDE DEF new
  <1>5. new \in Seq(Index) /\ Len(new) = size - 1
    BY <1>1, <1>4
  <1>6. Members(list) = Members(new) \cup {list[k]}
    <2>1. \A j \in 1..(size - 1) : new[j] \in Members(list)
      BY <1>3 DEF Members
    <2>2. ASSUME NEW j \in 1..size, j # k PROVE \E i \in 1..(size - 1) : new[i] = list[j]
      <3>1. CASE j < k
        <4>1. j \in 1..(size - 1) /\ new[j] = list[j]
          BY <1>1, <1>2, <3>1
        <4>2. QED
          BY <4>1
      <3>2. CASE j > k
        <4>1. j - 1 \in 1..(size - 1) /\ ~(j - 1 < k) /\ (j - 1) + 1 = j
          BY <1>1, <3>2
        <4>2. new[j - 1] = list[j]
          BY <1>2, <4>1
        <4>3. QED
          BY <4>1, <4>2
      <3>3. QED
        BY <1>1, <2>2, <3>1, <3>2
    <2>3. QED
      BY <1>5, <2>1, <2>2 DEF Members
  <1>7. ASSUME Distinct(list) PROVE Distinct(new) /\ list[k] \notin Members(new)
    <2>1. \A m, n \in 1..size : list[m] = list[n] => m = n
      BY <1>7 DEF Distinct
    <2>2. \A i \in 1..(size - 1) : new[i] # list[k]
      BY <1>1, <1>3, <2>1
    <2>3. ASSUME NEW i \in 1..(size - 1), NEW j \in 1..(size - 1), new[i] = new[j], i < j
          PROVE  FALSE
      BY <1>1, <1>3, <2>1, <2>3
    <2>4. QED
      BY <1>1, <1>5, <2>2, <2>3 DEF Distinct, Members
  <1>8. QED
    BY <1>5, <1>6, <1>7 DEF new

LEMMA InsertedIsList ==
  ASSUME NEW table, NEW start, NEW list, IsList(table, start, list), Len(list) < MaxEvents,
         NEW k \in 1..(Len(list) + 1), NEW node \in Index,
         NEW new, new[node].next_event = NodeAt(list, k),
         \A j \in 1..Len(list) :
           new[list[j]].next_event = IF j = k - 1 THEN node ELSE table[list[j]].next_event
  PROVE  IsList(new, IF k = 1 THEN node ELSE start, Inserted(list, k, node))
  <1> DEFINE size == Len(list)
             longer == Inserted(list, k, node)
  <1>1. /\ list \in Seq(Index) /\ size \in Nat /\ size < MaxEvents /\ MaxEvents \in Nat
        /\ start = NodeAt(list, 1)
        /\ \A j \in 1..size : table[list[j]].next_event = NodeAt(list, j + 1)
    BY TimetrackAssumption DEF IsList
  <1>2. longer \in Seq(Index) /\ Len(longer) = size + 1
    BY <1>1, InsertedShape
  <1>3. \A j \in 1..(size + 1) :
          longer[j] = IF j < k THEN list[j] ELSE IF j = k THEN node ELSE list[j - 1]
    BY DEF Inserted
  <1> HIDE DEF longer
  <1>4. (IF k = 1 THEN node ELSE start) = NodeAt(longer, 1)
    BY <1>1, <1>2, <1>3 DEF NodeAt
  <1>5. ASSUME NEW j \in 1..(size + 1)
        PROVE  new[longer[j]].next_event = NodeAt(longer, j + 1)
    <2>1. CASE j < k - 1
      <3>1. /\ j \in 1..size /\ j # k - 1 /\ longer[j] = list[j]
            /\ j + 1 \in 1..(size + 1) /\ j + 1 <= size /\ longer[j + 1] = list[j + 1]
        <4>1. /\ j \in 1..size /\ j # k - 1 /\ j < k /\ j + 1 \in 1..(size + 1)
              /\ j + 1 <= size /\ j + 1 < k
          BY <1>1, <2>1
        <4>2. QED
          BY <1>3, <4>1
      <3>2. new[longer[j]].next_event = NodeAt(list, j + 1)
        BY <1>1, <3>1
      <3>3. QED
        BY <1>1, <1>2, <3>1, <3>2 DEF NodeAt
    <2>2. CASE j = k - 1
      BY <1>1, <1>2, <1>3, <2>2, SMTT(60) DEF NodeAt
    <2>3. CASE j = k
      BY <1>1, <1>2, <1>3, <2>3, SMTT(60) DEF NodeAt
    <2>4. CASE j > k
      <3>1. /\ j - 1 \in 1..size /\ j - 1 # k - 1 /\ longer[j] = list[j - 1] /\ (j - 1) + 1 = j
            /\ (j + 1) - 1 = j
        BY <1>1, <1>3, <2>4
      <3>2. new[longer[j]].next_event = NodeAt(list, j)
        BY <1>1, <3>1
      <3>3. CASE j = size + 1
        BY <1>1, <1>2, <3>2, <3>3 DEF NodeAt
      <3>4. CASE j # size + 1
        <4>1. j + 1 \in 1..(size + 1) /\ ~(j + 1 < k) /\ j + 1 # k /\ j <= size
          BY <1>1, <2>4, <3>4
        <4>2. longer[j + 1] = list[j]
          BY <1>3, <3>1, <4>1
        <4>3. QED
          BY <1>1, <1>2, <3>2, <4>1, <4>2 DEF NodeAt
      <3>5. QED
        BY <3>3, <3>4
    <2>5. QED
      BY <1>1, <2>1, <2>2, <2>3, <2>4
  <1>6. QED
    BY <1>1, <1>2, <1>4, <1>5 DEF IsList, longer

LEMMA RemovedIsList ==
  ASSUME NEW table, NEW start, NEW list, IsList(table, start, list),
         NEW k \in 1..Len(list), NEW new,
         \A j \in 1..Len(list) : j # k =>
           new[list[j]].next_event =
             IF j = k - 1 THEN NodeAt(list, k + 1) ELSE table[list[j]].next_event
  PROVE  IsList(new, IF k = 1 THEN NodeAt(list, 2) ELSE start, Removed(list, k))
  <1> DEFINE size == Len(list)
             shorter == Removed(list, k)
  <1>1. /\ list \in Seq(Index) /\ size \in Nat /\ size <= MaxEvents /\ MaxEvents \in Nat
        /\ start = NodeAt(list, 1)
        /\ \A j \in 1..size : table[list[j]].next_event = NodeAt(list, j + 1)
    BY TimetrackAssumption DEF IsList
  <1>2. shorter \in Seq(Index) /\ Len(shorter) = size - 1
    BY <1>1, RemovedShape
  <1>3. \A j \in 1..(size - 1) : shorter[j] = IF j < k THEN list[j] ELSE list[j + 1]
    BY DEF Removed
  <1> HIDE DEF shorter
  <1>4. (IF k = 1 THEN NodeAt(list, 2) ELSE start) = NodeAt(shorter, 1)
    BY <1>1, <1>2, <1>3 DEF NodeAt
  <1>5. ASSUME NEW j \in 1..(size - 1)
        PROVE  new[shorter[j]].next_event = NodeAt(shorter, j + 1)
    <2>1. CASE j < k - 1
      <3>1. /\ j \in 1..size /\ j # k - 1 /\ j # k /\ shorter[j] = list[j]
            /\ j + 1 \in 1..(size - 1) /\ j + 1 <= size /\ shorter[j + 1] = list[j + 1]
        <4>1. /\ j \in 1..size /\ j # k - 1 /\ j # k /\ j < k /\ j + 1 \in 1..(size - 1)
              /\ j + 1 <= size /\ j + 1 < k
          BY <1>1, <2>1
        <4>2. QED
          BY <1>3, <4>1
      <3>2. new[shorter[j]].next_event = NodeAt(list, j + 1)
        BY <1>1, <3>1
      <3>3. QED
        BY <1>1, <1>2, <3>1, <3>2 DEF NodeAt
    <2>2. CASE j = k - 1
      BY <1>1, <1>2, <1>3, <2>2, SMTT(60) DEF NodeAt
    <2>3. CASE j >= k
      <3>1. j + 1 \in 1..size /\ j + 1 # k /\ j + 1 # k - 1 /\ shorter[j] = list[j + 1]
        BY <1>1, <1>3, <2>3
      <3>2. new[shorter[j]].next_event = NodeAt(list, (j + 1) + 1)
        BY <1>1, <3>1
      <3>3. CASE j = size - 1
        BY <1>1, <1>2, <3>2, <3>3 DEF NodeAt
      <3>4. CASE j # size - 1
        <4>1. j + 1 \in 1..(size - 1) /\ ~(j + 1 < k) /\ (j + 1) + 1 <= size
          BY <1>1, <2>3, <3>4
        <4>2. shorter[j + 1] = list[(j + 1) + 1]
          BY <1>3, <4>1
        <4>3. QED
          BY <1>1, <1>2, <3>2, <4>1, <4>2 DEF NodeAt
      <3>5. QED
        BY <3>3, <3>4
    <2>4. QED
      BY <1>1, <2>1, <2>2, <2>3
  <1>6. QED
    BY <1>1, <1>2, <1>4, <1>5 DEF IsList, shorter

-----------------------------------------------------------------------------
(***************************************************************************)
(* The invariant.                                                          *)
(***************************************************************************)

InHand == IF phase = "callback" THEN {current} ELSE {}

\* Each list is a walk of the table without repetition, and they share nothing.
ListsApart ==
  /\ IsList(events, next_event, Queue) /\ Distinct(Queue)
  /\ IsList(events, free_event, FreeList) /\ Distinct(FreeList)
  /\ Members(Queue) \cap Members(FreeList) = {}
  /\ InHand \cap (Members(Queue) \cup Members(FreeList)) = {}

EventAt(table, i) ==
  [time |-> table[i].exe_time, cb |-> table[i].cb,
   data |-> table[i].cb_data, arrival |-> table[i].arrival]

InOrder(table, list) ==
  \A j, k \in 1..Len(list) :
    j < k => Abstract!Before(EventAt(table, list[j]), EventAt(table, list[k]))

\* The queue is in the order in which its events will run.
QueueInOrder ==
  /\ InOrder(events, Queue)
  /\ \A i \in Members(Queue) : events[i].arrival < arrivals

TimetrackInv == TypeOK /\ ListsApart /\ ListsPartitionTable /\ QueueInOrder

LEMMA NodesInHand ==
  ASSUME ListsPartitionTable
  PROVE  /\ Len(Queue) + Len(FreeList) + (IF phase = "callback" THEN 1 ELSE 0) = MaxEvents
         /\ Members(Queue) \cup Members(FreeList) \cup InHand = Index
  <1>1. Cardinality(InHand) = IF phase = "callback" THEN 1 ELSE 0
    BY FS_Singleton, FS_EmptySet DEF InHand
  <1>2. QED
    BY <1>1 DEF ListsPartitionTable, InHand

LEMMA TableDivided ==
  ASSUME Len(Queue) + Len(FreeList) + (IF phase = "callback" THEN 1 ELSE 0) = MaxEvents,
         Members(Queue) \cup Members(FreeList) \cup InHand = Index
  PROVE  ListsPartitionTable
  <1>1. Cardinality(InHand) = IF phase = "callback" THEN 1 ELSE 0
    BY FS_Singleton, FS_EmptySet DEF InHand
  <1>2. QED
    BY <1>1 DEF ListsPartitionTable, InHand

LEMMA TableStaysDivided ==
  ASSUME Len(Queue') + Len(FreeList') + (IF phase' = "callback" THEN 1 ELSE 0) = MaxEvents,
         Members(Queue') \cup Members(FreeList') \cup InHand' = Index
  PROVE  ListsPartitionTable'
  <1>1. Cardinality(InHand') = IF phase' = "callback" THEN 1 ELSE 0
    BY FS_Singleton, FS_EmptySet DEF InHand
  <1>2. QED
    BY <1>1 DEF ListsPartitionTable, InHand

\* What the invariant says of the two lists.
LEMMA ListsAre ==
  ASSUME TimetrackInv
  PROVE  /\ MaxEvents \in Nat \ {0} /\ Horizon \in Nat
         /\ events \in [Index -> Node]
         /\ Queue \in Seq(Index) /\ Len(Queue) \in 0..MaxEvents
         /\ FreeList \in Seq(Index) /\ Len(FreeList) \in 0..MaxEvents
         /\ \A k \in 1..Len(Queue) : Queue[k] \in Index /\ Queue[k] \in Members(Queue)
         /\ \A k \in 1..Len(FreeList) : FreeList[k] \in Index /\ FreeList[k] \in Members(FreeList)
         /\ \A i \in Members(Queue) : i \in Index /\ i \notin Members(FreeList) /\ i \notin InHand
         /\ \A i \in Members(FreeList) : i \in Index /\ i \notin InHand
         /\ next_event = NodeAt(Queue, 1) /\ free_event = NodeAt(FreeList, 1)
  <1>1. /\ Queue \in Seq(Index) /\ Len(Queue) \in 0..MaxEvents
        /\ FreeList \in Seq(Index) /\ Len(FreeList) \in 0..MaxEvents
        /\ next_event = NodeAt(Queue, 1) /\ free_event = NodeAt(FreeList, 1)
    BY DEF TimetrackInv, ListsApart, IsList
  <1>2. /\ \A k \in 1..Len(Queue) : Queue[k] \in Index /\ Queue[k] \in Members(Queue)
        /\ \A k \in 1..Len(FreeList) : FreeList[k] \in Index /\ FreeList[k] \in Members(FreeList)
    BY <1>1 DEF Members
  <1>3. \A i \in Members(Queue) \cup Members(FreeList) : i \in Index
    BY <1>2 DEF Members
  <1>4. QED
    BY <1>1, <1>2, <1>3, TimetrackAssumption DEF TimetrackInv, TypeOK, ListsApart

\* A list that a step leaves behind is the one that Chain finds.
LEMMA ListsFollow ==
  ASSUME NEW queue, NEW free, IsList(events', next_event', queue), IsList(events', free_event', free)
  PROVE  Queue' = queue /\ FreeList' = free
  BY ChainOf DEF Queue, FreeList

LEMMA NodeAtType ==
  ASSUME NEW list \in Seq(Index), Len(list) \in Nat, NEW k \in Nat \ {0}
  PROVE  NodeAt(list, k) \in 0..MaxEvents
  <1>1. CASE k <= Len(list)
    <2>1. k \in 1..Len(list)
      BY <1>1
    <2>2. QED
      BY <1>1, <2>1, TimetrackAssumption DEF NodeAt, Index
  <1>2. CASE ~(k <= Len(list))
    BY <1>2, TimetrackAssumption DEF NodeAt, Null
  <1>3. QED
    BY <1>1, <1>2

\* What a node says of its event, whatever it is linked to.
SameEvent(i) ==
  /\ events'[i].exe_time = events[i].exe_time
  /\ events'[i].cb = events[i].cb
  /\ events'[i].cb_data = events[i].cb_data
  /\ events'[i].arrival = events[i].arrival

-----------------------------------------------------------------------------
(***************************************************************************)
(* What each splice does to the two lists.                                 *)
(***************************************************************************)

\* The place is in front of the first event of a later deadline.
LEMMA InsertPlaceSplits ==
  ASSUME TimetrackInv, NEW exe_time \in Nat
  PROVE  /\ InsertPlace(exe_time) \in 1..(Len(Queue) + 1)
         /\ \A j \in 1..Len(Queue) :
              j < InsertPlace(exe_time) => events[Queue[j]].exe_time <= exe_time
         /\ \A j \in 1..Len(Queue) :
              j >= InsertPlace(exe_time) => events[Queue[j]].exe_time > exe_time
  <1> DEFINE later == {k \in 1..Len(Queue) : events[Queue[k]].exe_time > exe_time}
             size == Len(Queue)
  <1>1. size \in Nat /\ \A j \in 1..size : events[Queue[j]].exe_time \in Nat
    BY ListsAre DEF Node
  <1>2. \A j, k \in 1..size : j < k => events[Queue[j]].exe_time <= events[Queue[k]].exe_time
    BY <1>1 DEF TimetrackInv, QueueInOrder, InOrder, Abstract!Before, EventAt
  <1>3. CASE later = {}
    <2>1. InsertPlace(exe_time) = size + 1
      BY <1>3 DEF InsertPlace
    <2>2. \A j \in 1..size : events[Queue[j]].exe_time <= exe_time
      BY <1>1, <1>3
    <2>3. QED
      BY <1>1, <2>1, <2>2
  <1>4. CASE later # {}
    <2> DEFINE k == InsertPlace(exe_time)
    <2>1. \E i \in later : \A j \in later : i <= j
      <3>1. later \in SUBSET Nat
        BY <1>1
      <3> HIDE DEF later
      <3>2. QED
        BY <1>4, <3>1, LeastOfNaturals
    <2>2. k = CHOOSE i \in later : \A j \in later : i <= j
      BY <1>4 DEF InsertPlace
    <2>3. k \in later /\ \A j \in later : k <= j
      <3> HIDE DEF k, later
      <3> QED
        BY <2>1, <2>2
    <2> HIDE DEF k
    <2>4. k \in 1..size /\ events[Queue[k]].exe_time > exe_time
      BY <2>3
    <2>5. ASSUME NEW j \in 1..size, j < k PROVE events[Queue[j]].exe_time <= exe_time
      <3>1. j \notin later
        BY <1>1, <2>3, <2>4, <2>5
      <3>2. QED
        BY <1>1, <3>1
    <2>6. ASSUME NEW j \in 1..size, j >= k PROVE events[Queue[j]].exe_time > exe_time
      BY <1>1, <1>2, <2>4, <2>6
    <2>7. QED
      BY <1>1, <2>4, <2>5, <2>6 DEF k
  <1>5. QED
    BY <1>3, <1>4

\* The first free node, when there is one, and the room it leaves.
LEMMA FreeNodeIsFirst ==
  ASSUME TimetrackInv, free_event # Null
  PROVE  /\ 1 \in 1..Len(FreeList) /\ free_event = FreeList[1] /\ free_event \in Index
         /\ free_event \notin Members(Queue) /\ free_event \notin InHand
         /\ Len(Queue) + (IF phase = "callback" THEN 1 ELSE 0) < MaxEvents
  <1>1. Len(FreeList) >= 1
    BY ListsAre DEF NodeAt
  <1>2. 1 \in 1..Len(FreeList) /\ free_event = FreeList[1]
    BY <1>1, ListsAre DEF NodeAt
  <1>3. free_event \in Members(FreeList)
    BY <1>2, ListsAre
  <1>4. Len(Queue) + Len(FreeList) + (IF phase = "callback" THEN 1 ELSE 0) = MaxEvents
    BY NodesInHand DEF TimetrackInv
  <1>5. QED
    BY <1>1, <1>2, <1>3, <1>4, ListsAre

LEMMA AddEventSplices ==
  ASSUME TimetrackInv, NEW cb \in Callback, NEW data \in CbData, NEW delay \in Delays,
         AddEvent(cb, data, delay)
  PROVE  LET exe_time == ticks + delay
             k == InsertPlace(exe_time)
         IN /\ exe_time \in 0..Horizon /\ k \in 1..(Len(Queue) + 1)
            /\ events' \in [Index -> Node]
            /\ IsList(events', next_event', Queue') /\ Queue' = Inserted(Queue, k, free_event)
            /\ IsList(events', free_event', FreeList') /\ FreeList' = Removed(FreeList, 1)
            /\ \A i \in Index : i # free_event => SameEvent(i)
            /\ events'[free_event].exe_time = exe_time
            /\ events'[free_event].cb = cb
            /\ events'[free_event].cb_data = data
            /\ events'[free_event].arrival = arrivals
  <1> DEFINE exe_time == ticks + delay
             k == InsertPlace(exe_time)
             node == free_event
             filled == [events EXCEPT ![node] =
                          [exe_time |-> exe_time, cb |-> cb, cb_data |-> data,
                           next_event |-> NodeAt(Queue, k), arrival |-> arrivals]]
  <1>1. /\ free_event # Null /\ exe_time <= Horizon
        /\ free_event' = events[node].next_event
        /\ events' = SetLink(filled, k, node)
        /\ next_event' = SetHead(k, node)
    BY DEF AddEvent, Enqueue
  <1>2. exe_time \in 0..Horizon /\ exe_time \in Nat /\ arrivals \in Nat
    BY <1>1, TimetrackAssumption DEF TimetrackInv, TypeOK
  <1>3. k \in 1..(Len(Queue) + 1)
    BY <1>2, InsertPlaceSplits
  <1>4. /\ events \in [Index -> Node] /\ MaxEvents \in Nat \ {0}
        /\ Queue \in Seq(Index) /\ Len(Queue) \in 0..MaxEvents
        /\ FreeList \in Seq(Index) /\ Len(FreeList) \in 0..MaxEvents
        /\ \A j \in 1..Len(Queue) : Queue[j] \in Index /\ Queue[j] \in Members(Queue)
        /\ \A j \in 1..Len(FreeList) : FreeList[j] \in Index /\ FreeList[j] \in Members(FreeList)
        /\ \A i \in Members(Queue) : i \notin Members(FreeList)
    BY ListsAre
  <1>5. /\ node \in Index /\ 1 \in 1..Len(FreeList) /\ node = FreeList[1]
        /\ node \notin Members(Queue) /\ Len(Queue) < MaxEvents
    BY <1>1, <1>4, FreeNodeIsFirst
  <1>6. /\ IsList(events, next_event, Queue) /\ Distinct(Queue)
        /\ IsList(events, free_event, FreeList) /\ Distinct(FreeList)
    BY DEF TimetrackInv, ListsApart
  <1> HIDE DEF k, exe_time
  <1>7. NodeAt(Queue, k) \in 0..MaxEvents
    BY <1>3, <1>4, NodeAtType
  <1>8. /\ filled \in [Index -> Node]
        /\ filled[node] = [exe_time |-> exe_time, cb |-> cb, cb_data |-> data,
                           next_event |-> NodeAt(Queue, k), arrival |-> arrivals]
        /\ \A i \in Index : i # node => filled[i] = events[i]
    BY <1>2, <1>4, <1>5, <1>7 DEF Node
  <1> HIDE DEF filled
  <1>9. /\ events' \in [Index -> Node]
        /\ \A i \in Index :
             events'[i] = IF k # 1 /\ i = Queue[k - 1] THEN [filled[i] EXCEPT !.next_event = node]
                          ELSE filled[i]
    <2>1. CASE k = 1
      BY <1>1, <1>8, <2>1 DEF SetLink
    <2>2. CASE k # 1
      <3>1. k - 1 \in 1..Len(Queue) /\ Queue[k - 1] \in Index
        BY <1>3, <1>4, <2>2
      <3>2. events' = [filled EXCEPT ![Queue[k - 1]].next_event = node]
        BY <1>1, <2>2 DEF SetLink
      <3>3. node \in 0..MaxEvents
        BY <1>4, <1>5 DEF Index
      <3>4. [filled[Queue[k - 1]] EXCEPT !.next_event = node] \in Node
        BY <1>8, <3>1, <3>3, ZenonT(60) DEF Node
      <3>5. QED
        BY <1>8, <2>2, <3>1, <3>2, <3>4
    <2>3. QED
      BY <2>1, <2>2
  <1>10. \A j \in 1..Len(Queue) : Queue[j] # node
    BY <1>4, <1>5
  <1>11. /\ events'[node] = filled[node]
         /\ \A i \in Index : i # node => SameEvent(i)
    <2>1. k # 1 => node # Queue[k - 1]
      <3>1. k # 1 => k - 1 \in 1..Len(Queue)
        BY <1>3, <1>4
      <3>2. QED
        BY <1>10, <3>1
    <2>2. ASSUME NEW i \in Index, i # node PROVE SameEvent(i)
      <3>1. filled[i] = events[i] /\ events[i] \in Node
        BY <1>4, <1>8, <2>2
      <3>2. QED
        BY <1>9, <3>1 DEF SameEvent, Node
    <2>3. QED
      BY <1>5, <1>9, <2>1, <2>2
  <1>12. IsList(events', next_event', Inserted(Queue, k, node))
    <2>1. events'[node].next_event = NodeAt(Queue, k)
      BY <1>8, <1>11
    <2>2. ASSUME NEW j \in 1..Len(Queue)
          PROVE  events'[Queue[j]].next_event = IF j = k - 1 THEN node ELSE events[Queue[j]].next_event
      <3>1. Queue[j] \in Index /\ filled[Queue[j]] = events[Queue[j]] /\ events[Queue[j]] \in Node
        BY <1>4, <1>8, <1>10
      <3>2. (k # 1 /\ Queue[j] = Queue[k - 1]) <=> j = k - 1
        <4>1. k # 1 => k - 1 \in 1..Len(Queue)
          BY <1>3, <1>4
        <4>2. k = 1 => j # k - 1
          BY <1>4
        <4>3. QED
          BY <1>6, <4>1, <4>2 DEF Distinct
      <3>3. QED
        BY <1>9, <3>1, <3>2 DEF Node
    <2>3. IsList(events', IF k = 1 THEN node ELSE next_event, Inserted(Queue, k, node))
      BY <1>3, <1>5, <1>6, <2>1, <2>2, InsertedIsList
    <2>4. QED
      BY <1>1, <2>3 DEF SetHead
  <1>13. IsList(events', free_event', Removed(FreeList, 1))
    <2>1. ASSUME NEW j \in 1..Len(FreeList), j # 1
          PROVE  events'[FreeList[j]].next_event =
                   IF j = 1 - 1 THEN NodeAt(FreeList, 1 + 1) ELSE events[FreeList[j]].next_event
      <3>1. FreeList[j] \in Index /\ FreeList[j] # node
        BY <1>4, <1>5, <1>6, <2>1 DEF Distinct
      <3>2. \A i \in 1..Len(Queue) : Queue[i] # FreeList[j]
        BY <1>4
      <3>3. k # 1 => k - 1 \in 1..Len(Queue)
        BY <1>3, <1>4
      <3>4. events'[FreeList[j]] = events[FreeList[j]]
        BY <1>8, <1>9, <3>1, <3>2, <3>3
      <3>5. QED
        BY <1>4, <3>4
    <2>2. IsList(events', IF 1 = 1 THEN NodeAt(FreeList, 2) ELSE free_event, Removed(FreeList, 1))
      BY <1>5, <1>6, <2>1, RemovedIsList
    <2>3. events[FreeList[1]].next_event = NodeAt(FreeList, 1 + 1)
      BY <1>5, <1>6 DEF IsList
    <2>4. 1 + 1 = 2
      OBVIOUS
    <2>5. QED
      BY <1>1, <1>5, <2>2, <2>3, <2>4
  <1>14. Queue' = Inserted(Queue, k, node) /\ FreeList' = Removed(FreeList, 1)
    BY <1>12, <1>13, ListsFollow
  <1>15. /\ events'[node].exe_time = exe_time /\ events'[node].cb = cb
         /\ events'[node].cb_data = data /\ events'[node].arrival = arrivals
    BY <1>8, <1>11
  <1>16. QED
    BY <1>2, <1>3, <1>9, <1>11, <1>12, <1>13, <1>14, <1>15 DEF k, exe_time

LEMMA UnlinkFirstSplices ==
  ASSUME TimetrackInv, NEW matching \in SUBSET (1..Len(Queue)), UnlinkFirst(matching)
  PROVE  \E k \in matching :
           /\ \A j \in matching : k <= j
           /\ events' \in [Index -> Node]
           /\ IsList(events', next_event', Queue') /\ Queue' = Removed(Queue, k)
           /\ IsList(events', free_event', FreeList') /\ FreeList' = Inserted(FreeList, 1, Queue[k])
           /\ \A i \in Index : i # Queue[k] => SameEvent(i)
  <1> DEFINE k == CHOOSE k \in matching : \A j \in matching : k <= j
             node == Queue[k]
             after == NodeAt(Queue, k + 1)
             freed == [events EXCEPT ![node] = FreeNode(free_event)]
  <1>1. /\ events' = SetLink(freed, k, after)
        /\ next_event' = SetHead(k, after)
        /\ free_event' = node
        /\ matching # {}
    BY DEF UnlinkFirst
  <1>2. /\ events \in [Index -> Node] /\ MaxEvents \in Nat \ {0} /\ Horizon \in Nat
        /\ Queue \in Seq(Index) /\ Len(Queue) \in 0..MaxEvents
        /\ FreeList \in Seq(Index) /\ Len(FreeList) \in 0..MaxEvents
        /\ \A j \in 1..Len(Queue) : Queue[j] \in Index /\ Queue[j] \in Members(Queue)
        /\ \A j \in 1..Len(FreeList) : FreeList[j] \in Index /\ FreeList[j] \in Members(FreeList)
        /\ \A i \in Members(Queue) : i \notin Members(FreeList)
    BY ListsAre
  <1>3. k \in matching /\ \A j \in matching : k <= j
    <2>1. matching \in SUBSET Nat
      BY <1>2
    <2>2. \E i \in matching : \A j \in matching : i <= j
      BY <1>1, <2>1, LeastOfNaturals
    <2>3. QED
      BY <2>2
  <1> HIDE DEF k
  <1>4. /\ k \in 1..Len(Queue) /\ node \in Index /\ node \in Members(Queue)
        /\ node \notin Members(FreeList)
    BY <1>2, <1>3
  <1>5. Len(FreeList) < MaxEvents
    <2>1. Len(Queue) + Len(FreeList) + (IF phase = "callback" THEN 1 ELSE 0) = MaxEvents
      BY NodesInHand DEF TimetrackInv
    <2>2. QED
      BY <1>2, <1>4, <2>1
  <1>6. /\ IsList(events, next_event, Queue) /\ Distinct(Queue)
        /\ IsList(events, free_event, FreeList) /\ Distinct(FreeList)
    BY DEF TimetrackInv, ListsApart
  <1>7. after \in 0..MaxEvents
    BY <1>2, <1>4, NodeAtType
  <1>8. /\ freed \in [Index -> Node]
        /\ freed[node].next_event = free_event
        /\ \A i \in Index : i # node => freed[i] = events[i]
    <2>1. FreeNode(free_event) \in Node /\ FreeNode(free_event).next_event = free_event
      <3>1. free_event \in 0..MaxEvents
        BY DEF TimetrackInv, TypeOK
      <3>2. QED
        BY <1>2, <3>1 DEF FreeNode, Node
    <2>2. QED
      BY <1>2, <1>4, <2>1
  <1> HIDE DEF freed, after
  <1>9. /\ events' \in [Index -> Node]
        /\ \A i \in Index :
             events'[i] = IF k # 1 /\ i = Queue[k - 1] THEN [freed[i] EXCEPT !.next_event = after]
                          ELSE freed[i]
    <2>1. CASE k = 1
      BY <1>1, <1>8, <2>1 DEF SetLink
    <2>2. CASE k # 1
      <3>1. k - 1 \in 1..Len(Queue) /\ Queue[k - 1] \in Index
        BY <1>2, <1>4, <2>2
      <3>2. events' = [freed EXCEPT ![Queue[k - 1]].next_event = after]
        BY <1>1, <2>2 DEF SetLink
      <3>3. [freed[Queue[k - 1]] EXCEPT !.next_event = after] \in Node
        BY <1>7, <1>8, <3>1, ZenonT(60) DEF Node
      <3>4. QED
        BY <1>8, <2>2, <3>1, <3>2, <3>3
    <2>3. QED
      BY <2>1, <2>2
  <1>10. \A j \in 1..Len(Queue) : Queue[j] = node <=> j = k
    BY <1>4, <1>6 DEF Distinct
  <1>11. k # 1 => k - 1 \in 1..Len(Queue) /\ k - 1 # k
    BY <1>2, <1>4
  <1>12. ASSUME NEW i \in Index, i # node PROVE SameEvent(i)
    <2>1. freed[i] = events[i] /\ events[i] \in Node
      BY <1>2, <1>8, <1>12
    <2>2. \/ events'[i] = [events[i] EXCEPT !.next_event = after]
          \/ events'[i] = events[i]
      BY <1>9, <2>1
    <2>3. QED
      BY <2>1, <2>2 DEF SameEvent, Node
  <1>13. IsList(events', next_event', Removed(Queue, k))
    <2>1. ASSUME NEW j \in 1..Len(Queue), j # k
          PROVE  events'[Queue[j]].next_event = IF j = k - 1 THEN after ELSE events[Queue[j]].next_event
      <3>1. Queue[j] \in Index /\ freed[Queue[j]] = events[Queue[j]] /\ events[Queue[j]] \in Node
        BY <1>2, <1>8, <1>10, <2>1
      <3>2. (k # 1 /\ Queue[j] = Queue[k - 1]) <=> j = k - 1
        <4>1. k = 1 => j # k - 1
          BY <1>2
        <4>2. QED
          BY <1>6, <1>11, <4>1 DEF Distinct
      <3>3. QED
        BY <1>9, <3>1, <3>2 DEF Node
    <2>2. IsList(events', IF k = 1 THEN NodeAt(Queue, 2) ELSE next_event, Removed(Queue, k))
      BY <1>4, <1>6, <2>1, RemovedIsList DEF after
    <2>3. k = 1 => after = NodeAt(Queue, 2)
      BY DEF after
    <2>4. QED
      BY <1>1, <2>2, <2>3 DEF SetHead
  <1>14. IsList(events', free_event', Inserted(FreeList, 1, node))
    <2>1. events'[node].next_event = NodeAt(FreeList, 1)
      <3>1. ~(k # 1 /\ node = Queue[k - 1])
        BY <1>10, <1>11
      <3>2. free_event = NodeAt(FreeList, 1)
        BY <1>6 DEF IsList
      <3>3. QED
        BY <1>4, <1>8, <1>9, <3>1, <3>2
    <2>2. ASSUME NEW j \in 1..Len(FreeList)
          PROVE  events'[FreeList[j]].next_event =
                   IF j = 1 - 1 THEN node ELSE events[FreeList[j]].next_event
      <3>1. FreeList[j] \in Index /\ FreeList[j] # node /\ j # 1 - 1
        BY <1>2, <1>4
      <3>2. ~(k # 1 /\ FreeList[j] = Queue[k - 1])
        BY <1>2, <1>11
      <3>3. events'[FreeList[j]] = events[FreeList[j]]
        BY <1>8, <1>9, <3>1, <3>2
      <3>4. QED
        BY <3>1, <3>3
    <2>3. 1 \in 1..(Len(FreeList) + 1)
      BY <1>2
    <2>4. IsList(events', IF 1 = 1 THEN node ELSE free_event, Inserted(FreeList, 1, node))
      BY <1>4, <1>5, <1>6, <2>1, <2>2, <2>3, InsertedIsList
    <2>5. QED
      BY <1>1, <2>4
  <1>15. Queue' = Removed(Queue, k) /\ FreeList' = Inserted(FreeList, 1, node)
    BY <1>13, <1>14, ListsFollow
  <1>16. QED
    BY <1>3, <1>9, <1>12, <1>13, <1>14, <1>15

LEMMA RunEventSplices ==
  ASSUME TimetrackInv, RunEvent
  PROVE  /\ 1 \in 1..Len(Queue) /\ current' = Queue[1] /\ next_event = Queue[1]
         /\ events[next_event].exe_time <= ticks
         /\ IsList(events', next_event', Queue') /\ Queue' = Removed(Queue, 1)
         /\ IsList(events', free_event', FreeList') /\ FreeList' = FreeList
  <1>1. /\ next_event # Null /\ events[next_event].exe_time <= ticks
        /\ current' = next_event /\ next_event' = events[next_event].next_event
        /\ free_event' = free_event /\ events' = events
    BY DEF RunEvent, HeadDue
  <1>2. /\ IsList(events, next_event, Queue) /\ Len(Queue) \in Nat
        /\ IsList(events, free_event, FreeList)
    BY ListsAre DEF TimetrackInv, ListsApart
  <1>3. 1 \in 1..Len(Queue) /\ next_event = Queue[1]
    <2>1. Len(Queue) >= 1
      BY <1>1, <1>2 DEF IsList, NodeAt
    <2>2. QED
      BY <1>2, <2>1 DEF IsList, NodeAt
  <1>4. next_event' = NodeAt(Queue, 2)
    <2>1. events[Queue[1]].next_event = NodeAt(Queue, 1 + 1) /\ 1 + 1 = 2
      BY <1>2, <1>3 DEF IsList
    <2>2. QED
      BY <1>1, <1>3, <2>1
  <1>5. IsList(events', next_event', Removed(Queue, 1))
    <2>1. ASSUME NEW j \in 1..Len(Queue), j # 1
          PROVE  events'[Queue[j]].next_event =
                   IF j = 1 - 1 THEN NodeAt(Queue, 1 + 1) ELSE events[Queue[j]].next_event
      BY <1>1
    <2>2. IsList(events', IF 1 = 1 THEN NodeAt(Queue, 2) ELSE next_event, Removed(Queue, 1))
      BY <1>2, <1>3, <2>1, RemovedIsList
    <2>3. QED
      BY <1>4, <2>2
  <1>6. IsList(events', free_event', FreeList)
    BY <1>1, <1>2
  <1>7. Queue' = Removed(Queue, 1) /\ FreeList' = FreeList
    BY <1>5, <1>6, ListsFollow
  <1>8. QED
    BY <1>1, <1>3, <1>5, <1>6, <1>7

LEMMA FinishEventSplices ==
  ASSUME TimetrackInv, FinishEvent
  PROVE  /\ current \in Index
         /\ events' \in [Index -> Node]
         /\ IsList(events', next_event', Queue') /\ Queue' = Queue
         /\ IsList(events', free_event', FreeList') /\ FreeList' = Inserted(FreeList, 1, current)
         /\ \A i \in Index : i # current => SameEvent(i)
  <1>1. /\ phase = "callback" /\ next_event' = next_event /\ free_event' = current
        /\ events' = [events EXCEPT ![current] = FreeNode(free_event)]
    BY DEF FinishEvent
  <1>2. /\ events \in [Index -> Node] /\ MaxEvents \in Nat \ {0} /\ Horizon \in Nat
        /\ Len(Queue) \in 0..MaxEvents /\ Len(FreeList) \in 0..MaxEvents
        /\ \A j \in 1..Len(Queue) : Queue[j] \in Index /\ Queue[j] \in Members(Queue)
        /\ \A j \in 1..Len(FreeList) : FreeList[j] \in Index /\ FreeList[j] \in Members(FreeList)
        /\ \A i \in Members(Queue) : i \notin InHand
        /\ \A i \in Members(FreeList) : i \notin InHand
    BY ListsAre
  <1>3. /\ IsList(events, next_event, Queue) /\ IsList(events, free_event, FreeList)
    BY DEF TimetrackInv, ListsApart
  <1>4. /\ Len(Queue) + Len(FreeList) + 1 = MaxEvents /\ current \in Index
    BY <1>1, NodesInHand DEF TimetrackInv, InHand
  <1>5. current \notin Members(Queue) /\ current \notin Members(FreeList)
    BY <1>1, <1>2 DEF InHand
  <1>6. /\ events' \in [Index -> Node]
        /\ events'[current].next_event = free_event
        /\ \A i \in Index : i # current => events'[i] = events[i]
    <2>1. FreeNode(free_event) \in Node /\ FreeNode(free_event).next_event = free_event
      <3>1. free_event \in 0..MaxEvents
        BY DEF TimetrackInv, TypeOK
      <3>2. QED
        BY <1>2, <3>1 DEF FreeNode, Node
    <2>2. QED
      BY <1>1, <1>2, <1>4, <2>1
  <1>7. IsList(events', next_event', Queue)
    <2>1. \A j \in 1..Len(Queue) : events'[Queue[j]].next_event = events[Queue[j]].next_event
      BY <1>2, <1>5, <1>6
    <2>2. QED
      BY <1>1, <1>3, <2>1 DEF IsList
  <1>8. IsList(events', free_event', Inserted(FreeList, 1, current))
    <2>1. events'[current].next_event = NodeAt(FreeList, 1)
      BY <1>3, <1>6 DEF IsList
    <2>2. ASSUME NEW j \in 1..Len(FreeList)
          PROVE  events'[FreeList[j]].next_event =
                   IF j = 1 - 1 THEN current ELSE events[FreeList[j]].next_event
      BY <1>2, <1>5, <1>6
    <2>3. 1 \in 1..(Len(FreeList) + 1) /\ Len(FreeList) < MaxEvents
      BY <1>2, <1>4
    <2>4. IsList(events', IF 1 = 1 THEN current ELSE free_event, Inserted(FreeList, 1, current))
      BY <1>3, <1>4, <1>5, <2>1, <2>2, <2>3, InsertedIsList, Zenon DEF Members
    <2>5. QED
      BY <1>1, <2>4
  <1>9. Queue' = Queue /\ FreeList' = Inserted(FreeList, 1, current)
    BY <1>7, <1>8, ListsFollow
  <1>10. QED
    BY <1>4, <1>6, <1>7, <1>8, <1>9 DEF SameEvent

-----------------------------------------------------------------------------
(***************************************************************************)
(* Every step keeps the order of the queue.                                *)
(***************************************************************************)

\* What is left of a list without one of its nodes is in order.
LEMMA OrderWithoutNode ==
  ASSUME NEW table, NEW list \in Seq(Index), Len(list) \in Nat, Distinct(list),
         InOrder(table, list), NEW k \in 1..Len(list), NEW new,
         \A i \in Members(list) : i # list[k] => EventAt(new, i) = EventAt(table, i)
  PROVE  InOrder(new, Removed(list, k))
  <1> DEFINE size == Len(list)
             rest == Removed(list, k)
  <1>1. size \in Nat /\ \A j \in 1..size : list[j] \in Members(list) /\ list[j] \in Index
    BY DEF Members
  <1>2. Len(rest) = size - 1 /\ Members(list) = Members(rest) \cup {list[k]} /\ list[k] \notin Members(rest)
    BY RemovedShape
  <1>3. ASSUME NEW j \in 1..(size - 1)
        PROVE  \/ j < k /\ j \in 1..size /\ rest[j] = list[j]
               \/ j >= k /\ j + 1 \in 1..size /\ rest[j] = list[j + 1]
    BY <1>1 DEF Removed
  <1> HIDE DEF rest
  <1>4. ASSUME NEW i \in 1..(size - 1), NEW j \in 1..(size - 1), i < j
        PROVE  Abstract!Before(EventAt(new, rest[i]), EventAt(new, rest[j]))
    <2>1. rest[i] \in Members(rest) /\ rest[j] \in Members(rest)
      BY <1>2 DEF Members
    <2>2. EventAt(new, rest[i]) = EventAt(table, rest[i]) /\ EventAt(new, rest[j]) = EventAt(table, rest[j])
      BY <1>2, <2>1
    <2> DEFINE m == IF i < k THEN i ELSE i + 1
               n == IF j < k THEN j ELSE j + 1
    <2>3. m \in 1..size /\ n \in 1..size /\ m < n /\ rest[i] = list[m] /\ rest[j] = list[n]
      <3>1. m \in 1..size /\ rest[i] = list[m]
        BY <1>1, <1>3
      <3>2. n \in 1..size /\ rest[j] = list[n]
        BY <1>1, <1>3
      <3>3. m < n
        BY <1>1, <1>4
      <3>4. QED
        BY <3>1, <3>2, <3>3
    <2> HIDE DEF m, n
    <2>4. Abstract!Before(EventAt(table, list[m]), EventAt(table, list[n]))
      BY <2>3 DEF InOrder
    <2>5. QED
      BY <2>2, <2>3, <2>4
  <1>5. QED
    BY <1>2, <1>4 DEF InOrder, rest

\* A node put between those that come before it and those that come after.
LEMMA OrderWithNewNode ==
  ASSUME NEW table, NEW list \in Seq(Index), Len(list) \in Nat, InOrder(table, list),
         NEW k \in 1..(Len(list) + 1), NEW node \in Index, NEW new,
         \A i \in Members(list) : EventAt(new, i) = EventAt(table, i),
         \A j \in 1..Len(list) :
           j < k => Abstract!Before(EventAt(new, list[j]), EventAt(new, node)),
         \A j \in 1..Len(list) :
           j >= k => Abstract!Before(EventAt(new, node), EventAt(new, list[j]))
  PROVE  InOrder(new, Inserted(list, k, node))
  <1> DEFINE size == Len(list)
             more == Inserted(list, k, node)
  <1>1. size \in Nat /\ \A j \in 1..size : list[j] \in Members(list) /\ list[j] \in Index
    BY DEF Members
  <1>2. Len(more) = size + 1
    BY InsertedShape
  <1>3. ASSUME NEW j \in 1..(size + 1)
        PROVE  \/ j < k /\ j \in 1..size /\ more[j] = list[j]
               \/ j = k /\ more[j] = node
               \/ j > k /\ j - 1 \in 1..size /\ more[j] = list[j - 1]
    BY <1>1 DEF Inserted
  <1> HIDE DEF more
  <1>4. ASSUME NEW i \in 1..(size + 1), NEW j \in 1..(size + 1), i < j
        PROVE  Abstract!Before(EventAt(new, more[i]), EventAt(new, more[j]))
    <2>1. CASE i = k
      <3>1. j > k /\ ~(j < k) /\ j # k /\ k \in Nat
        BY <1>1, <1>4, <2>1
      <3>2. j - 1 \in 1..size /\ more[i] = node /\ more[j] = list[j - 1] /\ j - 1 >= k
        BY <1>1, <1>3, <2>1, <3>1
      <3>3. QED
        BY <3>2
    <2>2. CASE j = k
      <3>1. i \in 1..size /\ more[j] = node /\ more[i] = list[i] /\ i < k
        BY <1>1, <1>3, <1>4, <2>2
      <3>2. QED
        BY <3>1
    <2>3. CASE i # k /\ j # k
      <3> DEFINE m == IF i < k THEN i ELSE i - 1
                 n == IF j < k THEN j ELSE j - 1
      <3>1. m \in 1..size /\ n \in 1..size /\ m < n /\ more[i] = list[m] /\ more[j] = list[n]
        <4>1. m \in 1..size /\ more[i] = list[m]
          BY <1>1, <1>3, <2>3
        <4>2. n \in 1..size /\ more[j] = list[n]
          BY <1>1, <1>3, <2>3
        <4>3. m < n
          BY <1>1, <1>4, <2>3
        <4>4. QED
          BY <4>1, <4>2, <4>3
      <3> HIDE DEF m, n
      <3>2. Abstract!Before(EventAt(table, list[m]), EventAt(table, list[n]))
        BY <3>1 DEF InOrder
      <3>3. QED
        BY <1>1, <3>1, <3>2
    <2>4. QED
      BY <2>1, <2>2, <2>3
  <1>5. QED
    BY <1>2, <1>4 DEF InOrder, more

LEMMA SameEventAt ==
  ASSUME NEW i, SameEvent(i)
  PROVE  EventAt(events', i) = EventAt(events, i)
  BY DEF SameEvent, EventAt

LEMMA AddEventOrder ==
  ASSUME TimetrackInv, NEW cb \in Callback, NEW data \in CbData, NEW delay \in Delays,
         AddEvent(cb, data, delay)
  PROVE  QueueInOrder'
  <1> DEFINE exe_time == ticks + delay
             k == InsertPlace(exe_time)
             node == free_event
  <1>1. /\ exe_time \in 0..Horizon /\ k \in 1..(Len(Queue) + 1)
        /\ Queue' = Inserted(Queue, k, node)
        /\ \A i \in Index : i # node => SameEvent(i)
        /\ events'[node].exe_time = exe_time /\ events'[node].arrival = arrivals
    BY AddEventSplices
  <1>2. /\ free_event # Null /\ arrivals' = arrivals + 1
    BY DEF AddEvent
  <1>3. node \in Index /\ node \notin Members(Queue)
    BY <1>2, FreeNodeIsFirst
  <1>4. /\ Queue \in Seq(Index) /\ Len(Queue) \in Nat /\ Horizon \in Nat
        /\ \A j \in 1..Len(Queue) : Queue[j] \in Members(Queue)
        /\ \A i \in Members(Queue) : i \in Index
        /\ events \in [Index -> Node]
        /\ arrivals \in Nat
    BY ListsAre, TimetrackAssumption DEF TimetrackInv, TypeOK
  <1>5. \A i \in Index : events[i].exe_time \in Nat /\ events[i].arrival \in Nat
    BY <1>4 DEF Node
  <1>6. exe_time \in Nat
    BY <1>1, <1>4
  <1>7. /\ \A j \in 1..Len(Queue) : j < k => events[Queue[j]].exe_time <= exe_time
        /\ \A j \in 1..Len(Queue) : j >= k => events[Queue[j]].exe_time > exe_time
    BY <1>6, InsertPlaceSplits
  <1>8. \A i \in Members(Queue) : events[i].arrival < arrivals
    BY DEF TimetrackInv, QueueInOrder
  <1> HIDE DEF k, exe_time
  <1>9. \A i \in Members(Queue) : SameEvent(i) /\ EventAt(events', i) = EventAt(events, i)
    BY <1>1, <1>3, <1>4, SameEventAt
  <1>10. ASSUME NEW j \in 1..Len(Queue), j < k
         PROVE  Abstract!Before(EventAt(events', Queue[j]), EventAt(events', node))
    <2>1. Queue[j] \in Members(Queue) /\ Queue[j] \in Index
      BY <1>4
    <2>2. /\ events'[Queue[j]].exe_time = events[Queue[j]].exe_time
          /\ events'[Queue[j]].arrival = events[Queue[j]].arrival
      BY <1>9, <2>1 DEF SameEvent
    <2>3. events[Queue[j]].exe_time <= exe_time /\ events[Queue[j]].arrival < arrivals
      BY <1>7, <1>8, <1>10, <2>1
    <2>4. events[Queue[j]].exe_time \in Nat
      BY <1>5, <2>1
    <2>5. QED
      BY <1>1, <1>6, <2>2, <2>3, <2>4 DEF Abstract!Before, EventAt
  <1>11. ASSUME NEW j \in 1..Len(Queue), j >= k
         PROVE  Abstract!Before(EventAt(events', node), EventAt(events', Queue[j]))
    <2>1. Queue[j] \in Members(Queue) /\ Queue[j] \in Index
      BY <1>4
    <2>2. events'[Queue[j]].exe_time = events[Queue[j]].exe_time
      BY <1>9, <2>1 DEF SameEvent
    <2>3. events[Queue[j]].exe_time > exe_time /\ events[Queue[j]].exe_time \in Nat
      BY <1>5, <1>7, <1>11, <2>1
    <2>4. QED
      BY <1>1, <1>6, <2>2, <2>3 DEF Abstract!Before, EventAt
  <1>12. InOrder(events', Queue')
    <2>1. InOrder(events, Queue)
      BY DEF TimetrackInv, QueueInOrder
    <2>2. InOrder(events', Inserted(Queue, k, node))
      BY <1>1, <1>3, <1>4, <1>9, <1>10, <1>11, <2>1, OrderWithNewNode
    <2>3. QED
      BY <1>1, <2>2
  <1>13. \A i \in Members(Queue') : events'[i].arrival < arrivals'
    <2>1. Members(Queue') = Members(Queue) \cup {node}
      BY <1>1, <1>3, <1>4, InsertedShape
    <2>2. ASSUME NEW i \in Members(Queue) PROVE events'[i].arrival < arrivals + 1
      <3>1. events[i].arrival < arrivals /\ events[i].arrival \in Nat /\ events'[i].arrival = events[i].arrival
        BY <1>4, <1>5, <1>8, <1>9 DEF SameEvent
      <3>2. QED
        BY <1>4, <3>1
    <2>3. events'[node].arrival < arrivals + 1
      BY <1>1, <1>4
    <2>4. QED
      BY <1>2, <2>1, <2>2, <2>3
  <1>14. QED
    BY <1>12, <1>13 DEF QueueInOrder

\* The steps that take a node out of the queue.
LEMMA RemoveOrder ==
  ASSUME TimetrackInv, NEW k \in 1..Len(Queue), Queue' = Removed(Queue, k),
         \A i \in Index : i # Queue[k] => SameEvent(i), arrivals' = arrivals
  PROVE  QueueInOrder'
  <1>1. /\ Queue \in Seq(Index) /\ Len(Queue) \in Nat /\ Distinct(Queue)
        /\ \A i \in Members(Queue) : i \in Index
    BY ListsAre DEF TimetrackInv, ListsApart
  <1>2. \A i \in Members(Queue) : i # Queue[k] => SameEvent(i) /\ EventAt(events', i) = EventAt(events, i)
    BY <1>1, SameEventAt
  <1>3. InOrder(events', Queue')
    <2>1. InOrder(events, Queue)
      BY DEF TimetrackInv, QueueInOrder
    <2>2. InOrder(events', Removed(Queue, k))
      BY <1>1, <1>2, <2>1, OrderWithoutNode
    <2>3. QED
      BY <2>2
  <1>4. \A i \in Members(Queue') : events'[i].arrival < arrivals'
    <2>1. \A i \in Members(Queue') : i \in Members(Queue) /\ i # Queue[k]
      BY <1>1, RemovedShape
    <2>2. QED
      BY <1>2, <2>1 DEF TimetrackInv, QueueInOrder, SameEvent
  <1>5. QED
    BY <1>3, <1>4 DEF QueueInOrder

\* The steps that leave the queue alone.
LEMMA KeepOrder ==
  ASSUME TimetrackInv, Queue' = Queue, \A i \in Members(Queue) : SameEvent(i), arrivals' = arrivals
  PROVE  QueueInOrder'
  <1>1. \A j \in 1..Len(Queue) : Queue[j] \in Members(Queue)
    BY ListsAre
  <1>2. \A j \in 1..Len(Queue) : EventAt(events', Queue[j]) = EventAt(events, Queue[j])
    BY <1>1, SameEventAt
  <1>3. InOrder(events', Queue')
    BY <1>2 DEF TimetrackInv, QueueInOrder, InOrder
  <1>4. QED
    BY <1>3 DEF TimetrackInv, QueueInOrder, SameEvent

-----------------------------------------------------------------------------
(***************************************************************************)
(* Every step keeps the invariant.                                         *)
(***************************************************************************)

LEMMA ListHeads ==
  ASSUME IsList(events', next_event', Queue'), IsList(events', free_event', FreeList')
  PROVE  next_event' \in 0..MaxEvents /\ free_event' \in 0..MaxEvents
  BY NodeAtType DEF IsList

LEMMA AddEventPreserves ==
  ASSUME TimetrackInv, NEW cb \in Callback, NEW data \in CbData, NEW delay \in Delays,
         AddEvent(cb, data, delay)
  PROVE  TimetrackInv'
  <1> DEFINE k == InsertPlace(ticks + delay)
             node == free_event
  <1>1. /\ k \in 1..(Len(Queue) + 1)
        /\ events' \in [Index -> Node]
        /\ IsList(events', next_event', Queue') /\ Queue' = Inserted(Queue, k, node)
        /\ IsList(events', free_event', FreeList') /\ FreeList' = Removed(FreeList, 1)
    BY AddEventSplices
  <1>2. /\ free_event # Null /\ arrivals < MaxAdds /\ arrivals' = arrivals + 1
        /\ UNCHANGED <<ticks, current, phase, tick_marshal, tick_marshal_save, dumps>>
    BY DEF AddEvent, clock_vars
  <1> HIDE DEF k
  <1>3. /\ node \in Index /\ 1 \in 1..Len(FreeList) /\ node = FreeList[1]
        /\ node \notin Members(Queue) /\ node \notin InHand
    BY <1>2, FreeNodeIsFirst
  <1>4. /\ Queue \in Seq(Index) /\ Len(Queue) \in Nat /\ Distinct(Queue)
        /\ FreeList \in Seq(Index) /\ Len(FreeList) \in Nat /\ Distinct(FreeList)
    BY ListsAre DEF TimetrackInv, ListsApart
  <1>5. /\ Len(Queue') = Len(Queue) + 1 /\ Distinct(Queue')
        /\ Members(Queue') = Members(Queue) \cup {node}
    BY <1>1, <1>3, <1>4, InsertedShape
  <1>6. /\ Len(FreeList') = Len(FreeList) - 1 /\ Distinct(FreeList')
        /\ Members(FreeList) = Members(FreeList') \cup {node} /\ node \notin Members(FreeList')
    BY <1>1, <1>3, <1>4, RemovedShape
  <1>7. TypeOK'
    <2>1. arrivals' \in 0..MaxAdds
      BY <1>2, TimetrackAssumption DEF TimetrackInv, TypeOK
    <2>2. QED
      BY <1>1, <1>2, <2>1, ListHeads DEF TimetrackInv, TypeOK
  <1>8. InHand' = InHand
    BY <1>2 DEF InHand
  <1>9. ListsApart'
    BY <1>1, <1>3, <1>5, <1>6, <1>8 DEF TimetrackInv, ListsApart
  <1>10. ListsPartitionTable'
    <2>1. /\ Len(Queue) + Len(FreeList) + (IF phase = "callback" THEN 1 ELSE 0) = MaxEvents
          /\ Members(Queue) \cup Members(FreeList) \cup InHand = Index
      BY NodesInHand DEF TimetrackInv
    <2>2. Len(Queue') + Len(FreeList') + (IF phase' = "callback" THEN 1 ELSE 0) = MaxEvents
      BY <1>2, <1>4, <1>5, <1>6, <2>1
    <2>3. Members(Queue') \cup Members(FreeList') \cup InHand' = Index
      BY <1>5, <1>6, <1>8, <2>1
    <2>4. QED
      BY <2>2, <2>3, TableStaysDivided
  <1>11. QED
    BY <1>7, <1>9, <1>10, AddEventOrder DEF TimetrackInv

LEMMA UnlinkFirstPreserves ==
  ASSUME TimetrackInv, NEW matching \in SUBSET (1..Len(Queue)), UnlinkFirst(matching)
  PROVE  TimetrackInv'
  <1>1. PICK k \in matching :
          /\ events' \in [Index -> Node]
          /\ IsList(events', next_event', Queue') /\ Queue' = Removed(Queue, k)
          /\ IsList(events', free_event', FreeList') /\ FreeList' = Inserted(FreeList, 1, Queue[k])
          /\ \A i \in Index : i # Queue[k] => SameEvent(i)
    BY UnlinkFirstSplices
  <1>2. UNCHANGED <<ticks, current, phase, tick_marshal, tick_marshal_save, dumps, arrivals>>
    BY DEF UnlinkFirst, clock_vars
  <1>3. /\ Queue \in Seq(Index) /\ Len(Queue) \in Nat /\ Distinct(Queue)
        /\ FreeList \in Seq(Index) /\ Len(FreeList) \in Nat /\ Distinct(FreeList)
        /\ k \in 1..Len(Queue) /\ Queue[k] \in Index /\ 1 \in 1..(Len(FreeList) + 1)
        /\ Queue[k] \notin Members(FreeList) /\ Queue[k] \notin InHand
    BY ListsAre DEF TimetrackInv, ListsApart
  <1>4. /\ Len(Queue') = Len(Queue) - 1 /\ Distinct(Queue')
        /\ Members(Queue) = Members(Queue') \cup {Queue[k]} /\ Queue[k] \notin Members(Queue')
    BY <1>1, <1>3, RemovedShape
  <1>5. /\ Len(FreeList') = Len(FreeList) + 1 /\ Distinct(FreeList')
        /\ Members(FreeList') = Members(FreeList) \cup {Queue[k]}
    BY <1>1, <1>3, InsertedShape
  <1>6. TypeOK'
    BY <1>1, <1>2, ListHeads DEF TimetrackInv, TypeOK
  <1>7. InHand' = InHand
    BY <1>2 DEF InHand
  <1>8. ListsApart'
    BY <1>1, <1>3, <1>4, <1>5, <1>7 DEF TimetrackInv, ListsApart
  <1>9. ListsPartitionTable'
    <2>1. /\ Len(Queue) + Len(FreeList) + (IF phase = "callback" THEN 1 ELSE 0) = MaxEvents
          /\ Members(Queue) \cup Members(FreeList) \cup InHand = Index
      BY NodesInHand DEF TimetrackInv
    <2>2. Len(Queue') + Len(FreeList') + (IF phase' = "callback" THEN 1 ELSE 0) = MaxEvents
      BY <1>2, <1>3, <1>4, <1>5, <2>1
    <2>3. Members(Queue') \cup Members(FreeList') \cup InHand' = Index
      BY <1>4, <1>5, <1>7, <2>1
    <2>4. QED
      BY <2>2, <2>3, TableStaysDivided
  <1>10. QueueInOrder'
    BY <1>1, <1>2, <1>3, RemoveOrder
  <1>11. QED
    BY <1>6, <1>8, <1>9, <1>10 DEF TimetrackInv

LEMMA RunEventPreserves ==
  ASSUME TimetrackInv, RunEvent
  PROVE  TimetrackInv'
  <1>1. /\ 1 \in 1..Len(Queue) /\ current' = Queue[1]
        /\ IsList(events', next_event', Queue') /\ Queue' = Removed(Queue, 1)
        /\ IsList(events', free_event', FreeList') /\ FreeList' = FreeList
    BY RunEventSplices
  <1>2. /\ UNCHANGED <<ticks, events, tick_marshal, tick_marshal_save, dumps, arrivals>>
        /\ phase = "poll" /\ phase' = "callback"
    BY DEF RunEvent, clock_vars
  <1>3. /\ Queue \in Seq(Index) /\ Len(Queue) \in Nat /\ Distinct(Queue) /\ Queue[1] \in Index
        /\ Len(FreeList) \in Nat /\ Queue[1] \notin Members(FreeList)
    BY <1>1, ListsAre DEF TimetrackInv, ListsApart
  <1>4. /\ Len(Queue') = Len(Queue) - 1 /\ Distinct(Queue')
        /\ Members(Queue) = Members(Queue') \cup {Queue[1]} /\ Queue[1] \notin Members(Queue')
    BY <1>1, <1>3, RemovedShape
  <1>5. TypeOK'
    <2>1. current' \in 0..MaxEvents
      BY <1>1, <1>3, TimetrackAssumption DEF Index
    <2>2. QED
      BY <1>1, <1>2, <2>1, ListHeads DEF TimetrackInv, TypeOK
  <1>6. InHand' = {Queue[1]} /\ InHand = {}
    BY <1>1, <1>2 DEF InHand
  <1>7. ListsApart'
    BY <1>1, <1>3, <1>4, <1>6 DEF TimetrackInv, ListsApart
  <1>8. ListsPartitionTable'
    <2>1. /\ Len(Queue) + Len(FreeList) + 0 = MaxEvents
          /\ Members(Queue) \cup Members(FreeList) \cup InHand = Index
      BY <1>2, NodesInHand DEF TimetrackInv
    <2>2. Len(Queue') + Len(FreeList') + (IF phase' = "callback" THEN 1 ELSE 0) = MaxEvents
      BY <1>1, <1>2, <1>3, <1>4, <2>1
    <2>3. Members(Queue') \cup Members(FreeList') \cup InHand' = Index
      BY <1>1, <1>4, <1>6, <2>1
    <2>4. QED
      BY <2>2, <2>3, TableStaysDivided
  <1>9. QueueInOrder'
    BY <1>1, <1>2, RemoveOrder DEF SameEvent
  <1>10. QED
    BY <1>5, <1>7, <1>8, <1>9 DEF TimetrackInv

LEMMA FinishEventPreserves ==
  ASSUME TimetrackInv, FinishEvent
  PROVE  TimetrackInv'
  <1>1. /\ current \in Index /\ events' \in [Index -> Node]
        /\ IsList(events', next_event', Queue') /\ Queue' = Queue
        /\ IsList(events', free_event', FreeList') /\ FreeList' = Inserted(FreeList, 1, current)
        /\ \A i \in Index : i # current => SameEvent(i)
    BY FinishEventSplices
  <1>2. /\ UNCHANGED <<ticks, tick_marshal, tick_marshal_save, dumps, arrivals>>
        /\ phase = "callback" /\ phase' = "poll" /\ current' = Null
    BY DEF FinishEvent, clock_vars
  <1>3. /\ Len(Queue) \in Nat /\ FreeList \in Seq(Index) /\ Len(FreeList) \in Nat
        /\ Distinct(FreeList) /\ 1 \in 1..(Len(FreeList) + 1)
        /\ \A i \in Members(Queue) : i \in Index /\ i \notin InHand
        /\ current \notin Members(FreeList) /\ current \notin Members(Queue)
    BY <1>2, ListsAre DEF TimetrackInv, ListsApart, InHand
  <1>4. /\ Len(FreeList') = Len(FreeList) + 1 /\ Distinct(FreeList')
        /\ Members(FreeList') = Members(FreeList) \cup {current}
    BY <1>1, <1>3, InsertedShape
  <1>5. TypeOK'
    <2>1. current' \in 0..MaxEvents
      BY <1>2, TimetrackAssumption DEF Null
    <2>2. QED
      BY <1>1, <1>2, <2>1, ListHeads DEF TimetrackInv, TypeOK
  <1>6. InHand' = {} /\ InHand = {current}
    BY <1>2 DEF InHand
  <1>7. ListsApart'
    BY <1>1, <1>3, <1>4, <1>6 DEF TimetrackInv, ListsApart
  <1>8. ListsPartitionTable'
    <2>1. /\ Len(Queue) + Len(FreeList) + 1 = MaxEvents
          /\ Members(Queue) \cup Members(FreeList) \cup InHand = Index
      BY <1>2, NodesInHand DEF TimetrackInv
    <2>2. Len(Queue') + Len(FreeList') + (IF phase' = "callback" THEN 1 ELSE 0) = MaxEvents
      BY <1>1, <1>2, <1>3, <1>4, <2>1
    <2>3. Members(Queue') \cup Members(FreeList') \cup InHand' = Index
      BY <1>1, <1>4, <1>6, <2>1
    <2>4. QED
      BY <2>2, <2>3, TableStaysDivided
  <1>9. QueueInOrder'
    <2>1. \A i \in Members(Queue) : SameEvent(i)
      BY <1>1, <1>3
    <2>2. QED
      BY <1>1, <1>2, <2>1, KeepOrder
  <1>10. QED
    BY <1>5, <1>7, <1>8, <1>9 DEF TimetrackInv

\* The steps that do not touch the lists.
LEMMA ClockPreserves ==
  ASSUME TimetrackInv, UNCHANGED <<next_event, free_event, events, current, arrivals>>,
         phase # "callback", phase' \in {"poll", "execute"}, TypeOK'
  PROVE  TimetrackInv'
  <1>1. Queue' = Queue /\ FreeList' = FreeList
    BY DEF Queue, FreeList
  <1>2. InHand' = {} /\ InHand = {}
    BY DEF InHand
  <1>3. ListsApart'
    BY <1>1, <1>2 DEF TimetrackInv, ListsApart
  <1>4. ListsPartitionTable'
    BY <1>1 DEF TimetrackInv, ListsPartitionTable
  <1>5. QueueInOrder'
    BY <1>1, KeepOrder DEF SameEvent
  <1>6. QED
    BY <1>3, <1>4, <1>5 DEF TimetrackInv

LEMMA InitTimetrackInv ==
  ASSUME Init
  PROVE  TimetrackInv
  <1> DEFINE all == [k \in Index |-> k]
  <1>1. MaxEvents \in Nat \ {0} /\ Horizon \in Nat /\ MaxAdds \in Nat
    BY TimetrackAssumption
  <1>2. /\ next_event = Null /\ free_event = 1
        /\ events = [i \in Index |-> FreeNode(IF i < MaxEvents THEN i + 1 ELSE Null)]
        /\ phase = "execute" /\ current = Null
    BY DEF Init
  <1>3. all \in Seq(Index) /\ Len(all) = MaxEvents /\ \A k \in 1..MaxEvents : all[k] = k
    BY <1>1 DEF Index
  <1> HIDE DEF all
  <1>4. \A i \in Index : events[i] = FreeNode(IF i < MaxEvents THEN i + 1 ELSE Null)
    BY <1>2
  <1>5. IsList(events, free_event, all)
    <2>1. free_event = NodeAt(all, 1)
      BY <1>1, <1>2, <1>3 DEF NodeAt
    <2>2. ASSUME NEW k \in 1..MaxEvents
          PROVE  events[all[k]].next_event = NodeAt(all, k + 1)
      <3>1. all[k] = k /\ k \in Index
        BY <1>3 DEF Index
      <3>2. events[k].next_event = IF k < MaxEvents THEN k + 1 ELSE Null
        <4>1. events[k] = FreeNode(IF k < MaxEvents THEN k + 1 ELSE Null)
          BY <1>4, <3>1
        <4>2. \A next : FreeNode(next).next_event = next
          BY DEF FreeNode
        <4>3. QED
          BY <4>1, <4>2
      <3>3. CASE k < MaxEvents
        <4>1. k + 1 \in 1..MaxEvents /\ k + 1 <= MaxEvents
          BY <1>1, <3>3
        <4>2. QED
          BY <1>3, <3>1, <3>2, <3>3, <4>1 DEF NodeAt
      <3>4. CASE ~(k < MaxEvents)
        BY <1>1, <1>3, <3>1, <3>2, <3>4 DEF NodeAt
      <3>5. QED
        BY <3>3, <3>4
    <2>3. QED
      BY <1>1, <1>3, <2>1, <2>2 DEF IsList
  <1>6. IsList(events, next_event, <<>>)
    BY <1>1, <1>2 DEF IsList, NodeAt
  <1>7. Queue = <<>> /\ FreeList = all
    BY <1>5, <1>6, ChainOf DEF Queue, FreeList
  <1>8. InHand = {} /\ Members(Queue) = {} /\ Members(FreeList) = Index
    <2>1. Members(FreeList) = Index
      BY <1>3, <1>7 DEF Members, Index
    <2>2. Members(Queue) = {}
      BY <1>7 DEF Members
    <2>3. QED
      BY <1>2, <2>1, <2>2 DEF InHand
  <1>9. Distinct(Queue) /\ Distinct(FreeList)
    BY <1>3, <1>7 DEF Distinct
  <1>10. TypeOK
    <2>1. events \in [Index -> Node]
      <3>1. ASSUME NEW i \in Index
            PROVE  FreeNode(IF i < MaxEvents THEN i + 1 ELSE Null) \in Node
        BY <1>1 DEF FreeNode, Node, Index, Null
      <3>2. QED
        BY <1>2, <3>1
    <2>2. dumps \in Seq(0..Horizon)
      BY DEF Init
    <2>3. tick_marshal \in Int /\ tick_marshal_save \in Int
      BY TimetrackAssumption DEF Init, Never
    <2>4. QED
      BY <1>1, <1>2, <2>1, <2>2, <2>3 DEF Init, TypeOK, Null
  <1>11. ListsApart
    BY <1>5, <1>6, <1>7, <1>8, <1>9 DEF ListsApart
  <1>12. ListsPartitionTable
    <2>1. Len(Queue) + Len(FreeList) + 0 = MaxEvents
      BY <1>1, <1>3, <1>7
    <2>2. QED
      BY <1>2, <1>8, <2>1, TableDivided
  <1>13. QueueInOrder
    BY <1>7, <1>8 DEF QueueInOrder, InOrder
  <1>14. QED
    BY <1>10, <1>11, <1>12, <1>13 DEF TimetrackInv

LEMMA ChargeTicksTypeOK ==
  ASSUME TypeOK, NEW diff \in ChargeDiffs, ChargeTicks(diff)
  PROVE  TypeOK'
  <1>1. /\ ticks' = ticks + diff /\ ticks + diff <= Horizon /\ phase' = "execute"
        /\ UNCHANGED <<next_event, free_event, events, current, arrivals>>
        /\ \/ /\ tick_marshal' = tick_marshal + Period
              /\ tick_marshal_save' = tick_marshal + Period
              /\ dumps' = Append(dumps, ticks)
           \/ UNCHANGED <<tick_marshal, tick_marshal_save, dumps>>
    BY DEF ChargeTicks, clock_vars, list_vars
  <1>2. ticks' \in 0..Horizon /\ Period \in Int
    BY <1>1, TimetrackAssumption DEF TypeOK, Period, Never
  <1>3. dumps' \in Seq(0..Horizon)
    <2>1. dumps \in Seq(0..Horizon) /\ ticks \in 0..Horizon
      BY DEF TypeOK
    <2>2. Append(dumps, ticks) \in Seq(0..Horizon)
      BY <2>1, AppendProperties
    <2>3. QED
      BY <1>1, <2>1, <2>2
  <1>4. tick_marshal' \in Int /\ tick_marshal_save' \in Int
    BY <1>1, <1>2 DEF TypeOK
  <1>5. QED
    BY <1>1, <1>2, <1>3, <1>4 DEF TypeOK

LEMMA NextPreserves ==
  ASSUME TimetrackInv, [Next]_vars
  PROVE  TimetrackInv'
  <1>1. CASE UNCHANGED vars
    <2>1. UNCHANGED <<ticks, next_event, free_event, events, current, phase, tick_marshal,
                      tick_marshal_save, dumps, arrivals>>
      BY <1>1 DEF vars, list_vars, clock_vars
    <2>2. Queue' = Queue /\ FreeList' = FreeList /\ InHand' = InHand
      BY <2>1 DEF Queue, FreeList, InHand
    <2>3. QueueInOrder'
      BY <2>1, <2>2, KeepOrder DEF SameEvent
    <2>4. QED
      BY <2>1, <2>2, <2>3 DEF TimetrackInv, TypeOK, ListsApart, ListsPartitionTable
  <1>2. ASSUME NEW cb \in Callback, NEW data \in CbData, NEW delay \in Delays,
               AddEvent(cb, data, delay)
        PROVE  TimetrackInv'
    BY <1>2, AddEventPreserves
  <1>3. ASSUME NEW cb \in Callback, RemoveEvent(cb)
        PROVE  TimetrackInv'
    BY <1>3, UnlinkFirstPreserves DEF RemoveEvent
  <1>4. ASSUME NEW cb \in Callback, NEW data \in CbData, RemoveEventData(cb, data)
        PROVE  TimetrackInv'
    BY <1>4, UnlinkFirstPreserves DEF RemoveEventData
  <1>5. ASSUME NEW diff \in ChargeDiffs, ChargeTicks(diff)
        PROVE  TimetrackInv'
    <2>1. TypeOK'
      BY <1>5, ChargeTicksTypeOK DEF TimetrackInv
    <2>2. QED
      BY <1>5, <2>1, ClockPreserves DEF ChargeTicks, list_vars
  <1>6. ASSUME EndInstruction
        PROVE  TimetrackInv'
    <2>1. TypeOK'
      BY <1>6 DEF TimetrackInv, TypeOK, EndInstruction, list_vars, clock_vars
    <2>2. QED
      BY <1>6, <2>1, ClockPreserves DEF EndInstruction, list_vars
  <1>7. QED
    BY <1>1, <1>2, <1>3, <1>4, <1>5, <1>6, RunEventPreserves, FinishEventPreserves DEF Next

LEMMA TimetrackInvHolds == Spec => []TimetrackInv
  <1>1. Init => TimetrackInv
    BY InitTimetrackInv
  <1>2. TimetrackInv /\ [Next]_vars => TimetrackInv'
    BY NextPreserves
  <1>3. QED
    BY <1>1, <1>2, PTL DEF Spec

\* Every variable keeps its type: links stay within the table, deadlines
\* within the horizon.
THEOREM TimetrackTypeCorrect == Spec => []TypeOK
  <1>1. TimetrackInv => TypeOK
    BY DEF TimetrackInv
  <1>2. QED
    BY <1>1, TimetrackInvHolds, PTL

\* No node is lost, shared or listed twice by the splices of add_event,
\* remove_event and run_events, callbacks included, for a table of any size.
THEOREM TableIsPartitioned == Spec => []ListsPartitionTable
  <1>1. TimetrackInv => ListsPartitionTable
    BY DEF TimetrackInv
  <1>2. QED
    BY <1>1, TimetrackInvHolds, PTL

-----------------------------------------------------------------------------
(***************************************************************************)
(* Snapshots.                                                              *)
(***************************************************************************)

\* The next snapshot is a whole number of periods away from the start.
SnapshotInv ==
  (PeriodArg # Never /\ TickMarshalArg = Never) =>
    /\ ticks <= tick_marshal
    /\ tick_marshal <= ticks + PeriodArg
    /\ \A k \in 1..Len(dumps) : dumps[k] = k * PeriodArg
    /\ tick_marshal = (Len(dumps) + 1) * PeriodArg

LEMMA OneMoreTimes ==
  ASSUME NEW n \in Nat, NEW p \in Nat
  PROVE  (n + 1) * p + p = (n + 1 + 1) * p
  OBVIOUS

\* With -P alone, snapshots are written one period apart from the start on,
\* whatever the period.  The decode loop charges one tick for an instruction.
THEOREM SnapshotsArePeriodic ==
  ASSUME ChargeDiffs = {1}
  PROVE  Spec => []SnapshotsOnSchedule
  <1> DEFINE Periodic == PeriodArg # Never /\ TickMarshalArg = Never
  <1>1. Init => SnapshotInv
    <2> SUFFICES ASSUME Init, Periodic
                 PROVE  /\ ticks <= tick_marshal
                        /\ tick_marshal <= ticks + PeriodArg
                        /\ \A k \in 1..Len(dumps) : dumps[k] = k * PeriodArg
                        /\ tick_marshal = (Len(dumps) + 1) * PeriodArg
      BY DEF SnapshotInv
    <2>1. PeriodArg \in Nat \ {0} /\ ticks = 0 /\ tick_marshal = PeriodArg /\ dumps = <<>>
      BY TimetrackAssumption DEF Init
    <2>2. (0 + 1) * PeriodArg = PeriodArg
      BY <2>1, SMTT(60)
    <2>3. QED
      BY <2>1, <2>2
  <1>2. SnapshotInv /\ TypeOK /\ [Next]_vars => SnapshotInv'
    <2> SUFFICES ASSUME SnapshotInv, TypeOK, [Next]_vars, Periodic
                 PROVE  /\ ticks' <= tick_marshal'
                        /\ tick_marshal' <= ticks' + PeriodArg
                        /\ \A k \in 1..Len(dumps') : dumps'[k] = k * PeriodArg
                        /\ tick_marshal' = (Len(dumps') + 1) * PeriodArg
      BY DEF SnapshotInv
    <2>1. /\ PeriodArg \in Nat \ {0} /\ Period = PeriodArg /\ MarshalFuncSet
          /\ ticks \in Nat /\ tick_marshal \in Int /\ dumps \in Seq(0..Horizon) /\ Len(dumps) \in Nat
          /\ ticks \in 0..Horizon
      BY TimetrackAssumption DEF TypeOK, Period, MarshalFuncSet
    <2>2. /\ ticks <= tick_marshal /\ tick_marshal <= ticks + PeriodArg
          /\ \A k \in 1..Len(dumps) : dumps[k] = k * PeriodArg
          /\ tick_marshal = (Len(dumps) + 1) * PeriodArg
      BY DEF SnapshotInv
    <2>3. CASE UNCHANGED <<ticks, tick_marshal, dumps>>
      BY <2>2, <2>3
    <2>4. CASE \E diff \in ChargeDiffs : ChargeTicks(diff)
      <3>1. ticks' = ticks + 1
        BY <2>4 DEF ChargeTicks
      <3>2. CASE SnapshotDue(ticks + 1)
        <4>1. /\ tick_marshal = ticks
              /\ tick_marshal' = tick_marshal + PeriodArg /\ dumps' = Append(dumps, ticks)
          <5>1. ticks <= tick_marshal /\ tick_marshal < ticks + 1
            BY <3>2 DEF SnapshotDue
          <5>2. QED
            BY <2>1, <2>4, <3>2, <5>1 DEF ChargeTicks
        <4>2. /\ Len(dumps') = Len(dumps) + 1 /\ dumps'[Len(dumps) + 1] = ticks
              /\ \A k \in 1..Len(dumps) : dumps'[k] = dumps[k]
          BY <2>1, <4>1, AppendProperties
        <4>3. PICK n \in Nat : n = Len(dumps)
          BY <2>1
        <4>4. tick_marshal' = (n + 1 + 1) * PeriodArg
          <5>1. tick_marshal' = (n + 1) * PeriodArg + PeriodArg
            BY <2>2, <4>1, <4>3
          <5>2. (n + 1) * PeriodArg + PeriodArg = (n + 1 + 1) * PeriodArg
            BY <2>1, OneMoreTimes
          <5>3. QED
            BY <5>1, <5>2
        <4>5. ASSUME NEW k \in 1..(n + 1) PROVE dumps'[k] = k * PeriodArg
          <5>1. CASE k = n + 1
            BY <2>2, <4>1, <4>2, <4>3, <5>1
          <5>2. CASE k # n + 1
            <6>1. k \in 1..n
              BY <5>2
            <6>2. QED
              BY <2>2, <4>2, <4>3, <6>1
          <5>3. QED
            BY <5>1, <5>2
        <4>6. QED
          <5>1. ticks' <= tick_marshal' /\ tick_marshal' <= ticks' + PeriodArg
            BY <2>1, <3>1, <4>1
          <5>2. Len(dumps') = n + 1
            BY <4>2, <4>3
          <5>3. QED
            BY <4>4, <4>5, <5>1, <5>2
      <3>3. CASE ~SnapshotDue(ticks + 1)
        <4>1. UNCHANGED <<tick_marshal, dumps>>
          BY <2>4, <3>3 DEF ChargeTicks, clock_vars
        <4>2. ~(tick_marshal < ticks + 1)
          BY <2>1, <2>2, <3>3 DEF SnapshotDue
        <4>3. QED
          BY <2>1, <2>2, <3>1, <4>1, <4>2
      <3>4. QED
        BY <3>2, <3>3
    <2>5. QED
      BY <2>3, <2>4, ZenonT(60) DEF Next, vars, clock_vars, AddEvent, RemoveEvent, RemoveEventData, UnlinkFirst,
        RunEvent, FinishEvent, EndInstruction
  <1>3. SnapshotInv => SnapshotsOnSchedule
    BY DEF SnapshotInv, SnapshotsOnSchedule
  <1>4. QED
    BY <1>1, <1>2, <1>3, TimetrackTypeCorrect, PTL DEF Spec

-----------------------------------------------------------------------------
(***************************************************************************)
(* The lists implement the abstract queue.                                 *)
(***************************************************************************)

Pending == {EventAt(events, i) : i \in Members(Queue)}
Running == IF phase = "callback" THEN {EventAt(events, current)} ELSE {}

LEMMA MappedState ==
  /\ {AbstractEvent(i) : i \in Members(Queue)} = Pending
  /\ (IF phase = "callback" THEN {AbstractEvent(current)} ELSE {}) = Running
  BY DEF Pending, Running, AbstractEvent, EventAt

LEMMA MappedStateNext ==
  /\ {AbstractEvent(i) : i \in Members(Queue)}' = Pending'
  /\ (IF phase = "callback" THEN {AbstractEvent(current)} ELSE {})' = Running'
  BY DEF Pending, Running, AbstractEvent, EventAt

\* EventQueue counts with the same operator.
LEMMA AbstractCardinality ==
  ASSUME NEW S
  PROVE  Abstract!Cardinality(S) = Cardinality(S)
  BY DEF Abstract!Cardinality, Cardinality

LEMMA NodeTimes ==
  ASSUME TimetrackInv, NEW i \in Index
  PROVE  events[i].exe_time \in Nat /\ events[i].arrival \in Nat
  <1>1. events[i] \in Node /\ Horizon \in Nat
    BY ListsAre
  <1>2. QED
    BY <1>1 DEF Node

\* Two places of the queue hold different events, the earlier one Before.
LEMMA PlacesDiffer ==
  ASSUME TimetrackInv, NEW j \in 1..Len(Queue), NEW k \in 1..Len(Queue)
  PROVE  /\ j < k => Abstract!Before(EventAt(events, Queue[j]), EventAt(events, Queue[k]))
         /\ Abstract!Before(EventAt(events, Queue[j]), EventAt(events, Queue[k])) =>
              ~Abstract!Before(EventAt(events, Queue[k]), EventAt(events, Queue[j]))
         /\ j # k => EventAt(events, Queue[j]) # EventAt(events, Queue[k])
  <1> DEFINE e(i) == EventAt(events, Queue[i])
  <1>1. j \in Nat /\ k \in Nat /\ Queue[j] \in Index /\ Queue[k] \in Index
    BY ListsAre
  <1>2. \A i \in Index : events[i].exe_time \in Nat /\ events[i].arrival \in Nat
    BY NodeTimes
  <1>3. /\ e(j).time \in Nat /\ e(j).arrival \in Nat
        /\ e(k).time \in Nat /\ e(k).arrival \in Nat
    BY <1>1, <1>2 DEF EventAt
  <1>4. /\ j < k => Abstract!Before(e(j), e(k))
        /\ k < j => Abstract!Before(e(k), e(j))
    BY DEF TimetrackInv, QueueInOrder, InOrder
  <1> HIDE DEF e
  <1>5. /\ Abstract!Before(e(j), e(k)) => ~Abstract!Before(e(k), e(j)) /\ e(j) # e(k)
        /\ Abstract!Before(e(k), e(j)) => e(j) # e(k)
    BY <1>3 DEF Abstract!Before
  <1>6. QED
    BY <1>1, <1>4, <1>5 DEF e

\* The events that wait are those of the queue, at most as many.
LEMMA PendingFits ==
  ASSUME TimetrackInv
  PROVE  /\ \A e : e \in Pending <=> \E j \in 1..Len(Queue) : e = EventAt(events, Queue[j])
         /\ Cardinality(Pending) \in Nat /\ Cardinality(Pending) <= Len(Queue)
  <1>1. Len(Queue) \in Nat /\ 1..Len(Queue) = DOMAIN [j \in 1..Len(Queue) |-> j]
    BY ListsAre
  <1>2. \A e : e \in Pending <=> \E j \in 1..Len(Queue) : e = EventAt(events, Queue[j])
    BY DEF Pending, Members
  <1> DEFINE f == [j \in 1..Len(Queue) |-> EventAt(events, Queue[j])]
  <1>3. f \in Surjection(1..Len(Queue), Pending)
    BY <1>2 DEF Surjection
  <1>4. ExistsSurjection(1..Len(Queue), Pending)
    BY <1>3 DEF ExistsSurjection
  <1>5. Cardinality(Pending) <= Len(Queue)
    BY <1>1, <1>4, FS_SurjCardinalityBound
  <1>6. IsFiniteSet(Pending)
    BY <1>1, <1>4, FS_NatSurjection
  <1>7. Cardinality(Pending) \in Nat
    BY <1>6, FS_CardinalityType
  <1>8. QED
    BY <1>2, <1>5, <1>7

\* Taking a node out of the queue takes one event away.
LEMMA PendingWithout ==
  ASSUME TimetrackInv, NEW k \in 1..Len(Queue), Queue' = Removed(Queue, k),
         \A i \in Index : i # Queue[k] => SameEvent(i)
  PROVE  Pending' = Pending \ {EventAt(events, Queue[k])}
  <1>1. /\ Queue \in Seq(Index) /\ Len(Queue) \in Nat /\ Distinct(Queue)
        /\ \A i \in Members(Queue) : i \in Index
    BY ListsAre DEF TimetrackInv, ListsApart
  <1>2. Members(Queue) = Members(Queue') \cup {Queue[k]} /\ Queue[k] \notin Members(Queue')
    BY <1>1, RemovedShape
  <1>3. \A i \in Members(Queue') : EventAt(events', i) = EventAt(events, i)
    BY <1>1, <1>2, SameEventAt
  <1>4. Pending' = {EventAt(events, i) : i \in Members(Queue')}
    BY <1>3 DEF Pending
  <1>5. \A i \in Members(Queue') : EventAt(events, i) # EventAt(events, Queue[k])
    <2>1. ASSUME NEW i \in Members(Queue') PROVE EventAt(events, i) # EventAt(events, Queue[k])
      <3>1. PICK j \in 1..Len(Queue) : i = Queue[j]
        BY <1>2 DEF Members
      <3>2. j # k
        BY <1>2, <3>1
      <3>3. QED
        BY <3>1, <3>2, PlacesDiffer
    <2>2. QED
      BY <2>1
  <1>6. QED
    BY <1>2, <1>4, <1>5 DEF Pending

LEMMA AddEventSchedules ==
  ASSUME TimetrackInv, NEW cb \in Callback, NEW data \in CbData, NEW delay \in Delays,
         AddEvent(cb, data, delay)
  PROVE  Abstract!Schedule(cb, data, delay)
  <1> DEFINE k == InsertPlace(ticks + delay)
             node == free_event
             event == [time |-> ticks + delay, cb |-> cb, data |-> data, arrival |-> arrivals]
  <1>1. /\ k \in 1..(Len(Queue) + 1) /\ Queue' = Inserted(Queue, k, node)
        /\ \A i \in Index : i # node => SameEvent(i)
        /\ EventAt(events', node) = event
    BY AddEventSplices DEF EventAt
  <1>2. /\ InUserCode /\ free_event # Null /\ arrivals < MaxAdds /\ ticks + delay <= Horizon
        /\ arrivals' = arrivals + 1 /\ UNCHANGED <<ticks, current, phase>>
    BY DEF AddEvent
  <1> HIDE DEF k
  <1>3. /\ node \in Index /\ node \notin Members(Queue) /\ node \notin InHand
        /\ Len(Queue) + (IF phase = "callback" THEN 1 ELSE 0) < MaxEvents
    BY <1>2, FreeNodeIsFirst
  <1>4. /\ Queue \in Seq(Index) /\ Len(Queue) \in Nat
        /\ \A i \in Members(Queue) : i \in Index
        /\ InHand \subseteq Index
    BY ListsAre, NodesInHand DEF TimetrackInv
  <1>5. Pending' = Pending \cup {event}
    <2>1. Members(Queue') = Members(Queue) \cup {node}
      BY <1>1, <1>3, <1>4, InsertedShape
    <2>2. \A i \in Members(Queue) : EventAt(events', i) = EventAt(events, i)
      BY <1>1, <1>3, <1>4, SameEventAt
    <2> HIDE DEF event
    <2>3. Pending' = {EventAt(events', i) : i \in Members(Queue')}
      BY DEF Pending
    <2>4. QED
      BY <1>1, <2>1, <2>2, <2>3 DEF Pending
  <1>6. Running' = Running
    <2>1. phase = "callback" => current \in Index /\ current # node
      BY <1>3, <1>4 DEF InHand
    <2>2. phase = "callback" => EventAt(events', current) = EventAt(events, current)
      BY <1>1, <2>1, SameEventAt
    <2>3. QED
      BY <1>2, <2>2 DEF Running
  <1>7. Cardinality(Pending) + Cardinality(Running) < MaxEvents
    <2>1. Cardinality(Running) = IF phase = "callback" THEN 1 ELSE 0
      BY FS_Singleton, FS_EmptySet DEF Running
    <2>2. QED
      BY <1>3, <1>4, <2>1, PendingFits, TimetrackAssumption
  <1>8. QED
    <2>1. /\ phase \in {"callback", "execute"} /\ arrivals < MaxAdds /\ ticks + delay <= Horizon
          /\ arrivals' = arrivals + 1 /\ UNCHANGED <<ticks, phase>>
      BY <1>2 DEF InUserCode
    <2>2. Pending' = Pending \cup {[time |-> ticks + delay, cb |-> cb, data |-> data, arrival |-> arrivals]}
      BY <1>5
    <2>3. Abstract!Cardinality(Pending) + Abstract!Cardinality(Running) < MaxEvents
      BY <1>7, AbstractCardinality
    <2>4. QED
      BY <1>6, <2>1, <2>2, <2>3, MappedState, MappedStateNext DEF Abstract!Schedule

LEMMA UnlinkFirstCancels ==
  ASSUME TimetrackInv, NEW matching \in SUBSET (1..Len(Queue)), UnlinkFirst(matching)
  PROVE  Abstract!CancelFirst({EventAt(events, Queue[j]) : j \in matching})
  <1> DEFINE S == {EventAt(events, Queue[j]) : j \in matching}
  <1>1. PICK k \in matching :
          /\ \A j \in matching : k <= j
          /\ Queue' = Removed(Queue, k)
          /\ \A i \in Index : i # Queue[k] => SameEvent(i)
    BY UnlinkFirstSplices
  <1>2. InUserCode /\ UNCHANGED <<ticks, current, phase, arrivals>>
    BY DEF UnlinkFirst
  <1> DEFINE first == EventAt(events, Queue[k])
  <1>3. Abstract!First(S) = first
    <2>1. first \in S
      OBVIOUS
    <2>2. \A f \in S \ {first} : Abstract!Before(first, f) /\ ~Abstract!Before(f, first)
      <3> SUFFICES ASSUME NEW f \in S \ {first}
                   PROVE  Abstract!Before(first, f) /\ ~Abstract!Before(f, first)
        OBVIOUS
      <3>1. PICK j \in matching : f = EventAt(events, Queue[j])
        OBVIOUS
      <3>2. j # k
        BY <3>1
      <3>3. k < j /\ j \in 1..Len(Queue) /\ k \in 1..Len(Queue)
        BY <1>1, <3>2, ListsAre
      <3>4. QED
        BY <3>1, <3>3, PlacesDiffer
    <2> HIDE DEF S, first
    <2>3. QED
      BY <2>1, <2>2 DEF Abstract!First
  <1>4. Pending' = Pending \ {first}
    BY <1>1, PendingWithout
  <1>5. Running' = Running
    <2>1. phase = "callback" => current \in Index /\ current # Queue[k]
      BY ListsAre, NodesInHand DEF TimetrackInv, InHand
    <2>2. phase = "callback" => EventAt(events', current) = EventAt(events, current)
      BY <1>1, <2>1, SameEventAt
    <2>3. QED
      BY <1>2, <2>2 DEF Running
  <1>6. S # {}
    OBVIOUS
  <1> HIDE DEF S, first
  <1>7. Abstract!CancelFirst(S)
    BY <1>2, <1>3, <1>4, <1>5, <1>6
    DEF Abstract!CancelFirst, Pending, Running, AbstractEvent, EventAt, InUserCode
  <1>8. QED
    BY <1>7 DEF S

LEMMA RunEventDispatches ==
  ASSUME TimetrackInv, RunEvent
  PROVE  Abstract!Dispatch
  <1> DEFINE head == EventAt(events, Queue[1])
  <1>1. /\ 1 \in 1..Len(Queue) /\ current' = Queue[1] /\ next_event = Queue[1]
        /\ events[next_event].exe_time <= ticks /\ Queue' = Removed(Queue, 1)
    BY RunEventSplices
  <1>2. phase = "poll" /\ phase' = "callback" /\ UNCHANGED <<ticks, events, arrivals>>
    BY DEF RunEvent
  <1>3. head \in Pending /\ head.time <= ticks
    BY <1>1, PendingFits DEF EventAt
  <1>4. \A f \in Pending \ {head} : Abstract!Before(head, f)
    <2> SUFFICES ASSUME NEW f \in Pending \ {head} PROVE Abstract!Before(head, f)
      OBVIOUS
    <2>1. PICK j \in 1..Len(Queue) : f = EventAt(events, Queue[j])
      BY PendingFits
    <2>2. 1 < j
      BY <2>1, ListsAre
    <2>3. QED
      BY <1>1, <2>1, <2>2, PlacesDiffer
  <1>5. Pending' = Pending \ {head}
    BY <1>1, <1>2, PendingWithout DEF SameEvent
  <1>6. Running' = {head}
    BY <1>1, <1>2 DEF Running
  <1> HIDE DEF head
  <1>7. QED
    BY <1>2, <1>3, <1>4, <1>5, <1>6
    DEF Abstract!Dispatch, Abstract!Due, Pending, Running, AbstractEvent, EventAt

LEMMA FinishEventReturns ==
  ASSUME TimetrackInv, FinishEvent
  PROVE  Abstract!Return
  <1>1. Queue' = Queue /\ \A i \in Index : i # current => SameEvent(i)
    BY FinishEventSplices
  <1>2. phase = "callback" /\ phase' = "poll" /\ UNCHANGED <<ticks, arrivals>>
    BY DEF FinishEvent
  <1>3. \A i \in Members(Queue) : i \in Index /\ i # current
    BY <1>2, ListsAre DEF InHand
  <1>4. \A i \in Members(Queue) : EventAt(events', i) = EventAt(events, i)
    BY <1>1, <1>3, SameEventAt
  <1>5. Pending' = Pending
    BY <1>1, <1>4 DEF Pending
  <1>6. Running' = {}
    BY <1>2 DEF Running
  <1>7. QED
    BY <1>2, <1>5, <1>6 DEF Abstract!Return, Pending, Running, AbstractEvent, EventAt

LEMMA SamePending ==
  ASSUME UNCHANGED <<next_event, events, current>>, (phase' = "callback") <=> (phase = "callback")
  PROVE  Pending' = Pending /\ Running' = Running
  <1>1. Queue' = Queue
    BY DEF Queue
  <1>2. QED
    BY <1>1 DEF Pending, Running

LEMMA ChargeTicksCharges ==
  ASSUME TimetrackInv, NEW diff \in ChargeDiffs, ChargeTicks(diff)
  PROVE  Abstract!Charge(diff)
  <1>1. /\ phase = "poll" /\ ~HeadDue /\ ticks + diff <= Horizon /\ ticks' = ticks + diff
        /\ phase' = "execute" /\ UNCHANGED <<next_event, events, current, arrivals>>
    BY DEF ChargeTicks, list_vars
  <1>2. \A e \in Pending : ~(e.time <= ticks)
    <2> SUFFICES ASSUME NEW e \in Pending PROVE ~(e.time <= ticks)
      OBVIOUS
    <2>1. PICK j \in 1..Len(Queue) : e = EventAt(events, Queue[j])
      BY PendingFits
    <2>2. /\ 1 \in 1..Len(Queue) /\ Queue[1] \in Index /\ Queue[j] \in Index /\ next_event = Queue[1]
          /\ Len(Queue) \in Nat
      <3>1. 1 \in 1..Len(Queue)
        BY ListsAre
      <3>2. QED
        BY <3>1, ListsAre DEF NodeAt
    <2>3. /\ events[Queue[1]].exe_time \in Nat /\ events[Queue[j]].exe_time \in Nat /\ ticks \in Nat
      BY <2>2, NodeTimes DEF TimetrackInv, TypeOK
    <2>4. ~(events[Queue[1]].exe_time <= ticks)
      BY <1>1, <2>2 DEF HeadDue, Index, Null
    <2>5. events[Queue[1]].exe_time <= events[Queue[j]].exe_time
      <3>1. CASE j = 1
        BY <2>3, <3>1
      <3>2. CASE j # 1
        <4>1. 1 < j
          BY <2>2, <3>2
        <4>2. Abstract!Before(EventAt(events, Queue[1]), EventAt(events, Queue[j]))
          BY <2>2, <4>1, PlacesDiffer
        <4>3. QED
          BY <2>3, <4>2 DEF Abstract!Before, EventAt
      <3>3. QED
        BY <3>1, <3>2
    <2>6. QED
      BY <2>1, <2>3, <2>4, <2>5 DEF EventAt
  <1>3. Pending' = Pending /\ Running' = Running
    BY <1>1, SamePending
  <1>4. QED
    BY <1>1, <1>2, <1>3
    DEF Abstract!Charge, Abstract!Due, Pending, Running, AbstractEvent, EventAt

\* Every step of the lists is a step of the queue of EventQueue or leaves it
\* as it is: events run in the order of their deadlines, those of one deadline
\* in the order they were scheduled, each once, and removing takes the first.
THEOREM TimetrackImplementsEventQueue == Spec => ImplementsEventQueue
  <1>1. Init => Abstract!Init
    <2> SUFFICES ASSUME Init PROVE Abstract!Init
      OBVIOUS
    <2>1. Queue = <<>>
      <3>1. IsList(events, next_event, <<>>)
        BY TimetrackAssumption DEF Init, IsList, NodeAt
      <3>2. QED
        BY <3>1, ChainOf DEF Queue
    <2>2. Members(Queue) = {}
      BY <2>1 DEF Members
    <2>3. QED
      BY <2>2 DEF Init, Abstract!Init
  <1>2. TimetrackInv /\ [Next]_vars => [Abstract!Next]_Abstract!vars
    <2> SUFFICES ASSUME TimetrackInv, [Next]_vars
                 PROVE  [Abstract!Next]_Abstract!vars
      OBVIOUS
    <2>1. ASSUME NEW cb \in Callback, NEW data \in CbData, NEW delay \in Delays,
                 AddEvent(cb, data, delay)
          PROVE  Abstract!Next
      BY <2>1, AddEventSchedules DEF Abstract!Next
    <2>2. ASSUME NEW cb \in Callback, RemoveEvent(cb)
          PROVE  Abstract!Next
      <3> DEFINE matching == {k \in 1..Len(Queue) : events[Queue[k]].cb = cb}
                 S == {EventAt(events, Queue[j]) : j \in matching}
      <3>1. Abstract!CancelFirst(S)
        BY <2>2, UnlinkFirstCancels DEF RemoveEvent
      <3>2. S = {e \in Pending : e.cb = cb}
        BY PendingFits DEF EventAt
      <3>3. Abstract!Cancel(cb)
        <4> HIDE DEF S
        <4> QED
          BY <3>1, <3>2, MappedState DEF Abstract!Cancel
      <3>4. QED
        BY <3>3 DEF Abstract!Next
    <2>3. ASSUME NEW cb \in Callback, NEW data \in CbData, RemoveEventData(cb, data)
          PROVE  Abstract!Next
      <3> DEFINE matching == {k \in 1..Len(Queue) : /\ events[Queue[k]].cb = cb
                                                    /\ events[Queue[k]].cb_data = data}
                 S == {EventAt(events, Queue[j]) : j \in matching}
      <3>1. Abstract!CancelFirst(S)
        BY <2>3, UnlinkFirstCancels DEF RemoveEventData
      <3>2. S = {e \in Pending : e.cb = cb /\ e.data = data}
        BY PendingFits DEF EventAt
      <3>3. Abstract!CancelData(cb, data)
        <4> HIDE DEF S
        <4> QED
          BY <3>1, <3>2, MappedState DEF Abstract!CancelData
      <3>4. QED
        BY <3>3 DEF Abstract!Next
    <2>4. CASE RunEvent
      BY <2>4, RunEventDispatches DEF Abstract!Next
    <2>5. CASE FinishEvent
      BY <2>5, FinishEventReturns DEF Abstract!Next
    <2>6. ASSUME NEW diff \in ChargeDiffs, ChargeTicks(diff)
          PROVE  Abstract!Next
      BY <2>6, ChargeTicksCharges DEF Abstract!Next
    <2>7. CASE EndInstruction
      <3>1. Pending' = Pending /\ Running' = Running
        BY <2>7, SamePending DEF EndInstruction, list_vars
      <3>2. Abstract!EndInstruction
        BY <2>7, <3>1
        DEF EndInstruction, Abstract!EndInstruction, Pending, Running, AbstractEvent, EventAt
      <3>3. QED
        BY <3>2 DEF Abstract!Next
    <2>8. CASE UNCHANGED vars
      <3>1. UNCHANGED <<ticks, next_event, events, current, phase, arrivals>>
        BY <2>8 DEF vars, list_vars
      <3>2. Pending' = Pending /\ Running' = Running
        BY <3>1, SamePending
      <3>3. UNCHANGED Abstract!vars
        BY <3>1, <3>2 DEF Abstract!vars, Pending, Running, AbstractEvent, EventAt
      <3>4. QED
        BY <3>3
    <2>9. QED
      BY <2>1, <2>2, <2>3, <2>4, <2>5, <2>6, <2>7, <2>8 DEF Next
  <1>3. QED
    BY <1>1, <1>2, TimetrackInvHolds, PTL DEF Spec, ImplementsEventQueue, Abstract!Spec

=============================================================================
