---------------------------- MODULE ThreadProofs ----------------------------
(***************************************************************************)
(* Proofs about the thread machinery, for any numbers of threads, values,  *)
(* tasks and places: the queues and the pool lose no wakeup and no item,   *)
(* a loop that is handed out exists, and the log keeps its lines.          *)
(***************************************************************************)
EXTENDS BlockingQueue, ThreadPool, EventLoopThreadPool, AsyncLogging,
        SequenceTheorems, FiniteSetTheorems, TLAPS

(* muduo::Condition: how the numbers at two control points change.         *)

(* Thread t moves from one point to another. *)
LEMMA MoveCounts ==
  ASSUME NEW T, IsFiniteSet(T), NEW S, NEW pc \in [T -> S], NEW t \in T,
         NEW from \in S, NEW to \in S, pc[t] = from, from # to,
         NEW q \in [T -> S], q[t] = to, \A u \in T : u # t => q[u] = pc[u]
  PROVE  /\ Cardinality(At(q, to)) = Cardinality(At(pc, to)) + 1
         /\ Cardinality(At(q, from)) = Cardinality(At(pc, from)) - 1
         /\ Cardinality(At(pc, to)) \in Nat
         /\ Cardinality(At(pc, from)) \in Nat
<1>1. /\ At(q, to) = At(pc, to) \cup {t}
      /\ At(q, from) = At(pc, from) \ {t}
      /\ t \notin At(pc, to) /\ t \in At(pc, from)
  BY DEF At
<1>2. \A w : IsFiniteSet(At(pc, w)) /\ Cardinality(At(pc, w)) \in Nat
  BY FS_Subset, FS_CardinalityType DEF At
<1>3. Cardinality(At(q, to)) = Cardinality(At(pc, to)) + 1
  BY ZenonT(40), <1>1, <1>2, FS_AddElement
<1>4. Cardinality(At(q, from)) = Cardinality(At(pc, from)) - 1
  BY ZenonT(40), <1>1, <1>2, FS_RemoveElement
<1> QED
  BY <1>1, <1>2, <1>3, <1>4

(* notify(): nobody slept, or one more is at the mutex. *)
LEMMA NotifyCases ==
  ASSUME NEW pc, NEW from, NEW to, NEW q \in Notify(pc, from, to)
  PROVE  \/ q = pc
         \/ \E t \in DOMAIN pc : pc[t] = from /\ q = [pc EXCEPT ![t] = to]
  BY DEF Notify, At

LEMMA NotifyCounts ==
  ASSUME NEW pc, IsFiniteSet(DOMAIN pc), NEW from, NEW to, from # to,
         NEW q \in Notify(pc, from, to), At(pc, from) # {}
  PROVE  Cardinality(At(q, to)) = Cardinality(At(pc, to)) + 1
<1>1. PICK t \in At(pc, from) : q = [pc EXCEPT ![t] = to]
  BY DEF Notify
<1>2. t \in DOMAIN pc /\ pc[t] # to
  BY DEF At
<1>3. At(q, to) = At(pc, to) \cup {t} /\ t \notin At(pc, to)
  BY <1>1, <1>2 DEF At
<1>4. IsFiniteSet(At(pc, to))
  BY FS_Subset DEF At
<1> QED
  BY <1>3, <1>4, FS_AddElement

-----------------------------------------------------------------------------
(* BlockingQueue and BoundedBlockingQueue. *)

ProducerPoints == {"idle", "lock", "notFull"}
ConsumerPoints == {"idle", "lock", "notEmpty"}

QueueTypeOK == /\ capacity \in Nat
               /\ ppc \in [Producers -> ProducerPoints]
               /\ cpc \in [Consumers -> ConsumerPoints]
               /\ items \in Seq(Producers \X Nat)
               /\ made \in [Producers -> Nat]
               /\ taken \in Seq(Producers \X Nat)

QueueInv == QueueTypeOK /\ QueueSound

LEMMA PassedType ==
  ASSUME QueueTypeOK
  PROVE  /\ Passed \in Seq(Producers \X Nat)
         /\ Len(Passed) \in Nat
         /\ Len(items) \in Nat
  BY ConcatProperties, LenProperties DEF QueueTypeOK, Passed

(* Values that pass from items to taken stay what and where they are.      *)
LEMMA PassedUnchanged ==
  ASSUME NothingLostOrReordered, Passed' = Passed, made' = made
  PROVE  NothingLostOrReordered'
  BY DEF NothingLostOrReordered

LEMMA HeadMoves ==
  ASSUME NEW S, NEW a \in Seq(S), NEW b \in Seq(S), b # <<>>
  PROVE  Append(a, Head(b)) \o Tail(b) = a \o b
<1>1. /\ Head(b) \in S /\ Tail(b) \in Seq(S) /\ b = <<Head(b)>> \o Tail(b)
      /\ <<Head(b)>> \in Seq(S)
  BY HeadTailProperties, ConcatProperties
<1>2. Append(a, Head(b)) = a \o <<Head(b)>>
  BY <1>1, AppendIsConcat
<1> QED
  BY <1>1, <1>2, ConcatAssociative

LEMMA PassedGrows ==
  ASSUME QueueTypeOK, NothingLostOrReordered, NEW p \in Producers,
         Passed' = Append(Passed, <<p, made[p]>>), made' = [made EXCEPT ![p] = @ + 1]
  PROVE  NothingLostOrReordered'
<1> DEFINE n == Len(Passed)
           s == Passed
           v == <<p, made[p]>>
<1>1. /\ n \in Nat /\ s \in Seq(Producers \X Nat)
  BY PassedType
<1>2. v \in Producers \X Nat
  BY DEF QueueTypeOK
<1>3. /\ Len(Passed') = n + 1
      /\ \A i \in 1..n : Passed'[i] = s[i] /\ s[i] \in Producers \X Nat
      /\ Passed'[n + 1] = v
  BY <1>1, <1>2, AppendProperties, ElementOfSeq
<1>4. /\ made \in [Producers -> Nat] /\ made'[p] = made[p] + 1
      /\ \A r \in Producers : r # p => made'[r] = made[r]
  BY DEF QueueTypeOK
<1>5. ASSUME NEW r \in Producers, NEW k \in 0..made'[r] - 1
      PROVE  \E i \in 1..n + 1 : Passed'[i] = <<r, k>>
  <2>1. CASE k \in 0..made[r] - 1
    <3>1. PICK i \in 1..n : s[i] = <<r, k>>
      BY <2>1 DEF NothingLostOrReordered
    <3>2. i \in 1..n + 1
      BY <1>1
    <3> QED
      BY <1>3, <3>1, <3>2
  <2>2. CASE r = p /\ k = made[p]
    <3>1. n + 1 \in 1..n + 1
      BY <1>1
    <3> QED
      BY <1>3, <2>2, <3>1
  <2>3. CASE r # p
    BY <1>4, <1>5, <2>1, <2>3
  <2>4. CASE r = p
    <3>1. k \in 0..made[p] - 1 \/ k = made[p]
      BY <1>4, <1>5, <2>4
    <3> QED
      BY <2>1, <2>2, <2>4, <3>1, Zenon
  <2> QED
    BY <2>3, <2>4
<1>6. ASSUME NEW i \in 1..n + 1
      PROVE  Passed'[i][1] \in Producers /\ Passed'[i][2] \in 0..made'[Passed'[i][1]] - 1
  <2>1. CASE i \in 1..n
    <3>1. s[i][1] \in Producers /\ s[i][2] \in 0..made[s[i][1]] - 1
      BY <2>1 DEF NothingLostOrReordered
    <3>2. made[s[i][1]] \in Nat /\ made'[s[i][1]] \in Nat /\ made'[s[i][1]] >= made[s[i][1]]
      BY <1>4, <3>1
    <3>3. s[i][2] \in 0..made'[s[i][1]] - 1
      BY <3>1, <3>2
    <3> QED
      BY <1>3, <2>1, <3>1, <3>3
  <2>2. CASE i = n + 1
    BY <1>3, <1>4, <2>2
  <2> QED
    BY <1>1, <2>1, <2>2
<1>7. ASSUME NEW i \in 1..n + 1, NEW j \in 1..n + 1, i < j, Passed'[i][1] = Passed'[j][1]
      PROVE  Passed'[i][2] < Passed'[j][2]
  <2>1. i \in 1..n
    BY <1>1, <1>7
  <2>2. CASE j \in 1..n
    BY <1>3, <1>7, <2>1, <2>2 DEF NothingLostOrReordered
  <2>3. CASE j = n + 1
    <3>1. s[i][1] = p
      BY <1>3, <1>7, <2>1, <2>3
    <3>2. s[i][2] \in 0..made[p] - 1
      BY <2>1, <3>1 DEF NothingLostOrReordered
    <3> QED
      BY <1>3, <1>4, <2>1, <2>3, <3>2
  <2> QED
    BY <1>1, <2>2, <2>3
<1> QED
  BY ZenonT(40), <1>3, <1>5, <1>6, <1>7 DEF NothingLostOrReordered

(* An operation moves one thread: what the wakeup conditions keep. *)
LEMMA QueueCounts ==
  ASSUME QueueTypeOK
  PROVE  /\ \A w : Cardinality(At(ppc, w)) \in Nat /\ Cardinality(At(cpc, w)) \in Nat
         /\ Len(items) \in Nat
<1>1. IsFiniteSet(Producers) /\ IsFiniteSet(Consumers)
  BY ThreadsAssumption
<1>2. ASSUME NEW w
      PROVE  Cardinality(At(ppc, w)) \in Nat /\ Cardinality(At(cpc, w)) \in Nat
  <2>1. At(ppc, w) \subseteq Producers /\ At(cpc, w) \subseteq Consumers
    BY DEF At, QueueTypeOK
  <2> QED
    BY <1>1, <2>1, FS_Subset, FS_CardinalityType
<1> QED
  BY <1>2, LenProperties DEF QueueTypeOK

LEMMA QueuePoints ==
  /\ "idle" \in ProducerPoints /\ "lock" \in ProducerPoints /\ "notFull" \in ProducerPoints
  /\ "idle" \in ConsumerPoints /\ "lock" \in ConsumerPoints /\ "notEmpty" \in ConsumerPoints
  /\ "idle" # "lock" /\ "notFull" # "lock" /\ "notEmpty" # "lock"
  BY DEF ProducerPoints, ConsumerPoints

LEMMA QueueInitInv == QueueInit => QueueInv
<1> SUFFICES ASSUME QueueInit PROVE QueueInv
  OBVIOUS
<1>1. QueueTypeOK
  BY CapacityAssumption, QueuePoints DEF QueueInit, QueueTypeOK
<1>2. At(cpc, "notEmpty") = {} /\ At(ppc, "notFull") = {}
  BY DEF At, QueueInit
<1>3. Passed = <<>> /\ Len(Passed) = 0
  BY DEF QueueInit, Passed
<1>4. NothingLostOrReordered
  BY <1>3 DEF NothingLostOrReordered, QueueInit
<1> QED
  BY <1>1, <1>2, <1>4 DEF QueueInv, QueueSound, ValuesHaveTakers, PlacesHavePutters

LEMMA ProducerCallsInv ==
  ASSUME QueueInv, NEW p \in Producers, ProducerCalls(p) \/ ProducerWaits(p)
  PROVE  QueueInv'
<1>0. QueueTypeOK /\ ValuesHaveTakers /\ PlacesHavePutters /\ NothingLostOrReordered
  BY DEF QueueInv, QueueSound
<1>1. /\ ppc' \in [Producers -> ProducerPoints]
      /\ capacity' = capacity /\ cpc' = cpc /\ items' = items /\ made' = made /\ taken' = taken
  BY <1>0, QueuePoints DEF ProducerCalls, ProducerWaits, QueueTypeOK
<1>2. QueueTypeOK'
  BY <1>0, <1>1 DEF QueueTypeOK
<1>3. ValuesHaveTakers'
  BY <1>0, <1>1 DEF ValuesHaveTakers
<1>4. NothingLostOrReordered'
  BY <1>0, <1>1, PassedUnchanged DEF Passed
<1>5. PlacesHavePutters'
  <2>1. CASE ProducerCalls(p)
    <3>1. /\ ppc[p] = "idle" /\ ppc'[p] = "lock"
          /\ \A u \in Producers : u # p => ppc'[u] = ppc[u]
          /\ ppc \in [Producers -> ProducerPoints]
      BY <1>0, <2>1 DEF ProducerCalls, QueueTypeOK
    <3>2. Cardinality(At(ppc', "lock")) = Cardinality(At(ppc, "lock")) + 1
      BY <1>1, <3>1, ThreadsAssumption, QueuePoints, MoveCounts
    <3>3. At(ppc', "notFull") \subseteq At(ppc, "notFull")
      BY <1>1, <3>1 DEF At
    <3> QED
      BY <1>0, <1>1, <3>2, <3>3, QueueCounts DEF PlacesHavePutters, QueueTypeOK
  <2>2. CASE ProducerWaits(p)
    <3>1. capacity \in Nat /\ Len(items) \in Nat /\ capacity <= Len(items)
      BY <1>0, <2>2, QueueCounts DEF ProducerWaits, Full, QueueTypeOK
    <3>2. Cardinality(At(ppc', "lock")) \in Nat
      BY <1>2, ThreadsAssumption, FS_Subset, FS_CardinalityType DEF At, QueueTypeOK
    <3> QED
      BY <1>1, <3>1, <3>2 DEF PlacesHavePutters
  <2> QED
    BY <2>1, <2>2
<1> QED
  BY <1>2, <1>3, <1>4, <1>5 DEF QueueInv, QueueSound

LEMMA ProducerPutsInv ==
  ASSUME QueueInv, NEW p \in Producers, ProducerPuts(p)
  PROVE  QueueInv'
<1>0. QueueTypeOK /\ ValuesHaveTakers /\ PlacesHavePutters /\ NothingLostOrReordered
  BY DEF QueueInv, QueueSound
<1> DEFINE v == <<p, made[p]>>
<1>1. /\ ppc \in [Producers -> ProducerPoints]
      /\ ppc' \in [Producers -> ProducerPoints]
      /\ ppc[p] = "lock" /\ ppc'[p] = "idle"
      /\ \A u \in Producers : u # p => ppc'[u] = ppc[u]
      /\ capacity' = capacity /\ taken' = taken
      /\ capacity \in Nat /\ items \in Seq(Producers \X Nat) /\ taken \in Seq(Producers \X Nat)
      /\ v \in Producers \X Nat
      /\ items' = Append(items, v)
      /\ made' = [made EXCEPT ![p] = @ + 1]
      /\ made' \in [Producers -> Nat]
  BY <1>0, QueuePoints DEF ProducerPuts, QueueTypeOK
<1>2. /\ cpc' \in [Consumers -> ConsumerPoints]
      /\ At(cpc, "notEmpty") # {} =>
           Cardinality(At(cpc', "lock")) = Cardinality(At(cpc, "lock")) + 1
      /\ At(cpc', "notEmpty") \subseteq At(cpc, "notEmpty")
  <2>1. cpc \in [Consumers -> ConsumerPoints] /\ cpc' \in Notify(cpc, "notEmpty", "lock")
    BY <1>0 DEF ProducerPuts, QueueTypeOK
  <2>2. "notEmpty" \in ConsumerPoints /\ "lock" \in ConsumerPoints /\ "notEmpty" # "lock" /\ IsFiniteSet(Consumers)
        /\ DOMAIN cpc = Consumers
    BY <2>1, ThreadsAssumption, QueuePoints
  <2>3. /\ cpc' \in [Consumers -> ConsumerPoints]
        /\ \A t \in Consumers : cpc'[t] = cpc[t] \/ cpc'[t] = "lock"
    BY <2>1, <2>2, NotifyCases
  <2>5. At(cpc', "notEmpty") \subseteq At(cpc, "notEmpty")
    BY <2>1, <2>2, <2>3 DEF At
  <2>4. At(cpc, "notEmpty") # {} => Cardinality(At(cpc', "lock")) = Cardinality(At(cpc, "lock")) + 1
    BY <2>1, <2>2, NotifyCounts
  <2> QED
    BY <2>3, <2>4, <2>5
<1>3. items' \in Seq(Producers \X Nat) /\ Len(items') = Len(items) + 1
  BY <1>1, AppendProperties
<1>4. QueueTypeOK'
  BY <1>1, <1>2, <1>3 DEF QueueTypeOK
<1>5. ValuesHaveTakers'
  BY <1>0, <1>2, <1>3, QueueCounts DEF ValuesHaveTakers
<1>6. PlacesHavePutters'
  <2>1. Cardinality(At(ppc', "lock")) = Cardinality(At(ppc, "lock")) - 1
    <3>1. /\ ppc \in [Producers -> ProducerPoints] /\ ppc' \in [Producers -> ProducerPoints]
          /\ ppc[p] = "lock" /\ ppc'[p] = "idle"
          /\ \A u \in Producers : u # p => ppc'[u] = ppc[u]
      BY <1>1
    <3> QED
      BY <3>1, ThreadsAssumption, QueuePoints, MoveCounts
  <2>2. At(ppc', "notFull") \subseteq At(ppc, "notFull")
    BY <1>1 DEF At
  <2> QED
    BY <1>0, <1>1, <1>3, <2>1, <2>2, QueueCounts DEF PlacesHavePutters
<1>7. Passed' = Append(Passed, v)
  BY <1>1 DEF Passed
<1>8. NothingLostOrReordered'
  BY <1>0, <1>1, <1>7, PassedGrows
<1> QED
  BY <1>4, <1>5, <1>6, <1>8 DEF QueueInv, QueueSound

LEMMA ConsumerCallsInv ==
  ASSUME QueueInv, NEW c \in Consumers, ConsumerCalls(c) \/ ConsumerWaits(c)
  PROVE  QueueInv'
<1>0. QueueTypeOK /\ ValuesHaveTakers /\ PlacesHavePutters /\ NothingLostOrReordered
  BY DEF QueueInv, QueueSound
<1>1. /\ cpc' \in [Consumers -> ConsumerPoints]
      /\ capacity' = capacity /\ ppc' = ppc /\ items' = items /\ made' = made /\ taken' = taken
  BY <1>0, QueuePoints DEF ConsumerCalls, ConsumerWaits, QueueTypeOK
<1>2. QueueTypeOK'
  BY <1>0, <1>1 DEF QueueTypeOK
<1>3. PlacesHavePutters'
  BY <1>0, <1>1 DEF PlacesHavePutters
<1>4. NothingLostOrReordered'
  BY <1>0, <1>1, PassedUnchanged DEF Passed
<1>5. ValuesHaveTakers'
  <2>1. CASE ConsumerCalls(c)
    <3>1. /\ cpc[c] = "idle" /\ cpc'[c] = "lock"
          /\ \A u \in Consumers : u # c => cpc'[u] = cpc[u]
          /\ cpc \in [Consumers -> ConsumerPoints]
      BY <1>0, <2>1 DEF ConsumerCalls, QueueTypeOK
    <3>2. Cardinality(At(cpc', "lock")) = Cardinality(At(cpc, "lock")) + 1
      BY <1>1, <3>1, ThreadsAssumption, QueuePoints, MoveCounts
    <3>3. At(cpc', "notEmpty") \subseteq At(cpc, "notEmpty")
      BY <1>1, <3>1 DEF At
    <3> QED
      BY <1>0, <1>1, <3>2, <3>3, QueueCounts DEF ValuesHaveTakers
  <2>2. CASE ConsumerWaits(c)
    <3>1. Len(items') = 0
      BY <1>1, <2>2 DEF ConsumerWaits
    <3>2. Cardinality(At(cpc', "lock")) \in Nat
      BY <1>2, ThreadsAssumption, FS_Subset, FS_CardinalityType DEF At, QueueTypeOK
    <3> QED
      BY <3>1, <3>2 DEF ValuesHaveTakers
  <2> QED
    BY <2>1, <2>2
<1> QED
  BY <1>2, <1>3, <1>4, <1>5 DEF QueueInv, QueueSound

LEMMA ConsumerTakesInv ==
  ASSUME QueueInv, NEW c \in Consumers, ConsumerTakes(c)
  PROVE  QueueInv'
<1>0. QueueTypeOK /\ ValuesHaveTakers /\ PlacesHavePutters /\ NothingLostOrReordered
  BY DEF QueueInv, QueueSound
<1>1. /\ cpc \in [Consumers -> ConsumerPoints]
      /\ cpc' \in [Consumers -> ConsumerPoints]
      /\ cpc[c] = "lock" /\ cpc'[c] = "idle"
      /\ \A u \in Consumers : u # c => cpc'[u] = cpc[u]
      /\ capacity' = capacity /\ made' = made
      /\ capacity \in Nat /\ items \in Seq(Producers \X Nat) /\ taken \in Seq(Producers \X Nat)
      /\ items # <<>>
      /\ items' = Tail(items)
      /\ taken' = Append(taken, Head(items))
      /\ made \in [Producers -> Nat]
  BY <1>0, QueuePoints DEF ConsumerTakes, QueueTypeOK
<1>2. /\ ppc' \in [Producers -> ProducerPoints]
      /\ At(ppc, "notFull") # {} =>
           Cardinality(At(ppc', "lock")) = Cardinality(At(ppc, "lock")) + 1
      /\ At(ppc', "notFull") \subseteq At(ppc, "notFull")
  <2>1. ppc \in [Producers -> ProducerPoints] /\ ppc' \in Notify(ppc, "notFull", "lock")
    BY <1>0 DEF ConsumerTakes, QueueTypeOK
  <2>2. "notFull" \in ProducerPoints /\ "lock" \in ProducerPoints /\ "notFull" # "lock" /\ IsFiniteSet(Producers)
        /\ DOMAIN ppc = Producers
    BY <2>1, ThreadsAssumption, QueuePoints
  <2>3. /\ ppc' \in [Producers -> ProducerPoints]
        /\ \A t \in Producers : ppc'[t] = ppc[t] \/ ppc'[t] = "lock"
    BY <2>1, <2>2, NotifyCases
  <2>5. At(ppc', "notFull") \subseteq At(ppc, "notFull")
    BY <2>1, <2>2, <2>3 DEF At
  <2>4. At(ppc, "notFull") # {} => Cardinality(At(ppc', "lock")) = Cardinality(At(ppc, "lock")) + 1
    BY <2>1, <2>2, NotifyCounts
  <2> QED
    BY <2>3, <2>4, <2>5
<1>3. /\ items' \in Seq(Producers \X Nat) /\ Len(items') = Len(items) - 1
      /\ Head(items) \in Producers \X Nat
  BY <1>1, HeadTailProperties
<1>4. QueueTypeOK'
  BY <1>1, <1>2, <1>3, AppendProperties DEF QueueTypeOK
<1>5. ValuesHaveTakers'
  <2>1. Cardinality(At(cpc', "lock")) = Cardinality(At(cpc, "lock")) - 1
    <3>1. /\ cpc \in [Consumers -> ConsumerPoints] /\ cpc' \in [Consumers -> ConsumerPoints]
          /\ cpc[c] = "lock" /\ cpc'[c] = "idle"
          /\ \A u \in Consumers : u # c => cpc'[u] = cpc[u]
      BY <1>1
    <3> QED
      BY <3>1, ThreadsAssumption, QueuePoints, MoveCounts
  <2>2. At(cpc', "notEmpty") \subseteq At(cpc, "notEmpty")
    BY <1>1 DEF At
  <2> QED
    BY <1>0, <1>3, <2>1, <2>2, QueueCounts DEF ValuesHaveTakers
<1>6. PlacesHavePutters'
  BY SMTT(30), <1>0, <1>1, <1>2, <1>3, QueueCounts DEF PlacesHavePutters
<1>7. Passed' = Passed
  BY <1>1, HeadMoves DEF Passed
<1>8. NothingLostOrReordered'
  BY <1>0, <1>1, <1>7, PassedUnchanged
<1> QED
  BY <1>4, <1>5, <1>6, <1>8 DEF QueueInv, QueueSound

LEMMA DrainInv ==
  ASSUME QueueInv, NEW c \in Consumers, Drain(c)
  PROVE  QueueInv'
<1>0. QueueTypeOK /\ ValuesHaveTakers /\ PlacesHavePutters /\ NothingLostOrReordered
  BY DEF QueueInv, QueueSound
<1>1. /\ capacity' = 0 /\ items' = <<>> /\ taken' = taken \o items
      /\ ppc' = ppc /\ cpc' = cpc /\ made' = made
      /\ taken \in Seq(Producers \X Nat) /\ items \in Seq(Producers \X Nat)
  BY <1>0 DEF Drain, QueueTypeOK
<1>2. taken' \in Seq(Producers \X Nat)
  BY <1>1, ConcatProperties
<1>3. QueueTypeOK'
  BY <1>0, <1>1, <1>2 DEF QueueTypeOK
<1>4. Len(items') = 0
  BY <1>1
<1>5. ValuesHaveTakers' /\ PlacesHavePutters'
  BY <1>0, <1>1, <1>4, QueueCounts DEF ValuesHaveTakers, PlacesHavePutters
<1>6. Passed' = Passed
  BY <1>1, <1>2 DEF Passed
<1>7. NothingLostOrReordered'
  BY <1>0, <1>1, <1>6, PassedUnchanged
<1> QED
  BY <1>3, <1>5, <1>7 DEF QueueInv, QueueSound

LEMMA SpuriousQueueWakeupInv ==
  ASSUME QueueInv, SpuriousQueueWakeup
  PROVE  QueueInv'
<1>0. QueueTypeOK /\ ValuesHaveTakers /\ PlacesHavePutters /\ NothingLostOrReordered
  BY DEF QueueInv, QueueSound
<1>1. capacity' = capacity /\ items' = items /\ made' = made /\ taken' = taken
  BY DEF SpuriousQueueWakeup
<1>2. NothingLostOrReordered'
  BY <1>0, <1>1, PassedUnchanged DEF Passed
<1>3. CASE cpc' \in Spurious(cpc, "notEmpty", "lock") /\ UNCHANGED ppc
  <2>1. At(cpc, "notEmpty") # {} /\ cpc' \in Notify(cpc, "notEmpty", "lock")
    BY <1>3 DEF Spurious, Notify
  <2>2. "notEmpty" \in ConsumerPoints /\ "lock" \in ConsumerPoints /\ "notEmpty" # "lock"
        /\ IsFiniteSet(Consumers) /\ cpc \in [Consumers -> ConsumerPoints]
        /\ DOMAIN cpc = Consumers
    BY <1>0, ThreadsAssumption, QueuePoints DEF QueueTypeOK
  <2>3. /\ cpc' \in [Consumers -> ConsumerPoints]
        /\ Cardinality(At(cpc', "lock")) = Cardinality(At(cpc, "lock")) + 1
    <3>1. cpc' \in [Consumers -> ConsumerPoints]
      BY <2>1, <2>2, NotifyCases
    <3>2. Cardinality(At(cpc', "lock")) = Cardinality(At(cpc, "lock")) + 1
      BY <2>1, <2>2, NotifyCounts
    <3> QED
      BY <3>1, <3>2
  <2>4. QueueTypeOK'
    BY <1>0, <1>1, <1>3, <2>3 DEF QueueTypeOK
  <2>5. ValuesHaveTakers'
    BY <1>0, <1>1, <2>1, <2>3, QueueCounts DEF ValuesHaveTakers
  <2>6. PlacesHavePutters'
    BY <1>0, <1>1, <1>3 DEF PlacesHavePutters
  <2> QED
    BY <1>2, <2>4, <2>5, <2>6 DEF QueueInv, QueueSound
<1>4. CASE ppc' \in Spurious(ppc, "notFull", "lock") /\ UNCHANGED cpc
  <2>1. At(ppc, "notFull") # {} /\ ppc' \in Notify(ppc, "notFull", "lock")
    BY <1>4 DEF Spurious, Notify
  <2>2. "notFull" \in ProducerPoints /\ "lock" \in ProducerPoints /\ "notFull" # "lock"
        /\ IsFiniteSet(Producers) /\ ppc \in [Producers -> ProducerPoints]
        /\ DOMAIN ppc = Producers
    BY <1>0, ThreadsAssumption, QueuePoints DEF QueueTypeOK
  <2>3. /\ ppc' \in [Producers -> ProducerPoints]
        /\ Cardinality(At(ppc', "lock")) = Cardinality(At(ppc, "lock")) + 1
    <3>1. ppc' \in [Producers -> ProducerPoints]
      BY <2>1, <2>2, NotifyCases
    <3>2. Cardinality(At(ppc', "lock")) = Cardinality(At(ppc, "lock")) + 1
      BY <2>1, <2>2, NotifyCounts
    <3> QED
      BY <3>1, <3>2
  <2>4. QueueTypeOK'
    BY <1>0, <1>1, <1>4, <2>3 DEF QueueTypeOK
  <2>5. PlacesHavePutters'
    BY <1>0, <1>1, <2>1, <2>3, QueueCounts DEF PlacesHavePutters, QueueTypeOK
  <2>6. ValuesHaveTakers'
    BY <1>0, <1>1, <1>4 DEF ValuesHaveTakers
  <2> QED
    BY <1>2, <2>4, <2>5, <2>6 DEF QueueInv, QueueSound
<1> QED
  BY <1>3, <1>4 DEF SpuriousQueueWakeup

(* One notify per put() and per take() loses no wakeup on either condition *)
(* of the queues, and values pass once and in the order of each producer,  *)
(* for any finite sets of threads, any capacity and any number of puts.    *)
THEOREM QueueIsSound == QueueSpec => []QueueSound
<1>1. QueueInit => QueueInv
  BY QueueInitInv
<1>2. QueueInv /\ [QueueNext]_queueVars => QueueInv'
  <2> SUFFICES ASSUME QueueInv, [QueueNext]_queueVars PROVE QueueInv'
    OBVIOUS
  <2>1. ASSUME NEW p \in Producers, ProducerCalls(p) \/ ProducerStep(p) PROVE QueueInv'
    BY <2>1, ProducerCallsInv, ProducerPutsInv DEF ProducerStep
  <2>2. ASSUME NEW c \in Consumers, ConsumerCalls(c) \/ ConsumerStep(c) \/ Drain(c)
        PROVE  QueueInv'
    BY <2>2, ConsumerCallsInv, ConsumerTakesInv, DrainInv DEF ConsumerStep
  <2>3. CASE SpuriousQueueWakeup
    BY <2>3, SpuriousQueueWakeupInv
  <2>4. CASE UNCHANGED queueVars
    BY ZenonT(40), <2>4 DEF queueVars, QueueInv, QueueTypeOK, QueueSound, ValuesHaveTakers,
                PlacesHavePutters, NothingLostOrReordered, Passed, At
  <2> QED
    BY <2>1, <2>2, <2>3, <2>4 DEF QueueNext
<1>3. QueueInv => QueueSound
  BY DEF QueueInv
<1> QED
  BY <1>1, <1>2, <1>3, PTL DEF QueueSpec

-----------------------------------------------------------------------------
(* ThreadPool. *)

WorkerPoints == {"new", "test", "take", "notEmpty", "task", "done"}
RunPoints == {"idle", "lock", "notFull"}

PoolTypeOK == /\ maxQueueSize \in Nat
              /\ wpc \in [Workers -> WorkerPoints]
              /\ rpc \in [Callers -> RunPoints]
              /\ queue \in Seq(Tasks)
              /\ arg \in [Callers -> Tasks \cup {NoTask}]
              /\ \A c \in Callers : rpc[c] # "idle" => arg[c] \in Tasks
              /\ ran \in Seq(Tasks)
              /\ refused \subseteq Tasks

(* A task is with one caller, or at one place of the queue, or executed,   *)
(* or refused.                                                             *)
TaskPlaces ==
  /\ \A i, j \in 1..Len(queue) : queue[i] = queue[j] => i = j
  /\ \A c, d \in Callers : arg[c] = arg[d] => c = d \/ arg[c] = NoTask
  /\ \A c \in Callers : /\ arg[c] \notin refused
                        /\ \A i \in 1..Len(queue) : queue[i] # arg[c]
                        /\ \A i \in 1..Len(ran) : ran[i] # arg[c]

PoolInv == PoolTypeOK /\ PoolSound /\ TaskPlaces

LEMMA PoolPoints ==
  /\ "new" \in WorkerPoints /\ "test" \in WorkerPoints /\ "take" \in WorkerPoints
  /\ "notEmpty" \in WorkerPoints /\ "task" \in WorkerPoints /\ "done" \in WorkerPoints
  /\ "idle" \in RunPoints /\ "lock" \in RunPoints /\ "notFull" \in RunPoints
  /\ "idle" # "lock" /\ "notFull" # "lock" /\ "notFull" # "idle" /\ "notEmpty" # "take"
  BY DEF WorkerPoints, RunPoints

LEMMA PoolFinite == IsFiniteSet(Workers) /\ IsFiniteSet(Callers)
  BY PoolAssumption, FS_Union DEF Callers

LEMMA PoolCounts ==
  ASSUME PoolTypeOK
  PROVE  /\ \A w : Cardinality(At(wpc, w)) \in Nat /\ Cardinality(At(rpc, w)) \in Nat
         /\ Len(queue) \in Nat
<1>2. ASSUME NEW w
      PROVE  Cardinality(At(wpc, w)) \in Nat /\ Cardinality(At(rpc, w)) \in Nat
  <2>1. At(wpc, w) \subseteq Workers /\ At(rpc, w) \subseteq Callers
    BY DEF At, PoolTypeOK
  <2> QED
    BY PoolFinite, <2>1, FS_Subset, FS_CardinalityType
<1> QED
  BY <1>2, LenProperties DEF PoolTypeOK

LEMMA PoolInitInv == PoolInit => PoolInv
<1> SUFFICES ASSUME PoolInit PROVE PoolInv
  OBVIOUS
<1>1. PoolTypeOK
  BY SizeAssumption, PoolPoints DEF PoolInit, PoolTypeOK
<1>2. At(wpc, "notEmpty") = {} /\ At(rpc, "notFull") = {}
  BY DEF At, PoolInit
<1>3. Len(queue) = 0 /\ Len(ran) = 0 /\ refused = {}
  BY DEF PoolInit
<1>4. TaskPlaces /\ TaskFateUnique
  BY <1>3 DEF PoolInit, TaskPlaces, TaskFateUnique
<1> QED
  BY <1>1, <1>2, <1>4 DEF PoolInv, PoolSound, TasksHaveWorkers, PlacesHaveCallers

LEMMA PoolTypeNext ==
  ASSUME PoolTypeOK, PoolNext
  PROVE  PoolTypeOK'
<1>1. ASSUME NEW ws \in SUBSET Workers, StartPool(ws) PROVE PoolTypeOK'
  BY <1>1, PoolPoints DEF StartPool, PoolTypeOK
<1>2. CASE StopPool
  <2>1. wpc' \in [Workers -> WorkerPoints]
    BY <1>2, PoolPoints DEF StopPool, PoolTypeOK, NotifyAll
  <2>2. rpc' \in [Callers -> RunPoints] /\ \A c \in Callers : rpc'[c] # "idle" => rpc[c] # "idle"
    BY <1>2, PoolPoints DEF StopPool, PoolTypeOK, NotifyAll
  <2> QED
    BY <1>2, <2>1, <2>2 DEF StopPool, config, PoolTypeOK
<1>3. CASE PoolJoined
  BY <1>3 DEF PoolJoined, config, PoolTypeOK
<1>4. CASE SpuriousWakeup
  <2>1. wpc' \in [Workers -> WorkerPoints]
    BY <1>4, PoolPoints DEF SpuriousWakeup, Spurious, At, PoolTypeOK
  <2>2. rpc' \in [Callers -> RunPoints] /\ \A c \in Callers : rpc'[c] # "idle" => rpc[c] # "idle"
    BY <1>4, PoolPoints DEF SpuriousWakeup, Spurious, At, PoolTypeOK
  <2> QED
    BY <1>4, <2>1, <2>2 DEF SpuriousWakeup, config, PoolTypeOK
<1>5. ASSUME NEW c \in Callers, RunWaits(c) PROVE PoolTypeOK'
  BY <1>5, PoolPoints DEF RunWaits, config, PoolTypeOK
<1>6. ASSUME NEW c \in Callers, RunRefused(c) PROVE PoolTypeOK'
  <2>1. arg[c] \in Tasks /\ NoTask \in Tasks \cup {NoTask}
    BY <1>6, PoolPoints DEF RunRefused, PoolTypeOK
  <2>2. refused' \subseteq Tasks
    BY <1>6, <2>1 DEF RunRefused, PoolTypeOK
  <2>3. /\ rpc' \in [Callers -> RunPoints]
        /\ arg' \in [Callers -> Tasks \cup {NoTask}]
        /\ \A d \in Callers : rpc'[d] # "idle" => arg'[d] \in Tasks
    BY <1>6, <2>1, PoolPoints DEF RunRefused, PoolTypeOK
  <2> QED
    BY <1>6, <2>2, <2>3 DEF RunRefused, config, PoolTypeOK
<1>7. ASSUME NEW c \in Callers, RunQueues(c) PROVE PoolTypeOK'
  <2>1. arg[c] \in Tasks
    BY <1>7, PoolPoints DEF RunQueues, PoolTypeOK
  <2>2. queue' \in Seq(Tasks)
    BY <1>7, <2>1, AppendProperties DEF RunQueues, PoolTypeOK
  <2>3. wpc' \in [Workers -> WorkerPoints]
    <3>1. wpc' \in Notify(wpc, "notEmpty", "take") /\ wpc \in [Workers -> WorkerPoints]
      BY <1>7 DEF RunQueues, PoolTypeOK
    <3> QED
      BY <3>1, PoolPoints, NotifyCases
  <2>4. /\ rpc' \in [Callers -> RunPoints]
        /\ arg' \in [Callers -> Tasks \cup {NoTask}]
        /\ \A d \in Callers : rpc'[d] # "idle" => arg'[d] \in Tasks
    BY <1>7, PoolPoints DEF RunQueues, PoolTypeOK
  <2> QED
    BY <1>7, <2>2, <2>3, <2>4 DEF RunQueues, config, PoolTypeOK
<1>8. ASSUME NEW c \in Callers, NEW t \in Tasks, Run(c, t) PROVE PoolTypeOK'
  <2>1. CASE threads = {}
    <3>1. ran' \in Seq(Tasks)
      BY <1>8, <2>1, AppendProperties DEF Run, PoolTypeOK
    <3> QED
      BY <1>8, <2>1, <3>1 DEF Run, config, PoolTypeOK
  <2>2. CASE threads # {}
    BY <1>8, <2>2, PoolPoints DEF Run, config, PoolTypeOK
  <2> QED
    BY <2>1, <2>2
<1>9. ASSUME NEW w \in Workers, WorkerTest(w) \/ TakeWaits(w) \/ TakeNothing(w) \/ TaskReturns(w)
      PROVE  PoolTypeOK'
  <2>1. wpc' \in [Workers -> WorkerPoints]
    BY <1>9, PoolPoints DEF WorkerTest, TakeWaits, TakeNothing, TaskReturns, PoolTypeOK
  <2> QED
    BY <1>9, <2>1 DEF WorkerTest, TakeWaits, TakeNothing, TaskReturns, config, PoolTypeOK
<1>10. ASSUME NEW w \in Workers, TakeTask(w) PROVE PoolTypeOK'
  <2>1. queue \in Seq(Tasks) /\ queue # <<>> /\ ran \in Seq(Tasks)
    BY <1>10 DEF TakeTask, PoolTypeOK
  <2>2. queue' \in Seq(Tasks) /\ ran' \in Seq(Tasks)
    BY <1>10, <2>1, HeadTailProperties, AppendProperties DEF TakeTask
  <2>3. rpc' \in [Callers -> RunPoints] /\ \A c \in Callers : rpc'[c] # "idle" => rpc[c] # "idle"
    <3>1. rpc' = rpc \/ rpc' \in Notify(rpc, "notFull", "lock")
      BY <1>10 DEF TakeTask
    <3>2. rpc \in [Callers -> RunPoints]
      BY DEF PoolTypeOK
    <3> QED
      BY <3>1, <3>2, PoolPoints, NotifyCases
  <2>4. wpc' \in [Workers -> WorkerPoints]
    BY <1>10, PoolPoints DEF TakeTask, PoolTypeOK
  <2> QED
    BY <1>10, <2>2, <2>3, <2>4 DEF TakeTask, config, PoolTypeOK
<1> QED
  BY <1>1, <1>2, <1>3, <1>4, <1>5, <1>6, <1>7, <1>8, <1>9, <1>10 DEF PoolNext, RunStep, WorkerStep

(* The workers: every queued task has one that is awake. *)
LEMMA WorkersNext ==
  ASSUME PoolTypeOK, TasksHaveWorkers, PoolNext
  PROVE  TasksHaveWorkers'
<1>0. wpc \in [Workers -> WorkerPoints] /\ DOMAIN wpc = Workers /\ queue \in Seq(Tasks)
  BY DEF PoolTypeOK
<1>1. ASSUME NEW ws \in SUBSET Workers, StartPool(ws) PROVE TasksHaveWorkers'
  <2>1. At(wpc', "notEmpty") = {}
    BY <1>1 DEF StartPool, At
  <2> QED
    BY <2>1 DEF TasksHaveWorkers
<1>2. CASE StopPool
  BY <1>2 DEF StopPool, TasksHaveWorkers
<1>3. ASSUME wpc' = wpc, queue' = queue, running' = running PROVE TasksHaveWorkers'
  BY <1>3 DEF TasksHaveWorkers
<1>4. CASE SpuriousWakeup
  <2>1. queue' = queue /\ running' = running
    BY <1>4 DEF SpuriousWakeup
  <2>2. CASE wpc' = wpc
    BY <1>3, <2>1, <2>2
  <2>3. CASE wpc' \in Spurious(wpc, "notEmpty", "take")
    <3>1. At(wpc, "notEmpty") # {} /\ wpc' \in Notify(wpc, "notEmpty", "take")
      BY <2>3 DEF Spurious, Notify
    <3>2. Cardinality(At(wpc', "take")) = Cardinality(At(wpc, "take")) + 1
      BY <1>0, <3>1, PoolFinite, PoolPoints, NotifyCounts
    <3> QED
      BY <2>1, <3>1, <3>2, PoolCounts DEF TasksHaveWorkers
  <2> QED
    BY <1>4, <2>2, <2>3 DEF SpuriousWakeup
<1>5. ASSUME NEW c \in Callers, RunQueues(c) PROVE TasksHaveWorkers'
  <2>1. arg[c] \in Tasks /\ running' = running
    BY <1>5, PoolPoints DEF RunQueues, PoolTypeOK
  <2>2. Len(queue') = Len(queue) + 1
    BY <1>0, <1>5, <2>1, AppendProperties DEF RunQueues
  <2>3. wpc' \in Notify(wpc, "notEmpty", "take")
    BY <1>5 DEF RunQueues
  <2>4. At(wpc, "notEmpty") # {} => Cardinality(At(wpc', "take")) = Cardinality(At(wpc, "take")) + 1
    BY <1>0, <2>3, PoolFinite, PoolPoints, NotifyCounts
  <2>5. At(wpc', "notEmpty") # {} => At(wpc, "notEmpty") # {}
    BY <1>0, <2>3, PoolPoints, NotifyCases DEF At
  <2> QED
    BY <2>1, <2>2, <2>4, <2>5, PoolCounts DEF TasksHaveWorkers
<1>6. ASSUME NEW w \in Workers, WorkerTest(w) PROVE TasksHaveWorkers'
  <2>1. CASE running
    <3>1. /\ wpc[w] = "test" /\ wpc'[w] = "take" /\ wpc' \in [Workers -> WorkerPoints]
          /\ \A u \in Workers : u # w => wpc'[u] = wpc[u]
      BY <1>0, <1>6, <2>1, PoolPoints DEF WorkerTest
    <3>2. Cardinality(At(wpc', "take")) = Cardinality(At(wpc, "take")) + 1
      <4>1. "test" \in WorkerPoints /\ "take" \in WorkerPoints /\ "test" # "take"
        BY PoolPoints
      <4> QED
        BY <1>0, <3>1, <4>1, PoolFinite, MoveCounts
    <3>3. At(wpc', "notEmpty") # {} => At(wpc, "notEmpty") # {}
      BY <1>0, <3>1 DEF At
    <3>4. running' = running /\ queue' = queue
      BY <1>6 DEF WorkerTest
    <3> QED
      BY <3>2, <3>3, <3>4, PoolCounts DEF TasksHaveWorkers
  <2>2. CASE ~running
    BY <1>6, <2>2 DEF WorkerTest, TasksHaveWorkers
  <2> QED
    BY <2>1, <2>2
<1>7. ASSUME NEW w \in Workers, TakeWaits(w) PROVE TasksHaveWorkers'
  <2>1. Len(queue') = 0
    BY <1>7 DEF TakeWaits
  <2>2. Cardinality(At(wpc', "take")) \in Nat
    <3>1. PoolTypeOK'
      BY PoolTypeNext
    <3>2. At(wpc', "take") \subseteq Workers
      BY <3>1 DEF At, PoolTypeOK
    <3> QED
      BY <3>2, PoolFinite, FS_Subset, FS_CardinalityType
  <2> QED
    BY <2>1, <2>2 DEF TasksHaveWorkers
<1>8. ASSUME NEW w \in Workers, TakeTask(w) PROVE TasksHaveWorkers'
  <2>1. /\ wpc[w] = "take" /\ wpc'[w] = "task" /\ wpc' \in [Workers -> WorkerPoints]
        /\ \A u \in Workers : u # w => wpc'[u] = wpc[u]
    BY <1>0, <1>8, PoolPoints DEF TakeTask
  <2>2. Cardinality(At(wpc', "take")) = Cardinality(At(wpc, "take")) - 1
    <3>1. "task" \in WorkerPoints /\ "take" \in WorkerPoints /\ "task" # "take"
      BY PoolPoints
    <3> QED
      BY <1>0, <2>1, <3>1, PoolFinite, MoveCounts
  <2>3. At(wpc', "notEmpty") # {} => At(wpc, "notEmpty") # {}
    BY <1>0, <2>1 DEF At
  <2>4. running' = running /\ Len(queue') = Len(queue) - 1
    BY <1>0, <1>8, HeadTailProperties DEF TakeTask
  <2> QED
    BY <2>2, <2>3, <2>4, PoolCounts DEF TasksHaveWorkers
<1>9. ASSUME NEW w \in Workers, TakeNothing(w) PROVE TasksHaveWorkers'
  BY <1>9 DEF TakeNothing, TasksHaveWorkers
<1>10. ASSUME NEW w \in Workers, TaskReturns(w) PROVE TasksHaveWorkers'
  <2>1. At(wpc', "notEmpty") \subseteq At(wpc, "notEmpty") /\ At(wpc', "take") = At(wpc, "take")
    BY <1>0, <1>10 DEF TaskReturns, At
  <2> QED
    BY <1>10, <2>1 DEF TaskReturns, TasksHaveWorkers
<1>11. ASSUME NEW c \in Callers, RunWaits(c) \/ RunRefused(c) \/ (\E t \in Tasks : Run(c, t))
       PROVE  TasksHaveWorkers'
  BY <1>3, <1>11 DEF RunWaits, RunRefused, Run
<1>12. CASE PoolJoined
  BY <1>3, <1>12 DEF PoolJoined
<1> QED
  BY <1>1, <1>2, <1>4, <1>5, <1>6, <1>7, <1>8, <1>9, <1>10, <1>11, <1>12
     DEF PoolNext, RunStep, WorkerStep

(* The callers of run(): every free place has one that is awake. *)
LEMMA CallersNext ==
  ASSUME PoolTypeOK, PlacesHaveCallers, PoolNext
  PROVE  PlacesHaveCallers'
<1>0. /\ rpc \in [Callers -> RunPoints] /\ DOMAIN rpc = Callers /\ queue \in Seq(Tasks)
      /\ maxQueueSize \in Nat /\ maxQueueSize' = maxQueueSize
  BY DEF PoolTypeOK, PoolNext, StartPool, StopPool, PoolJoined, SpuriousWakeup, RunStep, RunWaits,
         RunRefused, RunQueues, Run, WorkerStep, WorkerTest, TakeWaits, TakeTask, TakeNothing,
         TaskReturns, config
<1>1. ASSUME NEW ws \in SUBSET Workers, StartPool(ws) PROVE PlacesHaveCallers'
  <2>1. At(rpc', "notFull") = At(rpc, "notFull") /\ At(rpc', "lock") = At(rpc, "lock")
        /\ queue' = queue /\ running'
    BY <1>1 DEF StartPool
  <2> QED
    BY <1>0, <2>1 DEF PlacesHaveCallers
<1>2. CASE StopPool
  <2>1. At(rpc', "notFull") = {}
    BY <1>2 DEF StopPool, NotifyAll, At
  <2> QED
    BY <2>1 DEF PlacesHaveCallers
<1>3. ASSUME rpc' = rpc, queue' = queue, running' = running PROVE PlacesHaveCallers'
  BY <1>0, <1>3 DEF PlacesHaveCallers
<1>4. CASE SpuriousWakeup
  <2>1. queue' = queue /\ running' = running
    BY <1>4 DEF SpuriousWakeup
  <2>2. CASE rpc' = rpc
    BY <1>3, <2>1, <2>2
  <2>3. CASE rpc' \in Spurious(rpc, "notFull", "lock")
    <3>1. At(rpc, "notFull") # {} /\ rpc' \in Notify(rpc, "notFull", "lock")
      BY <2>3 DEF Spurious, Notify
    <3>2. Cardinality(At(rpc', "lock")) = Cardinality(At(rpc, "lock")) + 1
      BY <1>0, <3>1, PoolFinite, PoolPoints, NotifyCounts
    <3> QED
      BY <1>0, <2>1, <3>1, <3>2, PoolCounts DEF PlacesHaveCallers
  <2> QED
    BY <1>4, <2>2, <2>3 DEF SpuriousWakeup
<1>5. ASSUME NEW c \in Callers, RunQueues(c) PROVE PlacesHaveCallers'
  <2>1. arg[c] \in Tasks /\ running' = running
    BY <1>5, PoolPoints DEF RunQueues, PoolTypeOK
  <2>2. Len(queue') = Len(queue) + 1
    BY <1>0, <1>5, <2>1, AppendProperties DEF RunQueues
  <2>3. /\ rpc[c] = "lock" /\ rpc'[c] = "idle" /\ rpc' \in [Callers -> RunPoints]
        /\ \A u \in Callers : u # c => rpc'[u] = rpc[u]
    BY <1>0, <1>5, PoolPoints DEF RunQueues
  <2>4. Cardinality(At(rpc', "lock")) = Cardinality(At(rpc, "lock")) - 1
    <3>1. "idle" \in RunPoints /\ "lock" \in RunPoints /\ "idle" # "lock"
      BY PoolPoints
    <3> QED
      BY <1>0, <2>3, <3>1, PoolFinite, MoveCounts
  <2>5. At(rpc', "notFull") # {} => At(rpc, "notFull") # {}
    BY <1>0, <2>3 DEF At
  <2> QED
    BY <1>0, <2>1, <2>2, <2>4, <2>5, PoolCounts DEF PlacesHaveCallers
<1>6. ASSUME NEW c \in Callers, RunWaits(c) PROVE PlacesHaveCallers'
  <2>1. running' = running /\ running /\ queue' = queue /\ maxQueueSize - Len(queue) <= 0
    BY <1>0, <1>6, PoolCounts DEF RunWaits, IsFull
  <2>2. Cardinality(At(rpc', "lock")) \in Nat
    <3>1. PoolTypeOK'
      BY PoolTypeNext
    <3>2. At(rpc', "lock") \subseteq Callers
      BY <3>1 DEF At, PoolTypeOK
    <3> QED
      BY <3>2, PoolFinite, FS_Subset, FS_CardinalityType
  <2> QED
    BY <1>0, <2>1, <2>2, PoolCounts DEF PlacesHaveCallers
<1>7. ASSUME NEW c \in Callers, RunRefused(c) PROVE PlacesHaveCallers'
  <2>1. At(rpc, "notFull") = {}
    BY <1>7 DEF RunRefused, PlacesHaveCallers
  <2>2. At(rpc', "notFull") = {}
    BY <1>0, <1>7, <2>1 DEF RunRefused, At
  <2> QED
    BY <2>2 DEF PlacesHaveCallers
<1>8. ASSUME NEW c \in Callers, NEW t \in Tasks, Run(c, t) PROVE PlacesHaveCallers'
  <2>1. CASE threads = {}
    BY <1>3, <1>8, <2>1 DEF Run
  <2>2. CASE threads # {}
    <3>1. /\ rpc[c] = "idle" /\ rpc'[c] = "lock" /\ rpc' \in [Callers -> RunPoints]
          /\ \A u \in Callers : u # c => rpc'[u] = rpc[u]
      BY <1>0, <1>8, <2>2, PoolPoints DEF Run, MayCall
    <3>2. Cardinality(At(rpc', "lock")) = Cardinality(At(rpc, "lock")) + 1
      <4>1. "idle" \in RunPoints /\ "lock" \in RunPoints /\ "idle" # "lock"
        BY PoolPoints
      <4> QED
        BY <1>0, <3>1, <4>1, PoolFinite, MoveCounts
    <3>3. At(rpc', "notFull") # {} => At(rpc, "notFull") # {}
      BY <1>0, <3>1 DEF At
    <3>4. running' = running /\ queue' = queue
      BY <1>8 DEF Run
    <3> QED
      BY <1>0, <3>2, <3>3, <3>4, PoolCounts DEF PlacesHaveCallers
  <2> QED
    BY <2>1, <2>2
<1>9. ASSUME NEW w \in Workers, TakeTask(w) PROVE PlacesHaveCallers'
  <2>1. running' = running /\ Len(queue') = Len(queue) - 1 /\ Len(queue) >= 1
    <3>1. queue # <<>> /\ queue' = Tail(queue) /\ running' = running
      BY <1>9 DEF TakeTask
    <3> QED
      BY <1>0, <3>1, HeadTailProperties, EmptySeq, LenProperties
  <2>2. CASE maxQueueSize = 0
    <3>1. rpc' = rpc
      BY <1>9, <2>2 DEF TakeTask
    <3> QED
      BY <1>0, <2>1, <2>2, <3>1, PoolCounts DEF PlacesHaveCallers
  <2>3. CASE maxQueueSize > 0
    <3>1. rpc' \in Notify(rpc, "notFull", "lock")
      BY <1>9, <2>3 DEF TakeTask
    <3>2. At(rpc, "notFull") # {} => Cardinality(At(rpc', "lock")) = Cardinality(At(rpc, "lock")) + 1
      BY <1>0, <3>1, PoolFinite, PoolPoints, NotifyCounts
    <3>3. At(rpc', "notFull") # {} => At(rpc, "notFull") # {}
      BY <1>0, <3>1, PoolPoints, NotifyCases DEF At
    <3> QED
      BY <1>0, <2>1, <3>2, <3>3, PoolCounts DEF PlacesHaveCallers
  <2> QED
    BY <1>0, <2>2, <2>3
<1>10. ASSUME NEW w \in Workers, WorkerTest(w) \/ TakeWaits(w) \/ TakeNothing(w) \/ TaskReturns(w)
       PROVE  PlacesHaveCallers'
  BY <1>3, <1>10 DEF WorkerTest, TakeWaits, TakeNothing, TaskReturns
<1>11. CASE PoolJoined
  BY <1>3, <1>11 DEF PoolJoined
<1> QED
  BY <1>1, <1>2, <1>4, <1>5, <1>6, <1>7, <1>8, <1>9, <1>10, <1>11 DEF PoolNext, RunStep, WorkerStep

(* The tasks: what leaves one place goes to one other. *)
LEMMA FatesNext ==
  ASSUME PoolTypeOK, TaskFateUnique, TaskPlaces, PoolNext
  PROVE  TaskFateUnique' /\ TaskPlaces'
<1>0. /\ queue \in Seq(Tasks) /\ ran \in Seq(Tasks) /\ refused \subseteq Tasks
      /\ arg \in [Callers -> Tasks \cup {NoTask}]
      /\ Len(queue) \in Nat /\ Len(ran) \in Nat
      /\ \A i \in 1..Len(queue) : queue[i] \in Tasks
      /\ \A i \in 1..Len(ran) : ran[i] \in Tasks
  BY ElementOfSeq, LenProperties DEF PoolTypeOK
<1>1. ASSUME arg' = arg, queue' = queue, ran' = ran, refused' = refused
      PROVE  TaskFateUnique' /\ TaskPlaces'
  BY <1>1 DEF TaskFateUnique, TaskPlaces
<1>2. ASSUME NEW c \in Callers, RunRefused(c) PROVE TaskFateUnique' /\ TaskPlaces'
  <2>1. /\ arg[c] \in Tasks /\ arg[c] # NoTask
        /\ refused' = refused \cup {arg[c]} /\ queue' = queue /\ ran' = ran
        /\ arg'[c] = NoTask /\ \A d \in Callers : d # c => arg'[d] = arg[d]
    BY <1>2, PoolPoints, NamesAssumption DEF RunRefused, PoolTypeOK
  <2>2. TaskFateUnique'
    BY <2>1 DEF TaskFateUnique, TaskPlaces
  <2>3. \A d, e \in Callers : arg'[d] = arg'[e] => d = e \/ arg'[d] = NoTask
    BY <2>1 DEF TaskPlaces
  <2>4. ASSUME NEW d \in Callers
        PROVE  /\ arg'[d] \notin refused'
               /\ \A i \in 1..Len(queue) : queue[i] # arg'[d]
               /\ \A i \in 1..Len(ran) : ran[i] # arg'[d]
    <3>1. CASE d = c
      BY <1>0, <2>1, <3>1, NamesAssumption
    <3>2. CASE d # c
      BY <2>1, <3>2 DEF TaskPlaces
    <3> QED
      BY <3>1, <3>2
  <2> QED
    BY <2>1, <2>2, <2>3, <2>4 DEF TaskPlaces
<1>3. ASSUME NEW c \in Callers, RunQueues(c) PROVE TaskFateUnique' /\ TaskPlaces'
  <2>1. /\ arg[c] \in Tasks /\ arg[c] # NoTask
        /\ refused' = refused /\ ran' = ran /\ queue' = Append(queue, arg[c])
        /\ arg'[c] = NoTask /\ \A d \in Callers : d # c => arg'[d] = arg[d]
    BY <1>3, PoolPoints, NamesAssumption DEF RunQueues, PoolTypeOK
  <2>2. /\ Len(queue') = Len(queue) + 1 /\ queue'[Len(queue) + 1] = arg[c]
        /\ \A i \in 1..Len(queue) : queue'[i] = queue[i]
    BY <1>0, <2>1, AppendProperties
  <2>3. \A i \in 1..Len(queue') : i \in 1..Len(queue) \/ i = Len(queue) + 1
    BY <1>0, <2>2
  <2>4. TaskFateUnique'
    BY <2>1, <2>2, <2>3 DEF TaskFateUnique, TaskPlaces
  <2>5. \A i, j \in 1..Len(queue') : queue'[i] = queue'[j] => i = j
    BY <2>2, <2>3 DEF TaskPlaces
  <2>6. \A d, e \in Callers : arg'[d] = arg'[e] => d = e \/ arg'[d] = NoTask
    BY <2>1 DEF TaskPlaces
  <2>7. ASSUME NEW d \in Callers
        PROVE  /\ arg'[d] \notin refused
               /\ \A i \in 1..Len(queue') : queue'[i] # arg'[d]
               /\ \A i \in 1..Len(ran) : ran[i] # arg'[d]
    <3>1. CASE d = c
      BY <1>0, <2>1, <2>2, <2>3, <3>1, NamesAssumption
    <3>2. CASE d # c
      <4>1. arg[d] # arg[c]
        BY <2>1, <3>2 DEF TaskPlaces
      <4> QED
        BY <2>1, <2>2, <2>3, <3>2, <4>1 DEF TaskPlaces
    <3> QED
      BY <3>1, <3>2
  <2> QED
    BY <2>1, <2>4, <2>5, <2>6, <2>7 DEF TaskPlaces
<1>4. ASSUME NEW c \in Callers, NEW t \in Tasks, Run(c, t) PROVE TaskFateUnique' /\ TaskPlaces'
  <2>1. /\ t \notin refused /\ t # NoTask
        /\ \A d \in Callers : arg[d] # t
        /\ \A i \in 1..Len(queue) : queue[i] # t
        /\ \A i \in 1..Len(ran) : ran[i] # t
        /\ refused' = refused /\ queue' = queue
    BY <1>4, NamesAssumption DEF Run, Fresh
  <2>2. CASE threads = {}
    <3>1. arg' = arg /\ ran' = Append(ran, t)
      BY <1>4, <2>2 DEF Run
    <3>2. /\ Len(ran') = Len(ran) + 1 /\ ran'[Len(ran) + 1] = t
          /\ \A i \in 1..Len(ran) : ran'[i] = ran[i]
      BY <1>0, <3>1, AppendProperties
    <3>3. \A i \in 1..Len(ran') : i \in 1..Len(ran) \/ i = Len(ran) + 1
      BY <1>0, <3>2
    <3>4. \A i, j \in 1..Len(ran') : ran'[i] = ran'[j] => i = j
      BY <2>1, <3>2, <3>3 DEF TaskFateUnique
    <3>5. TaskFateUnique'
      BY <2>1, <3>2, <3>3, <3>4 DEF TaskFateUnique
    <3>6. TaskPlaces'
      BY <2>1, <3>1, <3>2, <3>3 DEF TaskPlaces
    <3> QED
      BY <3>5, <3>6
  <2>3. CASE threads # {}
    <3>1. ran' = ran /\ arg'[c] = t /\ \A d \in Callers : d # c => arg'[d] = arg[d]
      BY <1>0, <1>4, <2>3 DEF Run
    <3>2. TaskFateUnique'
      BY <2>1, <3>1 DEF TaskFateUnique
    <3>3. TaskPlaces'
      BY <2>1, <3>1 DEF TaskPlaces
    <3> QED
      BY <3>2, <3>3
  <2> QED
    BY <2>2, <2>3
<1>5. ASSUME NEW w \in Workers, TakeTask(w) PROVE TaskFateUnique' /\ TaskPlaces'
  <2> DEFINE h == queue[1]
  <2>1. /\ queue # <<>> /\ queue' = Tail(queue) /\ ran' = Append(ran, Head(queue))
        /\ arg' = arg /\ refused' = refused
    BY <1>5 DEF TakeTask
  <2>2. /\ Len(queue) >= 1 /\ Head(queue) = h
        /\ Len(queue') = Len(queue) - 1
        /\ \A i \in 1..Len(queue') : queue'[i] = queue[i + 1]
    BY <1>0, <2>1, HeadTailProperties, EmptySeq
  <2>3. 1 \in 1..Len(queue) /\ h \in Tasks
    BY <1>0, <2>2
  <2>4. /\ Len(ran') = Len(ran) + 1 /\ ran'[Len(ran) + 1] = h
        /\ \A i \in 1..Len(ran) : ran'[i] = ran[i]
    BY <1>0, <2>1, <2>2, <2>3, AppendProperties
  <2>5. \A i \in 1..Len(ran') : i \in 1..Len(ran) \/ i = Len(ran) + 1
    BY <1>0, <2>4
  <2>6. \A i \in 1..Len(queue') : i + 1 \in 1..Len(queue) /\ i + 1 # 1
    BY <1>0, <2>2
  <2>7. \A i \in 1..Len(queue') : queue'[i] # h
    BY <2>2, <2>3, <2>6 DEF TaskPlaces
  <2>8. \A i \in 1..Len(ran) : ran[i] # h
    BY <2>3 DEF TaskFateUnique
  <2>9. h \notin refused /\ \A d \in Callers : arg[d] # h
    BY <2>3 DEF TaskFateUnique, TaskPlaces
  <2>10. \A i, j \in 1..Len(ran') : ran'[i] = ran'[j] => i = j
    BY <2>4, <2>5, <2>8 DEF TaskFateUnique
  <2>11. \A i \in 1..Len(ran') : /\ ran'[i] \notin refused
                                 /\ \A j \in 1..Len(queue') : queue'[j] # ran'[i]
    BY <2>2, <2>4, <2>5, <2>6, <2>7, <2>9 DEF TaskFateUnique
  <2>12. \A j \in 1..Len(queue') : queue'[j] \notin refused
    BY <2>2, <2>6 DEF TaskFateUnique
  <2>13. ASSUME NEW i \in 1..Len(queue'), NEW j \in 1..Len(queue'), queue'[i] = queue'[j]
         PROVE  i = j
    <3>1. i + 1 = j + 1
      BY SMTT(30), <2>2, <2>6, <2>13 DEF TaskPlaces
    <3> QED
      BY <3>1
  <2>14. \A c \in Callers : /\ arg[c] \notin refused
                            /\ \A i \in 1..Len(queue') : queue'[i] # arg[c]
                            /\ \A i \in 1..Len(ran') : ran'[i] # arg[c]
    BY <2>2, <2>4, <2>5, <2>6, <2>9 DEF TaskPlaces
  <2>15. TaskFateUnique'
    BY <2>1, <2>10, <2>11, <2>12 DEF TaskFateUnique
  <2>16. TaskPlaces'
    BY <2>1, <2>13, <2>14 DEF TaskPlaces
  <2> QED
    BY <2>15, <2>16
<1>6. ASSUME NEW w \in Workers, WorkerTest(w) \/ TakeWaits(w) \/ TakeNothing(w) \/ TaskReturns(w)
      PROVE  TaskFateUnique' /\ TaskPlaces'
  BY <1>1, <1>6 DEF WorkerTest, TakeWaits, TakeNothing, TaskReturns
<1>7. ASSUME NEW c \in Callers, RunWaits(c) PROVE TaskFateUnique' /\ TaskPlaces'
  BY <1>1, <1>7 DEF RunWaits
<1>8. ASSUME NEW ws \in SUBSET Workers, StartPool(ws) PROVE TaskFateUnique' /\ TaskPlaces'
  BY <1>1, <1>8 DEF StartPool
<1>9. CASE StopPool \/ PoolJoined \/ SpuriousWakeup
  BY <1>1, <1>9 DEF StopPool, PoolJoined, SpuriousWakeup
<1> QED
  BY <1>2, <1>3, <1>4, <1>5, <1>6, <1>7, <1>8, <1>9 DEF PoolNext, RunStep, WorkerStep

(* The notifies of run(), take() and stop() leave no worker and no caller  *)
(* asleep with something to do, and a task that was submitted has one      *)
(* fate, for any finite pool, any queue size and any tasks, also when      *)
(* tasks submit tasks.                                                     *)
THEOREM PoolIsSound == PoolSpec => []PoolSound
<1>1. PoolInit => PoolInv
  BY PoolInitInv
<1>2. PoolInv /\ [PoolNext]_poolVars => PoolInv'
  <2> SUFFICES ASSUME PoolInv, [PoolNext]_poolVars PROVE PoolInv'
    OBVIOUS
  <2>1. PoolTypeOK /\ TasksHaveWorkers /\ PlacesHaveCallers /\ TaskFateUnique /\ TaskPlaces
    BY DEF PoolInv, PoolSound
  <2>2. CASE PoolNext
    BY <2>1, <2>2, PoolTypeNext, WorkersNext, CallersNext, FatesNext DEF PoolInv, PoolSound
  <2>3. CASE UNCHANGED poolVars
    BY <2>1, <2>3 DEF poolVars, config, PoolInv, PoolSound, PoolTypeOK, TasksHaveWorkers,
                      PlacesHaveCallers, TaskFateUnique, TaskPlaces, At
  <2> QED
    BY <2>2, <2>3
<1>3. PoolInv => PoolSound
  BY DEF PoolInv
<1> QED
  BY <1>1, <1>2, <1>3, PTL DEF PoolSpec

-----------------------------------------------------------------------------
(* EventLoopThreadPool. *)

Starting == {"latch", "cond"}
Destroying == {"dtor", "quit", "wakeup", "join", "gone"}
OwnerPoints == {"start", "up"} \cup Starting \cup Destroying
NotCounted == {"none", "born", "countDown"}
InLoop == {"enter", "test", "poll", "clear"}
Ended == {"unlock", "finished"}
ThreadPoints == NotCounted \cup {"func", "publish"} \cup InLoop \cup Ended

LoopsTypeOK == /\ numThreads \in 0..MaxThreads
               /\ opc \in OwnerPoints
               /\ which \in 1..numThreads + 1
               /\ opc \in Starting \cup {"quit", "wakeup", "join"} => which <= numThreads
               /\ tpc \in [Ids -> ThreadPoints]
               /\ tid \in [Ids -> BOOLEAN] /\ loop \in [Ids -> BOOLEAN]
               /\ alive \in [Ids -> BOOLEAN] /\ quit \in [Ids -> BOOLEAN]
               /\ selfQuit \in [Ids -> BOOLEAN] /\ raced \in [Ids -> BOOLEAN]
               /\ latch \in [Ids -> Int]
               /\ dangling \in [Ids -> SUBSET {"store", "wakeup", "mutex"}]
               /\ nextLoop \in Nat /\ (nextLoop = 0 \/ nextLoop < numThreads)
               /\ gets \in [0..MaxThreads -> Nat]

(* The owner has stored quit_ of loop i. *)
Told(i) == /\ opc \in Destroying
           /\ i < which \/ (i = which /\ opc \in {"wakeup", "join"})

(* What each thread has done by the time it is where it is; why its loop   *)
(* ends; how far the owner lets it be.                                     *)
Handshake(i) == /\ tpc[i] \in {"none", "born"} \/ tid[i]
                /\ latch[i] = 0 => tpc[i] \notin NotCounted
                /\ tpc[i] \in NotCounted => latch[i] = 1
                /\ loop[i] <=> tpc[i] \in InLoop
                /\ alive[i] <=> tpc[i] \in InLoop \cup {"publish", "unlock"}
Cause(i) == quit[i] \/ tpc[i] \in {"clear"} \cup Ended => selfQuit[i] \/ Told(i)
Progress(i) == /\ opc = "start" => IF i < which THEN tpc[i] \in InLoop \cup Ended
                                                ELSE tpc[i] = "none"
               /\ opc \in Starting => /\ i < which => tpc[i] \in InLoop \cup Ended
                                      /\ i = which => tpc[i] # "none"
                                      /\ i = which /\ opc = "cond" => tpc[i] \notin NotCounted
                                      /\ i > which => tpc[i] = "none"
               /\ opc \in {"up"} \cup Destroying /\ i <= numThreads => tpc[i] \in InLoop \cup Ended
Turns == \A i, j \in 1..numThreads :
           i < j => gets[i] - gets[j] = IF i <= nextLoop /\ nextLoop < j THEN 1 ELSE 0
(* What the owner used after it was gone, and the loop it is about to wake. *)
Dangles(i) == /\ "store" \in dangling[i] \/ "mutex" \in dangling[i] => selfQuit[i]
              /\ "wakeup" \in dangling[i] => selfQuit[i] \/ raced[i]
              /\ opc = "wakeup" /\ which = i => alive[i] \/ raced[i] \/ selfQuit[i]
              /\ raced[i] => tpc[i] = "finished"

LoopsInv == /\ LoopsTypeOK
            /\ \A i \in Ids : Handshake(i) /\ Cause(i) /\ Progress(i) /\ Dangles(i)
            /\ Turns

LEMMA LoopsInitInv == LoopsInit => LoopsInv
<1> SUFFICES ASSUME LoopsInit PROVE LoopsInv
  OBVIOUS
<1>1. LoopsTypeOK
  BY BoundsAssumption DEF LoopsInit, LoopsTypeOK, OwnerPoints, ThreadPoints, NotCounted, Starting, Ids
<1>2. ASSUME NEW i \in Ids PROVE Handshake(i) /\ Cause(i) /\ Progress(i) /\ Dangles(i)
  BY <1>2 DEF LoopsInit, Handshake, Cause, Progress, Dangles, NotCounted, InLoop, Ended, Starting,
              Destroying, Ids
<1>3. Turns
  BY BoundsAssumption DEF LoopsInit, Turns
<1> QED
  BY <1>1, <1>2, <1>3 DEF LoopsInv

LEMMA LoopsAnswers == LoopsInv => LoopsSound
<1> SUFFICES ASSUME LoopsInv PROVE LoopsSound
  OBVIOUS
<1>1. TidKnown
  <2> SUFFICES ASSUME opc = "cond" PROVE tid[which]
    BY DEF TidKnown
  <2>1. which \in Ids
    BY BoundsAssumption DEF LoopsInv, LoopsTypeOK, Starting, Ids
  <2>2. tpc[which] \notin {"none", "born"}
    BY <2>1 DEF LoopsInv, Progress, Starting, NotCounted
  <2> QED
    BY <2>1, <2>2 DEF LoopsInv, Handshake
<1>2. HandedOutIsAlive
  <2>1. ASSUME opc = "up", NEW i \in 1..numThreads PROVE alive[i] \/ selfQuit[i]
    <3>1. i \in Ids /\ i <= numThreads /\ opc \notin Destroying
      BY <2>1, BoundsAssumption DEF LoopsInv, LoopsTypeOK, Ids, Destroying
    <3>2. tpc[i] \in InLoop \cup Ended
      BY <2>1, <3>1 DEF LoopsInv, Progress
    <3>3. CASE tpc[i] = "finished"
      BY <3>1, <3>3 DEF LoopsInv, Cause, Told, Ended
    <3>4. CASE tpc[i] \in InLoop \cup {"unlock"}
      BY <3>1, <3>4 DEF LoopsInv, Handshake
    <3> QED
      BY <3>2, <3>3, <3>4 DEF Ended
  <2>2. ASSUME NEW i \in Ids, dangling[i] # {}, ~selfQuit[i]
        PROVE  dangling[i] = {"wakeup"} /\ raced[i]
    <3>1. dangling[i] \subseteq {"store", "wakeup", "mutex"}
      BY DEF LoopsInv, LoopsTypeOK
    <3>2. "store" \notin dangling[i] /\ "mutex" \notin dangling[i]
      BY <2>2 DEF LoopsInv, Dangles
    <3>3. dangling[i] = {"wakeup"}
      BY <2>2, <3>1, <3>2
    <3> QED
      BY <2>2, <3>3 DEF LoopsInv, Dangles
  <2> QED
    BY <2>1, <2>2 DEF HandedOutIsAlive
<1>3. RoundRobin
  BY DEF LoopsInv, Turns, RoundRobin
<1> QED
  BY <1>1, <1>2, <1>3 DEF LoopsSound

(* getNextLoop(): the loops take turns. *)
LEMMA TurnsNext ==
  ASSUME LoopsTypeOK, Turns, GetNextLoop
  PROVE  /\ nextLoop' \in Nat /\ (nextLoop' = 0 \/ nextLoop' < numThreads)
         /\ gets' \in [0..MaxThreads -> Nat]
         /\ Turns'
<1>1. numThreads \in 0..MaxThreads /\ nextLoop \in Nat /\ (nextLoop = 0 \/ nextLoop < numThreads)
      /\ numThreads' = numThreads /\ gets \in [0..MaxThreads -> Nat] /\ MaxThreads \in Nat
  BY BoundsAssumption DEF LoopsTypeOK, GetNextLoop
<1>2. CASE numThreads = 0
  <2>1. gets' \in [0..MaxThreads -> Nat] /\ nextLoop' = 0
    BY <1>1, <1>2 DEF GetNextLoop, BaseLoop
  <2> QED
    BY <1>1, <1>2, <2>1 DEF Turns
<1>3. CASE numThreads # 0
  <2> DEFINE k == nextLoop + 1
  <2>1. k \in 1..numThreads /\ k \in 0..MaxThreads
    BY <1>1, <1>3
  <2>2. /\ gets' = [gets EXCEPT ![k] = @ + 1]
        /\ nextLoop' = IF k >= numThreads THEN 0 ELSE k
    BY <1>3 DEF GetNextLoop
  <2>3. gets' \in [0..MaxThreads -> Nat] /\ nextLoop' \in Nat /\ (nextLoop' = 0 \/ nextLoop' < numThreads)
    BY <1>1, <2>1, <2>2
  <2>4. gets'[k] = gets[k] + 1 /\ \A i \in 1..numThreads : i # k => gets'[i] = gets[i]
    BY <1>1, <2>1, <2>2
  <2>5. ASSUME NEW i \in 1..numThreads, NEW j \in 1..numThreads, i < j
        PROVE  gets'[i] - gets'[j] = IF i <= nextLoop' /\ nextLoop' < j THEN 1 ELSE 0
    <3>1. gets[i] - gets[j] = IF i <= nextLoop /\ nextLoop < j THEN 1 ELSE 0
      BY <2>5 DEF Turns
    <3>2. gets[i] \in Nat /\ gets[j] \in Nat /\ gets[k] \in Nat
      BY <1>1, <2>1
    <3>3. CASE i = k
      <4>1. gets'[i] = gets[i] + 1 /\ gets'[j] = gets[j]
        BY <2>4, <2>5, <3>3
      <4>2. nextLoop' = i /\ ~(i <= nextLoop)
        BY <1>1, <2>2, <2>5, <3>3
      <4> QED
        BY <2>5, <3>1, <3>2, <4>1, <4>2
    <3>4. CASE j = k
      <4>1. gets'[j] = gets[j] + 1 /\ gets'[i] = gets[i]
        BY <2>4, <2>5, <3>4
      <4>2. i <= nextLoop /\ nextLoop < j /\ (nextLoop' = 0 \/ nextLoop' = j)
        BY <1>1, <2>2, <2>5, <3>4
      <4> QED
        BY <2>5, <3>1, <3>2, <4>1, <4>2
    <3>5. CASE i # k /\ j # k
      <4>1. gets'[j] = gets[j] /\ gets'[i] = gets[i]
        BY <2>4, <3>5
      <4>2. (i <= nextLoop /\ nextLoop < j) <=> (i <= nextLoop' /\ nextLoop' < j)
        BY <1>1, <2>2, <2>5, <3>5
      <4> QED
        BY <3>1, <4>1, <4>2
    <3> QED
      BY <3>3, <3>4, <3>5
  <2>6. Turns'
    BY <1>1, <2>5 DEF Turns
  <2> QED
    BY <2>3, <2>6
<1> QED
  BY <1>2, <1>3

(* A step of thread i says nothing of the others. *)
LEMMA OthersKeep ==
  ASSUME NEW k, Handshake(k), Cause(k), Progress(k), Dangles(k),
         opc' = opc, which' = which, numThreads' = numThreads, dangling' = dangling,
         tpc'[k] = tpc[k], tid'[k] = tid[k], latch'[k] = latch[k], loop'[k] = loop[k],
         alive'[k] = alive[k], quit'[k] = quit[k], selfQuit'[k] = selfQuit[k],
         raced'[k] = raced[k]
  PROVE  Handshake(k)' /\ Cause(k)' /\ Progress(k)' /\ Dangles(k)'
<1>1. Told(k)' <=> Told(k)
  BY DEF Told
<1> QED
  BY <1>1 DEF Handshake, Cause, Progress, Dangles

LEMMA ThreadStepInv ==
  ASSUME LoopsInv, NEW i \in Ids, LoopThreadStep(i) \/ PollReturns(i) \/ SelfQuit(i)
  PROVE  LoopsInv'
<1>0. LoopsTypeOK /\ Turns /\ Handshake(i) /\ Cause(i) /\ Progress(i) /\ Dangles(i)
  BY DEF LoopsInv
<1> USE DEF LoopThreadStep, SetTid, CountDown, ConstructLoop, PublishLoop, EnterLoop, TestQuit, Poll,
            PollReturns, ClearLoop, DestroyLoop, SelfQuit, Moves
<1>1. /\ numThreads' = numThreads /\ opc' = opc /\ which' = which /\ nextLoop' = nextLoop
      /\ gets' = gets /\ dangling' = dangling
  BY DEF history, flagVars
<1>2. tpc' \in [Ids -> ThreadPoints] /\ \A k \in Ids : k # i => tpc'[k] = tpc[k]
  BY <1>0 DEF LoopsTypeOK, ThreadPoints, NotCounted, InLoop, Ended
<1>3. /\ tid' \in [Ids -> BOOLEAN] /\ \A k \in Ids : k # i => tid'[k] = tid[k]
      /\ loop' \in [Ids -> BOOLEAN] /\ \A k \in Ids : k # i => loop'[k] = loop[k]
      /\ alive' \in [Ids -> BOOLEAN] /\ \A k \in Ids : k # i => alive'[k] = alive[k]
  BY <1>0 DEF LoopsTypeOK, flagVars
<1>4. /\ quit' \in [Ids -> BOOLEAN] /\ \A k \in Ids : k # i => quit'[k] = quit[k]
      /\ selfQuit' \in [Ids -> BOOLEAN] /\ \A k \in Ids : k # i => selfQuit'[k] = selfQuit[k]
      /\ raced' \in [Ids -> BOOLEAN] /\ \A k \in Ids : k # i => raced'[k] = raced[k]
  BY <1>0 DEF LoopsTypeOK, flagVars, history
<1>5. latch' \in [Ids -> Int] /\ \A k \in Ids : k # i => latch'[k] = latch[k]
  BY <1>0 DEF LoopsTypeOK
<1>6. LoopsTypeOK'
  BY <1>0, <1>1, <1>2, <1>3, <1>4, <1>5 DEF LoopsTypeOK
<1>7. Turns'
  BY <1>0, <1>1 DEF Turns
<1>8. ASSUME NEW k \in Ids, k # i PROVE Handshake(k)' /\ Cause(k)' /\ Progress(k)' /\ Dangles(k)'
  <2>1. Handshake(k) /\ Cause(k) /\ Progress(k) /\ Dangles(k)
    BY DEF LoopsInv
  <2>2. /\ tpc'[k] = tpc[k] /\ tid'[k] = tid[k] /\ latch'[k] = latch[k] /\ loop'[k] = loop[k]
        /\ alive'[k] = alive[k] /\ quit'[k] = quit[k] /\ selfQuit'[k] = selfQuit[k]
        /\ raced'[k] = raced[k]
    BY <1>2, <1>3, <1>4, <1>5, <1>8
  <2> QED
    BY <1>1, <2>1, <2>2, OthersKeep
<1>9. Handshake(i)'
  BY <1>0 DEF Handshake, LoopsTypeOK, NotCounted, InLoop, Ended, flagVars
<1>10. Cause(i)'
  <2>1. Told(i)' <=> Told(i)
    BY <1>1 DEF Told
  <2>2. selfQuit[i] => selfQuit'[i]
    BY <1>0 DEF LoopsTypeOK, history
  <2>3. quit'[i] \/ tpc'[i] \in {"clear"} \cup Ended =>
          quit[i] \/ tpc[i] \in {"clear"} \cup Ended \/ selfQuit'[i]
    BY <1>0 DEF LoopsTypeOK, Ended, flagVars
  <2> QED
    BY <1>0, <2>1, <2>2, <2>3 DEF Cause
<1>11. Progress(i)'
  <2>1. /\ tpc[i] # "none" /\ tpc'[i] # "none"
        /\ tpc[i] \in InLoop \cup Ended => tpc'[i] \in InLoop \cup Ended
        /\ tpc[i] \notin NotCounted => tpc'[i] \notin NotCounted
    BY <1>0 DEF LoopsTypeOK, NotCounted, InLoop, Ended
  <2> QED
    BY <1>0, <1>1, <2>1 DEF Progress
<1>12. Dangles(i)'
  <2>1. selfQuit[i] => selfQuit'[i]
    BY <1>0 DEF LoopsTypeOK, history
  <2>2. tpc[i] # "finished" /\ ~raced[i]
    BY <1>0 DEF Dangles
  <2>3. raced'[i] => tpc'[i] = "finished" /\ opc = "wakeup" /\ which = i
    BY <1>0, <2>2 DEF LoopsTypeOK, history
  <2>4. alive[i] => alive'[i] \/ raced'[i] \/ ~(opc = "wakeup" /\ which = i)
    BY <1>0 DEF LoopsTypeOK
  <2> QED
    BY <1>0, <1>1, <2>1, <2>2, <2>3, <2>4 DEF Dangles
<1> QED
  BY <1>6, <1>7, <1>8, <1>9, <1>10, <1>11, <1>12 DEF LoopsInv

(* A step of the owner that touches no thread: what it must leave true. *)
LEMMA OwnerKeeps ==
  ASSUME LoopsInv, UNCHANGED <<numThreads, threadVars, selfQuit, raced, nextLoop, gets>>,
         LoopsTypeOK',
         \A i \in Ids : Cause(i)' /\ Progress(i)' /\ Dangles(i)'
  PROVE  LoopsInv'
<1>1. Turns'
  BY DEF LoopsInv, Turns
<1>2. \A i \in Ids : Handshake(i)'
  BY DEF LoopsInv, Handshake, threadVars
<1> QED
  BY <1>1, <1>2 DEF LoopsInv

LEMMA OwnerStartsInv ==
  ASSUME LoopsInv, LatchOpen \/ LoopStarted \/ PoolStarted
  PROVE  LoopsInv'
<1>0. LoopsTypeOK /\ Turns /\ \A i \in Ids : Handshake(i) /\ Cause(i) /\ Progress(i) /\ Dangles(i)
  BY DEF LoopsInv
<1> USE DEF LatchOpen, LoopStarted, PoolStarted
<1>1. UNCHANGED <<numThreads, threadVars, flagVars, nextLoop, gets, history>>
  BY DEF history
<1>2. LoopsTypeOK'
  BY <1>0, <1>1, BoundsAssumption DEF LoopsTypeOK, OwnerPoints, Starting, Destroying, threadVars, flagVars, history
<1>3. ASSUME NEW i \in Ids PROVE Cause(i)'
  <2>1. Told(i)' <=> Told(i)
    BY DEF Told, Destroying
  <2> QED
    BY <1>0, <1>1, <2>1 DEF Cause, threadVars, flagVars, history
<1>4. ASSUME NEW i \in Ids PROVE Dangles(i)'
  BY <1>0, <1>1 DEF Dangles, history, threadVars
<1>5. ASSUME NEW i \in Ids PROVE Progress(i)'
  <2>1. i \in Nat /\ which \in Nat /\ numThreads \in Nat /\ Progress(i) /\ tpc' = tpc
        /\ numThreads' = numThreads
    BY <1>0, <1>1, BoundsAssumption DEF LoopsTypeOK, Ids, threadVars
  <2>2. CASE LatchOpen
    <3>1. i = which => tpc[i] \notin NotCounted
      BY <1>0, <2>2 DEF Handshake
    <3> QED
      BY <2>1, <2>2, <3>1 DEF Progress, Starting, Destroying
  <2>3. CASE LoopStarted
    <3>1. i = which => tpc[i] \in InLoop
      BY <1>0, <2>3 DEF Handshake
    <3> QED
      BY <2>1, <2>3, <3>1 DEF Progress, Starting, Destroying
  <2>4. CASE PoolStarted
    BY <2>1, <2>4 DEF Progress, Starting, Destroying
  <2> QED
    BY <2>2, <2>3, <2>4
<1> QED
  BY <1>1, <1>2, <1>3, <1>4, <1>5, OwnerKeeps DEF history

LEMMA CreateThreadInv ==
  ASSUME LoopsInv, CreateThread
  PROVE  LoopsInv'
<1>0. LoopsTypeOK /\ Turns /\ \A i \in Ids : Handshake(i) /\ Cause(i) /\ Progress(i) /\ Dangles(i)
  BY DEF LoopsInv
<1>1. /\ opc = "start" /\ opc' = "latch" /\ which <= numThreads
      /\ UNCHANGED <<numThreads, which, tid, latch, loop, alive, flagVars, nextLoop, gets, history>>
  BY DEF CreateThread
<1>2. which \in Ids /\ which \in Nat /\ numThreads \in Nat /\ \A i \in Ids : i \in Nat
  BY <1>0, <1>1, BoundsAssumption DEF LoopsTypeOK, Ids
<1>3. /\ tpc' \in [Ids -> ThreadPoints] /\ tpc'[which] = "born"
      /\ \A i \in Ids : i # which => tpc'[i] = tpc[i]
  BY <1>0, <1>2 DEF CreateThread, LoopsTypeOK, ThreadPoints, NotCounted
<1>4. LoopsTypeOK'
  BY <1>0, <1>1, <1>3 DEF LoopsTypeOK, OwnerPoints, Starting, Destroying, flagVars, history
<1>5. Turns'
  BY <1>0, <1>1 DEF Turns
<1>6. tpc[which] = "none"
  BY <1>0, <1>1, <1>2 DEF Progress
<1>7. ASSUME NEW i \in Ids PROVE Handshake(i)' /\ Cause(i)' /\ Progress(i)' /\ Dangles(i)'
  <2>1. /\ Handshake(i) /\ Cause(i) /\ Progress(i) /\ Dangles(i)
        /\ tid' = tid /\ latch' = latch /\ loop' = loop /\ alive' = alive
        /\ quit' = quit /\ selfQuit' = selfQuit /\ raced' = raced /\ dangling' = dangling
    BY <1>0, <1>1 DEF flagVars, history
  <2>2. ~Told(i) /\ ~Told(i)'
    BY <1>1 DEF Told, Destroying
  <2>3. CASE i = which
    <3>1. Handshake(i)'
      BY <1>3, <1>6, <2>1, <2>3 DEF Handshake, NotCounted, InLoop
    <3>2. Cause(i)'
      BY <1>3, <2>1, <2>2, <2>3 DEF Cause, Ended
    <3>3. Progress(i)'
      BY <1>1, <1>2, <1>3, <2>3 DEF Progress, Starting, Destroying
    <3> QED
      BY <1>1, <1>6, <2>1, <2>3, <3>1, <3>2, <3>3 DEF Dangles
  <2>4. CASE i # which
    <3>1. Handshake(i)' /\ Cause(i)'
      BY <1>3, <2>1, <2>2, <2>4 DEF Handshake, Cause
    <3>2. Progress(i)'
      BY <1>1, <1>2, <1>3, <2>1, <2>4 DEF Progress, Starting, Destroying
    <3> QED
      BY <1>1, <1>3, <2>1, <2>4, <3>1, <3>2 DEF Dangles
  <2> QED
    BY <2>3, <2>4
<1> QED
  BY <1>4, <1>5, <1>7 DEF LoopsInv

LEMMA OwnerEndsInv ==
  ASSUME LoopsInv, DestroyPool \/ TestLoop \/ StoreQuit \/ WakeupLoop \/ Join \/ PoolDestroyed
  PROVE  LoopsInv'
<1>0. LoopsTypeOK /\ Turns /\ \A i \in Ids : Handshake(i) /\ Cause(i) /\ Progress(i) /\ Dangles(i)
  BY DEF LoopsInv
<1> USE DEF DestroyPool, TestLoop, StoreQuit, WakeupLoop, Join, PoolDestroyed
<1>1. /\ UNCHANGED <<numThreads, threadVars, selfQuit, raced, nextLoop, gets>>
      /\ opc \in {"up"} \cup Destroying /\ opc' \in Destroying
      /\ numThreads \in Nat /\ which \in Nat /\ \A i \in Ids : i \in Nat
  BY <1>0, BoundsAssumption DEF history, Destroying, LoopsTypeOK, Ids
<1>2. LoopsTypeOK'
  <2>1. quit' \in [Ids -> BOOLEAN]
    BY <1>0 DEF LoopsTypeOK, flagVars
  <2>2. dangling' \in [Ids -> SUBSET {"store", "wakeup", "mutex"}]
    BY <1>0 DEF LoopsTypeOK, history, Uses
  <2>3. which' \in 1..numThreads + 1 /\ (opc' \in Starting \cup {"quit", "wakeup", "join"} => which' <= numThreads)
    BY <1>0, <1>1 DEF LoopsTypeOK, Starting, Destroying
  <2> QED
    BY <1>0, <1>1, <2>1, <2>2, <2>3 DEF LoopsTypeOK, OwnerPoints, threadVars
<1>3. ASSUME NEW i \in Ids PROVE Cause(i)'
  <2>1. Told(i) => Told(i)'
    BY <1>0, <1>1 DEF Told, Destroying, LoopsTypeOK
  <2>2. quit'[i] => quit[i] \/ Told(i)'
    BY <1>0, <1>1 DEF Told, Destroying, LoopsTypeOK, flagVars
  <2> QED
    BY <1>0, <1>1, <2>1, <2>2 DEF Cause, threadVars
<1>4. ASSUME NEW i \in Ids PROVE Progress(i)'
  <2>1. Progress(i) /\ tpc' = tpc /\ numThreads' = numThreads
    BY <1>0, <1>1 DEF threadVars
  <2> QED
    BY <1>1, <2>1 DEF Progress, Starting, Destroying
<1>5. ASSUME NEW i \in Ids PROVE Dangles(i)'
  <2>1. Dangles(i) /\ selfQuit' = selfQuit /\ raced' = raced /\ alive' = alive /\ tpc' = tpc
    BY <1>0, <1>1 DEF threadVars
  <2>2. CASE dangling' = dangling
    <3>1. opc' = "wakeup" /\ which' = i => alive[i] \/ selfQuit[i]
      <4> SUFFICES ASSUME opc' = "wakeup", which' = i, ~alive[i] PROVE selfQuit[i]
        OBVIOUS
      <4>1. StoreQuit /\ opc = "quit" /\ which = i /\ i <= numThreads
        BY <1>0 DEF LoopsTypeOK
      <4>2. tpc[i] = "finished"
        BY <1>0, <1>1, <4>1 DEF Handshake, Progress, Ended
      <4> QED
        BY <1>0, <1>1, <4>1, <4>2 DEF Cause, Told, Ended
    <3> QED
      BY <2>1, <2>2, <3>1 DEF Dangles
  <2>3. CASE dangling' # dangling
    <3>1. which \in Ids /\ which <= numThreads
      BY <1>0, <2>3, BoundsAssumption DEF LoopsTypeOK, history, Ids
    <3>2. CASE TestLoop
      <4>1. opc = "dtor" /\ tpc[which] = "unlock" /\ dangling' = [dangling EXCEPT ![which] = @ \cup {"mutex"}]
        BY <2>3, <3>2 DEF Uses
      <4>2. selfQuit[which]
        BY <1>0, <1>1, <3>1, <4>1 DEF Cause, Told, Ended
      <4> QED
        BY <1>0, <2>1, <3>1, <4>1, <4>2 DEF Dangles, LoopsTypeOK
    <3>3. CASE StoreQuit
      <4>1. opc = "quit" /\ ~alive[which] /\ dangling' = [dangling EXCEPT ![which] = @ \cup {"store"}]
        BY <2>3, <3>3 DEF Uses
      <4>2. tpc[which] = "finished"
        BY <1>0, <1>1, <3>1, <4>1 DEF Handshake, Progress, Ended
      <4>3. selfQuit[which]
        BY <1>0, <1>1, <3>1, <4>1, <4>2 DEF Cause, Told, Ended
      <4> QED
        BY <1>0, <2>1, <3>1, <4>1, <4>3 DEF Dangles, LoopsTypeOK
    <3>4. CASE WakeupLoop
      <4>1. /\ opc = "wakeup" /\ opc' = "join" /\ ~alive[which]
            /\ dangling' = [dangling EXCEPT ![which] = @ \cup {"wakeup"}]
        BY <2>3, <3>4 DEF Uses
      <4>2. selfQuit[which] \/ raced[which]
        BY <1>0, <3>1, <4>1 DEF Dangles
      <4> QED
        BY <1>0, <2>1, <3>1, <4>1, <4>2 DEF Dangles, LoopsTypeOK
    <3> QED
      BY <2>3, <3>2, <3>3, <3>4 DEF history
  <2> QED
    BY <2>2, <2>3
<1> QED
  BY <1>1, <1>2, <1>3, <1>4, <1>5, OwnerKeeps

LEMMA GetNextLoopInv ==
  ASSUME LoopsInv, GetNextLoop
  PROVE  LoopsInv'
<1>0. LoopsTypeOK /\ Turns
  BY DEF LoopsInv
<1>1. UNCHANGED <<numThreads, opc, which, threadVars, flagVars, history>>
  BY DEF GetNextLoop
<1>2. Turns' /\ LoopsTypeOK'
  BY <1>0, <1>1, TurnsNext DEF LoopsTypeOK, threadVars, flagVars, history
<1>3. \A i \in Ids : Handshake(i)' /\ Cause(i)' /\ Progress(i)' /\ Dangles(i)'
  BY <1>1 DEF LoopsInv, Handshake, Cause, Progress, Dangles, Told, threadVars, flagVars, history
<1> QED
  BY <1>2, <1>3 DEF LoopsInv

(* Thread::start() and startLoop() return with tid_ and loop_ known, a     *)
(* loop that getNextLoop() hands out exists unless it has quit by itself,  *)
(* the destructor uses a loop that is gone only when it ended between the  *)
(* two statements of quit(), and connections are spread evenly, for any    *)
(* number of threads.                                                      *)
THEOREM LoopsAreSound == LoopsSpec => []LoopsSound
<1>1. LoopsInit => LoopsInv
  BY LoopsInitInv
<1>2. LoopsInv /\ [LoopsNext]_loopsVars => LoopsInv'
  <2> SUFFICES ASSUME LoopsInv, [LoopsNext]_loopsVars PROVE LoopsInv'
    OBVIOUS
  <2>1. CASE OwnerStep
    BY <2>1, CreateThreadInv, OwnerStartsInv, OwnerEndsInv DEF OwnerStep
  <2>2. CASE GetNextLoop
    BY <2>2, GetNextLoopInv
  <2>3. CASE DestroyPool
    BY <2>3, OwnerEndsInv
  <2>4. ASSUME NEW i \in Ids, LoopThreadStep(i) \/ PollReturns(i) \/ SelfQuit(i) PROVE LoopsInv'
    BY <2>4, ThreadStepInv
  <2>5. CASE UNCHANGED loopsVars
    BY <2>5 DEF loopsVars, threadVars, flagVars, history, LoopsInv, LoopsTypeOK, Handshake, Cause,
                Progress, Dangles, Told, Turns
  <2> QED
    BY <2>1, <2>2, <2>3, <2>4, <2>5 DEF LoopsNext
<1>3. LoopsInv => LoopsSound
  BY LoopsAnswers
<1> QED
  BY <1>1, <1>2, <1>3, PTL DEF LoopsSpec

-----------------------------------------------------------------------------
(* AsyncLogging.  A line that was appended is in the file, in a buffer the *)
(* thread has still to write, in buffers_, in currentBuffer_, or given up. *)

LogLines == Seq(Nat)
FileRecord == [count : Nat, startOfPeriod : Int, lastRoll : Nat, lastFlush : Nat, bytes : Nat,
               disk : LogLines, held : LogLines, lost : SUBSET Nat, names : LogLines]

Lower(X, Y) == \A x \in X, y \in Y : x < y
Staged(q, first) == UNION {LinesOf(q[i]) : i \in first..Len(q)}
Piled(q) == /\ \A i \in 1..Len(q) : Ascending(q[i])
            /\ \A i, j \in 1..Len(q) : i < j => Lower(LinesOf(q[i]), LinesOf(q[j]))

LogTypeOK ==
  /\ lpc \in {"new", "top", "lock", "sleep", "relock", "write", "ended"} /\ apc \in {"new", "up", "join", "stopped"}
  /\ current \in LogLines /\ buffers \in Seq(LogLines) /\ toWrite \in Seq(LogLines)
  /\ written \in Nat /\ written <= Len(toWrite)
  /\ output \in FileRecord /\ now \in Nat /\ appended \in Nat
  /\ gone \in [Reasons -> SUBSET Nat]

(* The spare buffers: nextBuffer_ is taken only after a buffer was full. *)
SparesOK ==
  /\ apc = "new" => lpc = "new"
  /\ nextBuf \in {<<>>, NoBuffer} /\ (nextBuf = NoBuffer => buffers # <<>>)
  /\ lpc # "write" => toWrite = <<>>
  /\ lpc \in {"top", "lock", "sleep", "relock"} => new1 = <<>> /\ new2 = <<>>
  /\ lpc = "write" => /\ new1 = NoBuffer /\ new2 \in {<<>>, NoBuffer} /\ Len(toWrite) >= 1
                      /\ new2 = NoBuffer => Len(toWrite) >= 2

FilesOK ==
  /\ lpc # "write" => output.held = <<>>
  /\ \A i, j \in 1..Len(output.names) : i < j => output.names[i] < output.names[j]
  /\ \A i \in 1..Len(output.names) : output.names[i] <= output.lastRoll

ToWriteLines == Staged(toWrite, written + 1)
BufferedLines == Staged(buffers, 1)
CurrentLines == LinesOf(current)

Dropped == UNION {gone[r] : r \in Reasons}

(* The lines of a file, on the disk or held by stdio, and the lost ones *)
FileLines(f) == LinesOf(f.disk \o f.held) \ {Notice}
LostLines(f) == f.lost \ {Notice}

(* A path of lines: F in the file, T to be written, B buffered, C current, *)
(* G given up, n appended.                                                 *)
Placed(F, T, B, C, G, n) ==
  /\ Lower(F, T) /\ Lower(F, B) /\ Lower(F, C) /\ Lower(T, B) /\ Lower(T, C) /\ Lower(B, C)
  /\ F \cup T \cup B \cup C \cup G = 1..n
  /\ (F \cup T \cup B \cup C) \cap G = {}

LinesOK ==
  /\ Ascending(Logged) /\ Piled(toWrite) /\ Piled(buffers) /\ Ascending(current)
  /\ Placed(FileLines(output), ToWriteLines, BufferedLines, CurrentLines, Dropped \cup LostLines(output), appended)

LogInv == LogTypeOK /\ SparesOK /\ FilesOK /\ LinesOK

LEMMA LogInvImplies == LogInv => LogSound
<1> SUFFICES ASSUME LogInv PROVE LogSound
  OBVIOUS
<1>1. SparesReady /\ FlushedEachRound /\ FileNamesDistinct
  BY DEF LogInv, SparesOK, FilesOK, SparesReady, FlushedEachRound, FileNamesDistinct
<1>2. ASSUME NEW last \in LinesOf(Logged), NEW l \in 1..last PROVE (l \in LinesOf(Logged)) # (l \in GivenUp)
  <2>1. PICK F, T, B, C, G : /\ F = FileLines(output) /\ T = ToWriteLines /\ B = BufferedLines /\ C = CurrentLines
                             /\ G = Dropped \cup LostLines(output) /\ Placed(F, T, B, C, G, appended)
    BY DEF LogInv, LinesOK
  <2>2. appended \in Nat
    BY DEF LogInv, LogTypeOK
  <2>3. last # Notice
    BY DEF Notice
  <2>4. last \in F /\ last \in 1..appended /\ l \in 1..appended /\ l # Notice
    <3>1. last \in F
      BY <2>1, <2>3 DEF FileLines, Logged
    <3>2. last \in 1..appended
      BY <2>1, <3>1 DEF Placed
    <3> QED
      BY <2>2, <3>1, <3>2 DEF Notice
  <2>5. l \notin T /\ l \notin B /\ l \notin C
    BY <2>1, <2>2, <2>4 DEF Placed, Lower
  <2>6. l \in F \/ l \in G
    BY <2>1, <2>4, <2>5 DEF Placed
  <2>7. ~(l \in F /\ l \in G)
    BY <2>1 DEF Placed
  <2>8. (l \in F <=> l \in LinesOf(Logged)) /\ (l \in G <=> l \in GivenUp)
    BY <2>1, <2>4 DEF FileLines, LostLines, Logged, GivenUp, Dropped
  <2> QED
    BY <2>6, <2>7, <2>8
<1>3. LogIsOrdered
  BY <1>2 DEF LogInv, LinesOK, LogIsOrdered
<1> QED
  BY <1>1, <1>3 DEF LogSound

(* What lines a sequence has *)
LEMMA NoLines == LinesOf(<<>>) = {} /\ Ascending(<<>>) /\ Piled(<<>>) /\ \A first \in Int : first >= 1 => Staged(<<>>, first) = {}
<1>1. Len(<<>>) = 0
  BY EmptySeq
<1> QED
  BY <1>1 DEF LinesOf, Ascending, Piled, Staged

LEMMA LinesOfAppend ==
  ASSUME NEW S, NEW s \in Seq(S), NEW x \in S PROVE LinesOf(Append(s, x)) = LinesOf(s) \cup {x}
<1>1. PICK t \in Seq(S) : /\ t = Append(s, x) /\ Len(t) = Len(s) + 1 /\ t[Len(s) + 1] = x
                          /\ \A i \in 1..Len(s) : t[i] = s[i]
  <2>1. /\ Append(s, x) \in Seq(S) /\ Len(Append(s, x)) = Len(s) + 1 /\ Append(s, x)[Len(s) + 1] = x
        /\ \A i \in 1..Len(s) : Append(s, x)[i] = s[i]
    BY AppendProperties
  <2> QED
    BY <2>1
<1>2. Len(s) \in Nat
  BY LenProperties
<1>3. \A y : y \in LinesOf(t) <=> \E i \in 1..(Len(s) + 1) : y = t[i]
  BY <1>1 DEF LinesOf
<1>4. \A y : y \in LinesOf(s) <=> \E i \in 1..Len(s) : y = s[i]
  BY DEF LinesOf
<1>5. \A i : i \in 1..(Len(s) + 1) <=> i \in 1..Len(s) \/ i = Len(s) + 1
  BY <1>2
<1> QED
  BY <1>1, <1>3, <1>4, <1>5

LEMMA LinesOfConcat ==
  ASSUME NEW S, NEW s \in Seq(S), NEW t \in Seq(S) PROVE LinesOf(s \o t) = LinesOf(s) \cup LinesOf(t)
<1>1. Len(s) \in Nat /\ Len(t) \in Nat
  BY LenProperties
<1>2. PICK u \in Seq(S) : /\ u = s \o t /\ Len(u) = Len(s) + Len(t)
                          /\ \A i \in 1..(Len(s) + Len(t)) : u[i] = IF i <= Len(s) THEN s[i] ELSE t[i - Len(s)]
  <2>1. /\ s \o t \in Seq(S) /\ Len(s \o t) = Len(s) + Len(t)
        /\ \A i \in 1..(Len(s) + Len(t)) : (s \o t)[i] = IF i <= Len(s) THEN s[i] ELSE t[i - Len(s)]
    BY ConcatProperties
  <2> QED
    BY <2>1
<1>3. \A i \in 1..Len(s) : i \in 1..(Len(s) + Len(t)) /\ i <= Len(s)
  BY <1>1
<1>4. \A i \in 1..Len(t) : i + Len(s) \in 1..(Len(s) + Len(t)) /\ ~(i + Len(s) <= Len(s)) /\ (i + Len(s)) - Len(s) = i
  BY <1>1
<1>5. \A i \in 1..(Len(s) + Len(t)) : ~(i <= Len(s)) => i - Len(s) \in 1..Len(t)
  BY <1>1
<1>6. \A i \in 1..(Len(s) + Len(t)) : i <= Len(s) => i \in 1..Len(s)
  BY <1>1
<1>7. LinesOf(u) \subseteq LinesOf(s) \cup LinesOf(t)
  BY <1>2, <1>5, <1>6 DEF LinesOf
<1>8. LinesOf(s) \subseteq LinesOf(u)
  BY <1>2, <1>3 DEF LinesOf
<1>9. LinesOf(t) \subseteq LinesOf(u)
  BY <1>2, <1>4 DEF LinesOf
<1> QED
  BY <1>2, <1>7, <1>8, <1>9

LEMMA AscendingAppend ==
  ASSUME NEW s \in LogLines, Ascending(s), NEW x \in Nat, Lower(LinesOf(s), {x}) PROVE Ascending(Append(s, x))
<1>1. /\ Append(s, x) \in LogLines /\ Len(Append(s, x)) = Len(s) + 1 /\ Append(s, x)[Len(s) + 1] = x
      /\ \A i \in 1..Len(s) : Append(s, x)[i] = s[i]
  BY AppendProperties DEF LogLines
<1>2. PICK t \in LogLines : /\ t = Append(s, x) /\ Len(t) = Len(s) + 1 /\ t[Len(s) + 1] = x
                            /\ \A i \in 1..Len(s) : t[i] = s[i]
  BY <1>1
<1>3. Len(s) \in Nat
  BY LenProperties DEF LogLines
<1>4. \A i \in 1..Len(s) : s[i] < x
  BY DEF Lower, LinesOf
<1>5. \A i, j \in 1..(Len(s) + 1) : i < j => i \in 1..Len(s) /\ (j \in 1..Len(s) \/ j = Len(s) + 1)
  BY <1>3
<1> QED
  BY <1>2, <1>4, <1>5 DEF Ascending

LEMMA AscendingConcat ==
  ASSUME NEW s \in LogLines, NEW t \in LogLines, Ascending(s), Ascending(t),
         Lower(LinesOf(s) \ {Notice}, LinesOf(t) \ {Notice})
  PROVE  Ascending(s \o t)
<1>1. Len(s) \in Nat /\ Len(t) \in Nat
  BY LenProperties DEF LogLines
<1>2. PICK u \in LogLines : /\ u = s \o t /\ Len(u) = Len(s) + Len(t)
                            /\ \A i \in 1..(Len(s) + Len(t)) : u[i] = IF i <= Len(s) THEN s[i] ELSE t[i - Len(s)]
  <2>1. /\ s \o t \in Seq(Nat) /\ Len(s \o t) = Len(s) + Len(t)
        /\ \A i \in 1..(Len(s) + Len(t)) : (s \o t)[i] = IF i <= Len(s) THEN s[i] ELSE t[i - Len(s)]
    BY ConcatProperties DEF LogLines
  <2> QED
    BY <2>1 DEF LogLines
<1>3. SUFFICES ASSUME NEW i \in 1..(Len(s) + Len(t)), NEW j \in 1..(Len(s) + Len(t)), i < j, u[i] # Notice, u[j] # Notice
               PROVE  u[i] < u[j]
  BY <1>2 DEF Ascending
<1>4. CASE j <= Len(s)
  <2>1. i \in 1..Len(s) /\ j \in 1..Len(s) /\ i <= Len(s)
    BY <1>1, <1>3, <1>4
  <2> QED
    BY <1>2, <1>3, <1>4, <2>1 DEF Ascending
<1>5. CASE i <= Len(s) /\ ~(j <= Len(s))
  <2>1. i \in 1..Len(s) /\ j - Len(s) \in 1..Len(t)
    BY <1>1, <1>5
  <2>2. u[i] = s[i] /\ u[j] = t[j - Len(s)]
    BY <1>2, <1>5
  <2>3. u[i] \in LinesOf(s) \ {Notice} /\ u[j] \in LinesOf(t) \ {Notice}
    BY <1>3, <2>1, <2>2 DEF LinesOf
  <2> QED
    BY <2>3 DEF Lower
<1>6. CASE ~(i <= Len(s))
  <2>1. i - Len(s) \in 1..Len(t) /\ j - Len(s) \in 1..Len(t) /\ ~(j <= Len(s)) /\ i - Len(s) < j - Len(s)
    BY <1>1, <1>3, <1>6
  <2>2. u[i] = t[i - Len(s)] /\ u[j] = t[j - Len(s)]
    BY <1>2, <1>6, <2>1
  <2> QED
    BY <1>3, <2>1, <2>2 DEF Ascending
<1> QED
  BY <1>4, <1>5, <1>6

LEMMA AscendingSplit ==
  ASSUME NEW s \in LogLines, NEW t \in LogLines, Ascending(s \o t)
  PROVE  Ascending(s) /\ Ascending(t) /\ Lower(LinesOf(s) \ {Notice}, LinesOf(t) \ {Notice})
<1>1. Len(s) \in Nat /\ Len(t) \in Nat
  BY LenProperties DEF LogLines
<1>2. PICK u \in LogLines : /\ u = s \o t /\ Len(u) = Len(s) + Len(t)
                            /\ \A i \in 1..(Len(s) + Len(t)) : u[i] = IF i <= Len(s) THEN s[i] ELSE t[i - Len(s)]
  <2>1. /\ s \o t \in Seq(Nat) /\ Len(s \o t) = Len(s) + Len(t)
        /\ \A i \in 1..(Len(s) + Len(t)) : (s \o t)[i] = IF i <= Len(s) THEN s[i] ELSE t[i - Len(s)]
    BY ConcatProperties DEF LogLines
  <2> QED
    BY <2>1 DEF LogLines
<1>3. \A i \in 1..Len(s) : i \in 1..Len(u) /\ u[i] = s[i]
  <2>1. \A i \in 1..Len(s) : i \in 1..(Len(s) + Len(t)) /\ i <= Len(s)
    BY <1>1
  <2> QED
    BY <1>2, <2>1
<1>4. \A i \in 1..Len(t) : i + Len(s) \in 1..Len(u) /\ u[i + Len(s)] = t[i]
  <2>1. \A i \in 1..Len(t) : i + Len(s) \in 1..(Len(s) + Len(t)) /\ ~(i + Len(s) <= Len(s)) /\ (i + Len(s)) - Len(s) = i
    BY <1>1
  <2> QED
    BY <1>2, <2>1
<1>5. \A i, j \in 1..Len(t) : i < j => i + Len(s) < j + Len(s)
  BY <1>1
<1>6. \A i \in 1..Len(s), j \in 1..Len(t) : i < j + Len(s)
  BY <1>1
<1>7. \A i, j \in 1..Len(u) : i < j /\ u[i] # Notice /\ u[j] # Notice => u[i] < u[j]
  BY <1>2 DEF Ascending
<1>8. Ascending(s)
  BY <1>3, <1>7 DEF Ascending
<1>9. Ascending(t)
  BY <1>4, <1>5, <1>7 DEF Ascending
<1>10. Lower(LinesOf(s) \ {Notice}, LinesOf(t) \ {Notice})
  <2> SUFFICES ASSUME NEW i \in 1..Len(s), NEW j \in 1..Len(t), s[i] # Notice, t[j] # Notice PROVE s[i] < t[j]
    BY DEF Lower, LinesOf
  <2> QED
    BY <1>3, <1>4, <1>6, <1>7
<1> QED
  BY <1>8, <1>9, <1>10

LEMMA SplitLines ==
  ASSUME NEW s \in LogLines, Ascending(s), NEW k \in 0..Len(s)
  PROVE  /\ SubSeq(s, 1, k) \in LogLines /\ Ascending(SubSeq(s, 1, k)) /\ SubSeq(s, k + 1, Len(s)) \in LogLines
         /\ LinesOf(s) = LinesOf(SubSeq(s, 1, k)) \cup LinesOf(SubSeq(s, k + 1, Len(s)))
         /\ Lower(LinesOf(SubSeq(s, 1, k)) \ {Notice}, LinesOf(SubSeq(s, k + 1, Len(s))) \ {Notice})
<1>1. Len(s) \in Nat /\ k \in Nat /\ k <= Len(s) /\ \A i \in 1..Len(s) : s[i] \in Nat
  BY LenProperties, ElementOfSeq DEF LogLines
<1>2. PICK a \in LogLines : a = SubSeq(s, 1, k) /\ Len(a) = k /\ \A i \in 1..k : a[i] = s[i]
  <2>1. \A i \in 1..k : s[i] \in Nat
    BY <1>1
  <2>2. 1 \in Int /\ k \in Int /\ \A i \in 1..k : 1 + i - 1 = i
    BY <1>1
  <2>3. k - 1 + 1 = k /\ (~(1 <= k) => k = 0)
    BY <1>1
  <2>4. /\ SubSeq(s, 1, k) \in Seq(Nat) /\ Len(SubSeq(s, 1, k)) = IF 1 <= k THEN k - 1 + 1 ELSE 0
        /\ \A i \in 1..(k - 1 + 1) : SubSeq(s, 1, k)[i] = s[1 + i - 1]
    BY <2>1, <2>2, SubSeqProperties
  <2> QED
    BY <2>2, <2>3, <2>4 DEF LogLines
<1>3. PICK m \in Nat : m = Len(s) - k
  BY <1>1
<1>4. PICK b \in LogLines : b = SubSeq(s, k + 1, Len(s)) /\ Len(b) = m /\ \A i \in 1..m : b[i] = s[k + i]
  <2>1. \A i \in (k + 1)..Len(s) : s[i] \in Nat
    BY <1>1
  <2>2. k + 1 \in Int /\ Len(s) \in Int /\ \A i \in 1..m : (k + 1) + i - 1 = k + i
    BY <1>1
  <2>3. Len(s) - (k + 1) + 1 = m /\ (~(k + 1 <= Len(s)) => m = 0)
    BY <1>1, <1>3
  <2>4. /\ SubSeq(s, k + 1, Len(s)) \in Seq(Nat)
        /\ Len(SubSeq(s, k + 1, Len(s))) = IF k + 1 <= Len(s) THEN Len(s) - (k + 1) + 1 ELSE 0
        /\ \A i \in 1..(Len(s) - (k + 1) + 1) : SubSeq(s, k + 1, Len(s))[i] = s[(k + 1) + i - 1]
    BY <2>1, <2>2, SubSeqProperties
  <2>5. Len(SubSeq(s, k + 1, Len(s))) = m
    BY <2>3, <2>4
  <2>6. \A i \in 1..m : SubSeq(s, k + 1, Len(s))[i] = s[k + i]
    BY <2>2, <2>3, <2>4
  <2> QED
    BY <2>4, <2>5, <2>6 DEF LogLines
<1>5. \A i \in 1..k : i \in 1..Len(s)
  BY <1>1
<1>6. \A i \in 1..m : k + i \in 1..Len(s) /\ \A j \in 1..k : j < k + i
  BY <1>1, <1>3
<1>7. \A i \in 1..Len(s) : i \in 1..k \/ (i - k \in 1..m /\ k + (i - k) = i)
  BY <1>1, <1>3
<1>8. Ascending(a)
  BY <1>2, <1>5 DEF Ascending
<1>9. LinesOf(s) = LinesOf(a) \cup LinesOf(b)
  <2>1. LinesOf(s) \subseteq LinesOf(a) \cup LinesOf(b)
    <3> SUFFICES ASSUME NEW i \in 1..Len(s) PROVE s[i] \in LinesOf(a) \cup LinesOf(b)
      BY DEF LinesOf
    <3>1. CASE i \in 1..k
      BY <1>2, <3>1 DEF LinesOf
    <3>2. CASE i - k \in 1..m /\ k + (i - k) = i
      <4>1. b[i - k] = s[i]
        BY <1>4, <3>2
      <4> QED
        BY <1>4, <3>2, <4>1 DEF LinesOf
    <3> QED
      BY <1>7, <3>1, <3>2
  <2>2. LinesOf(a) \subseteq LinesOf(s)
    BY <1>2, <1>5 DEF LinesOf
  <2>3. LinesOf(b) \subseteq LinesOf(s)
    BY <1>4, <1>6 DEF LinesOf
  <2> QED
    BY <2>1, <2>2, <2>3
<1>10. Lower(LinesOf(a) \ {Notice}, LinesOf(b) \ {Notice})
  <2> SUFFICES ASSUME NEW j \in 1..k, NEW i \in 1..m, a[j] # Notice, b[i] # Notice PROVE a[j] < b[i]
    <3>1. \A x \in LinesOf(a) : \E j \in 1..k : x = a[j]
      BY <1>2 DEF LinesOf
    <3>2. \A y \in LinesOf(b) : \E i \in 1..m : y = b[i]
      BY <1>4 DEF LinesOf
    <3> QED
      BY <3>1, <3>2 DEF Lower
  <2>1. j \in 1..Len(s) /\ k + i \in 1..Len(s) /\ j < k + i /\ s[j] # Notice /\ s[k + i] # Notice
    BY <1>2, <1>4, <1>5, <1>6
  <2> QED
    BY <1>2, <1>4, <2>1 DEF Ascending
<1> QED
  BY <1>2, <1>4, <1>8, <1>9, <1>10

LEMMA StagedAppend ==
  ASSUME NEW q \in Seq(LogLines), Piled(q), NEW b \in LogLines, Ascending(b), Lower(Staged(q, 1), LinesOf(b))
  PROVE  Staged(Append(q, b), 1) = Staged(q, 1) \cup LinesOf(b) /\ Piled(Append(q, b)) /\ Append(q, b) \in Seq(LogLines)
<1>1. PICK t \in Seq(LogLines) : /\ t = Append(q, b) /\ Len(t) = Len(q) + 1 /\ t[Len(q) + 1] = b
                                 /\ \A i \in 1..Len(q) : t[i] = q[i]
  <2>1. /\ Append(q, b) \in Seq(LogLines) /\ Len(Append(q, b)) = Len(q) + 1 /\ Append(q, b)[Len(q) + 1] = b
        /\ \A i \in 1..Len(q) : Append(q, b)[i] = q[i]
    BY AppendProperties
  <2> QED
    BY <2>1
<1>2. Len(q) \in Nat
  BY LenProperties
<1>3. \A i : i \in 1..(Len(q) + 1) <=> i \in 1..Len(q) \/ i = Len(q) + 1
  BY <1>2
<1>4. \A i, j \in 1..(Len(q) + 1) : i < j => i \in 1..Len(q) /\ (j \in 1..Len(q) \/ j = Len(q) + 1)
  BY <1>2
<1>5. Staged(t, 1) = Staged(q, 1) \cup LinesOf(b)
  <2>1. \A x : x \in Staged(t, 1) <=> \E i \in 1..(Len(q) + 1) : x \in LinesOf(t[i])
    BY <1>1 DEF Staged
  <2>2. \A x : x \in Staged(q, 1) <=> \E i \in 1..Len(q) : x \in LinesOf(q[i])
    BY DEF Staged
  <2> QED
    BY <1>1, <1>3, <2>1, <2>2
<1>6. \A i \in 1..Len(t) : Ascending(t[i])
  BY <1>1, <1>3 DEF Piled
<1>7. ASSUME NEW i \in 1..Len(t), NEW j \in 1..Len(t), i < j PROVE Lower(LinesOf(t[i]), LinesOf(t[j]))
  <2>1. i \in 1..Len(q) /\ t[i] = q[i]
    BY <1>1, <1>4, <1>7
  <2>2. CASE j \in 1..Len(q)
    BY <1>1, <1>7, <2>1, <2>2 DEF Piled
  <2>3. CASE j = Len(q) + 1
    <3>1. LinesOf(q[i]) \subseteq Staged(q, 1)
      BY <2>1 DEF Staged
    <3> QED
      BY <1>1, <2>1, <2>3, <3>1 DEF Lower
  <2> QED
    BY <1>1, <1>4, <1>7, <2>2, <2>3
<1> QED
  BY <1>1, <1>5, <1>6, <1>7 DEF Piled

LEMMA StagedNext ==
  ASSUME NEW q \in Seq(LogLines), Piled(q), NEW w \in Nat, w < Len(q)
  PROVE  /\ Staged(q, w + 1) = LinesOf(q[w + 1]) \cup Staged(q, w + 2) /\ Lower(LinesOf(q[w + 1]), Staged(q, w + 2))
         /\ q[w + 1] \in LogLines /\ Ascending(q[w + 1])
<1>1. Len(q) \in Nat /\ w + 1 \in 1..Len(q)
  BY LenProperties
<1>2. q[w + 1] \in LogLines /\ Ascending(q[w + 1])
  BY <1>1, ElementOfSeq DEF Piled
<1>3. \A i : i \in (w + 1)..Len(q) <=> i = w + 1 \/ i \in (w + 2)..Len(q)
  BY <1>1
<1>4. \A x : x \in Staged(q, w + 1) <=> \E i \in (w + 1)..Len(q) : x \in LinesOf(q[i])
  BY DEF Staged
<1>5. \A x : x \in Staged(q, w + 2) <=> \E i \in (w + 2)..Len(q) : x \in LinesOf(q[i])
  BY DEF Staged
<1>6. Staged(q, w + 1) = LinesOf(q[w + 1]) \cup Staged(q, w + 2)
  BY <1>3, <1>4, <1>5
<1>7. \A i \in (w + 2)..Len(q) : i \in 1..Len(q) /\ w + 1 < i
  BY <1>1
<1>8. Lower(LinesOf(q[w + 1]), Staged(q, w + 2))
  BY <1>1, <1>5, <1>7 DEF Piled, Lower
<1> QED
  BY <1>2, <1>6, <1>8

LEMMA StagedDrop ==
  ASSUME NEW q \in Seq(LogLines), Piled(q), Len(q) > 2
  PROVE  /\ SubSeq(q, 1, 2) \in Seq(LogLines) /\ Len(SubSeq(q, 1, 2)) = 2 /\ Piled(SubSeq(q, 1, 2))
         /\ Staged(q, 1) = Staged(SubSeq(q, 1, 2), 1) \cup UNION {LinesOf(q[i]) : i \in 3..Len(q)}
         /\ Lower(Staged(SubSeq(q, 1, 2), 1), UNION {LinesOf(q[i]) : i \in 3..Len(q)})
<1>1. Len(q) \in Nat /\ \A i \in 1..2 : i \in 1..Len(q)
  BY LenProperties
<1>2. PICK t \in Seq(LogLines) : t = SubSeq(q, 1, 2) /\ Len(t) = 2 /\ \A i \in 1..2 : t[i] = q[i]
  <2>1. \A i \in 1..2 : q[i] \in LogLines
    BY <1>1, ElementOfSeq
  <2>2. 1 \in Int /\ 2 \in Int /\ (\A i \in 1..2 : 1 + i - 1 = i) /\ 2 - 1 + 1 = 2 /\ 1 <= 2
    OBVIOUS
  <2>3. /\ SubSeq(q, 1, 2) \in Seq(LogLines) /\ Len(SubSeq(q, 1, 2)) = IF 1 <= 2 THEN 2 - 1 + 1 ELSE 0
        /\ \A i \in 1..(2 - 1 + 1) : SubSeq(q, 1, 2)[i] = q[1 + i - 1]
    BY <2>1, <2>2, SubSeqProperties
  <2>4. Len(SubSeq(q, 1, 2)) = 2
    BY <2>2, <2>3
  <2>5. \A i \in 1..2 : SubSeq(q, 1, 2)[i] = q[i]
    BY <2>2, <2>3
  <2> QED
    BY <2>3, <2>4, <2>5
<1>3. PICK D : D = UNION {LinesOf(q[i]) : i \in 3..Len(q)}
  OBVIOUS
<1>4. \A x : x \in D <=> \E i \in 3..Len(q) : x \in LinesOf(q[i])
  BY <1>3
<1>5. \A x : x \in Staged(q, 1) <=> \E i \in 1..Len(q) : x \in LinesOf(q[i])
  BY DEF Staged
<1>6. \A x : x \in Staged(t, 1) <=> \E i \in 1..2 : x \in LinesOf(q[i])
  BY <1>2 DEF Staged
<1>7. \A i : i \in 1..Len(q) <=> i \in 1..2 \/ i \in 3..Len(q)
  BY <1>1
<1>8. Staged(q, 1) = Staged(t, 1) \cup D
  BY <1>4, <1>5, <1>6, <1>7
<1>9. Piled(t)
  BY <1>1, <1>2 DEF Piled
<1>10. \A i \in 1..2, j \in 3..Len(q) : i < j /\ i \in 1..Len(q) /\ j \in 1..Len(q)
  BY <1>1
<1>11. Lower(Staged(t, 1), D)
  BY <1>4, <1>6, <1>10 DEF Piled, Lower
<1> QED
  BY <1>2, <1>3, <1>8, <1>9, <1>11

LEMMA StagedDone == ASSUME NEW q \in Seq(LogLines) PROVE Staged(q, Len(q) + 1) = {}
<1>1. Len(q) \in Nat
  BY LenProperties
<1>2. (Len(q) + 1)..Len(q) = {}
  BY <1>1
<1> QED
  BY <1>2 DEF Staged

(* LogFile: an operation gives what stdio holds to the disk, as far as the *)
(* disk takes it, and the rest is lost; it neither repeats nor reorders.   *)
NamesOK(f) ==
  /\ \A i, j \in 1..Len(f.names) : i < j => f.names[i] < f.names[j]
  /\ \A i \in 1..Len(f.names) : f.names[i] <= f.lastRoll

FileOK(f) == f \in FileRecord /\ NamesOK(f) /\ Ascending(f.disk \o f.held) /\ FileLines(f) \cap LostLines(f) = {}

FileMoves(f, g) == /\ FileOK(g)
                   /\ FileLines(g) \cup LostLines(g) = FileLines(f) \cup LostLines(f)
                   /\ FileLines(g) \subseteq FileLines(f)
                   /\ f.held = <<>> => g.held = <<>>

LEMMA FileMovesTrans == ASSUME NEW f, NEW g, NEW h, FileMoves(f, g), FileMoves(g, h) PROVE FileMoves(f, h)
BY DEF FileMoves

LEMMA SameText ==
  ASSUME NEW f, FileOK(f), NEW g \in FileRecord, NamesOK(g), g.disk = f.disk, g.held = f.held, g.lost = f.lost
  PROVE  FileMoves(f, g)
<1>1. FileLines(g) = FileLines(f) /\ LostLines(g) = LostLines(f)
  BY DEF FileLines, LostLines
<1> QED
  BY <1>1 DEF FileOK, FileMoves

LEMMA FlushFacts ==
  ASSUME NEW f, FileOK(f), NEW out \in 0..Len(f.held)
  PROVE  FileMoves(f, Flush(f, out)) /\ Flush(f, out).held = <<>>
<1>1. f \in FileRecord /\ f.disk \in LogLines /\ f.held \in LogLines /\ f.lost \in SUBSET Nat
  BY DEF FileOK, FileRecord
<1>2. PICK a, b : a = SubSeq(f.held, 1, out) /\ b = SubSeq(f.held, out + 1, Len(f.held))
  OBVIOUS
<1>3. Ascending(f.disk) /\ Ascending(f.held) /\ Lower(LinesOf(f.disk) \ {Notice}, LinesOf(f.held) \ {Notice})
  BY <1>1, AscendingSplit DEF FileOK
<1>4. /\ a \in LogLines /\ b \in LogLines /\ Ascending(a) /\ LinesOf(f.held) = LinesOf(a) \cup LinesOf(b)
      /\ Lower(LinesOf(a) \ {Notice}, LinesOf(b) \ {Notice})
  BY <1>1, <1>2, <1>3, SplitLines
<1>5. PICK d \in LogLines : d = f.disk \o a /\ d \o <<>> = d /\ <<>> \in LogLines
  <2>1. f.disk \o a \in Seq(Nat)
    BY <1>1, <1>4, ConcatProperties DEF LogLines
  <2> QED
    BY <2>1, ConcatEmptySeq, EmptySeq DEF LogLines
<1>6. PICK L \in SUBSET Nat : L = f.lost \cup LinesOf(b)
  <2>1. \A i \in 1..Len(b) : b[i] \in Nat
    BY <1>4, ElementOfSeq DEF LogLines
  <2>2. LinesOf(b) \subseteq Nat
    BY <2>1 DEF LinesOf
  <2> QED
    BY <1>1, <2>2
<1>7. PICK g : g = Flush(f, out)
  OBVIOUS
<1>8. g = [f EXCEPT !.disk = d, !.held = <<>>, !.lost = L]
  BY <1>1, <1>2, <1>5, <1>6, <1>7 DEF Flush, FileRecord
<1>9. /\ g \in FileRecord /\ g.disk = d /\ g.held = <<>> /\ g.lost = L /\ g.names = f.names /\ g.lastRoll = f.lastRoll
  BY <1>1, <1>5, <1>6, <1>8 DEF FileRecord
<1>10. NamesOK(g)
  BY <1>9 DEF FileOK, NamesOK
<1>11. /\ LinesOf(f.disk \o f.held) = LinesOf(f.disk) \cup LinesOf(f.held)
       /\ LinesOf(f.disk \o a) = LinesOf(f.disk) \cup LinesOf(a)
  BY <1>1, <1>4, LinesOfConcat DEF LogLines
<1>12. Ascending(d)
  <2>1. Lower(LinesOf(f.disk) \ {Notice}, LinesOf(a) \ {Notice})
    BY <1>3, <1>4 DEF Lower
  <2> QED
    BY <1>1, <1>3, <1>4, <1>5, <2>1, AscendingConcat
<1>13. /\ FileLines(f) = (LinesOf(f.disk) \cup LinesOf(a) \cup LinesOf(b)) \ {Notice}
       /\ FileLines(g) = (LinesOf(f.disk) \cup LinesOf(a)) \ {Notice} /\ LostLines(g) = LostLines(f) \cup (LinesOf(b) \ {Notice})
  BY <1>4, <1>5, <1>6, <1>9, <1>11 DEF FileLines, LostLines
<1>14. (LinesOf(b) \ {Notice}) \cap FileLines(g) = {}
  <2>1. \A x \in LinesOf(b) : x \in Nat
    BY <1>6
  <2>2. Lower(FileLines(g), LinesOf(b) \ {Notice})
    BY <1>3, <1>4, <1>13 DEF Lower
  <2>3. \A x \in Nat : ~(x < x)
    OBVIOUS
  <2> QED
    BY <2>1, <2>2, <2>3 DEF Lower
<1>15. FileLines(g) \cap LostLines(g) = {}
  BY <1>13, <1>14 DEF FileOK
<1> QED
  BY <1>5, <1>7, <1>9, <1>10, <1>12, <1>13, <1>15 DEF FileOK, FileMoves

LEMMA RollFileFacts ==
  ASSUME NEW f, FileOK(f), NEW t \in Nat, NEW out \in 0..Len(f.held)
  PROVE  FileMoves(f, RollFile(f, t, out))
<1>0. f \in FileRecord /\ NamesOK(f)
  BY DEF FileOK
<1>1. CASE ~(t > f.lastRoll)
  <2>1. RollFile(f, t, out) = f
    BY <1>1 DEF RollFile
  <2> QED
    BY <1>0, <2>1, SameText
<1>2. CASE t > f.lastRoll
  <2>1. PICK h : h = Flush(f, out) /\ FileMoves(f, h) /\ h.held = <<>>
    BY FlushFacts
  <2>2. h \in FileRecord /\ FileOK(h) /\ h.names = f.names
    <3>1. h.names = f.names
      BY <1>0, <2>1 DEF Flush, FileRecord
    <3> QED
      BY <2>1, <3>1 DEF FileMoves, FileOK
  <2>3. f.names \in Seq(Nat) /\ f.lastRoll \in Nat /\ Len(f.names) \in Nat /\ \A i \in 1..Len(f.names) : f.names[i] \in Nat
    BY <1>0, LenProperties, ElementOfSeq DEF FileRecord, LogLines
  <2>4. PICK ns \in LogLines : /\ ns = Append(f.names, t) /\ Len(ns) = Len(f.names) + 1 /\ ns[Len(f.names) + 1] = t
                               /\ \A i \in 1..Len(f.names) : ns[i] = f.names[i]
    <3>1. /\ Append(f.names, t) \in Seq(Nat) /\ Len(Append(f.names, t)) = Len(f.names) + 1
          /\ Append(f.names, t)[Len(f.names) + 1] = t /\ \A i \in 1..Len(f.names) : Append(f.names, t)[i] = f.names[i]
      BY <2>3, AppendProperties
    <3> QED
      BY <3>1 DEF LogLines
  <2>5. PICK p \in Int : p = (t \div RollPerSeconds) * RollPerSeconds
    <3>1. t \div RollPerSeconds \in Int /\ RollPerSeconds \in Int
      BY LogFileAssumption
    <3>2. \A a, b \in Int : a * b \in Int
      OBVIOUS
    <3> QED
      BY <3>1, <3>2
  <2>6. PICK g : g = RollFile(f, t, out)
    OBVIOUS
  <2>7. g = [h EXCEPT !.lastRoll = t, !.lastFlush = t, !.startOfPeriod = p, !.bytes = 0, !.names = ns]
    <3>1. g = [h EXCEPT !.lastRoll = t, !.lastFlush = t, !.startOfPeriod = (t \div RollPerSeconds) * RollPerSeconds,
                        !.bytes = 0, !.names = Append(@, t)]
      BY <1>2, <2>1, <2>6 DEF RollFile
    <3> QED
      BY <2>2, <2>4, <2>5, <3>1 DEF FileRecord
  <2>8. g \in FileRecord /\ g.disk = h.disk /\ g.held = h.held /\ g.lost = h.lost /\ g.names = ns /\ g.lastRoll = t
    BY <2>2, <2>4, <2>5, <2>7 DEF FileRecord
  <2>9. \A i \in 1..Len(f.names) : f.names[i] < t
    BY <1>0, <1>2, <2>3 DEF NamesOK
  <2>10. \A i, j \in 1..(Len(f.names) + 1) : i < j => i \in 1..Len(f.names) /\ (j \in 1..Len(f.names) \/ j = Len(f.names) + 1)
    <3>1. PICK m \in Nat : m = Len(f.names)
      BY <2>3
    <3>2. \A i, j \in 1..(m + 1) : i < j => i \in 1..m /\ (j \in 1..m \/ j = m + 1)
      OBVIOUS
    <3> QED
      BY <3>1, <3>2
  <2>11. \A i \in 1..(Len(f.names) + 1) : i \in 1..Len(f.names) \/ i = Len(f.names) + 1
    BY <2>3
  <2>12. \A i, j \in 1..Len(ns) : i < j => ns[i] < ns[j]
    BY <1>0, <2>4, <2>9, <2>10 DEF NamesOK
  <2>13. \A i \in 1..Len(ns) : ns[i] <= t
    BY <2>3, <2>4, <2>9, <2>11
  <2>14. NamesOK(g)
    BY <2>8, <2>12, <2>13 DEF NamesOK
  <2>15. FileMoves(h, g)
    BY <2>2, <2>8, <2>14, SameText
  <2> QED
    BY <2>1, <2>6, <2>15, FileMovesTrans
<1> QED
  BY <1>1, <1>2

LEMMA CheckFacts ==
  ASSUME NEW f, FileOK(f), NEW t \in Nat, NEW out \in 0..Len(f.held)
  PROVE  FileMoves(f, Check(f, t, out))
<1>0. f \in FileRecord /\ NamesOK(f)
  BY DEF FileOK
<1>1. PICK g : g = [f EXCEPT !.count = 0] /\ FileMoves(f, g) /\ FileOK(g) /\ g.held = f.held
  <2>1. /\ [f EXCEPT !.count = 0] \in FileRecord /\ [f EXCEPT !.count = 0].names = f.names
        /\ [f EXCEPT !.count = 0].lastRoll = f.lastRoll /\ [f EXCEPT !.count = 0].disk = f.disk
        /\ [f EXCEPT !.count = 0].held = f.held /\ [f EXCEPT !.count = 0].lost = f.lost
    BY <1>0 DEF FileRecord
  <2>2. NamesOK([f EXCEPT !.count = 0])
    BY <1>0, <2>1 DEF NamesOK
  <2>3. FileMoves(f, [f EXCEPT !.count = 0])
    BY <2>1, <2>2, SameText
  <2> QED
    BY <2>1, <2>3 DEF FileMoves
<1>2. PICK h : h = [g EXCEPT !.lastFlush = t] /\ FileMoves(g, h) /\ FileOK(h) /\ h.held = f.held
  <2>0. g \in FileRecord /\ NamesOK(g)
    BY <1>1 DEF FileOK
  <2>1. /\ [g EXCEPT !.lastFlush = t] \in FileRecord /\ [g EXCEPT !.lastFlush = t].names = g.names
        /\ [g EXCEPT !.lastFlush = t].lastRoll = g.lastRoll /\ [g EXCEPT !.lastFlush = t].disk = g.disk
        /\ [g EXCEPT !.lastFlush = t].held = g.held /\ [g EXCEPT !.lastFlush = t].lost = g.lost
    BY <2>0 DEF FileRecord
  <2>2. NamesOK([g EXCEPT !.lastFlush = t])
    BY <2>0, <2>1 DEF NamesOK
  <2>3. FileMoves(g, [g EXCEPT !.lastFlush = t])
    BY <1>1, <2>1, <2>2, SameText
  <2> QED
    BY <1>1, <2>1, <2>3 DEF FileMoves
<1>3. PICK k : k = [f EXCEPT !.count = @ + 1] /\ FileMoves(f, k)
  <2>0. f.count + 1 \in Nat
    BY <1>0 DEF FileRecord
  <2>1. /\ [f EXCEPT !.count = @ + 1] \in FileRecord /\ [f EXCEPT !.count = @ + 1].names = f.names
        /\ [f EXCEPT !.count = @ + 1].lastRoll = f.lastRoll /\ [f EXCEPT !.count = @ + 1].disk = f.disk
        /\ [f EXCEPT !.count = @ + 1].held = f.held /\ [f EXCEPT !.count = @ + 1].lost = f.lost
    BY <1>0, <2>0 DEF FileRecord
  <2>2. NamesOK([f EXCEPT !.count = @ + 1])
    BY <1>0, <2>1 DEF NamesOK
  <2>3. FileMoves(f, [f EXCEPT !.count = @ + 1])
    BY <2>1, <2>2, SameText
  <2> QED
    BY <2>3
<1>4. Check(f, t, out) \in {k, RollFile(g, t, out), Flush(h, out), g}
  BY <1>1, <1>2, <1>3 DEF Check
<1>5. FileMoves(f, RollFile(g, t, out))
  <2>1. out \in 0..Len(g.held)
    BY <1>1
  <2>2. FileMoves(g, RollFile(g, t, out))
    BY <1>1, <2>1, RollFileFacts
  <2> QED
    BY <1>1, <2>2, FileMovesTrans
<1>6. FileMoves(f, Flush(h, out))
  <2>1. out \in 0..Len(h.held)
    BY <1>2
  <2>2. FileMoves(h, Flush(h, out))
    BY <1>2, <2>1, FlushFacts
  <2>3. FileMoves(g, Flush(h, out))
    BY <1>2, <2>2, FileMovesTrans
  <2> QED
    BY <1>1, <2>3, FileMovesTrans
<1> QED
  BY <1>1, <1>3, <1>4, <1>5, <1>6

LEMMA TakenFacts == ASSUME NEW n \in Nat PROVE Taken(n) \subseteq 0..n
BY DEF Taken

(* LogFile::append(): the lines come behind what was logged, g, and then   *)
(* they move as the disk takes them.                                       *)
LEMMA AppendsFacts ==
  ASSUME FileOK(output), now \in Nat, NEW lines \in LogLines, Ascending(lines), Appends(lines),
         Lower(FileLines(output), LinesOf(lines) \ {Notice}), (LinesOf(lines) \ {Notice}) \cap LostLines(output) = {}
  PROVE  \E g : /\ FileLines(g) = FileLines(output) \cup (LinesOf(lines) \ {Notice})
                /\ LostLines(g) = LostLines(output) /\ FileMoves(g, output')
<1>1. output \in FileRecord /\ NamesOK(output) /\ Ascending(output.disk \o output.held)
  BY DEF FileOK
<1>2. output.disk \in Seq(Nat) /\ output.held \in Seq(Nat) /\ lines \in Seq(Nat) /\ output.bytes \in Nat
  BY <1>1 DEF FileRecord, LogLines
<1>3. Len(output.held) \in Nat /\ Len(lines) \in Nat
  BY <1>2, LenProperties
<1>4. PICK u \in LogLines : /\ u = output.held \o lines /\ output.disk \o u = (output.disk \o output.held) \o lines
                            /\ Len(u) = Len(output.held) + Len(lines)
  <2>1. output.held \o lines \in Seq(Nat) /\ Len(output.held \o lines) = Len(output.held) + Len(lines)
    BY <1>2, ConcatProperties
  <2>2. output.disk \o (output.held \o lines) = (output.disk \o output.held) \o lines
    <3>1. PICK S : S = Nat
      OBVIOUS
    <3>2. PICK x \in Seq(S), y \in Seq(S), z \in Seq(S) : x = output.disk /\ y = output.held /\ z = lines
      BY <1>2, <3>1
    <3>3. (x \o y) \o z = x \o (y \o z)
      BY ConcatAssociative
    <3> QED
      BY <3>2, <3>3
  <2> QED
    BY <2>1, <2>2 DEF LogLines
<1>5. PICK t \in LogLines : t = output.disk \o output.held
  BY <1>2, ConcatProperties DEF LogLines
<1>6. Ascending(t \o lines) /\ LinesOf(t \o lines) = LinesOf(t) \cup LinesOf(lines)
  <2>1. Lower(LinesOf(t) \ {Notice}, LinesOf(lines) \ {Notice})
    BY <1>5 DEF FileLines
  <2>2. Ascending(t)
    BY <1>1, <1>5
  <2>3. Ascending(t \o lines)
    BY <2>1, <2>2, AscendingConcat
  <2>4. PICK x \in Seq(Nat), y \in Seq(Nat) : x = t /\ y = lines
    BY DEF LogLines
  <2>5. LinesOf(x \o y) = LinesOf(x) \cup LinesOf(y)
    BY LinesOfConcat
  <2> QED
    BY <2>3, <2>4, <2>5
<1>7. PICK g : g = [output EXCEPT !.held = u]
  OBVIOUS
<1>8. /\ g \in FileRecord /\ g.held = u /\ g.disk = output.disk /\ g.lost = output.lost /\ g.names = output.names
      /\ g.lastRoll = output.lastRoll /\ g.bytes = output.bytes
  BY <1>1, <1>7 DEF FileRecord
<1>9. FileLines(g) = FileLines(output) \cup (LinesOf(lines) \ {Notice}) /\ LostLines(g) = LostLines(output)
  BY <1>4, <1>5, <1>6, <1>8 DEF FileLines, LostLines
<1>10. FileOK(g)
  <2>1. NamesOK(g)
    BY <1>1, <1>8 DEF NamesOK
  <2>2. Ascending(g.disk \o g.held)
    BY <1>4, <1>5, <1>6, <1>8
  <2>3. FileLines(g) \cap LostLines(g) = {}
    BY <1>9 DEF FileOK
  <2> QED
    BY <1>8, <2>1, <2>2, <2>3 DEF FileOK
<1>11. PICK through \in 0..Len(u) :
         \E out \in Taken(Len(Write(output, lines, through).held)) : output' = AfterWrite(Write(output, lines, through), now, out)
  <2>1. Len(output.held) + Len(lines) \in Nat
    BY <1>3
  <2> QED
    BY <1>4, <2>1, TakenFacts DEF Appends
<1>12. PICK w : w = Write(output, lines, through)
  OBVIOUS
<1>13. w = IF through = Len(g.held) THEN [g EXCEPT !.bytes = @ + Len(lines)] ELSE Flush(g, through)
  <2>1. g = [output EXCEPT !.held = @ \o lines]
    BY <1>1, <1>4, <1>7 DEF FileRecord
  <2> QED
    BY <1>12, <2>1 DEF Write
<1>14. FileMoves(g, w)
  <2>1. CASE through = Len(g.held)
    <3>1. PICK n \in Nat : n = g.bytes + Len(lines)
      BY <1>2, <1>3, <1>8
    <3>2. w = [g EXCEPT !.bytes = n]
      BY <1>8, <1>13, <2>1, <3>1 DEF FileRecord
    <3>3. /\ w \in FileRecord /\ w.disk = g.disk /\ w.held = g.held /\ w.lost = g.lost /\ w.names = g.names
          /\ w.lastRoll = g.lastRoll
      BY <1>8, <3>2 DEF FileRecord
    <3>4. NamesOK(w)
      BY <1>10, <3>3 DEF FileOK, NamesOK
    <3> QED
      BY <1>10, <3>3, <3>4, SameText
  <2>2. CASE through # Len(g.held)
    <3>1. through \in 0..Len(g.held) /\ w = Flush(g, through)
      BY <1>8, <1>13, <2>2
    <3> QED
      BY <1>10, <3>1, FlushFacts
  <2> QED
    BY <2>1, <2>2
<1>15. FileOK(w)
  BY <1>14 DEF FileMoves
<1>16. PICK out \in 0..Len(w.held) : output' = AfterWrite(w, now, out)
  <2>1. Len(w.held) \in Nat
    <3>1. w.held \in Seq(Nat)
      BY <1>15 DEF FileOK, FileRecord, LogLines
    <3> QED
      BY <3>1, LenProperties
  <2> QED
    BY <1>11, <1>12, <2>1, TakenFacts
<1>17. output' \in {RollFile(w, now, out), Check(w, now, out)}
  BY <1>16 DEF AfterWrite
<1>18. FileMoves(w, RollFile(w, now, out)) /\ FileMoves(w, Check(w, now, out))
  BY <1>15, RollFileFacts, CheckFacts
<1>19. FileMoves(g, output')
  <2>1. FileMoves(w, output')
    BY <1>17, <1>18
  <2> QED
    BY <1>14, <2>1, FileMovesTrans
<1> QED
  BY <1>9, <1>19

LEMMA FlushesFacts == ASSUME FileOK(output), Flushes PROVE FileMoves(output, output') /\ output'.held = <<>>
<1>1. output.held \in Seq(Nat)
  BY DEF FileOK, FileRecord, LogLines
<1>2. Len(output.held) \in Nat
  BY <1>1, LenProperties
<1>3. PICK out \in 0..Len(output.held) : output' = Flush(output, out)
  BY <1>2, TakenFacts DEF Flushes
<1> QED
  BY <1>3, FlushFacts

(* A line is appended to the current buffer, or to the one that follows. *)
LEMMA PlacedAppend ==
  ASSUME NEW F, NEW T, NEW B, NEW C, NEW G, NEW n \in Nat, Placed(F, T, B, C, G, n)
  PROVE  /\ Placed(F, T, B, C \cup {n + 1}, G, n + 1)
         /\ Placed(F, T, B \cup C, {n + 1}, G, n + 1)
         /\ Placed(F, T, B \cup C, {}, G \cup {n + 1}, n + 1)
         /\ Lower(C, {n + 1})
<1>1. \A x \in F \cup T \cup B \cup C \cup G : x \in 1..n
  BY DEF Placed
<1>2. \A x \in F \cup T \cup B \cup C \cup G : x < n + 1 /\ x # n + 1
  BY <1>1
<1>3. 1..(n + 1) = (1..n) \cup {n + 1}
  OBVIOUS
<1>4. Lower(F, {n + 1}) /\ Lower(T, {n + 1}) /\ Lower(B, {n + 1}) /\ Lower(C, {n + 1})
  BY <1>2 DEF Lower
<1>5. Placed(F, T, B, C \cup {n + 1}, G, n + 1)
  <2>1. Lower(F, C \cup {n + 1}) /\ Lower(T, C \cup {n + 1}) /\ Lower(B, C \cup {n + 1})
    BY <1>4 DEF Placed, Lower
  <2>2. F \cup T \cup B \cup (C \cup {n + 1}) \cup G = 1..(n + 1)
    BY <1>3 DEF Placed
  <2> QED
    BY <1>2, <2>1, <2>2 DEF Placed
<1>6. Lower(F, B \cup C) /\ Lower(T, B \cup C) /\ Lower(B \cup C, {n + 1}) /\ Lower(F, {}) /\ Lower(T, {}) /\ Lower(B \cup C, {})
  BY <1>4 DEF Placed, Lower
<1>7. Placed(F, T, B \cup C, {n + 1}, G, n + 1)
  <2>1. F \cup T \cup (B \cup C) \cup {n + 1} \cup G = 1..(n + 1)
    BY <1>3 DEF Placed
  <2> QED
    BY <1>2, <1>4, <1>6, <2>1 DEF Placed
<1>8. Placed(F, T, B \cup C, {}, G \cup {n + 1}, n + 1)
  <2>1. F \cup T \cup (B \cup C) \cup {} \cup (G \cup {n + 1}) = 1..(n + 1)
    BY <1>3 DEF Placed
  <2> QED
    BY <1>2, <1>6, <2>1 DEF Placed
<1> QED
  BY <1>4, <1>5, <1>7, <1>8

(* The buffers change hands; one is written; they are dropped; the disk    *)
(* refuses what was in the file.                                           *)
LEMMA PlacedSwap ==
  ASSUME NEW F, NEW B, NEW C, NEW G, NEW n, Placed(F, {}, B, C, G, n)
  PROVE  Placed(F, B \cup C, {}, {}, G, n)
BY DEF Placed, Lower

LEMMA PlacedWrite ==
  ASSUME NEW F, NEW A, NEW T, NEW B, NEW C, NEW G, NEW n \in Nat, Placed(F, A \cup T, B, C, G, n), Lower(A, T)
  PROVE  Placed(F \cup A, T, B, C, G, n) /\ Lower(F, A) /\ A \cap G = {}
<1>1. /\ Lower(F \cup A, T) /\ Lower(F \cup A, B) /\ Lower(F \cup A, C) /\ Lower(T, B) /\ Lower(T, C) /\ Lower(B, C)
      /\ Lower(F, A)
  BY DEF Placed, Lower
<1>2. (F \cup A) \cup T \cup B \cup C \cup G = 1..n /\ ((F \cup A) \cup T \cup B \cup C) \cap G = {}
  BY DEF Placed
<1> QED
  BY <1>1, <1>2 DEF Placed

LEMMA PlacedDrop ==
  ASSUME NEW F, NEW S, NEW D, NEW B, NEW C, NEW G, NEW n \in Nat, Placed(F, S \cup D, B, C, G, n), Lower(S, D)
  PROVE  Placed(F, S, B, C, G \cup D, n)
<1>1. \A x \in S \cup D \cup B \cup C : x \in 1..n
  BY DEF Placed
<1>2. Lower(F, D) /\ Lower(S, D) /\ Lower(D, B) /\ Lower(D, C)
  BY DEF Placed, Lower
<1>3. \A x \in D : ~(x < x)
  BY <1>1
<1>4. D \cap F = {} /\ D \cap S = {} /\ D \cap B = {} /\ D \cap C = {}
  BY <1>2, <1>3 DEF Lower
<1>5. Lower(F, S) /\ Lower(F, B) /\ Lower(F, C) /\ Lower(S, B) /\ Lower(S, C) /\ Lower(B, C)
  BY DEF Placed, Lower
<1>6. F \cup S \cup B \cup C \cup (G \cup D) = 1..n /\ (F \cup S \cup B \cup C) \cap (G \cup D) = {}
  BY <1>4 DEF Placed
<1> QED
  BY <1>5, <1>6 DEF Placed

LEMMA PlacedMove ==
  ASSUME NEW F, NEW T, NEW B, NEW C, NEW G, NEW L, NEW n \in Nat, Placed(F, T, B, C, G \cup L, n),
         NEW E, NEW M, E \cup M = F \cup L, E \subseteq F, E \cap M = {}
  PROVE  Placed(E, T, B, C, G \cup M, n)
<1>1. \A x \in F : x \in 1..n /\ ~(x < x)
  <2>1. \A x \in F : x \in 1..n
    BY DEF Placed
  <2> QED
    BY <2>1
<1>2. F \cap T = {} /\ F \cap B = {} /\ F \cap C = {}
  BY <1>1 DEF Placed, Lower
<1>3. Lower(E, T) /\ Lower(E, B) /\ Lower(E, C)
  BY DEF Placed, Lower
<1>4. E \cup T \cup B \cup C \cup (G \cup M) = 1..n
  BY DEF Placed
<1>5. (E \cup T \cup B \cup C) \cap (G \cup M) = {}
  BY <1>2 DEF Placed
<1> QED
  BY <1>3, <1>4, <1>5 DEF Placed

LEMMA GiveUpAdds ==
  ASSUME LogTypeOK, NEW why \in Reasons, NEW lines \in SUBSET Nat, GiveUp(why, lines)
  PROVE  Dropped' = Dropped \cup lines /\ gone' \in [Reasons -> SUBSET Nat]
<1>1. /\ gone' \in [Reasons -> SUBSET Nat] /\ gone'[why] = gone[why] \cup lines
      /\ \A r \in Reasons : r # why => gone'[r] = gone[r]
  BY DEF GiveUp, LogTypeOK
<1>2. \A x : x \in Dropped' <=> \E r \in Reasons : x \in gone'[r]
  BY DEF Dropped
<1>3. \A x : x \in Dropped <=> \E r \in Reasons : x \in gone[r]
  BY DEF Dropped
<1> QED
  BY <1>1, <1>2, <1>3

LEMMA LogInitInv == LogInit => LogInv
<1> SUFFICES ASSUME LogInit PROVE LogInv
  OBVIOUS
<1>1. <<>> \in LogLines /\ <<>> \in Seq(LogLines) /\ Len(<<>>) = 0 /\ <<>> \o <<>> = <<>>
  BY EmptySeq, ConcatEmptySeq DEF LogLines
<1>2. /\ output \in FileRecord /\ output.held = <<>> /\ output.disk = <<>> /\ output.names = <<>> /\ output.lost = {}
  BY <1>1 DEF LogInit, NoFile, FileRecord
<1>3. LogTypeOK /\ SparesOK
  BY <1>1, <1>2, AsyncAssumption DEF LogInit, LogTypeOK, SparesOK
<1>4. FilesOK
  BY <1>1, <1>2 DEF FilesOK
<1>5. FileLines(output) = {} /\ ToWriteLines = {} /\ BufferedLines = {} /\ CurrentLines = {} /\ Ascending(Logged)
  BY <1>1, <1>2, NoLines DEF LogInit, FileLines, Logged, ToWriteLines, BufferedLines, CurrentLines
<1>6. Dropped \cup LostLines(output) = {} /\ appended = 0
  BY <1>2 DEF LogInit, Dropped, LostLines
<1>7. Placed({}, {}, {}, {}, {}, 0)
  BY DEF Placed, Lower
<1> QED
  BY <1>3, <1>4, <1>5, <1>6, <1>7, NoLines DEF LogInv, LinesOK, LogInit

LEMMA OutputOK == LogInv => FileOK(output)
<1> SUFFICES ASSUME LogInv PROVE FileOK(output)
  OBVIOUS
<1>1. output \in FileRecord /\ NamesOK(output) /\ Ascending(output.disk \o output.held)
  BY DEF LogInv, LogTypeOK, FilesOK, NamesOK, LinesOK, Logged
<1>2. FileLines(output) \cap LostLines(output) = {}
  BY DEF LogInv, LinesOK, Placed
<1> QED
  BY <1>1, <1>2 DEF FileOK

(* Steps that move no line but from the file to the lost ones. *)
LEMMA LinesStay ==
  ASSUME LogInv, FileMoves(output, output'), UNCHANGED <<toWrite, written, buffers, current, gone, appended>>
  PROVE  LinesOK'
<1>1. ToWriteLines' = ToWriteLines /\ BufferedLines' = BufferedLines /\ CurrentLines' = CurrentLines /\ Dropped' = Dropped
  BY DEF ToWriteLines, BufferedLines, CurrentLines, Dropped
<1>2. PICK E, M : E = FileLines(output') /\ M = LostLines(output')
  OBVIOUS
<1>3. /\ E \cup M = FileLines(output) \cup LostLines(output) /\ E \subseteq FileLines(output) /\ E \cap M = {}
      /\ Ascending(Logged')
  BY <1>2 DEF FileMoves, FileOK, Logged
<1>4. appended \in Nat
  BY DEF LogInv, LogTypeOK
<1>5. Placed(E, ToWriteLines, BufferedLines, CurrentLines, Dropped \cup M, appended)
  BY <1>3, <1>4, PlacedMove DEF LogInv, LinesOK
<1> QED
  BY <1>1, <1>2, <1>3, <1>5 DEF LogInv, LinesOK

LEMMA SameOutput == ASSUME LogInv, output' = output PROVE FileMoves(output, output')
<1>1. FileOK(output)
  BY OutputOK
<1>2. output \in FileRecord /\ NamesOK(output)
  BY <1>1 DEF FileOK
<1> QED
  BY <1>1, <1>2, SameText

LEMMA AppendFitsKeeps == ASSUME LogInv, AppendFits PROVE LogInv'
<1>1. /\ current' = Append(current, appended + 1) /\ appended' = appended + 1
      /\ UNCHANGED <<lpc, apc, logging, nextBuf, buffers, new1, new2, toWrite, written, output, now, gone>>
  BY DEF AppendFits, backVars
<1>2. current \in Seq(Nat) /\ appended \in Nat /\ appended + 1 \in Nat
  BY DEF LogInv, LogTypeOK, LogLines
<1>3. current' \in LogLines
  BY <1>1, <1>2, AppendProperties DEF LogLines
<1>4. LogTypeOK' /\ SparesOK' /\ FilesOK'
  BY <1>1, <1>2, <1>3 DEF LogInv, LogTypeOK, SparesOK, FilesOK
<1>5. Logged' = Logged /\ ToWriteLines' = ToWriteLines /\ BufferedLines' = BufferedLines /\ Dropped' = Dropped
  BY <1>1 DEF Logged, ToWriteLines, BufferedLines, Dropped
<1>6. CurrentLines' = CurrentLines \cup {appended + 1}
  BY <1>1, <1>2, LinesOfAppend DEF CurrentLines
<1>7. /\ Placed(FileLines(output), ToWriteLines, BufferedLines, CurrentLines \cup {appended + 1}, Dropped \cup LostLines(output), appended + 1)
      /\ Lower(CurrentLines, {appended + 1})
  BY <1>2, PlacedAppend DEF LogInv, LinesOK
<1>8. Ascending(current')
  BY <1>1, <1>2, <1>7, AscendingAppend DEF LogInv, LinesOK, CurrentLines, LogLines
<1>9. LinesOK'
  BY <1>1, <1>5, <1>6, <1>7, <1>8 DEF LogInv, LinesOK
<1> QED
  BY <1>4, <1>9 DEF LogInv

LEMMA AppendSwitchesKeeps == ASSUME LogInv, AppendSwitches PROVE LogInv'
<1>1. /\ buffers' = Append(buffers, current) /\ current' = Fill(<<>>, appended + 1) /\ nextBuf' = NoBuffer
      /\ appended' = appended + 1 /\ lpc' = Woken /\ GiveUp("long", {appended + 1} \ LinesOf(current'))
      /\ UNCHANGED <<apc, logging, new1, new2, toWrite, written, output, now>>
  BY DEF AppendSwitches, backVars
<1>2. current \in LogLines /\ buffers \in Seq(LogLines) /\ appended \in Nat /\ appended + 1 \in Nat
  BY DEF LogInv, LogTypeOK
<1>3. /\ Piled(buffers) /\ Ascending(current) /\ Lower(BufferedLines, CurrentLines)
      /\ Placed(FileLines(output), ToWriteLines, BufferedLines, CurrentLines, Dropped \cup LostLines(output), appended)
  BY DEF LogInv, LinesOK, Placed
<1>4. buffers' \in Seq(LogLines) /\ Piled(buffers') /\ BufferedLines' = BufferedLines \cup CurrentLines
  BY <1>1, <1>2, <1>3, StagedAppend DEF BufferedLines, CurrentLines
<1>5. buffers' # <<>>
  BY <1>1, <1>2, AppendProperties
<1>6. \/ current' \in LogLines /\ Ascending(current') /\ CurrentLines' = {appended + 1}
      \/ current' \in LogLines /\ Ascending(current') /\ CurrentLines' = {}
  <2>1. <<>> \in LogLines /\ <<>> \in Seq(Nat)
    BY EmptySeq DEF LogLines
  <2>2. LinesOf(<<>>) = {} /\ Ascending(<<>>)
    BY NoLines
  <2>3. CASE current' = <<>>
    BY <2>1, <2>2, <2>3 DEF CurrentLines
  <2>4. CASE current' = Append(<<>>, appended + 1)
    <3>1. current' \in LogLines
      BY <1>2, <2>1, <2>4, AppendProperties DEF LogLines
    <3>2. LinesOf(current') = {appended + 1}
      <4>1. LinesOf(Append(<<>>, appended + 1)) = LinesOf(<<>>) \cup {appended + 1}
        <5>1. PICK e \in Seq(Nat), n \in Nat : e = <<>> /\ n = appended + 1
          BY <1>2, <2>1
        <5>2. LinesOf(Append(e, n)) = LinesOf(e) \cup {n}
          BY LinesOfAppend
        <5> QED
          BY <5>1, <5>2
      <4> QED
        BY <2>2, <2>4, <4>1
    <3>3. Ascending(current')
      <4>1. Lower(LinesOf(<<>>), {appended + 1})
        BY <2>2 DEF Lower
      <4> QED
        BY <1>2, <2>1, <2>2, <2>4, <4>1, AscendingAppend
    <3> QED
      BY <3>1, <3>2, <3>3 DEF CurrentLines
  <2> QED
    BY <1>1, <2>3, <2>4 DEF Fill
<1>7. PICK lines \in SUBSET Nat : lines = {appended + 1} \ CurrentLines' /\ GiveUp("long", lines)
  BY <1>1, <1>2 DEF CurrentLines
<1>8. Dropped' = Dropped \cup lines /\ gone' \in [Reasons -> SUBSET Nat]
  BY <1>7, GiveUpAdds DEF LogInv, Reasons
<1>9. LogTypeOK'
  BY <1>1, <1>2, <1>4, <1>6, <1>8 DEF LogInv, LogTypeOK, Woken
<1>10. SparesOK' /\ FilesOK'
  BY <1>1, <1>5 DEF LogInv, SparesOK, FilesOK, Woken
<1>11. Logged' = Logged /\ ToWriteLines' = ToWriteLines
  BY <1>1 DEF Logged, ToWriteLines
<1>12. /\ Placed(FileLines(output), ToWriteLines, BufferedLines \cup CurrentLines, {appended + 1}, Dropped \cup LostLines(output), appended + 1)
       /\ Placed(FileLines(output), ToWriteLines, BufferedLines \cup CurrentLines, {}, (Dropped \cup LostLines(output)) \cup {appended + 1}, appended + 1)
  BY <1>2, <1>3, PlacedAppend
<1>13. Placed(FileLines(output), ToWriteLines, BufferedLines', CurrentLines', Dropped' \cup LostLines(output), appended + 1)
  <2>1. CASE CurrentLines' = {appended + 1}
    <3>1. Dropped' = Dropped
      BY <1>7, <1>8, <2>1
    <3> QED
      BY <1>4, <1>12, <2>1, <3>1
  <2>2. CASE CurrentLines' = {}
    <3>1. Dropped' \cup LostLines(output) = (Dropped \cup LostLines(output)) \cup {appended + 1}
      BY <1>7, <1>8, <2>2
    <3> QED
      BY <1>4, <1>12, <2>2, <3>1
  <2> QED
    BY <1>6, <2>1, <2>2
<1>14. LinesOK'
  BY <1>1, <1>4, <1>6, <1>11, <1>13 DEF LogInv, LinesOK
<1> QED
  BY <1>9, <1>10, <1>14 DEF LogInv

LEMMA StartLogKeeps == ASSUME LogInv, StartLog PROVE LogInv'
<1>1. /\ apc = "new" /\ apc' = "up" /\ lpc' = "top" /\ output' = RollFile(output, now, 0) /\ new1' = <<>> /\ new2' = <<>>
      /\ UNCHANGED <<current, nextBuf, buffers, appended, toWrite, written, now, gone>>
  BY DEF StartLog, frontVars
<1>2. lpc = "new" /\ toWrite = <<>> /\ output.held = <<>> /\ now \in Nat /\ FileOK(output)
  BY <1>1, OutputOK DEF LogInv, LogTypeOK, SparesOK, FilesOK
<1>3. FileMoves(output, output')
  <2>1. 0 \in 0..Len(output.held)
    BY <1>2, EmptySeq
  <2> QED
    BY <1>1, <1>2, <2>1, RollFileFacts
<1>4. output' \in FileRecord /\ NamesOK(output') /\ output'.held = <<>>
  BY <1>2, <1>3 DEF FileMoves, FileOK
<1>5. LogTypeOK' /\ SparesOK' /\ FilesOK'
  BY <1>1, <1>2, <1>4 DEF LogInv, LogTypeOK, SparesOK, FilesOK, NamesOK
<1> QED
  BY <1>1, <1>3, <1>5, LinesStay DEF LogInv

LEMMA StopLogKeeps == ASSUME LogInv, StopLog \/ LogJoined \/ LoggerSleeps \/ LoggerTimeout \/ Tick PROVE LogInv'
<1>1. UNCHANGED <<current, nextBuf, buffers, appended, new1, new2, toWrite, written, output, gone>>
  BY DEF StopLog, LogJoined, LoggerSleeps, LoggerTimeout, Tick, frontVars, backVars
<1>2. /\ apc' \in {"new", "up", "join", "stopped"} /\ (apc' = "new" => apc = "new")
      /\ now' \in Nat /\ lpc' \in {"new", "top", "lock", "sleep", "relock", "write", "ended"}
      /\ (lpc' = lpc \/ (lpc \in {"top", "lock", "sleep", "relock"} /\ lpc' \in {"top", "lock", "sleep", "relock"}))
  BY DEF StopLog, LogJoined, LoggerSleeps, LoggerTimeout, Tick, LogInv, LogTypeOK, Woken
<1>3. FileMoves(output, output')
  BY <1>1, SameOutput
<1>4. LogTypeOK' /\ SparesOK' /\ FilesOK'
  BY <1>1, <1>2 DEF LogInv, LogTypeOK, SparesOK, FilesOK
<1> QED
  BY <1>1, <1>3, <1>4, LinesStay DEF LogInv

LEMMA LoopTestKeeps == ASSUME LogInv, LoopTest PROVE LogInv'
<1>1. /\ lpc = "top" /\ lpc' \in {"lock", "ended"} /\ (output' = output \/ Flushes)
      /\ UNCHANGED <<apc, logging, current, nextBuf, buffers, appended, new1, new2, toWrite, written, now, gone>>
  BY DEF LoopTest, frontVars
<1>2. FileOK(output) /\ output.held = <<>>
  BY <1>1, OutputOK DEF LogInv, FilesOK
<1>3. FileMoves(output, output')
  BY <1>1, <1>2, SameOutput, FlushesFacts
<1>4. output' \in FileRecord /\ NamesOK(output') /\ output'.held = <<>>
  BY <1>2, <1>3 DEF FileMoves, FileOK
<1>5. LogTypeOK' /\ SparesOK' /\ FilesOK'
  BY <1>1, <1>4 DEF LogInv, LogTypeOK, SparesOK, FilesOK, NamesOK
<1> QED
  BY <1>1, <1>3, <1>5, LinesStay DEF LogInv

LEMMA SwapBuffersKeeps == ASSUME LogInv, SwapBuffers PROVE LogInv'
<1>1. /\ lpc \in {"lock", "relock"} /\ toWrite' = Append(buffers, current) /\ buffers' = <<>> /\ current' = new1 /\ new1' = NoBuffer
      /\ nextBuf' = IF nextBuf = NoBuffer THEN new2 ELSE nextBuf
      /\ new2' = IF nextBuf = NoBuffer THEN NoBuffer ELSE new2
      /\ written' = 0 /\ lpc' = "write" /\ UNCHANGED <<apc, logging, output, appended, now, gone>>
  BY DEF SwapBuffers
<1>2. /\ new1 = <<>> /\ new2 = <<>> /\ toWrite = <<>> /\ nextBuf \in {<<>>, NoBuffer} /\ (nextBuf = NoBuffer => buffers # <<>>)
      /\ apc # "new"
  BY <1>1 DEF LogInv, SparesOK
<1>3. current \in LogLines /\ buffers \in Seq(LogLines) /\ appended \in Nat /\ written \in Nat
  BY DEF LogInv, LogTypeOK
<1>4. /\ Piled(buffers) /\ Ascending(current) /\ Lower(BufferedLines, CurrentLines)
      /\ Placed(FileLines(output), ToWriteLines, BufferedLines, CurrentLines, Dropped \cup LostLines(output), appended)
  BY DEF LogInv, LinesOK, Placed
<1>5. toWrite' \in Seq(LogLines) /\ Piled(toWrite') /\ Staged(toWrite', 1) = BufferedLines \cup CurrentLines
  BY <1>1, <1>3, <1>4, StagedAppend DEF BufferedLines, CurrentLines
<1>6. ToWriteLines' = BufferedLines \cup CurrentLines
  BY <1>1, <1>5 DEF ToWriteLines
<1>7. Len(buffers) \in Nat /\ Len(toWrite') = Len(buffers) + 1 /\ (buffers # <<>> => Len(buffers) >= 1)
  <2>1. Len(buffers) \in Nat /\ Len(toWrite') = Len(buffers) + 1
    BY <1>1, <1>3, AppendProperties, LenProperties
  <2>2. buffers # <<>> => Len(buffers) # 0
    BY <1>3, EmptySeq
  <2> QED
    BY <2>1, <2>2
<1>8. <<>> \in LogLines /\ <<>> \in Seq(LogLines)
  BY EmptySeq DEF LogLines
<1>9. LogTypeOK'
  BY <1>1, <1>2, <1>5, <1>7, <1>8 DEF LogInv, LogTypeOK
<1>10. SparesOK'
  BY <1>1, <1>2, <1>7, AsyncAssumption DEF SparesOK
<1>11. FilesOK'
  BY <1>1 DEF LogInv, FilesOK
<1>12. BufferedLines' = {} /\ CurrentLines' = {} /\ Piled(buffers') /\ Ascending(current')
  BY <1>1, <1>2, NoLines DEF BufferedLines, CurrentLines
<1>13. ToWriteLines = {}
  BY <1>2, <1>3, NoLines DEF ToWriteLines
<1>14. Placed(FileLines(output), BufferedLines \cup CurrentLines, {}, {}, Dropped \cup LostLines(output), appended)
  BY <1>4, <1>13, PlacedSwap
<1>15. Logged' = Logged /\ Dropped' = Dropped
  BY <1>1 DEF Logged, Dropped
<1>16. LinesOK'
  BY <1>1, <1>5, <1>6, <1>12, <1>14, <1>15 DEF LogInv, LinesOK
<1> QED
  BY <1>9, <1>10, <1>11, <1>16 DEF LogInv

LEMMA DropBuffersKeeps == ASSUME LogInv, DropBuffers PROVE LogInv'
<1>1. /\ lpc = "write" /\ written = 0 /\ Len(toWrite) > DropAbove /\ Appends(<<Notice>>)
      /\ toWrite' = SubSeq(toWrite, 1, 2) /\ GiveUp("dropped", UNION {LinesOf(toWrite[i]) : i \in 3..Len(toWrite)})
      /\ UNCHANGED <<lpc, apc, logging, current, nextBuf, buffers, appended, new1, new2, written, now>>
  BY DEF DropBuffers, frontVars
<1>2. /\ toWrite \in Seq(LogLines) /\ FileOK(output) /\ now \in Nat /\ appended \in Nat /\ Piled(toWrite)
      /\ Placed(FileLines(output), ToWriteLines, BufferedLines, CurrentLines, Dropped \cup LostLines(output), appended)
  BY OutputOK DEF LogInv, LogTypeOK, LinesOK
<1>3. Len(toWrite) > 2
  <2>1. Len(toWrite) \in Nat
    BY <1>2, LenProperties
  <2> QED
    BY <1>1, <2>1, AsyncAssumption
<1>4. PICK D : D = UNION {LinesOf(toWrite[i]) : i \in 3..Len(toWrite)}
  OBVIOUS
<1>5. /\ toWrite' \in Seq(LogLines) /\ Len(toWrite') = 2 /\ Piled(toWrite')
      /\ Staged(toWrite, 1) = Staged(toWrite', 1) \cup D /\ Lower(Staged(toWrite', 1), D)
  BY <1>1, <1>2, <1>3, <1>4, StagedDrop
<1>6. ToWriteLines = Staged(toWrite, 1) /\ ToWriteLines' = Staged(toWrite', 1)
  BY <1>1 DEF ToWriteLines
<1>7. PICK S : S = ToWriteLines'
  OBVIOUS
<1>8. ToWriteLines = S \cup D /\ Lower(S, D)
  BY <1>5, <1>6, <1>7
<1>9. Placed(FileLines(output), S, BufferedLines, CurrentLines, (Dropped \cup D) \cup LostLines(output), appended)
  <2>1. Placed(FileLines(output), S, BufferedLines, CurrentLines, (Dropped \cup LostLines(output)) \cup D, appended)
    BY <1>2, <1>8, PlacedDrop
  <2>2. (Dropped \cup LostLines(output)) \cup D = (Dropped \cup D) \cup LostLines(output)
    OBVIOUS
  <2> QED
    BY <2>1, <2>2
<1>10. D \in SUBSET Nat
  <2>1. \A x \in D : x \in 1..appended
    BY <1>2, <1>8 DEF Placed
  <2> QED
    BY <1>2, <2>1
<1>11. Dropped' = Dropped \cup D /\ gone' \in [Reasons -> SUBSET Nat]
  BY <1>1, <1>4, <1>10, GiveUpAdds DEF LogInv, Reasons
<1>12. BufferedLines' = BufferedLines /\ CurrentLines' = CurrentLines
  BY <1>1 DEF BufferedLines, CurrentLines
<1>13. PICK note \in LogLines : note = <<Notice>> /\ LinesOf(note) = {Notice} /\ Ascending(note)
  <2>1. Notice \in Nat
    BY DEF Notice
  <2>2. <<Notice>> \in Seq(Nat) /\ Len(<<Notice>>) = 1 /\ <<Notice>>[1] = Notice
    BY <2>1
  <2>3. PICK note \in LogLines : note = <<Notice>> /\ Len(note) = 1 /\ note[1] = Notice
    BY <2>2 DEF LogLines
  <2>4. LinesOf(note) = {Notice} /\ Ascending(note)
    BY <2>3 DEF LinesOf, Ascending
  <2> QED
    BY <2>3, <2>4
<1>14. PICK g : FileLines(g) = FileLines(output) /\ LostLines(g) = LostLines(output) /\ FileMoves(g, output')
  <2>1. LinesOf(note) \ {Notice} = {}
    BY <1>13
  <2>2. Lower(FileLines(output), LinesOf(note) \ {Notice}) /\ (LinesOf(note) \ {Notice}) \cap LostLines(output) = {}
    BY <2>1 DEF Lower
  <2>3. Appends(note)
    BY <1>1, <1>13
  <2>4. \E g : /\ FileLines(g) = FileLines(output) \cup (LinesOf(note) \ {Notice})
              /\ LostLines(g) = LostLines(output) /\ FileMoves(g, output')
    BY <1>2, <1>13, <2>2, <2>3, AppendsFacts
  <2> QED
    BY <2>1, <2>4
<1>15. output' \in FileRecord /\ NamesOK(output') /\ Ascending(Logged')
  BY <1>14 DEF FileMoves, FileOK, Logged
<1>16. Placed(FileLines(output'), S, BufferedLines, CurrentLines, Dropped' \cup LostLines(output'), appended)
  <2>1. PICK E, M : E = FileLines(output') /\ M = LostLines(output')
    OBVIOUS
  <2>2. /\ E \cup M = FileLines(output) \cup LostLines(output) /\ E \subseteq FileLines(output) /\ E \cap M = {}
    BY <1>14, <2>1 DEF FileMoves, FileOK
  <2>3. Placed(E, S, BufferedLines, CurrentLines, (Dropped \cup D) \cup M, appended)
    BY <1>2, <1>9, <2>2, PlacedMove
  <2> QED
    BY <1>11, <2>1, <2>3
<1>17. LogTypeOK'
  BY <1>1, <1>5, <1>11, <1>15 DEF LogInv, LogTypeOK
<1>18. SparesOK' /\ FilesOK'
  BY <1>1, <1>5, <1>15 DEF LogInv, SparesOK, FilesOK, NamesOK
<1>19. LinesOK'
  BY <1>1, <1>5, <1>7, <1>12, <1>15, <1>16 DEF LogInv, LinesOK
<1> QED
  BY <1>17, <1>18, <1>19 DEF LogInv

LEMMA WriteBufferKeeps == ASSUME LogInv, WriteBuffer PROVE LogInv'
<1>1. PICK w, lines : w = written /\ lines = toWrite[w + 1]
  OBVIOUS
<1>2. /\ lpc = "write" /\ w < Len(toWrite) /\ written' = w + 1 /\ Appends(lines)
      /\ UNCHANGED <<lpc, apc, logging, current, nextBuf, buffers, appended, new1, new2, toWrite, now, gone>>
  BY <1>1 DEF WriteBuffer, frontVars
<1>3. /\ toWrite \in Seq(LogLines) /\ w \in Nat /\ FileOK(output) /\ now \in Nat /\ appended \in Nat /\ Piled(toWrite)
      /\ Placed(FileLines(output), ToWriteLines, BufferedLines, CurrentLines, Dropped \cup LostLines(output), appended)
  BY <1>1, OutputOK DEF LogInv, LogTypeOK, LinesOK
<1>4. PICK T : T = Staged(toWrite, w + 2)
  OBVIOUS
<1>5. /\ Staged(toWrite, w + 1) = LinesOf(lines) \cup T /\ Lower(LinesOf(lines), T)
      /\ lines \in LogLines /\ Ascending(lines)
  BY <1>1, <1>2, <1>3, <1>4, StagedNext
<1>6. ToWriteLines = LinesOf(lines) \cup T /\ ToWriteLines' = T
  <2>1. (w + 1) + 1 = w + 2
    BY <1>3
  <2> QED
    BY <1>1, <1>2, <1>4, <1>5, <2>1 DEF ToWriteLines
<1>7. LinesOf(lines) \ {Notice} = LinesOf(lines)
  <2>1. \A x \in LinesOf(lines) : x \in 1..appended
    BY <1>3, <1>6 DEF Placed
  <2>2. Notice \notin 1..appended
    BY <1>3 DEF Notice
  <2> QED
    BY <2>1, <2>2
<1>8. /\ Placed(FileLines(output) \cup LinesOf(lines), T, BufferedLines, CurrentLines, Dropped \cup LostLines(output), appended)
      /\ Lower(FileLines(output), LinesOf(lines)) /\ LinesOf(lines) \cap (Dropped \cup LostLines(output)) = {}
  <2>1. PICK F, A, G : F = FileLines(output) /\ A = LinesOf(lines) /\ G = Dropped \cup LostLines(output)
    OBVIOUS
  <2>2. Placed(F, A \cup T, BufferedLines, CurrentLines, G, appended) /\ Lower(A, T)
    BY <1>3, <1>5, <1>6, <2>1
  <2>3. Placed(F \cup A, T, BufferedLines, CurrentLines, G, appended) /\ Lower(F, A) /\ A \cap G = {}
    BY <1>3, <2>2, PlacedWrite
  <2> QED
    BY <2>1, <2>3
<1>9. PICK g : /\ FileLines(g) = FileLines(output) \cup LinesOf(lines) /\ LostLines(g) = LostLines(output)
               /\ FileMoves(g, output')
  <2>1. Lower(FileLines(output), LinesOf(lines) \ {Notice}) /\ (LinesOf(lines) \ {Notice}) \cap LostLines(output) = {}
    BY <1>7, <1>8
  <2>2. \E g : /\ FileLines(g) = FileLines(output) \cup (LinesOf(lines) \ {Notice})
              /\ LostLines(g) = LostLines(output) /\ FileMoves(g, output')
    BY <1>2, <1>3, <1>5, <2>1, AppendsFacts
  <2> QED
    BY <1>7, <2>2
<1>10. output' \in FileRecord /\ NamesOK(output') /\ Ascending(Logged')
  BY <1>9 DEF FileMoves, FileOK, Logged
<1>11. Placed(FileLines(output'), T, BufferedLines, CurrentLines, Dropped \cup LostLines(output'), appended)
  <2>1. PICK F, E, M : F = FileLines(output) \cup LinesOf(lines) /\ E = FileLines(output') /\ M = LostLines(output')
    OBVIOUS
  <2>2. E \cup M = F \cup LostLines(output) /\ E \subseteq F /\ E \cap M = {}
    BY <1>9, <2>1 DEF FileMoves, FileOK
  <2>3. Placed(E, T, BufferedLines, CurrentLines, Dropped \cup M, appended)
    BY <1>3, <1>8, <2>1, <2>2, PlacedMove
  <2> QED
    BY <2>1, <2>3
<1>12. BufferedLines' = BufferedLines /\ CurrentLines' = CurrentLines /\ Dropped' = Dropped
  BY <1>2 DEF BufferedLines, CurrentLines, Dropped
<1>13. LogTypeOK'
  <2>1. Len(toWrite) \in Nat
    BY <1>3, LenProperties
  <2>2. written' \in Nat /\ written' <= Len(toWrite')
    BY <1>2, <1>3, <2>1
  <2> QED
    BY <1>2, <1>10, <2>2 DEF LogInv, LogTypeOK
<1>14. SparesOK' /\ FilesOK'
  BY <1>2, <1>10 DEF LogInv, SparesOK, FilesOK, NamesOK
<1>15. LinesOK'
  BY <1>2, <1>6, <1>10, <1>11, <1>12 DEF LogInv, LinesOK
<1> QED
  BY <1>13, <1>14, <1>15 DEF LogInv

LEMMA RefillKeeps == ASSUME LogInv, Refill PROVE LogInv'
<1>1. /\ lpc = "write" /\ written = Len(toWrite) /\ toWrite' = <<>> /\ written' = 0 /\ Flushes /\ lpc' = "top"
      /\ UNCHANGED <<apc, logging, current, nextBuf, buffers, appended, now, gone>>
  BY DEF Refill, frontVars
<1>2. /\ new1 = NoBuffer /\ new2 \in {<<>>, NoBuffer} /\ Len(toWrite) >= 1 /\ (new2 = NoBuffer => Len(toWrite) >= 2)
      /\ toWrite \in Seq(LogLines) /\ Len(toWrite) \in Nat /\ apc # "new" /\ FileOK(output) /\ appended \in Nat
  BY <1>1, LenProperties, OutputOK DEF LogInv, SparesOK, LogTypeOK
<1>3. new1' = <<>> /\ new2' = <<>>
  <2>1. PICK kept : kept = IF Len(toWrite) > 2 THEN 2 ELSE Len(toWrite)
    OBVIOUS
  <2>2. /\ new1' = IF new1 = NoBuffer /\ kept > 0 THEN <<>> ELSE new1
        /\ new2' = IF new2 = NoBuffer /\ kept > (IF new1 = NoBuffer THEN 1 ELSE 0) THEN <<>> ELSE new2
    BY <2>1 DEF Refill
  <2>3. kept > 0 /\ (new2 = NoBuffer => kept > 1)
    BY <1>2, <2>1
  <2> QED
    BY <1>2, <2>2, <2>3
<1>4. FileMoves(output, output') /\ output' \in FileRecord /\ NamesOK(output') /\ output'.held = <<>> /\ Ascending(Logged')
  <2>1. FileMoves(output, output') /\ output'.held = <<>>
    BY <1>1, <1>2, FlushesFacts
  <2> QED
    BY <2>1 DEF FileMoves, FileOK, Logged
<1>5. <<>> \in Seq(LogLines) /\ Len(<<>>) = 0
  BY EmptySeq
<1>6. LogTypeOK' /\ SparesOK' /\ FilesOK'
  BY <1>1, <1>2, <1>3, <1>4, <1>5 DEF LogInv, LogTypeOK, SparesOK, FilesOK, NamesOK
<1>7. ToWriteLines = {} /\ ToWriteLines' = {} /\ Piled(toWrite')
  BY <1>1, <1>2, StagedDone, NoLines DEF ToWriteLines
<1>8. BufferedLines' = BufferedLines /\ CurrentLines' = CurrentLines /\ Dropped' = Dropped
  BY <1>1 DEF BufferedLines, CurrentLines, Dropped
<1>9. Placed(FileLines(output'), ToWriteLines, BufferedLines, CurrentLines, Dropped \cup LostLines(output'), appended)
  <2>1. PICK E, M : E = FileLines(output') /\ M = LostLines(output')
    OBVIOUS
  <2>2. E \cup M = FileLines(output) \cup LostLines(output) /\ E \subseteq FileLines(output) /\ E \cap M = {}
    BY <1>4, <2>1 DEF FileMoves, FileOK
  <2>3. Placed(E, ToWriteLines, BufferedLines, CurrentLines, Dropped \cup M, appended)
    BY <1>2, <2>2, PlacedMove DEF LogInv, LinesOK
  <2> QED
    BY <2>1, <2>3
<1>10. LinesOK'
  BY <1>1, <1>4, <1>7, <1>8, <1>9 DEF LogInv, LinesOK
<1> QED
  BY <1>6, <1>10 DEF LogInv

(* For any sizes, any number of lines and any failures of fwrite(),        *)
(* fflush() and fclose(), part of the way or whole: the file holds the     *)
(* lines in the order of append(), each once, and what is missing was      *)
(* dropped with a notice, too long for a buffer, or in the hands of stdio  *)
(* when a write to the disk failed; both spare buffers of threadFunc() are *)
(* back for every round, every round ends with nothing in stdio, and no    *)
(* two files have one name.                                                *)
THEOREM LogIsSound == LogSpec => []LogSound
<1>1. LogInit => LogInv
  BY LogInitInv
<1>2. LogInv /\ [LogNext]_logVars => LogInv'
  <2> SUFFICES ASSUME LogInv, [LogNext]_logVars PROVE LogInv'
    OBVIOUS
  <2>1. CASE UNCHANGED logVars
    <3>1. FileMoves(output, output') /\ UNCHANGED <<toWrite, written, buffers, current, gone, appended>>
      BY <2>1, SameOutput DEF logVars, frontVars, backVars
    <3>2. LogTypeOK' /\ SparesOK' /\ FilesOK'
      BY <2>1 DEF LogInv, LogTypeOK, SparesOK, FilesOK, logVars, frontVars, backVars
    <3> QED
      BY <3>1, <3>2, LinesStay DEF LogInv
  <2> QED
    BY <2>1, AppendFitsKeeps, AppendSwitchesKeeps, StartLogKeeps, StopLogKeeps, LoopTestKeeps, SwapBuffersKeeps,
       DropBuffersKeeps, WriteBufferKeeps, RefillKeeps DEF LogNext, LoggerStep
<1>3. LogInv => LogSound
  BY LogInvImplies
<1> QED
  BY <1>1, <1>2, <1>3, PTL DEF LogSpec
=============================================================================
