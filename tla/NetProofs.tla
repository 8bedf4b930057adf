----------------------------- MODULE NetProofs -----------------------------
(***************************************************************************)
(* Proofs about four objects of net, for any numbers of threads, calls,    *)
(* timers, addresses, messages, channels and descriptors.  The two sets of *)
(* TimerQueue agree, its timerfd never sleeps past a timer, and cancel()   *)
(* is exact although addresses are used again.  A TcpConnection keeps its  *)
(* assertions unless its close overtakes a call, and what is sent through  *)
(* it goes out whole and in order.  The tables of both Pollers agree with  *)
(* the channels and with the kernel.  A TcpClient and its Connector keep   *)
(* their assertions and their sockets whatever is called when.             *)
(***************************************************************************)
EXTENDS TimerQueue, TcpConnection, Poller, TcpClient, SequenceTheorems, FiniteSetTheorems, TLAPS

Entries == Nat \X Addrs
TimerRecord == [seq : 0..MaxTimers, expiration : Nat, interval : {0, 1}]
CallRecord == [op : {"add", "cancel"}, addr : Addrs, seq : Seqs, when : Nat, interval : {0, 1}]

Live(a) == heap[a].seq # 0
Entry(a) == <<heap[a].expiration, a>>
IsAdd(i) == i \in DOMAIN calls /\ calls[i].op = "add"

TimerTypeOK ==
  /\ clock \in Nat /\ readTime \in Nat /\ readTime <= clock /\ armed \in Int
  /\ heap \in [Addrs -> TimerRecord]
  /\ timers \subseteq Entries
  /\ active \subseteq Addrs \X Seqs /\ canceling \subseteq Addrs \X Seqs
  /\ calling \in BOOLEAN
  /\ expired \in Seq(Entries) /\ batch \in Seq(Entries)
  /\ calls \in Seq(CallRecord)
  /\ ids \subseteq Addrs \X Seqs /\ IsFiniteSet(ids)
  /\ ran \in [Seqs -> Nat]
  /\ canceled \subseteq Seqs

(* Sequence numbers are given once, and a Timer is what its TimerId says. *)
IdsOK == /\ \A p \in ids : p[2] <= NumCreated
         /\ \A p, q \in ids : p[2] = q[2] => p = q
HeapOK == \A a \in Addrs : IF Live(a) THEN <<a, heap[a].seq>> \in ids ELSE heap[a] = NoTimer

(* A Timer is in both sets, or it is in the batch that is being run. *)
Placed ==
  /\ \A t \in timers : Live(t[2]) /\ t = Entry(t[2])
  /\ \A t \in ToSet(batch) : Live(t[2]) /\ t = Entry(t[2]) /\ t[1] <= readTime /\ t \notin timers
  /\ \A a \in Addrs, s \in Seqs : <<a, s>> \in active <=> s = heap[a].seq /\ Entry(a) \in timers
  /\ \A a \in Addrs : Live(a) => Entry(a) \in timers \/ Entry(a) \in ToSet(batch)

BatchOK == /\ ~calling => batch = <<>> /\ expired = <<>>
           /\ \A t \in ToSet(expired) : t \in ToSet(batch)
           /\ \A i, j \in DOMAIN expired : expired[i] = expired[j] => i = j

(* A Timer on its way to the loop is in no set yet: nothing has run or     *)
(* cancelled it, and its address is its own.                               *)
CallsOK == /\ \A i \in DOMAIN calls : IsAdd(i) =>
                /\ <<calls[i].addr, calls[i].seq>> \in ids /\ ~Live(calls[i].addr)
                /\ ran[calls[i].seq] = 0 /\ calls[i].seq \notin canceled
           /\ \A i, j \in DOMAIN calls : IsAdd(i) /\ IsAdd(j) /\ calls[i].addr = calls[j].addr => i = j

Covers == ~calling => \A t \in timers : armed <= t[1] \/ armed <= clock

(* A cancelled timer is gone, or it is in the batch and reset() is going   *)
(* to find it in cancelingTimers_.                                         *)
CanceledOK == \A s \in canceled :
  /\ s <= NumCreated
  /\ \A a \in Addrs : heap[a].seq = s => calling /\ <<a, s>> \in canceling /\ Entry(a) \in ToSet(batch)

(* A timer without an interval has run only if reset() is going to delete  *)
(* it.                                                                     *)
RanOK == /\ \A s \in Seqs : s > NumCreated => ran[s] = 0
         /\ \A a \in Addrs : Live(a) /\ heap[a].interval = 0 /\ ran[heap[a].seq] # 0 =>
                calling /\ Entry(a) \in ToSet(batch) /\ Entry(a) \notin ToSet(expired)

TimerInv == /\ TimerTypeOK /\ IdsOK /\ HeapOK /\ Placed /\ BatchOK
            /\ CallsOK /\ Covers /\ CanceledOK /\ RanOK

-----------------------------------------------------------------------------

LEMMA EarliestExists ==
  ASSUME NEW list, list \subseteq Entries, list # {}
  PROVE  Earliest(list) \in list /\ \A u \in list : Earliest(list)[1] <= u[1]
<1> DEFINE S == {u[1] : u \in list}
<1>1. S \subseteq Nat /\ S # {}
  BY DEF Entries
<1>2. PICK x \in S : \A y \in S : ~(y < x)
  <2>1. IsWellFoundedOn(OpToRel(<, Nat), Nat)
    BY NatLessThanWellFounded
  <2> HIDE DEF S
  <2>2. PICK x \in S : \A y \in S : ~(<<y, x>> \in OpToRel(<, Nat))
    BY <1>1, <2>1, WFMin
  <2> QED
    BY <1>1, <2>2 DEF OpToRel
<1>3. PICK t \in list : t[1] = x
  BY <1>2
<1>4. \A u \in list : t[1] <= u[1]
  <2> SUFFICES ASSUME NEW u \in list PROVE t[1] <= u[1]
    OBVIOUS
  <2>1. u[1] \in S /\ x \in Nat /\ u[1] \in Nat
    BY <1>1, <1>2
  <2> QED
    BY <1>2, <1>3, <2>1
<1> QED
  BY <1>3, <1>4 DEF Earliest

LEMMA TimerInitInv == TimerInit => TimerInv
<1> SUFFICES ASSUME TimerInit PROVE TimerInv
  OBVIOUS
<1>1. NoTimer \in TimerRecord /\ NoTimer.seq = 0
  BY TimerAssumption DEF NoTimer, TimerRecord
<1>2. IsFiniteSet({}) /\ Cardinality({}) = 0
  BY FS_EmptySet
<1>3. TimerTypeOK
  <2>1. Never \in Int
    BY TimerAssumption DEF Never
  <2>2. <<>> \in Seq(Entries) /\ <<>> \in Seq(CallRecord)
    BY EmptySeq
  <2>3. heap \in [Addrs -> TimerRecord] /\ ran \in [Seqs -> Nat]
    BY <1>1 DEF TimerInit
  <2>4. clock \in Nat /\ readTime \in Nat /\ readTime <= clock /\ armed \in Int
    BY <2>1 DEF TimerInit
  <2>5. calling \in BOOLEAN /\ timers = {} /\ active = {} /\ canceling = {} /\ ids = {} /\ canceled = {}
        /\ expired = <<>> /\ batch = <<>> /\ calls = <<>>
    BY DEF TimerInit
  <2> QED
    BY <1>2, <2>2, <2>3, <2>4, <2>5 DEF TimerTypeOK
<1>4. ToSet(batch) = {} /\ ToSet(expired) = {} /\ DOMAIN calls = {} /\ DOMAIN expired = {}
  BY DEF TimerInit, ToSet
<1>5. \A a \in Addrs : ~Live(a) /\ heap[a] = NoTimer
  BY <1>1 DEF TimerInit, Live
<1>6. IdsOK /\ HeapOK
  BY <1>5 DEF TimerInit, IdsOK, HeapOK
<1>7. Placed /\ BatchOK /\ CallsOK
  BY <1>4, <1>5 DEF TimerInit, Placed, BatchOK, CallsOK
<1>8. Covers /\ CanceledOK /\ RanOK
  BY <1>4, <1>5 DEF TimerInit, Covers, CanceledOK, RanOK
<1> QED
  BY <1>3, <1>6, <1>7, <1>8 DEF TimerInv

(* No two Timers have one number, whether they are in the heap or still on *)
(* their way.                                                              *)
LEMMA OneNumber ==
  ASSUME TimerInv
  PROVE  /\ \A a, b \in Addrs : Live(a) /\ heap[a].seq = heap[b].seq => a = b
         /\ \A a \in Addrs, i \in DOMAIN calls : Live(a) /\ IsAdd(i) => calls[i].seq # heap[a].seq
         /\ \A a \in Addrs : Live(a) => heap[a].seq \in Seqs /\ heap[a].seq <= NumCreated
<1>1. \A a \in Addrs : Live(a) => <<a, heap[a].seq>> \in ids
  BY DEF TimerInv, HeapOK
<1>2. \A p, q \in ids : p[2] = q[2] => p = q
  BY DEF TimerInv, IdsOK
<1>3. \A a, b \in Addrs : Live(a) /\ heap[a].seq = heap[b].seq => a = b
  <2> SUFFICES ASSUME NEW a \in Addrs, NEW b \in Addrs, Live(a), heap[a].seq = heap[b].seq PROVE a = b
    OBVIOUS
  <2>1. <<a, heap[a].seq>> \in ids /\ <<b, heap[b].seq>> \in ids
    BY <1>1 DEF Live
  <2> QED
    BY <1>2, <2>1
<1>4. \A a \in Addrs, i \in DOMAIN calls : Live(a) /\ IsAdd(i) => calls[i].seq # heap[a].seq
  <2> SUFFICES ASSUME NEW a \in Addrs, NEW i \in DOMAIN calls, Live(a), IsAdd(i), calls[i].seq = heap[a].seq
               PROVE  FALSE
    OBVIOUS
  <2>1. <<calls[i].addr, calls[i].seq>> \in ids /\ ~Live(calls[i].addr)
    BY DEF TimerInv, CallsOK
  <2>2. calls[i].addr = a
    BY <1>1, <1>2, <2>1
  <2> QED
    BY <2>1, <2>2
<1>5. \A a \in Addrs : Live(a) => heap[a].seq \in Seqs /\ heap[a].seq <= NumCreated
  <2> SUFFICES ASSUME NEW a \in Addrs, Live(a) PROVE heap[a].seq \in Seqs /\ heap[a].seq <= NumCreated
    OBVIOUS
  <2>1. <<a, heap[a].seq>> \in ids /\ ids \subseteq Addrs \X Seqs
    BY <1>1 DEF TimerInv, TimerTypeOK
  <2> QED
    BY <2>1 DEF TimerInv, IdsOK
<1> QED
  BY <1>3, <1>4, <1>5

(* addTimer() gives the next number. *)
LEMMA NewId ==
  ASSUME TimerInv, NEW a \in Addrs, NumCreated < MaxTimers, ids' = ids \cup {<<a, NumCreated + 1>>}
  PROVE  /\ NumCreated \in Nat /\ NumCreated + 1 \in Seqs /\ NumCreated' = NumCreated + 1
         /\ ids' \subseteq Addrs \X Seqs /\ IsFiniteSet(ids') /\ IdsOK'
         /\ \A b \in Addrs : heap[b].seq # NumCreated + 1
         /\ \A s \in canceled : s # NumCreated + 1
<1>1. /\ IsFiniteSet(ids) /\ ids \subseteq Addrs \X Seqs /\ NumCreated \in Nat
      /\ \A p \in ids : p[2] <= NumCreated /\ p[2] \in Nat
      /\ \A p, q \in ids : p[2] = q[2] => p = q
  BY FS_CardinalityType DEF TimerInv, TimerTypeOK, IdsOK, NumCreated, Seqs
<1> DEFINE n == NumCreated + 1
           p0 == <<a, n>>
<1>2. n \in Seqs /\ n \in Nat
  BY <1>1, TimerAssumption DEF Seqs
<1>3. p0[2] = n /\ p0 \in Addrs \X Seqs
  BY <1>2
<1>4. p0 \notin ids
  <2> SUFFICES ASSUME p0 \in ids PROVE FALSE
    OBVIOUS
  <2>1. p0[2] <= NumCreated
    BY <1>1
  <2> QED
    BY <1>1, <1>3, <2>1
<1>5. IsFiniteSet(ids') /\ NumCreated' = n
  BY <1>1, <1>4, FS_AddElement DEF NumCreated
<1>6. IdsOK'
  <2>1. \A p \in ids' : p[2] <= NumCreated'
    <3> SUFFICES ASSUME NEW p \in ids' PROVE p[2] <= n
      BY <1>5
    <3>1. CASE p \in ids
      BY <1>1, <1>2, <3>1
    <3>2. CASE p = p0
      BY <1>2, <1>3, <3>2
    <3> QED
      BY <3>1, <3>2
  <2>2. \A p \in ids : p[2] # n
    BY <1>1
  <2>3. \A p, q \in ids' : p[2] = q[2] => p = q
    BY <1>1, <1>3, <2>2
  <2> QED
    BY <2>1, <2>3 DEF IdsOK
<1>7. \A b \in Addrs : heap[b].seq # n
  <2> SUFFICES ASSUME NEW b \in Addrs, heap[b].seq = n PROVE FALSE
    OBVIOUS
  <2>1. Live(b)
    BY <1>1 DEF Live
  <2>2. heap[b].seq <= NumCreated
    BY <2>1, OneNumber
  <2> QED
    BY <1>1, <2>2
<1>8. \A s \in canceled : s # n
  BY <1>1 DEF TimerInv, CanceledOK
<1> QED
  BY <1>1, <1>2, <1>3, <1>5, <1>6, <1>7, <1>8

(* addTimerInLoop() of a Timer at a free address. *)
LEMMA AddKeeps ==
  ASSUME TimerInv, NEW a \in Addrs, NEW when \in Nat, NEW interval \in {0, 1}, NEW seq \in Seqs,
         ~Live(a), AddTimerInLoop(a, when, interval, seq),
         UNCHANGED <<clock, calling, batch, readTime>>
  PROVE  /\ heap' \in [Addrs -> TimerRecord] /\ timers' \subseteq Entries
         /\ active' \subseteq Addrs \X Seqs /\ armed' \in Int
         /\ Placed' /\ Covers'
         /\ \A b \in Addrs : b # a => heap'[b] = heap[b] /\ Entry(b)' = Entry(b) /\ (Live(b)' <=> Live(b))
         /\ Live(a)' /\ heap'[a].seq = seq /\ heap'[a].interval = interval
<1>1. /\ heap \in [Addrs -> TimerRecord] /\ timers \subseteq Entries /\ active \subseteq Addrs \X Seqs
      /\ armed \in Int /\ clock \in Nat
  BY DEF TimerInv, TimerTypeOK
<1> DEFINE r == [seq |-> seq, expiration |-> when, interval |-> interval]
<1>2. r \in TimerRecord /\ r.seq = seq /\ r.expiration = when /\ r.interval = interval /\ seq # 0
  BY TimerAssumption DEF TimerRecord, Seqs
<1>3. heap' = [heap EXCEPT ![a] = r]
  BY DEF AddTimerInLoop
<1> HIDE DEF r
<1>4. heap' \in [Addrs -> TimerRecord] /\ heap'[a] = r /\ \A b \in Addrs : b # a => heap'[b] = heap[b]
  BY <1>1, <1>2, <1>3
<1>5. timers' = timers \cup {<<when, a>>} /\ active' = active \cup {<<a, seq>>}
  BY DEF AddTimerInLoop
<1>6. Entry(a)' = <<when, a>> /\ Live(a)'
  BY <1>2, <1>4 DEF Entry, Live
<1>7. \A b \in Addrs : b # a => Entry(b)' = Entry(b) /\ (Live(b)' <=> Live(b))
  BY <1>4 DEF Entry, Live
<1>8. \A t \in timers : t[2] \in Addrs /\ t[2] # a /\ Live(t[2]) /\ t = Entry(t[2])
  BY <1>1 DEF TimerInv, Placed, Entries
<1>9. \A t \in ToSet(batch) : /\ t[2] \in Addrs /\ t[2] # a /\ Live(t[2]) /\ t = Entry(t[2])
                              /\ t[1] <= readTime /\ t \notin timers
  <2>1. \A t \in ToSet(batch) : t \in Entries
    BY DEF TimerInv, TimerTypeOK, ToSet
  <2> QED
    BY <2>1 DEF TimerInv, Placed, Entries
<1>10. Placed'
  <2>1. <<when, a>>[2] = a
    OBVIOUS
  <2>2. \A t \in timers' : Live(t[2])' /\ t = Entry(t[2])'
    <3> SUFFICES ASSUME NEW t \in timers' PROVE Live(t[2])' /\ t = Entry(t[2])'
      OBVIOUS
    <3>1. CASE t \in timers
      BY <1>7, <1>8, <3>1
    <3>2. CASE t = <<when, a>>
      BY <1>6, <2>1, <3>2
    <3> QED
      BY <1>5, <3>1, <3>2
  <2>3. \A t \in ToSet(batch) : Live(t[2])' /\ t = Entry(t[2])' /\ t[1] <= readTime' /\ t \notin timers'
    BY <1>5, <1>7, <1>9, <2>1
  <2>4. \A b \in Addrs, s \in Seqs : <<b, s>> \in active' <=> s = heap'[b].seq /\ Entry(b)' \in timers'
    <3> SUFFICES ASSUME NEW b \in Addrs, NEW s \in Seqs
                 PROVE  <<b, s>> \in active' <=> s = heap'[b].seq /\ Entry(b)' \in timers'
      OBVIOUS
    <3>0. <<b, s>> \in active <=> s = heap[b].seq /\ Entry(b) \in timers
      BY DEF TimerInv, Placed
    <3>1. CASE b = a
      <4>1. s # heap[a].seq \/ Entry(a) \notin timers
        BY DEF Live, TimerInv, Placed, Entry
      <4> QED
        BY <1>2, <1>4, <1>5, <1>6, <3>0, <3>1, <4>1
    <3>2. CASE b # a
      <4>1. Entry(b) # <<when, a>> /\ <<b, s>> # <<a, seq>>
        BY <3>2 DEF Entry
      <4> QED
        BY <1>4, <1>5, <1>7, <3>0, <3>2, <4>1
    <3> QED
      BY <3>1, <3>2
  <2>5. \A b \in Addrs : Live(b)' => Entry(b)' \in timers' \/ Entry(b)' \in ToSet(batch)
    <3> SUFFICES ASSUME NEW b \in Addrs, Live(b)' PROVE Entry(b)' \in timers' \/ Entry(b)' \in ToSet(batch)
      OBVIOUS
    <3>1. CASE b = a
      BY <1>5, <1>6, <3>1
    <3>2. CASE b # a
      BY <1>5, <1>7, <3>2 DEF TimerInv, Placed
    <3> QED
      BY <3>1, <3>2
  <2> QED
    BY <2>2, <2>3, <2>4, <2>5 DEF Placed
<1>11. armed' \in Int
  BY <1>1 DEF AddTimerInLoop, ArmFor
<1>12. Covers'
  <2> SUFFICES ASSUME ~calling, NEW t \in timers' PROVE armed' <= t[1] \/ armed' <= clock
    BY DEF Covers
  <2>1. armed' = IF EarliestChanged(timers, when) THEN ArmFor(when) ELSE armed
    BY DEF AddTimerInLoop
  <2>2. t \in timers => t[1] \in Nat /\ (armed <= t[1] \/ armed <= clock)
    BY <1>1 DEF TimerInv, Covers, Entries
  <2>3. CASE EarliestChanged(timers, when)
    <3>1. armed' = ArmFor(when)
      BY <2>1, <2>3
    <3>2. t \in timers => when <= t[1]
      <4> SUFFICES ASSUME t \in timers PROVE when <= t[1]
        OBVIOUS
      <4>1. timers # {}
        OBVIOUS
      <4>2. Earliest(timers) \in timers /\ Earliest(timers)[1] <= t[1]
        BY <1>1, <4>1, EarliestExists
      <4>3. when < Earliest(timers)[1] /\ Earliest(timers)[1] \in Nat
        BY <1>1, <2>3, <4>1, <4>2 DEF EarliestChanged, Entries
      <4> QED
        BY <2>2, <4>2, <4>3
    <3>3. t \in timers \/ t[1] = when
      BY <1>5
    <3> QED
      BY <1>1, <2>2, <3>1, <3>2, <3>3 DEF ArmFor
  <2>4. CASE ~EarliestChanged(timers, when)
    <3>1. armed' = armed /\ timers # {} /\ ~(when < Earliest(timers)[1])
      BY <2>1, <2>4 DEF EarliestChanged
    <3>2. Earliest(timers) \in timers
      BY <1>1, <3>1, EarliestExists
    <3>3. Earliest(timers)[1] \in Nat /\ (armed <= Earliest(timers)[1] \/ armed <= clock)
      BY <1>1, <3>2 DEF TimerInv, Covers, Entries
    <3>4. t \in timers \/ t[1] = when
      BY <1>5
    <3> QED
      BY <1>1, <2>2, <3>1, <3>3, <3>4
  <2> QED
    BY <2>3, <2>4
<1>13. timers' \subseteq Entries /\ active' \subseteq Addrs \X Seqs
  BY <1>1, <1>5 DEF Entries
<1> QED
  BY <1>2, <1>4, <1>6, <1>7, <1>10, <1>11, <1>12, <1>13

LEMMA CallTypes ==
  ASSUME TimerInv
  PROVE  /\ DOMAIN calls = 1..Len(calls) /\ Len(calls) \in Nat
         /\ \A i \in DOMAIN calls : /\ calls[i] \in CallRecord /\ calls[i].addr \in Addrs /\ calls[i].seq \in Seqs
                                   /\ calls[i].when \in Nat /\ calls[i].interval \in {0, 1}
<1>1. calls \in Seq(CallRecord)
  BY DEF TimerInv, TimerTypeOK
<1>2. DOMAIN calls = 1..Len(calls) /\ Len(calls) \in Nat /\ \A i \in 1..Len(calls) : calls[i] \in CallRecord
  BY <1>1, LenProperties, ElementOfSeq
<1>3. \A r \in CallRecord : r.addr \in Addrs /\ r.seq \in Seqs /\ r.when \in Nat /\ r.interval \in {0, 1}
  BY DEF CallRecord
<1> QED
  BY <1>2, <1>3

LEMMA AddTimerKeeps ==
  ASSUME TimerInv, NEW a \in Addrs, NEW when \in clock..MaxNow, NEW interval \in {0, 1},
         AddTimer(a, when, interval)
  PROVE  TimerInv'
<1> DEFINE n == NumCreated + 1
<1>1. /\ NumCreated < MaxTimers /\ heap[a] = NoTimer /\ ids' = ids \cup {<<a, n>>}
      /\ AddTimerInLoop(a, when, interval, n)
      /\ UNCHANGED <<clock, calling, canceling, expired, batch, readTime, calls, ran, canceled>>
      /\ TimerTypeOK /\ when \in Nat
      /\ \A i \in 1..Len(calls) : calls[i].op = "add" => calls[i].addr # a
  BY TimerAssumption DEF AddTimer, Allocatable, readVars, timerHistory, TimerInv, TimerTypeOK
<1>2. /\ NumCreated \in Nat /\ n \in Seqs /\ NumCreated' = n
      /\ ids' \subseteq Addrs \X Seqs /\ IsFiniteSet(ids') /\ IdsOK'
      /\ \A b \in Addrs : heap[b].seq # n
      /\ \A s \in canceled : s # n
  BY <1>1, NewId
<1> HIDE DEF n
<1>3. ~Live(a)
  BY <1>1 DEF Live, NoTimer
<1>4. /\ heap' \in [Addrs -> TimerRecord] /\ timers' \subseteq Entries
      /\ active' \subseteq Addrs \X Seqs /\ armed' \in Int
      /\ Placed' /\ Covers'
      /\ \A b \in Addrs : b # a => heap'[b] = heap[b] /\ Entry(b)' = Entry(b) /\ (Live(b)' <=> Live(b))
      /\ Live(a)' /\ heap'[a].seq = n /\ heap'[a].interval = interval
  BY <1>1, <1>2, <1>3, AddKeeps
<1>5. TimerTypeOK'
  BY <1>1, <1>2, <1>4 DEF TimerTypeOK
<1>6. HeapOK'
  <2> SUFFICES ASSUME NEW b \in Addrs
               PROVE  IF Live(b)' THEN <<b, heap'[b].seq>> \in ids' ELSE heap'[b] = NoTimer
    BY DEF HeapOK
  <2>1. CASE b = a
    BY <1>1, <1>4, <2>1
  <2>2. CASE b # a
    BY <1>1, <1>4, <2>2 DEF TimerInv, HeapOK
  <2> QED
    BY <2>1, <2>2
<1>7. BatchOK'
  BY <1>1 DEF TimerInv, BatchOK
<1>8. CallsOK'
  <2>0. DOMAIN calls = 1..Len(calls) /\ \A i \in DOMAIN calls : calls[i].addr \in Addrs
    BY CallTypes
  <2>1. \A i \in DOMAIN calls : IsAdd(i)' <=> IsAdd(i)
    BY <1>1 DEF IsAdd
  <2>2. \A i \in DOMAIN calls : IsAdd(i) => calls[i].addr \in Addrs /\ calls[i].addr # a
    BY <1>1, <2>0 DEF IsAdd
  <2>3. CallsOK
    BY DEF TimerInv
  <2>4. \A i \in DOMAIN calls' : IsAdd(i)' =>
                /\ <<calls'[i].addr, calls'[i].seq>> \in ids' /\ ~Live(calls[i].addr)'
                /\ ran'[calls'[i].seq] = 0 /\ calls'[i].seq \notin canceled'
    <3> SUFFICES ASSUME NEW i \in DOMAIN calls, IsAdd(i)
                 PROVE  /\ <<calls[i].addr, calls[i].seq>> \in ids' /\ ~Live(calls[i].addr)'
                        /\ ran[calls[i].seq] = 0 /\ calls[i].seq \notin canceled
      BY <1>1, <2>1
    <3>1. /\ <<calls[i].addr, calls[i].seq>> \in ids /\ ~Live(calls[i].addr)
          /\ ran[calls[i].seq] = 0 /\ calls[i].seq \notin canceled
      BY <2>3 DEF CallsOK
    <3>2. calls[i].addr \in Addrs /\ calls[i].addr # a /\ calls'[i] = calls[i]
      BY <1>1, <2>2
    <3>3. ~Live(calls[i].addr)'
      BY <1>4, <3>1, <3>2 DEF Live
    <3> QED
      BY <1>1, <3>1, <3>3
  <2> QED
    BY <1>1, <2>1, <2>3, <2>4 DEF CallsOK
<1>9. CanceledOK'
  <2> SUFFICES ASSUME NEW s \in canceled
               PROVE  /\ s <= n
                      /\ \A b \in Addrs : heap'[b].seq = s => calling /\ <<b, s>> \in canceling /\ Entry(b)' \in ToSet(batch)
    BY <1>1, <1>2 DEF CanceledOK
  <2>1. s # n /\ s \in Nat /\ s <= NumCreated
    <3>1. s \in Seqs
      BY <1>1 DEF TimerTypeOK
    <3> QED
      BY <1>2, <3>1 DEF TimerInv, CanceledOK, Seqs
  <2>2. s <= n
    BY <1>2, <2>1 DEF n
  <2> QED
    BY <1>4, <2>1, <2>2 DEF TimerInv, CanceledOK
<1>10. RanOK'
  <2>1. \A s \in Seqs : s > n => ran[s] = 0
    BY <1>2 DEF TimerInv, RanOK, Seqs, n
  <2>2. ran[n] = 0
    BY <1>2 DEF TimerInv, RanOK, n
  <2> QED
    BY <1>1, <1>2, <1>4, <2>1, <2>2 DEF TimerInv, RanOK
<1> QED
  BY <1>2, <1>4, <1>5, <1>6, <1>7, <1>8, <1>9, <1>10 DEF TimerInv

(* Steps that leave the Timers where they are. *)
LEMMA SameHeap ==
  ASSUME TimerInv, UNCHANGED <<heap, timers, active, batch, readTime>>
  PROVE  /\ Placed'
         /\ \A a \in Addrs : Entry(a)' = Entry(a) /\ (Live(a)' <=> Live(a))
<1>1. \A a : Entry(a)' = Entry(a) /\ (Live(a)' <=> Live(a))
  BY DEF Entry, Live
<1> QED
  BY <1>1 DEF TimerInv, Placed

LEMMA CallAdded ==
  ASSUME TimerInv, NEW r \in CallRecord, calls' = Append(calls, r)
  PROVE  /\ calls' \in Seq(CallRecord)
         /\ DOMAIN calls' = 1..Len(calls) + 1 /\ DOMAIN calls = 1..Len(calls) /\ Len(calls) \in Nat
         /\ \A i \in DOMAIN calls : i \in DOMAIN calls' /\ calls'[i] = calls[i]
         /\ calls'[Len(calls) + 1] = r
         /\ \A i \in DOMAIN calls' : i \in DOMAIN calls \/ i = Len(calls) + 1
<1>1. calls \in Seq(CallRecord)
  BY DEF TimerInv, TimerTypeOK
<1>2. /\ calls' \in Seq(CallRecord)
      /\ DOMAIN calls' = 1..Len(calls) + 1 /\ DOMAIN calls = 1..Len(calls) /\ Len(calls) \in Nat
      /\ \A i \in 1..Len(calls) : calls'[i] = calls[i]
      /\ calls'[Len(calls) + 1] = r
  BY <1>1, AppendProperties, LenProperties
<1>3. \A i \in 1..Len(calls) : i \in 1..Len(calls) + 1
  BY <1>2
<1>4. \A i \in 1..Len(calls) + 1 : i \in 1..Len(calls) \/ i = Len(calls) + 1
  BY <1>2
<1> QED
  BY <1>2, <1>3, <1>4

LEMMA AddFromThreadKeeps ==
  ASSUME TimerInv, NEW a \in Addrs, NEW when \in clock..MaxNow, NEW interval \in {0, 1},
         AddTimerFromThread(a, when, interval)
  PROVE  TimerInv'
<1> DEFINE n == NumCreated + 1
           r == [op |-> "add", addr |-> a, seq |-> n, when |-> when, interval |-> interval]
           k == Len(calls) + 1
<1>1. /\ NumCreated < MaxTimers /\ heap[a] = NoTimer /\ ids' = ids \cup {<<a, n>>}
      /\ calls' = Append(calls, r)
      /\ UNCHANGED <<clock, timers, active, heap, armed, calling, canceling, expired, batch, readTime, ran, canceled>>
      /\ TimerTypeOK /\ when \in Nat
      /\ \A i \in 1..Len(calls) : calls[i].op = "add" => calls[i].addr # a
  BY SMTT(30), TimerAssumption DEF AddTimerFromThread, Allocatable, readVars, timerHistory, TimerInv, TimerTypeOK
<1>2. /\ NumCreated \in Nat /\ n \in Seqs /\ NumCreated' = n
      /\ ids' \subseteq Addrs \X Seqs /\ IsFiniteSet(ids') /\ IdsOK'
      /\ \A s \in canceled : s # n
  BY <1>1, NewId
<1>3. ran[n] = 0
  BY <1>2 DEF TimerInv, RanOK
<1>4. \A s \in Seqs : s > n => s > NumCreated
  BY <1>2 DEF Seqs
<1>5. \A s \in canceled : s <= n
  BY <1>1, <1>2 DEF TimerInv, CanceledOK, TimerTypeOK, Seqs
<1> HIDE DEF n
<1>6. r \in CallRecord /\ r.op = "add" /\ r.addr = a /\ r.seq = n
  BY <1>1, <1>2 DEF CallRecord
<1> HIDE DEF r
<1>7. /\ calls' \in Seq(CallRecord)
      /\ DOMAIN calls = 1..Len(calls) /\ Len(calls) \in Nat
      /\ \A i \in DOMAIN calls : i \in DOMAIN calls' /\ calls'[i] = calls[i]
      /\ calls'[k] = r
      /\ \A i \in DOMAIN calls' : i \in DOMAIN calls \/ i = k
  BY <1>1, <1>6, CallAdded
<1> HIDE DEF k
<1>8. Placed' /\ \A b \in Addrs : Entry(b)' = Entry(b) /\ (Live(b)' <=> Live(b))
  BY <1>1, SameHeap
<1>9. TimerTypeOK'
  BY <1>1, <1>2, <1>7 DEF TimerTypeOK
<1>10. HeapOK' /\ BatchOK' /\ Covers'
  BY <1>1, <1>8 DEF TimerInv, HeapOK, BatchOK, Covers
<1>11. CanceledOK' /\ RanOK'
  BY <1>1, <1>2, <1>4, <1>5, <1>8 DEF TimerInv, CanceledOK, RanOK
<1>12. CallsOK'
  <2>1. ~Live(a) /\ <<a, n>> \in ids' /\ n \notin canceled
    BY <1>1, <1>2 DEF Live, NoTimer
  <2>2. \A i \in DOMAIN calls : (IsAdd(i)' <=> IsAdd(i)) /\ calls[i].addr \in Addrs
    BY <1>7, CallTypes DEF IsAdd
  <2>3. \A i \in DOMAIN calls : IsAdd(i) => calls[i].addr # a
    BY <1>1, <1>7 DEF IsAdd
  <2>4. ASSUME NEW i \in DOMAIN calls', IsAdd(i)'
        PROVE  /\ <<calls'[i].addr, calls'[i].seq>> \in ids' /\ calls'[i].addr \in Addrs
               /\ ~Live(calls'[i].addr)
               /\ ran'[calls'[i].seq] = 0 /\ calls'[i].seq \notin canceled'
    <3>1. CASE i = k
      BY <1>1, <1>3, <1>6, <1>7, <2>1, <3>1
    <3>2. CASE i \in DOMAIN calls
      <4>1. IsAdd(i) /\ calls'[i] = calls[i]
        BY <1>7, <2>2, <2>4, <3>2
      <4> QED
        BY <1>1, <2>2, <3>2, <4>1 DEF TimerInv, CallsOK
    <3> QED
      BY <1>7, <3>1, <3>2
  <2>5. \A i \in DOMAIN calls' : IsAdd(i)' => ~Live(calls[i].addr)'
    BY <1>1, <2>4 DEF Live
  <2>6. ASSUME NEW i \in DOMAIN calls', NEW j \in DOMAIN calls', IsAdd(i)', IsAdd(j)',
               calls'[i].addr = calls'[j].addr
        PROVE  i = j
    <3>1. CASE i \in DOMAIN calls /\ j \in DOMAIN calls
      BY <1>7, <2>2, <2>6, <3>1 DEF TimerInv, CallsOK
    <3>2. CASE i = k /\ j \in DOMAIN calls
      BY <1>6, <1>7, <2>2, <2>3, <2>6, <3>2
    <3>3. CASE i \in DOMAIN calls /\ j = k
      BY <1>6, <1>7, <2>2, <2>3, <2>6, <3>3
    <3> QED
      BY <1>7, <3>1, <3>2, <3>3
  <2> QED
    BY <2>4, <2>5, <2>6 DEF CallsOK
<1> QED
  BY <1>2, <1>8, <1>9, <1>10, <1>11, <1>12 DEF TimerInv

LEMMA CancelFromThreadKeeps ==
  ASSUME TimerInv, NEW a \in Addrs, NEW seq \in Seqs, CancelFromThread(a, seq) PROVE TimerInv'
<1> DEFINE r == [op |-> "cancel", addr |-> a, seq |-> seq, when |-> 0, interval |-> 0]
           k == Len(calls) + 1
<1>1. /\ calls' = Append(calls, r)
      /\ UNCHANGED <<clock, timers, active, heap, armed, calling, canceling, expired, batch, readTime, ran, canceled, ids>>
      /\ TimerTypeOK
  BY DEF CancelFromThread, queueVars, readVars, timerHistory, TimerInv
<1>2. r \in CallRecord /\ r.op = "cancel"
  BY DEF CallRecord
<1> HIDE DEF r
<1>3. /\ calls' \in Seq(CallRecord)
      /\ \A i \in DOMAIN calls : i \in DOMAIN calls' /\ calls'[i] = calls[i]
      /\ calls'[k] = r
      /\ \A i \in DOMAIN calls' : i \in DOMAIN calls \/ i = k
  BY <1>1, <1>2, CallAdded
<1> HIDE DEF k
<1>4. Placed' /\ \A b \in Addrs : Entry(b)' = Entry(b) /\ (Live(b)' <=> Live(b))
  BY <1>1, SameHeap
<1>5. TimerTypeOK'
  BY <1>1, <1>3 DEF TimerTypeOK
<1>6. HeapOK' /\ BatchOK' /\ Covers' /\ IdsOK'
  BY <1>1, <1>4 DEF TimerInv, HeapOK, BatchOK, Covers, IdsOK, NumCreated
<1>7. CanceledOK' /\ RanOK'
  BY <1>1, <1>4 DEF TimerInv, CanceledOK, RanOK, NumCreated
<1>8. CallsOK'
  <2>1. \A i \in DOMAIN calls' : IsAdd(i)' => i \in DOMAIN calls /\ IsAdd(i) /\ calls'[i] = calls[i]
    BY <1>2, <1>3 DEF IsAdd
  <2>2. \A b : Live(b)' <=> Live(b)
    BY <1>1 DEF Live
  <2> QED
    BY <1>1, <2>1, <2>2 DEF TimerInv, CallsOK
<1> QED
  BY <1>4, <1>5, <1>6, <1>7, <1>8 DEF TimerInv

(* cancelInLoop(): what it does to a queued timer, ... *)
LEMMA CancelQueuedKeeps ==
  ASSUME TimerInv, NEW a \in Addrs, NEW seq \in Seqs, <<a, seq>> \in active, CancelInLoop(a, seq),
         UNCHANGED <<clock, armed, ids, calling, expired, batch, readTime, ran>>
  PROVE  /\ heap' \in [Addrs -> TimerRecord] /\ timers' \subseteq timers /\ active' \subseteq active
         /\ canceling' = canceling /\ canceled' = canceled \cup {seq}
         /\ HeapOK' /\ Placed' /\ Covers' /\ CanceledOK' /\ RanOK'
         /\ Live(a) /\ heap[a].seq = seq
         /\ \A b \in Addrs : Live(b)' => Live(b)
         /\ \A t \in active : t \notin active' => t[2] = seq
<1>1. /\ timers' = timers \ {Entry(a)} /\ active' = active \ {<<a, seq>>}
      /\ heap' = [heap EXCEPT ![a] = NoTimer] /\ canceling' = canceling
      /\ canceled' = canceled \cup {seq}
  BY DEF CancelInLoop, Entry
<1>2. seq = heap[a].seq /\ Entry(a) \in timers /\ heap \in [Addrs -> TimerRecord]
      /\ timers \subseteq Entries /\ active \subseteq Addrs \X Seqs
  BY DEF TimerInv, Placed, TimerTypeOK
<1>3. Live(a) /\ seq # 0 /\ NoTimer \in TimerRecord /\ NoTimer.seq = 0
  BY <1>2, TimerAssumption DEF Live, Seqs, NoTimer, TimerRecord
<1>4. heap' \in [Addrs -> TimerRecord] /\ heap'[a] = NoTimer /\ \A b \in Addrs : b # a => heap'[b] = heap[b]
  BY <1>1, <1>2, <1>3
<1>5. ~Live(a)' /\ \A b \in Addrs : b # a => Entry(b)' = Entry(b) /\ (Live(b)' <=> Live(b))
  BY <1>3, <1>4 DEF Entry, Live
<1>6. \A b \in Addrs : Entry(b)[2] = b
  BY DEF Entry
<1>7. \A b \in Addrs : b # a => Entry(b) # Entry(a)
  BY DEF Entry
<1>8. \A b \in Addrs : heap[b].seq = seq => b = a
  BY <1>2, <1>3, OneNumber
<1>9. HeapOK'
  BY <1>4, <1>5 DEF TimerInv, HeapOK
<1>10. \A t \in timers' : t \in timers /\ t[2] \in Addrs /\ t[2] # a
  BY <1>1, <1>2 DEF TimerInv, Placed, Entries
<1>11. \A t \in ToSet(batch) : t[2] \in Addrs /\ t[2] # a
  <2>1. \A t \in ToSet(batch) : t \in Entries
    BY DEF TimerInv, TimerTypeOK, ToSet
  <2> QED
    BY <1>2, <2>1 DEF TimerInv, Placed, Entries
<1>12. Placed'
  <2>1. \A t \in timers' : Live(t[2])' /\ t = Entry(t[2])'
    BY <1>5, <1>10 DEF TimerInv, Placed
  <2>2. \A t \in ToSet(batch) : Live(t[2])' /\ t = Entry(t[2])' /\ t[1] <= readTime' /\ t \notin timers'
    BY <1>1, <1>5, <1>11 DEF TimerInv, Placed
  <2>3. \A b \in Addrs, s \in Seqs : <<b, s>> \in active' <=> s = heap'[b].seq /\ Entry(b)' \in timers'
    <3> SUFFICES ASSUME NEW b \in Addrs, NEW s \in Seqs
                 PROVE  <<b, s>> \in active' <=> s = heap'[b].seq /\ Entry(b)' \in timers'
      OBVIOUS
    <3>0. <<b, s>> \in active <=> s = heap[b].seq /\ Entry(b) \in timers
      BY DEF TimerInv, Placed
    <3>1. CASE b = a
      <4>1. s # heap'[a].seq
        BY <1>3, <1>4 DEF Seqs
      <4> QED
        BY <1>1, <1>2, <3>0, <3>1, <4>1
    <3>2. CASE b # a
      BY <1>1, <1>4, <1>5, <1>7, <3>0, <3>2
    <3> QED
      BY <3>1, <3>2
  <2>4. \A b \in Addrs : Live(b)' => Entry(b)' \in timers' \/ Entry(b)' \in ToSet(batch)
    BY <1>1, <1>5, <1>7 DEF TimerInv, Placed
  <2> QED
    BY <2>1, <2>2, <2>3, <2>4 DEF Placed
<1>13. Covers'
  BY <1>1 DEF TimerInv, Covers
<1>14. CanceledOK'
  <2>1. seq <= NumCreated
    BY <1>2, <1>3, OneNumber
  <2>2. \A b \in Addrs : heap'[b].seq # seq
    BY <1>3, <1>4, <1>8
  <2>3. \A s \in canceled : \A b \in Addrs : heap'[b].seq = s => b # a
    <3>1. canceled \subseteq Seqs
      BY DEF TimerInv, TimerTypeOK
    <3> QED
      BY <1>3, <1>4, <3>1 DEF Seqs
  <2> QED
    BY <1>1, <1>4, <1>5, <2>1, <2>2, <2>3 DEF TimerInv, CanceledOK, NumCreated
<1>15. RanOK'
  BY <1>4, <1>5 DEF TimerInv, RanOK, NumCreated
<1>16. \A t \in active : t \notin active' => t[2] = seq
  BY <1>1
<1> QED
  BY <1>1, <1>2, <1>3, <1>4, <1>5, <1>9, <1>12, <1>13, <1>14, <1>15, <1>16

(* ... and to any other: one that is being run is marked. *)
LEMMA CancelOtherKeeps ==
  ASSUME TimerInv, NEW a \in Addrs, NEW seq \in Seqs, <<a, seq>> \notin active, CancelInLoop(a, seq),
         UNCHANGED <<clock, armed, ids, calling, expired, batch, readTime, ran>>
  PROVE  /\ UNCHANGED <<heap, timers, active>>
         /\ canceling' \subseteq canceling \cup {<<a, seq>>}
         /\ canceled' = canceled \/ (canceled' = canceled \cup {seq} /\ Live(a) /\ heap[a].seq = seq)
         /\ HeapOK' /\ Placed' /\ Covers' /\ CanceledOK' /\ RanOK'
         /\ \A b \in Addrs : Live(b)' => Live(b)
<1>1. /\ UNCHANGED <<heap, timers, active>>
      /\ canceling' = IF calling THEN canceling \cup {<<a, seq>>} ELSE canceling
      /\ canceled' = IF calling /\ heap[a].seq = seq THEN canceled \cup {seq} ELSE canceled
  BY DEF CancelInLoop
<1>2. Placed' /\ \A b \in Addrs : Entry(b)' = Entry(b) /\ (Live(b)' <=> Live(b))
  BY <1>1, SameHeap
<1>3. seq # 0
  BY DEF Seqs
<1>4. HeapOK' /\ Covers' /\ RanOK'
  BY <1>1, <1>2 DEF TimerInv, HeapOK, Covers, RanOK, NumCreated
<1>5. CanceledOK'
  <2>1. ASSUME calling, heap[a].seq = seq
        PROVE  /\ seq <= NumCreated
               /\ \A b \in Addrs : heap[b].seq = seq => <<b, seq>> \in canceling' /\ Entry(b) \in ToSet(batch)
    <3>1. Live(a)
      BY <1>3, <2>1 DEF Live
    <3>2. Entry(a) \notin timers
      BY <2>1 DEF TimerInv, Placed
    <3>3. Entry(a) \in ToSet(batch)
      BY <3>1, <3>2 DEF TimerInv, Placed
    <3>4. seq <= NumCreated /\ \A b \in Addrs : heap[b].seq = seq => b = a
      BY <2>1, <3>1, OneNumber
    <3> QED
      BY <1>1, <2>1, <3>3, <3>4
  <2>2. \A s \in canceled' : s \in canceled \/ (s = seq /\ calling /\ heap[a].seq = seq)
    BY <1>1
  <2>3. canceling \subseteq canceling'
    BY <1>1
  <2> QED
    BY <1>1, <1>2, <2>1, <2>2, <2>3 DEF TimerInv, CanceledOK, NumCreated
<1> QED
  BY <1>1, <1>2, <1>3, <1>4, <1>5 DEF Live

(* Both. *)
LEMMA CancelInLoopKeeps ==
  ASSUME TimerInv, NEW a \in Addrs, NEW seq \in Seqs, CancelInLoop(a, seq),
         UNCHANGED <<clock, armed, ids, calling, expired, batch, readTime, ran>>
  PROVE  /\ heap' \in [Addrs -> TimerRecord] /\ timers' \subseteq Entries /\ active' \subseteq Addrs \X Seqs
         /\ canceling' \subseteq Addrs \X Seqs /\ canceled' \subseteq Seqs
         /\ IdsOK' /\ HeapOK' /\ Placed' /\ BatchOK' /\ Covers' /\ CanceledOK' /\ RanOK'
         /\ \A b \in Addrs : Live(b)' => Live(b)
         /\ \A i \in DOMAIN calls : IsAdd(i) => calls[i].seq \notin canceled'
         /\ \A t \in active : t \notin active' => t[2] \in canceled'
<1>1. /\ heap \in [Addrs -> TimerRecord] /\ timers \subseteq Entries /\ active \subseteq Addrs \X Seqs
      /\ canceling \subseteq Addrs \X Seqs /\ canceled \subseteq Seqs
  BY DEF TimerInv, TimerTypeOK
<1>2. IdsOK' /\ BatchOK'
  BY DEF TimerInv, IdsOK, BatchOK, NumCreated
<1>3. \A i \in DOMAIN calls : IsAdd(i) => calls[i].seq \notin canceled /\ (Live(a) => calls[i].seq # heap[a].seq)
  BY OneNumber DEF TimerInv, CallsOK
<1>4. CASE <<a, seq>> \in active
  <2>1. /\ heap' \in [Addrs -> TimerRecord] /\ timers' \subseteq timers /\ active' \subseteq active
        /\ canceling' = canceling /\ canceled' = canceled \cup {seq}
        /\ HeapOK' /\ Placed' /\ Covers' /\ CanceledOK' /\ RanOK'
        /\ Live(a) /\ heap[a].seq = seq
        /\ \A b \in Addrs : Live(b)' => Live(b)
        /\ \A t \in active : t \notin active' => t[2] = seq
    BY <1>4, CancelQueuedKeeps
  <2> QED
    BY <1>1, <1>2, <1>3, <2>1
<1>5. CASE <<a, seq>> \notin active
  <2>1. /\ UNCHANGED <<heap, timers, active>>
        /\ canceling' \subseteq canceling \cup {<<a, seq>>}
        /\ canceled' = canceled \/ (canceled' = canceled \cup {seq} /\ Live(a) /\ heap[a].seq = seq)
        /\ HeapOK' /\ Placed' /\ Covers' /\ CanceledOK' /\ RanOK'
        /\ \A b \in Addrs : Live(b)' => Live(b)
    BY <1>5, CancelOtherKeeps
  <2> QED
    BY <1>1, <1>2, <1>3, <2>1
<1> QED
  BY <1>4, <1>5

LEMMA CancelKeeps ==
  ASSUME TimerInv, NEW a \in Addrs, NEW seq \in Seqs, Cancel(a, seq) PROVE TimerInv'
<1>1. CancelInLoop(a, seq) /\ UNCHANGED <<clock, armed, ids, calling, expired, batch, readTime, calls, ran>>
  BY DEF Cancel
<1>2. /\ heap' \in [Addrs -> TimerRecord] /\ timers' \subseteq Entries /\ active' \subseteq Addrs \X Seqs
      /\ canceling' \subseteq Addrs \X Seqs /\ canceled' \subseteq Seqs
      /\ IdsOK' /\ HeapOK' /\ Placed' /\ BatchOK' /\ Covers' /\ CanceledOK' /\ RanOK'
      /\ \A b \in Addrs : Live(b)' => Live(b)
      /\ \A i \in DOMAIN calls : IsAdd(i) => calls[i].seq \notin canceled'
  BY <1>1, CancelInLoopKeeps
<1>3. TimerTypeOK'
  BY <1>1, <1>2 DEF TimerInv, TimerTypeOK
<1>4. CallsOK'
  <2>1. \A i \in DOMAIN calls : (IsAdd(i)' <=> IsAdd(i)) /\ calls[i].addr \in Addrs
    BY <1>1, CallTypes DEF IsAdd
  <2>2. CallsOK
    BY DEF TimerInv
  <2>3. \A i \in DOMAIN calls' : IsAdd(i)' => ~Live(calls[i].addr)'
    <3> SUFFICES ASSUME NEW i \in DOMAIN calls, IsAdd(i) PROVE ~Live(calls[i].addr)'
      BY <1>1, <2>1
    <3>1. calls'[i].addr = calls[i].addr /\ ~Live(calls[i].addr) /\ calls[i].addr \in Addrs
      BY <1>1, <2>1, <2>2 DEF CallsOK
    <3> QED
      BY <1>2, <3>1 DEF Live
  <2> QED
    BY <1>1, <1>2, <2>1, <2>2, <2>3 DEF CallsOK
<1> QED
  BY <1>2, <1>3, <1>4 DEF TimerInv

(* The functor at the head leaves the queue. *)
LEMMA CallTaken ==
  ASSUME TimerInv, calls # <<>>, calls' = Tail(calls)
  PROVE  /\ calls' \in Seq(CallRecord) /\ 1 \in DOMAIN calls /\ Head(calls) = calls[1]
         /\ \A i \in DOMAIN calls' : i + 1 \in DOMAIN calls /\ i + 1 # 1 /\ calls'[i] = calls[i + 1]
                                     /\ (IsAdd(i)' <=> IsAdd(i + 1))
         /\ \A i, j \in DOMAIN calls' : i + 1 = j + 1 => i = j
<1>1. calls \in Seq(CallRecord)
  BY DEF TimerInv, TimerTypeOK
<1>2. /\ Tail(calls) \in Seq(CallRecord) /\ Len(calls) \in Nat /\ Len(calls) >= 1 /\ Head(calls) = calls[1]
      /\ DOMAIN calls = 1..Len(calls) /\ DOMAIN Tail(calls) = 1..Len(calls) - 1
      /\ \A i \in 1..Len(calls) - 1 : Tail(calls)[i] = calls[i + 1]
  BY <1>1, HeadTailProperties, LenProperties, EmptySeq
<1>3. \A i \in 1..Len(calls) - 1 : i + 1 \in 1..Len(calls) /\ i + 1 # 1
  BY <1>2
<1>4. \A i, j \in 1..Len(calls) - 1 : i + 1 = j + 1 => i = j
  OBVIOUS
<1>5. 1 \in 1..Len(calls)
  BY <1>2
<1>6. \A i \in DOMAIN calls' : IsAdd(i)' <=> IsAdd(i + 1)
  BY <1>2, <1>3 DEF IsAdd
<1> QED
  BY <1>2, <1>3, <1>4, <1>5, <1>6

LEMMA RunCallKeeps == ASSUME TimerInv, RunCall PROVE TimerInv'
<1> DEFINE c == calls[1]
<1>1. /\ ~calling /\ calls # <<>> /\ calls' = Tail(calls)
      /\ UNCHANGED <<clock, ids, calling, expired, batch, readTime, ran>>
  BY DEF RunCall
<1>2. /\ calls' \in Seq(CallRecord) /\ 1 \in DOMAIN calls /\ Head(calls) = c
      /\ \A i \in DOMAIN calls' : i + 1 \in DOMAIN calls /\ i + 1 # 1 /\ calls'[i] = calls[i + 1]
                                  /\ (IsAdd(i)' <=> IsAdd(i + 1))
      /\ \A i, j \in DOMAIN calls' : i + 1 = j + 1 => i = j
  BY <1>1, CallTaken
<1>3. \A i \in DOMAIN calls : /\ calls[i].addr \in Addrs /\ calls[i].seq \in Seqs
                              /\ calls[i].when \in Nat /\ calls[i].interval \in {0, 1}
  BY CallTypes
<1>4. CallsOK
  BY DEF TimerInv
<1>5. IdsOK' /\ BatchOK'
  BY <1>1 DEF TimerInv, IdsOK, BatchOK, NumCreated
<1>6. CASE c.op = "add" /\ AddTimerInLoop(c.addr, c.when, c.interval, c.seq) /\ UNCHANGED <<canceling, canceled>>
  <2>0. PICK a \in Addrs, n \in Seqs : a = c.addr /\ n = c.seq
    BY <1>2, <1>3
  <2>1. PICK w \in Nat, v \in {0, 1} : w = c.when /\ v = c.interval
    BY <1>2, <1>3
  <2>2. AddTimerInLoop(a, w, v, n)
    BY <1>6, <2>0, <2>1
  <2>3. IsAdd(1) /\ <<a, n>> \in ids /\ ~Live(a) /\ ran[n] = 0 /\ n \notin canceled
    <3>1. IsAdd(1)
      BY <1>2, <1>6 DEF IsAdd
    <3> QED
      BY <1>2, <1>4, <2>0, <3>1 DEF CallsOK
  <2>4. /\ heap' \in [Addrs -> TimerRecord] /\ timers' \subseteq Entries
        /\ active' \subseteq Addrs \X Seqs /\ armed' \in Int
        /\ Placed' /\ Covers'
        /\ \A b \in Addrs : b # a => heap'[b] = heap[b] /\ Entry(b)' = Entry(b) /\ (Live(b)' <=> Live(b))
        /\ Live(a)' /\ heap'[a].seq = n
    BY <1>1, <2>2, <2>3, AddKeeps
  <2>5. TimerTypeOK'
    BY <1>1, <1>2, <1>6, <2>4 DEF TimerInv, TimerTypeOK
  <2>6. HeapOK'
    <3> SUFFICES ASSUME NEW b \in Addrs
                 PROVE  IF Live(b)' THEN <<b, heap'[b].seq>> \in ids' ELSE heap'[b] = NoTimer
      BY DEF HeapOK
    <3>1. CASE b = a
      BY <1>1, <2>3, <2>4, <3>1
    <3>2. CASE b # a
      BY <1>1, <2>4, <3>2 DEF TimerInv, HeapOK
    <3> QED
      BY <3>1, <3>2
  <2>7. CanceledOK'
    BY <1>1, <1>6, <2>3, <2>4 DEF TimerInv, CanceledOK, NumCreated
  <2>8. RanOK'
    BY <1>1, <2>3, <2>4 DEF TimerInv, RanOK, NumCreated
  <2>9. CallsOK'
    <3>1. \A i \in DOMAIN calls : IsAdd(i) /\ i # 1 => calls[i].addr # a
      BY <1>2, <1>4, <2>0, <2>3 DEF CallsOK
    <3>2. ASSUME NEW i \in DOMAIN calls', IsAdd(i)'
          PROVE  /\ <<calls'[i].addr, calls'[i].seq>> \in ids' /\ ~Live(calls[i].addr)'
                 /\ ran'[calls'[i].seq] = 0 /\ calls'[i].seq \notin canceled'
      <4>1. calls'[i] = calls[i + 1] /\ IsAdd(i + 1) /\ i + 1 \in DOMAIN calls /\ i + 1 # 1
        BY <1>2, <3>2
      <4>2. PICK j \in DOMAIN calls : j = i + 1
        BY <4>1
      <4>3. /\ calls'[i].addr \in Addrs /\ calls'[i].addr # a
            /\ <<calls'[i].addr, calls'[i].seq>> \in ids /\ ~Live(calls[j].addr)
            /\ ran[calls'[i].seq] = 0 /\ calls'[i].seq \notin canceled
        BY <1>3, <1>4, <3>1, <4>1, <4>2 DEF CallsOK
      <4>4. PICK b \in Addrs : b = calls'[i].addr /\ b = calls[j].addr
        BY <4>1, <4>2, <4>3
      <4>5. ~Live(b)'
        BY <2>4, <4>3, <4>4
      <4>6. ~Live(calls[i].addr)'
        BY <4>4, <4>5 DEF Live
      <4> QED
        BY <1>1, <1>6, <4>3, <4>6
    <3>3. ASSUME NEW i \in DOMAIN calls', NEW j \in DOMAIN calls', IsAdd(i)', IsAdd(j)',
                 calls'[i].addr = calls'[j].addr
          PROVE  i = j
      <4>1. i + 1 = j + 1
        BY <1>2, <1>4, <3>3 DEF CallsOK
      <4> QED
        BY <1>2, <4>1
    <3> QED
      BY <3>2, <3>3 DEF CallsOK
  <2> QED
    BY <1>5, <2>4, <2>5, <2>6, <2>7, <2>8, <2>9 DEF TimerInv
<1>7. CASE CancelInLoop(c.addr, c.seq) /\ UNCHANGED armed
  <2>0. PICK a \in Addrs, n \in Seqs : a = c.addr /\ n = c.seq
    BY <1>2, <1>3
  <2>1. CancelInLoop(a, n)
    BY <1>7, <2>0
  <2>2. /\ heap' \in [Addrs -> TimerRecord] /\ timers' \subseteq Entries /\ active' \subseteq Addrs \X Seqs
        /\ canceling' \subseteq Addrs \X Seqs /\ canceled' \subseteq Seqs
        /\ HeapOK' /\ Placed' /\ Covers' /\ CanceledOK' /\ RanOK'
        /\ \A b \in Addrs : Live(b)' => Live(b)
        /\ \A i \in DOMAIN calls : IsAdd(i) => calls[i].seq \notin canceled'
    BY <1>1, <1>7, <2>1, CancelInLoopKeeps
  <2>3. TimerTypeOK'
    BY <1>1, <1>2, <1>7, <2>2 DEF TimerInv, TimerTypeOK
  <2>4. CallsOK'
    <3>2. ASSUME NEW i \in DOMAIN calls', IsAdd(i)'
          PROVE  /\ <<calls'[i].addr, calls'[i].seq>> \in ids' /\ ~Live(calls[i].addr)'
                 /\ ran'[calls'[i].seq] = 0 /\ calls'[i].seq \notin canceled'
      <4>1. calls'[i] = calls[i + 1] /\ IsAdd(i + 1) /\ i + 1 \in DOMAIN calls
        BY <1>2, <3>2
      <4>2. PICK j \in DOMAIN calls : j = i + 1
        BY <4>1
      <4>3. /\ calls'[i].addr \in Addrs
            /\ <<calls'[i].addr, calls'[i].seq>> \in ids /\ ~Live(calls[j].addr)
            /\ ran[calls'[i].seq] = 0 /\ calls'[i].seq \notin canceled'
        BY <1>3, <1>4, <2>2, <4>1, <4>2 DEF CallsOK
      <4>4. PICK b \in Addrs : b = calls'[i].addr /\ b = calls[j].addr
        BY <4>1, <4>2, <4>3
      <4>5. ~Live(b)'
        BY <2>2, <4>3, <4>4
      <4>6. ~Live(calls[i].addr)'
        BY <4>4, <4>5 DEF Live
      <4> QED
        BY <1>1, <4>3, <4>6
    <3>3. ASSUME NEW i \in DOMAIN calls', NEW j \in DOMAIN calls', IsAdd(i)', IsAdd(j)',
                 calls'[i].addr = calls'[j].addr
          PROVE  i = j
      <4>1. i + 1 = j + 1
        BY <1>2, <1>4, <3>3 DEF CallsOK
      <4> QED
        BY <1>2, <4>1
    <3> QED
      BY <3>2, <3>3 DEF CallsOK
  <2> QED
    BY <1>5, <2>2, <2>3, <2>4 DEF TimerInv
<1> QED
  BY <1>2, <1>6, <1>7 DEF RunCall

-----------------------------------------------------------------------------
(* handleRead() *)

(* Each timer in the set has a number of its own. *)
LEMMA TimersFinite == ASSUME TimerInv PROVE IsFiniteSet(timers)
<1>1. \A t \in timers : t[2] \in Addrs /\ Live(t[2]) /\ t = Entry(t[2])
  BY DEF TimerInv, TimerTypeOK, Placed, Entries
<1> DEFINE f == [t \in timers |-> heap[t[2]].seq]
<1>2. f \in [timers -> Seqs]
  BY <1>1, OneNumber
<1>3. ASSUME NEW t \in timers, NEW u \in timers, f[t] = f[u] PROVE t = u
  <2>1. heap[t[2]].seq = heap[u[2]].seq
    BY <1>3
  <2>2. t[2] = u[2]
    BY <1>1, <2>1, OneNumber
  <2> QED
    BY <1>1, <2>2
<1>4. f \in Injection(timers, Seqs)
  BY <1>2, <1>3 DEF Injection, IsInjective
<1>5. IsFiniteSet(Seqs)
  BY TimerAssumption, FS_Interval DEF Seqs
<1> QED
  BY <1>4, <1>5, FS_Injection

LEMMA HandleTimerfdKeeps == ASSUME TimerInv, HandleTimerfd PROVE TimerInv'
<1>1. /\ ~calling /\ calling' = TRUE /\ readTime' = clock /\ armed' = Never
      /\ timers' = timers \ Due(clock) /\ canceling' = {}
      /\ active' = {t \in active : \A d \in Due(clock) : t[1] # d[2]}
      /\ UNCHANGED <<clock, heap, ids, calls, ran, canceled>>
      /\ TimerTypeOK
  BY DEF HandleTimerfd, timerHistory, TimerInv
<1>2. PICK s \in [1..Cardinality(Due(clock)) -> Due(clock)] :
        Ordered(Due(clock), s) /\ expired' = s /\ batch' = s
  BY DEF HandleTimerfd
<1>3. batch = <<>> /\ expired = <<>> /\ ToSet(batch) = {}
  BY <1>1 DEF TimerInv, BatchOK, ToSet
<1>4. /\ \A d \in Due(clock) : d \in timers /\ d[1] <= clock /\ d \in Entries /\ d[2] \in Addrs /\ d[1] \in Nat
      /\ \A t \in timers : t \in Entries /\ t[1] \in Nat /\ t[2] \in Addrs
  BY <1>1 DEF Due, TimerTypeOK, Entries
<1>5. ToSet(batch') = Due(clock) /\ ToSet(expired') = Due(clock)
  BY <1>2 DEF Ordered
<1>6. \A b \in Addrs : Entry(b)' = Entry(b) /\ (Live(b)' <=> Live(b)) /\ Entry(b)[2] = b
  BY <1>1 DEF Entry, Live
<1>7. s \in Seq(Entries)
  <2>1. Due(clock) \in SUBSET timers
    BY <1>4
  <2>2. IsFiniteSet(Due(clock))
    BY <2>1, TimersFinite, FS_Subset
  <2>3. Cardinality(Due(clock)) \in Nat
    BY <2>2, FS_CardinalityType
  <2>4. s \in [1..Cardinality(Due(clock)) -> Entries]
    BY <1>4
  <2> QED
    BY <2>3, <2>4, SeqDef
<1>8. TimerTypeOK'
  <2>1. armed' \in Int
    BY <1>1, TimerAssumption DEF Never
  <2>2. readTime' \in Nat /\ readTime' <= clock'
    BY <1>1 DEF TimerTypeOK
  <2> QED
    BY <1>1, <1>2, <1>7, <2>1, <2>2 DEF TimerTypeOK
<1>9. IdsOK' /\ HeapOK'
  BY <1>1, <1>6 DEF TimerInv, IdsOK, HeapOK, NumCreated
<1>10. \A t \in timers : Live(t[2]) /\ t = Entry(t[2])
  BY DEF TimerInv, Placed
<1>11. Placed'
  <2>1. \A t \in timers' : Live(t[2])' /\ t = Entry(t[2])'
    BY <1>1, <1>4, <1>6, <1>10
  <2>2. \A t \in ToSet(batch') : Live(t[2])' /\ t = Entry(t[2])' /\ t[1] <= readTime' /\ t \notin timers'
    BY <1>1, <1>4, <1>5, <1>6, <1>10
  <2>3. \A b \in Addrs, n \in Seqs : <<b, n>> \in active' <=> n = heap'[b].seq /\ Entry(b)' \in timers'
    <3> SUFFICES ASSUME NEW b \in Addrs, NEW n \in Seqs
                 PROVE  <<b, n>> \in active' <=> n = heap'[b].seq /\ Entry(b)' \in timers'
      OBVIOUS
    <3>0. <<b, n>> \in active <=> n = heap[b].seq /\ Entry(b) \in timers
      BY DEF TimerInv, Placed
    <3>1. (\A d \in Due(clock) : b # d[2]) <=> Entry(b) \notin Due(clock)
      BY <1>4, <1>6, <1>10
    <3>2. <<b, n>> \in active' <=> <<b, n>> \in active /\ \A d \in Due(clock) : b # d[2]
      BY <1>1
    <3> QED
      BY <1>1, <1>6, <3>0, <3>1, <3>2
  <2>4. \A b \in Addrs : Live(b)' => Entry(b)' \in timers' \/ Entry(b)' \in ToSet(batch')
    BY <1>1, <1>3, <1>5, <1>6 DEF TimerInv, Placed
  <2> QED
    BY <2>1, <2>2, <2>3, <2>4 DEF Placed
<1>12. BatchOK'
  <2>1. ASSUME NEW i \in DOMAIN s, NEW j \in DOMAIN s, s[i] = s[j] PROVE i = j
    <3>1. s[i] \in Due(clock) /\ s[i][1] \in Nat /\ s[i][2] \in Nat /\ i \in Int /\ j \in Int
      <4>1. i \in 1..Cardinality(Due(clock)) /\ j \in 1..Cardinality(Due(clock))
        BY <1>2
      <4>2. s[i] \in Due(clock)
        BY <1>2, <4>1
      <4>3. s[i][2] \in Addrs /\ s[i][1] \in Nat
        BY <1>4, <4>2
      <4>4. i \in Int /\ j \in Int
        BY <4>1
      <4> QED
        BY <4>2, <4>3, <4>4, TimerAssumption
    <3>2. ~Before(s[i], s[j]) /\ ~Before(s[j], s[i])
      BY <2>1, <3>1 DEF Before
    <3>3. ~(i < j) /\ ~(j < i)
      BY <1>2, <3>2 DEF Ordered
    <3> QED
      BY <3>1, <3>3
  <2> QED
    BY <1>1, <1>2, <1>5, <2>1 DEF BatchOK
<1>13. CallsOK'
  <2>1. \A i \in DOMAIN calls : (IsAdd(i)' <=> IsAdd(i))
    BY <1>1 DEF IsAdd
  <2>2. \A b : Live(b)' <=> Live(b)
    BY <1>1 DEF Live
  <2> QED
    BY <1>1, <2>1, <2>2 DEF TimerInv, CallsOK
<1>14. Covers'
  BY <1>1 DEF Covers
<1>15. CanceledOK' /\ RanOK'
  BY <1>1, <1>6 DEF TimerInv, CanceledOK, RanOK, NumCreated
<1> QED
  BY <1>8, <1>9, <1>11, <1>12, <1>13, <1>14, <1>15 DEF TimerInv

(* The timer that runs: it is due, and without an interval it runs for the *)
(* first time.                                                             *)
LEMMA RunningIsDue ==
  ASSUME TimerInv, calling, expired # <<>>
  PROVE  /\ Head(expired) \in ToSet(expired) /\ Head(expired)[2] \in Addrs
         /\ Live(Head(expired)[2]) /\ Head(expired) = Entry(Head(expired)[2])
         /\ Head(expired) \in ToSet(batch)
         /\ heap[Head(expired)[2]].seq \in Seqs
         /\ heap[Head(expired)[2]].expiration <= clock
         /\ heap[Head(expired)[2]].interval = 0 => ran[heap[Head(expired)[2]].seq] = 0
<1> DEFINE h == Head(expired)
<1>1. expired \in Seq(Entries) /\ readTime \in Nat /\ clock \in Nat /\ readTime <= clock
      /\ heap \in [Addrs -> TimerRecord]
  BY DEF TimerInv, TimerTypeOK
<1>2. h \in Entries /\ h = expired[1] /\ 1 \in DOMAIN expired
  <2>1. Len(expired) \in Nat /\ Len(expired) # 0 /\ DOMAIN expired = 1..Len(expired) /\ h \in Entries /\ h = expired[1]
    BY <1>1, HeadTailProperties, LenProperties, EmptySeq
  <2> QED
    BY <2>1
<1>3. h \in ToSet(expired) /\ h[2] \in Addrs
  BY <1>2 DEF ToSet, Entries
<1>4. h \in ToSet(batch)
  BY <1>3 DEF TimerInv, BatchOK
<1>5. Live(h[2]) /\ h = Entry(h[2]) /\ h[1] <= readTime
  BY <1>4 DEF TimerInv, Placed
<1> HIDE DEF h
<1>6. heap[h[2]].expiration = h[1] /\ h[1] \in Nat
  BY <1>2, <1>5 DEF Entry, Entries
<1>7. heap[h[2]].expiration <= clock
  BY <1>1, <1>5, <1>6
<1>8. heap[h[2]].interval = 0 => ran[heap[h[2]].seq] = 0
  BY <1>3, <1>5 DEF TimerInv, RanOK
<1>9. heap[h[2]].seq \in Seqs
  BY <1>3, <1>5, OneNumber
<1> QED
  BY <1>3, <1>4, <1>5, <1>7, <1>8, <1>9 DEF h

LEMMA RunTimerKeeps == ASSUME TimerInv, RunTimer PROVE TimerInv'
<1>1. /\ calling /\ expired # <<>> /\ expired' = Tail(expired)
      /\ UNCHANGED <<clock, timers, active, heap, armed, ids, calling, canceling, batch, readTime, calls, canceled>>
      /\ TimerTypeOK
  BY DEF RunTimer, queueVars, TimerInv
<1>2. PICK h \in Entries : h = Head(expired)
  BY <1>1, HeadTailProperties DEF TimerTypeOK
<1>3. PICK a \in Addrs : a = h[2]
  BY <1>2 DEF Entries
<1>4. h \in ToSet(expired) /\ Live(a) /\ h = Entry(a) /\ h \in ToSet(batch) /\ heap[a].seq \in Seqs
  BY <1>1, <1>2, <1>3, RunningIsDue
<1>5. PICK n \in Seqs : n = heap[a].seq
  BY <1>4
<1>6. ran' = [ran EXCEPT ![n] = @ + 1] /\ ran \in [Seqs -> Nat]
  BY <1>1, <1>2, <1>3, <1>5 DEF RunTimer, TimerTypeOK
<1>7. ran' \in [Seqs -> Nat] /\ \A m \in Seqs : m # n => ran'[m] = ran[m]
  BY <1>6
<1>8. /\ expired' \in Seq(Entries)
      /\ \A t \in ToSet(expired') : t \in ToSet(expired) /\ t # h
      /\ \A i, j \in DOMAIN expired' : expired'[i] = expired'[j] => i = j
  <2>1. /\ Tail(expired) \in Seq(Entries) /\ Len(expired) \in Nat /\ Len(expired) >= 1 /\ h = expired[1]
        /\ DOMAIN expired = 1..Len(expired) /\ DOMAIN Tail(expired) = 1..Len(expired) - 1
        /\ \A i \in 1..Len(expired) - 1 : Tail(expired)[i] = expired[i + 1]
    BY <1>1, <1>2, HeadTailProperties, LenProperties, EmptySeq DEF TimerTypeOK
  <2>2. \A i \in 1..Len(expired) - 1 : i + 1 \in 1..Len(expired) /\ i + 1 # 1
    BY <2>1
  <2>3. \A i, j \in 1..Len(expired) - 1 : i + 1 = j + 1 => i = j
    OBVIOUS
  <2>4. \A i, j \in DOMAIN expired : expired[i] = expired[j] => i = j
    BY DEF TimerInv, BatchOK
  <2>5. 1 \in 1..Len(expired)
    BY <2>1
  <2> QED
    BY <1>1, <2>1, <2>2, <2>3, <2>4, <2>5 DEF ToSet
<1>9. TimerTypeOK'
  BY <1>1, <1>7, <1>8 DEF TimerTypeOK
<1>10. Placed' /\ \A b \in Addrs : Entry(b)' = Entry(b) /\ (Live(b)' <=> Live(b))
  BY <1>1, SameHeap
<1>11. IdsOK' /\ HeapOK' /\ Covers'
  BY <1>1, <1>10 DEF TimerInv, IdsOK, HeapOK, Covers, NumCreated
<1>12. BatchOK'
  BY <1>1, <1>8 DEF TimerInv, BatchOK
<1>13. CallsOK'
  <2>1. \A i \in DOMAIN calls : (IsAdd(i)' <=> IsAdd(i)) /\ calls[i].seq \in Seqs
    BY <1>1, CallTypes DEF IsAdd
  <2>2. \A b : Live(b)' <=> Live(b)
    BY <1>1 DEF Live
  <2>3. \A i \in DOMAIN calls : IsAdd(i) => calls[i].seq # n
    BY <1>4, <1>5, OneNumber
  <2>4. \A i \in DOMAIN calls : IsAdd(i) => ran'[calls[i].seq] = 0
    BY <1>7, <2>1, <2>3 DEF TimerInv, CallsOK
  <2> QED
    BY <1>1, <2>1, <2>2, <2>4 DEF TimerInv, CallsOK
<1>14. CanceledOK'
  BY <1>1, <1>10 DEF TimerInv, CanceledOK, NumCreated
<1>15. RanOK'
  <2>0. NumCreated' = NumCreated /\ NumCreated \in Nat
    BY <1>1, FS_CardinalityType DEF NumCreated, TimerTypeOK
  <2>1. \A m \in Seqs : m > NumCreated' => ran'[m] = 0
    <3>1. n <= NumCreated
      BY <1>4, <1>5, OneNumber
    <3>2. \A m \in Seqs : m > NumCreated => m # n
      BY <2>0, <3>1 DEF Seqs
    <3> QED
      BY <1>7, <2>0, <3>2 DEF TimerInv, RanOK
  <2>2. ASSUME NEW b \in Addrs, Live(b), heap[b].interval = 0, ran'[heap[b].seq] # 0
        PROVE  Entry(b) \in ToSet(batch) /\ Entry(b) \notin ToSet(expired')
    <3>1. CASE b = a
      BY <1>4, <1>8, <3>1
    <3>2. CASE b # a
      <4>1. heap[b].seq \in Seqs /\ heap[b].seq # n
        BY <1>4, <1>5, <2>2, <3>2, OneNumber
      <4>2. ran[heap[b].seq] # 0
        BY <1>7, <2>2, <4>1
      <4> QED
        BY <1>8, <2>2, <4>2 DEF TimerInv, RanOK
    <3> QED
      BY <3>1, <3>2
  <2> QED
    BY <1>1, <1>10, <2>1, <2>2 DEF RanOK
<1> QED
  BY <1>9, <1>10, <1>11, <1>12, <1>13, <1>14, <1>15 DEF TimerInv

(* reset(): what becomes of each Timer. *)
LEMMA ResetKeeps == ASSUME TimerInv, Reset PROVE TimerInv'
<1> DEFINE InBatch(b) == Entry(b) \in ToSet(batch)
           Goes(b) == InBatch(b) /\ heap[b].interval > 0 /\ <<b, heap[b].seq>> \notin canceling
<1>1. /\ calling /\ expired = <<>> /\ calling' = FALSE /\ batch' = <<>>
      /\ UNCHANGED <<clock, ids, canceling, expired, readTime, calls, ran, canceled>>
      /\ TimerTypeOK /\ heap \in [Addrs -> TimerRecord] /\ readTime \in Nat
  BY DEF Reset, timerHistory, TimerInv, TimerTypeOK
<1>2. \A t \in ToSet(batch) : t \in Entries /\ t[2] \in Addrs /\ t = Entry(t[2]) /\ Live(t[2]) /\ t \notin timers
  <2>1. \A t \in ToSet(batch) : t \in Entries
    BY <1>1 DEF TimerTypeOK, ToSet
  <2> QED
    BY <2>1 DEF TimerInv, Placed, Entries
<1>3. \A b \in Addrs : Entry(b)[2] = b
  BY DEF Entry
<1>4. ASSUME NEW b \in Addrs
      PROVE  /\ (\E t \in Restarted : t[2] = b) <=> Goes(b)
             /\ (\E t \in ToSet(batch) : t[2] = b) <=> InBatch(b)
  <2>1. (\E t \in ToSet(batch) : t[2] = b) <=> InBatch(b)
    BY <1>2, <1>3
  <2>2. ASSUME NEW t \in Restarted, t[2] = b PROVE Goes(b)
    BY <1>2, <2>2 DEF Restarted, Again
  <2>3. ASSUME Goes(b) PROVE Entry(b) \in Restarted
    BY <1>3, <2>3 DEF Restarted, Again
  <2> QED
    BY <1>3, <2>1, <2>2, <2>3
<1>5. heap' = [b \in Addrs |-> IF Goes(b) THEN [heap[b] EXCEPT !.expiration = readTime + heap[b].interval]
                               ELSE IF InBatch(b) THEN NoTimer ELSE heap[b]]
  BY <1>4 DEF Reset
<1>6. ASSUME NEW b \in Addrs
      PROVE  /\ heap'[b] \in TimerRecord
             /\ Goes(b) => Live(b) /\ Live(b)' /\ heap'[b].seq = heap[b].seq /\ heap'[b].interval > 0
             /\ InBatch(b) /\ ~Goes(b) => heap'[b] = NoTimer /\ ~Live(b)' /\ heap'[b].seq = 0
             /\ ~InBatch(b) => heap'[b] = heap[b] /\ Entry(b)' = Entry(b) /\ (Live(b)' <=> Live(b))
  <2>1. heap[b] \in TimerRecord /\ heap[b].interval \in Nat
    BY <1>1 DEF TimerRecord
  <2>2. CASE Goes(b)
    <3>1. Live(b)
      BY <1>2, <1>3, <2>2
    <3> DEFINE r == [heap[b] EXCEPT !.expiration = readTime + heap[b].interval]
    <3>2. readTime + heap[b].interval \in Nat
      BY <1>1, <2>1
    <3>3. r \in TimerRecord /\ r.seq = heap[b].seq /\ r.interval = heap[b].interval
      BY <2>1, <3>2 DEF TimerRecord
    <3>4. heap'[b] = r
      BY <1>5, <2>2
    <3> HIDE DEF r
    <3>5. Live(b)'
      BY <3>1, <3>3, <3>4 DEF Live
    <3> QED
      BY <2>2, <3>1, <3>3, <3>4, <3>5
  <2>3. CASE InBatch(b) /\ ~Goes(b)
    <3>1. heap'[b] = NoTimer
      BY <1>5, <2>3
    <3>2. NoTimer \in TimerRecord /\ NoTimer.seq = 0
      BY TimerAssumption DEF NoTimer, TimerRecord
    <3> QED
      BY <2>3, <3>1, <3>2 DEF Live
  <2>4. CASE ~InBatch(b)
    <3>1. heap'[b] = heap[b]
      BY <1>5, <2>4
    <3> QED
      BY <2>1, <2>4, <3>1 DEF Live, Entry
  <2> QED
    BY <2>2, <2>3, <2>4
<1>7. heap' \in [Addrs -> TimerRecord]
  BY <1>5, <1>6
<1>8. \A t : t \in timers' <=> t \in timers \/ \E b \in Addrs : Goes(b) /\ t = Entry(b)'
  <2>1. timers' = timers \cup {<<heap'[t[2]].expiration, t[2]>> : t \in Restarted}
    BY DEF Reset
  <2>2. \A t \in Restarted : t[2] \in Addrs
    BY <1>2 DEF Restarted
  <2>3. \A b \in Addrs : <<heap'[b].expiration, b>> = Entry(b)'
    BY DEF Entry
  <2> QED
    BY <1>4, <2>1, <2>2, <2>3
<1>9. \A b \in Addrs, n \in Seqs : <<b, n>> \in active' <=> <<b, n>> \in active \/ (Goes(b) /\ n = heap[b].seq)
  <2>1. active' = active \cup {<<t[2], heap[t[2]].seq>> : t \in Restarted}
    BY DEF Reset
  <2>2. \A t \in Restarted : t[2] \in Addrs
    BY <1>2 DEF Restarted
  <2> QED
    BY <1>4, <2>1, <2>2
<1>10. active' \subseteq Addrs \X Seqs
  <2>1. active' = active \cup {<<t[2], heap[t[2]].seq>> : t \in Restarted}
    BY DEF Reset
  <2>2. \A t \in Restarted : t[2] \in Addrs /\ heap[t[2]].seq \in Seqs
    BY <1>2, OneNumber DEF Restarted
  <2> QED
    BY <1>1, <2>1, <2>2 DEF TimerTypeOK
<1> HIDE DEF InBatch, Goes
<1>11. \A b \in Addrs : Goes(b) => InBatch(b)
  BY DEF Goes, InBatch
<1>12. \A t \in timers : t \in Entries /\ t[2] \in Addrs /\ Live(t[2]) /\ t = Entry(t[2]) /\ ~InBatch(t[2])
  BY <1>1, <1>2 DEF TimerInv, TimerTypeOK, Placed, Entries, InBatch
<1>13. \A b \in Addrs : Entry(b)' \in Entries /\ Entry(b)'[2] = b
  <2> SUFFICES ASSUME NEW b \in Addrs PROVE Entry(b)' \in Entries /\ Entry(b)'[2] = b
    OBVIOUS
  <2>1. heap'[b].expiration \in Nat
    BY <1>6 DEF TimerRecord
  <2> QED
    BY <2>1 DEF Entry, Entries
<1>14. timers' \subseteq Entries
  BY <1>8, <1>12, <1>13
<1>15. armed' \in Int /\ \A t \in timers' : armed' <= t[1] \/ armed' <= clock
  <2>1. armed' = IF timers' = {} THEN armed ELSE ArmFor(Earliest(timers')[1])
    BY DEF Reset
  <2>2. CASE timers' = {}
    BY <1>1, <2>1, <2>2 DEF TimerTypeOK
  <2>3. CASE timers' # {}
    <3>1. Earliest(timers') \in timers' /\ \A u \in timers' : Earliest(timers')[1] <= u[1]
      BY <1>14, <2>3, EarliestExists
    <3>2. Earliest(timers')[1] \in Nat /\ clock \in Nat /\ \A u \in timers' : u[1] \in Nat
      BY <1>1, <1>14, <3>1 DEF TimerTypeOK, Entries
    <3>3. armed' = ArmFor(Earliest(timers')[1])
      BY <2>1, <2>3
    <3> QED
      BY <3>1, <3>2, <3>3 DEF ArmFor
  <2> QED
    BY <2>2, <2>3
<1>16. TimerTypeOK'
  <2>1. <<>> \in Seq(Entries)
    BY EmptySeq
  <2> QED
    BY <1>1, <1>7, <1>10, <1>14, <1>15, <2>1 DEF TimerTypeOK
<1>17. IdsOK'
  BY <1>1 DEF TimerInv, IdsOK, NumCreated
<1>18. HeapOK'
  <2> SUFFICES ASSUME NEW b \in Addrs
               PROVE  IF Live(b)' THEN <<b, heap'[b].seq>> \in ids' ELSE heap'[b] = NoTimer
    BY DEF HeapOK
  <2>1. IF Live(b) THEN <<b, heap[b].seq>> \in ids ELSE heap[b] = NoTimer
    BY DEF TimerInv, HeapOK
  <2> QED
    BY <1>1, <1>6, <1>11, <2>1
<1>19. ToSet(batch') = {} /\ ToSet(expired') = {} /\ DOMAIN expired' = {}
  BY <1>1 DEF ToSet
<1>20. Placed'
  <2>1. \A t \in timers' : Live(t[2])' /\ t = Entry(t[2])'
    <3> SUFFICES ASSUME NEW t \in timers' PROVE Live(t[2])' /\ t = Entry(t[2])'
      OBVIOUS
    <3>1. CASE t \in timers
      BY <1>6, <1>12, <3>1
    <3>2. ASSUME NEW b \in Addrs, Goes(b), t = Entry(b)' PROVE Live(t[2])' /\ t = Entry(t[2])'
      <4>1. t[2] = b /\ Live(b)'
        BY <1>6, <1>13, <3>2
      <4> QED
        BY <3>2, <4>1
    <3> QED
      BY <1>8, <3>1, <3>2
  <2>2. ASSUME NEW b \in Addrs, NEW n \in Seqs
        PROVE  <<b, n>> \in active' <=> n = heap'[b].seq /\ Entry(b)' \in timers'
    <3>0. <<b, n>> \in active <=> n = heap[b].seq /\ Entry(b) \in timers
      BY DEF TimerInv, Placed
    <3>1. Entry(b) \in timers => ~InBatch(b)
      BY <1>3, <1>12
    <3>2. CASE Goes(b)
      <4>1. Entry(b)' \in timers'
        BY <1>8, <3>2
      <4>2. <<b, n>> \in active' <=> n = heap[b].seq
        BY <1>9, <3>0, <3>2
      <4> QED
        BY <1>6, <3>2, <4>1, <4>2
    <3>3. CASE InBatch(b) /\ ~Goes(b)
      <4>1. n # heap'[b].seq
        BY <1>6, <3>3 DEF Seqs
      <4> QED
        BY <1>9, <3>0, <3>1, <3>3, <4>1
    <3>4. CASE ~InBatch(b)
      <4>1. Entry(b)' = Entry(b) /\ heap'[b] = heap[b] /\ ~Goes(b)
        BY <1>6, <1>11, <3>4
      <4>2. Entry(b)' \in timers' <=> Entry(b) \in timers
        <5>1. ASSUME NEW e \in Addrs, Goes(e), Entry(b)' = Entry(e)' PROVE FALSE
          <6>1. e = b
            BY <1>13, <5>1
          <6> QED
            BY <4>1, <5>1, <6>1
        <5> QED
          BY <1>8, <4>1, <5>1
      <4> QED
        BY <1>9, <3>0, <4>1, <4>2
    <3> QED
      BY <3>2, <3>3, <3>4
  <2>3. \A b \in Addrs : Live(b)' => Entry(b)' \in timers'
    <3> SUFFICES ASSUME NEW b \in Addrs, Live(b)' PROVE Entry(b)' \in timers'
      OBVIOUS
    <3>1. CASE Goes(b)
      BY <1>8, <3>1
    <3>2. CASE ~Goes(b)
      <4>1. ~InBatch(b) /\ Live(b) /\ Entry(b)' = Entry(b)
        BY <1>6, <3>2
      <4>2. Entry(b) \in timers
        BY <4>1 DEF TimerInv, Placed, InBatch
      <4> QED
        BY <1>8, <4>1, <4>2
    <3> QED
      BY <3>1, <3>2
  <2> QED
    BY <1>19, <2>1, <2>2, <2>3 DEF Placed
<1>21. BatchOK'
  BY <1>1, <1>19 DEF BatchOK
<1>22. CallsOK'
  <2>1. \A i \in DOMAIN calls : (IsAdd(i)' <=> IsAdd(i)) /\ calls[i].addr \in Addrs
    BY <1>1, CallTypes DEF IsAdd
  <2>2. \A b \in Addrs : Live(b)' => Live(b)
    BY <1>6, <1>11
  <2>3. CallsOK
    BY DEF TimerInv
  <2>4. \A i \in DOMAIN calls' : IsAdd(i)' => ~Live(calls[i].addr)'
    <3> SUFFICES ASSUME NEW i \in DOMAIN calls, IsAdd(i) PROVE ~Live(calls[i].addr)'
      BY <1>1, <2>1
    <3>1. calls'[i].addr = calls[i].addr /\ ~Live(calls[i].addr) /\ calls[i].addr \in Addrs
      BY <1>1, <2>1, <2>3 DEF CallsOK
    <3> QED
      BY <2>2, <3>1 DEF Live
  <2> QED
    BY <1>1, <2>1, <2>3, <2>4 DEF CallsOK
<1>23. Covers'
  BY <1>1, <1>15 DEF Covers
<1>24. CanceledOK'
  <2>1. ASSUME NEW n \in canceled, NEW b \in Addrs, heap'[b].seq = n PROVE FALSE
    <3>1. n \in Seqs /\ n # 0
      BY <1>1 DEF TimerTypeOK, Seqs
    <3>2. heap[b].seq = n => InBatch(b) /\ <<b, n>> \in canceling
      BY DEF TimerInv, CanceledOK, InBatch
    <3>3. CASE Goes(b)
      BY <1>6, <2>1, <3>2, <3>3 DEF Goes
    <3>4. CASE ~Goes(b)
      BY <1>6, <2>1, <3>1, <3>2, <3>4
    <3> QED
      BY <3>3, <3>4
  <2> QED
    BY <1>1, <2>1 DEF TimerInv, CanceledOK, NumCreated
<1>25. RanOK'
  <2>1. ASSUME NEW b \in Addrs, Live(b)', heap'[b].interval = 0, ran[heap'[b].seq] # 0 PROVE FALSE
    <3>1. ~Goes(b)
      BY <1>6, <2>1
    <3>2. ~InBatch(b) /\ Live(b) /\ heap'[b] = heap[b]
      BY <1>6, <2>1, <3>1
    <3> QED
      BY <2>1, <3>2 DEF TimerInv, RanOK, InBatch
  <2> QED
    BY <1>1, <2>1 DEF TimerInv, RanOK, NumCreated
<1> QED
  BY <1>16, <1>17, <1>18, <1>20, <1>21, <1>22, <1>23, <1>24, <1>25 DEF TimerInv

LEMMA TickKeeps ==
  ASSUME TimerInv, clock' \in Nat, clock' >= clock,
         UNCHANGED <<timers, active, heap, armed, calling, canceling, expired, batch, readTime, calls, ids, ran, canceled>>
  PROVE  TimerInv'
<1>1. TimerTypeOK'
  BY DEF TimerInv, TimerTypeOK
<1>2. Placed' /\ \A b \in Addrs : Entry(b)' = Entry(b) /\ (Live(b)' <=> Live(b))
  BY SameHeap
<1>3. IdsOK' /\ HeapOK' /\ BatchOK'
  BY <1>2 DEF TimerInv, IdsOK, HeapOK, BatchOK, NumCreated
<1>4. Covers'
  BY DEF TimerInv, TimerTypeOK, Covers
<1>5. CallsOK'
  <2>1. \A i \in DOMAIN calls : (IsAdd(i)' <=> IsAdd(i))
    BY DEF IsAdd
  <2>2. \A b : Live(b)' <=> Live(b)
    BY DEF Live
  <2> QED
    BY <2>1, <2>2 DEF TimerInv, CallsOK
<1>6. CanceledOK' /\ RanOK'
  BY <1>2 DEF TimerInv, CanceledOK, RanOK, NumCreated
<1> QED
  BY <1>1, <1>2, <1>3, <1>4, <1>5, <1>6 DEF TimerInv

-----------------------------------------------------------------------------
(* The results. *)

(* Every step keeps the invariant, a stuttering one too. *)
LEMMA TimerStepKeeps == ASSUME TimerInv, [TimerNext]_timerVars PROVE TimerInv'
<1>1. clock \in Nat
  BY DEF TimerInv, TimerTypeOK
<1>2. CASE RunCall
  BY <1>2, RunCallKeeps
<1>3. CASE HandleTimerfd
  BY <1>3, HandleTimerfdKeeps
<1>4. CASE RunTimer
  BY <1>4, RunTimerKeeps
<1>5. CASE Reset
  BY <1>5, ResetKeeps
<1>6. CASE TimerTick
  BY <1>1, <1>6, TickKeeps DEF TimerTick, queueVars, readVars, timerHistory
<1>7. CASE UNCHANGED timerVars
  BY <1>1, <1>7, TickKeeps DEF timerVars, queueVars, readVars, timerHistory
<1>8. ASSUME NEW a \in Addrs, NEW when \in clock..MaxNow, NEW interval \in {0, 1},
             AddTimer(a, when, interval) \/ AddTimerFromThread(a, when, interval)
      PROVE  TimerInv'
  BY <1>8, AddTimerKeeps, AddFromThreadKeeps
<1>9. ASSUME NEW a \in Addrs, NEW seq \in Seqs, Cancel(a, seq) \/ CancelFromThread(a, seq)
      PROVE  TimerInv'
  BY <1>9, CancelKeeps, CancelFromThreadKeeps
<1> QED
  BY <1>2, <1>3, <1>4, <1>5, <1>6, <1>7, <1>8, <1>9 DEF TimerNext

LEMMA TimerInvSound == ASSUME TimerInv PROVE TimersSound
<1>1. /\ heap \in [Addrs -> TimerRecord] /\ timers \subseteq Entries /\ active \subseteq Addrs \X Seqs
      /\ batch \in Seq(Entries) /\ clock \in Nat /\ armed \in Int
  BY DEF TimerInv, TimerTypeOK
<1>2. Placed
  BY DEF TimerInv
<1>3. \A t \in timers : t[2] \in Addrs /\ Live(t[2]) /\ t = Entry(t[2])
  BY <1>1, <1>2 DEF Placed, Entries
<1>4. \A a : Live(a) => heap[a] # NoTimer
  BY DEF Live, NoTimer
<1>5. SetsAgree
  <2>1. ASSUME NEW p \in active PROVE p \in {<<t[2], heap[t[2]].seq>> : t \in timers}
    <3>1. PICK a \in Addrs, s \in Seqs : p = <<a, s>>
      BY <1>1
    <3>2. s = heap[a].seq /\ Entry(a) \in timers
      BY <1>2, <3>1 DEF Placed
    <3>3. Entry(a)[2] = a
      BY DEF Entry
    <3> QED
      BY <3>1, <3>2, <3>3
  <2>2. ASSUME NEW t \in timers PROVE <<t[2], heap[t[2]].seq>> \in active
    <3>1. t[2] \in Addrs /\ Entry(t[2]) \in timers /\ heap[t[2]].seq \in Seqs
      BY <1>3, OneNumber
    <3> QED
      BY <1>2, <3>1 DEF Placed
  <2>3. active = {<<t[2], heap[t[2]].seq>> : t \in timers}
    BY <2>1, <2>2
  <2>4. \A t \in timers : heap[t[2]] # NoTimer /\ heap[t[2]].expiration = t[1]
    <3> TAKE t \in timers
    <3>1. t = Entry(t[2]) /\ heap[t[2]] # NoTimer
      BY <1>3, <1>4
    <3>2. Entry(t[2])[1] = heap[t[2]].expiration
      BY DEF Entry
    <3> QED
      BY <3>1, <3>2
  <2>5. \A i \in 1..Len(batch) : heap[batch[i][2]] # NoTimer
    <3> TAKE i \in 1..Len(batch)
    <3>1. batch[i] \in ToSet(batch)
      BY <1>1 DEF ToSet
    <3> QED
      BY <1>2, <1>4, <3>1 DEF Placed
  <2> QED
    BY <2>3, <2>4, <2>5 DEF SetsAgree
<1>6. TimerfdCovers
  <2> SUFFICES ASSUME ~calling, timers # {} PROVE armed <= Earliest(timers)[1] \/ armed <= clock
    BY DEF TimerfdCovers
  <2>1. Earliest(timers) \in timers
    BY <1>1, EarliestExists
  <2> QED
    BY <2>1 DEF TimerInv, Covers
<1>7. CanceledStaysOut
  <2> SUFFICES ASSUME NEW s \in canceled, NEW t \in active, t[2] = s PROVE FALSE
    BY DEF CanceledStaysOut
  <2>1. PICK a \in Addrs, n \in Seqs : t = <<a, n>>
    BY <1>1
  <2>2. n = s /\ s = heap[a].seq /\ Entry(a) \in timers
    BY <1>2, <2>1 DEF Placed
  <2>3. Entry(a) \in ToSet(batch)
    BY <2>2 DEF TimerInv, CanceledOK
  <2> QED
    BY <1>2, <2>2, <2>3 DEF Placed
<1> QED
  BY <1>5, <1>6, <1>7 DEF TimersSound

(* In every behaviour of TimerQueue timers_ and activeTimers_ hold the     *)
(* same live timers, the timerfd never sleeps past the earliest of them    *)
(* and a cancelled timer stays out, although addresses are used again and  *)
(* calls of other threads arrive late.                                     *)
THEOREM TimersAreSound == TimerSpec => []TimersSound
<1>1. TimerInit => TimerInv
  BY TimerInitInv
<1>2. TimerInv /\ [TimerNext]_timerVars => TimerInv'
  BY TimerStepKeeps
<1>3. TimerInv => TimersSound
  BY TimerInvSound
<1> QED
  BY <1>1, <1>2, <1>3, PTL DEF TimerSpec

(* What a step takes out of activeTimers_, and what it runs. *)
OutRightly == \A t \in active : t \notin active' =>
  t[2] \in canceled' \/ (calling' /\ readTime' >= heap[t[1]].expiration)
RunRightly == \A s \in Seqs : ran'[s] > ran[s] =>
  \E a \in Addrs : /\ heap[a].seq = s
                   /\ heap[a].expiration <= clock
                   /\ heap[a].interval = 0 => ran[s] = 0

LEMMA ExpiredAreDue == ASSUME TimerInv, HandleTimerfd PROVE OutRightly
<1> SUFFICES ASSUME NEW t \in active, t \notin active'
             PROVE  calling' /\ readTime' >= heap[t[1]].expiration
  BY DEF OutRightly
<1>1. /\ calling' /\ readTime' = clock /\ TimerTypeOK /\ Placed
      /\ active' = {u \in active : \A d \in Due(clock) : u[1] # d[2]}
  BY DEF HandleTimerfd, TimerInv
<1>2. PICK d \in Due(clock) : t[1] = d[2]
  BY <1>1
<1>3. d \in timers /\ d[1] <= clock /\ d[1] \in Nat
  BY <1>1, <1>2 DEF Due, TimerTypeOK, Entries
<1>4. d = Entry(t[1])
  BY <1>1, <1>2, <1>3 DEF Placed
<1>5. heap[t[1]].expiration = d[1]
  BY <1>4 DEF Entry
<1> QED
  BY <1>1, <1>3, <1>5 DEF TimerTypeOK

LEMMA RunOnTime == ASSUME TimerInv, RunTimer PROVE RunRightly
<1> SUFFICES ASSUME NEW s \in Seqs, ran'[s] > ran[s]
             PROVE  \E a \in Addrs : /\ heap[a].seq = s /\ heap[a].expiration <= clock
                                     /\ heap[a].interval = 0 => ran[s] = 0
  BY DEF RunRightly
<1>1. calling /\ expired # <<>> /\ ran' = [ran EXCEPT ![heap[Head(expired)[2]].seq] = @ + 1]
      /\ ran \in [Seqs -> Nat]
  BY DEF RunTimer, TimerInv, TimerTypeOK
<1>2. PICK a \in Addrs : a = Head(expired)[2]
  BY <1>1, RunningIsDue
<1>3. heap[a].seq \in Seqs /\ heap[a].expiration <= clock /\ (heap[a].interval = 0 => ran[heap[a].seq] = 0)
  BY <1>1, <1>2, RunningIsDue
<1>4. PICK n \in Seqs : n = heap[a].seq
  BY <1>3
<1>5. ran' = [ran EXCEPT ![n] = @ + 1]
  BY <1>1, <1>2, <1>4
<1>6. n = s
  <2> SUFFICES ASSUME n # s PROVE FALSE
    OBVIOUS
  <2>1. ran'[s] = ran[s] /\ ran[s] \in Nat
    BY <1>1, <1>5
  <2> QED
    BY <2>1
<1> QED
  BY <1>3, <1>4, <1>6

LEMMA TimerStepExact == ASSUME TimerInv, TimerNext PROVE OutRightly /\ RunRightly
<1>1. ran \in [Seqs -> Nat]
  BY DEF TimerInv, TimerTypeOK
<1>2. (UNCHANGED ran) => RunRightly
  BY <1>1 DEF RunRightly
<1>3. active \subseteq active' => OutRightly
  BY DEF OutRightly
<1>4. ASSUME NEW a \in Addrs, NEW seq \in Seqs, CancelInLoop(a, seq),
             UNCHANGED <<clock, armed, ids, calling, expired, batch, readTime, ran>>
      PROVE  OutRightly
  BY <1>4, CancelInLoopKeeps DEF OutRightly
<1>5. CASE RunCall
  <2>1. UNCHANGED <<clock, ids, calling, expired, batch, readTime, ran>> /\ calls # <<>>
    BY <1>5 DEF RunCall
  <2>2. CASE AddTimerInLoop(Head(calls).addr, Head(calls).when, Head(calls).interval, Head(calls).seq)
    BY <1>2, <1>3, <2>1, <2>2 DEF AddTimerInLoop
  <2>3. CASE CancelInLoop(Head(calls).addr, Head(calls).seq) /\ UNCHANGED armed
    <3>1. Head(calls) \in CallRecord
      BY <2>1, HeadTailProperties DEF TimerInv, TimerTypeOK
    <3>2. Head(calls).addr \in Addrs /\ Head(calls).seq \in Seqs
      BY <3>1 DEF CallRecord
    <3> QED
      BY <1>2, <1>4, <2>1, <2>3, <3>2
  <2> QED
    BY <1>5, <2>2, <2>3 DEF RunCall
<1>6. CASE HandleTimerfd
  BY <1>2, <1>6, ExpiredAreDue DEF HandleTimerfd, timerHistory
<1>7. CASE RunTimer
  BY <1>3, <1>7, RunOnTime DEF RunTimer, queueVars
<1>8. CASE Reset
  BY <1>2, <1>3, <1>8 DEF Reset, timerHistory
<1>9. CASE TimerTick
  BY <1>2, <1>3, <1>9 DEF TimerTick, queueVars, timerHistory
<1>10. ASSUME NEW a \in Addrs, NEW when \in clock..MaxNow, NEW interval \in {0, 1},
              AddTimer(a, when, interval) \/ AddTimerFromThread(a, when, interval)
       PROVE  OutRightly /\ RunRightly
  BY <1>2, <1>3, <1>10 DEF AddTimer, AddTimerFromThread, AddTimerInLoop, timerHistory
<1>11. ASSUME NEW a \in Addrs, NEW seq \in Seqs, Cancel(a, seq) PROVE OutRightly /\ RunRightly
  BY <1>2, <1>4, <1>11 DEF Cancel
<1>12. ASSUME NEW a \in Addrs, NEW seq \in Seqs, CancelFromThread(a, seq) PROVE OutRightly /\ RunRightly
  BY <1>2, <1>3, <1>12 DEF CancelFromThread, queueVars, timerHistory
<1> QED
  BY <1>5, <1>6, <1>7, <1>8, <1>9, <1>10, <1>11, <1>12 DEF TimerNext

(* cancel() takes out the timer it names and no other, whatever addresses  *)
(* were used again; no timer runs before its time, and one without an      *)
(* interval runs once.                                                     *)
THEOREM TimersAreExact == TimerSpec => TimersExact
<1>1. TimerInit => TimerInv
  BY TimerInitInv
<1>2. TimerInv /\ [TimerNext]_timerVars => TimerInv'
  BY TimerStepKeeps
<1>3. TimerInv /\ [TimerNext]_timerVars => [OutRightly /\ RunRightly]_timerVars
  BY TimerStepExact
<1>4. TimerSpec => [][OutRightly /\ RunRightly]_timerVars
  BY <1>1, <1>2, <1>3, PTL DEF TimerSpec
<1>5. [OutRightly /\ RunRightly]_timerVars =>
        /\ [\A t \in active : t \notin active' =>
              t[2] \in canceled' \/ (calling' /\ readTime' >= heap[t[1]].expiration)]_timerVars
        /\ [\A s \in Seqs : ran'[s] > ran[s] =>
              \E a \in Addrs : /\ heap[a].seq = s
                               /\ heap[a].expiration <= clock
                               /\ heap[a].interval = 0 => ran[s] = 0]_timerVars
  BY DEF OutRightly, RunRightly
<1> QED
  BY <1>4, <1>5, PTL DEF TimersExact, CancelIsExact, RunsOnTime

-----------------------------------------------------------------------------
(* TcpConnection.  A functor is early when the server's map still held the *)
(* connection as it was queued and it holds only `this`.                   *)

ConnStates == {"kConnecting", "kConnected", "kDisconnecting", "kDisconnected"}
RawWork == {"sendInLoop", "shutdownInLoop", "startReadInLoop", "stopReadInLoop"}
Units == ConnThreads \X Nat \X Nat
FunctorRecord == [what : Holding \cup RawWork, msg : Seq(Units), late : BOOLEAN]
CallOps == {"none", "send", "shutdown", "forceClose", "forceCloseWithDelay"}

Early(f) == f.what \notin Holding /\ ~f.late
Destroys(f) == f.what = "connectDestroyed"
Has(s, what) == \E i \in DOMAIN s : s[i].what = what
Queued(what) == Has(pending, what) \/ Has(doing, what)

(* connectDestroyed() stands behind every early functor of s, or C holds. *)
Behind(s, k) == \E j \in DOMAIN s : k < j /\ Destroys(s[j])
Guarded(s, C) == \A k \in DOMAIN s : Early(s[k]) => Behind(s, k) \/ C

ConnTypeOK ==
  /\ state \in ConnStates /\ reading \in BOOLEAN /\ events \subseteq {"read", "write"} /\ added \in BOOLEAN
  /\ alive \in BOOLEAN /\ out \in Seq(Units) /\ wire \in Seq(Units) /\ wshut \in BOOLEAN /\ owed \in BOOLEAN
  /\ peerEnded \in BOOLEAN /\ inMap \in BOOLEAN /\ removals \in Nat
  /\ at \in {"poll", "dispatch", "batch"} /\ revents \subseteq {"in", "out", "hup"}
  /\ pending \in Seq(FunctorRecord) /\ doing \in Seq(FunctorRecord)
  /\ gripped \in BOOLEAN /\ delayed \in Nat
  /\ has \subseteq ConnThreads /\ tpc \in [ConnThreads -> [op : CallOps, step : {"none", "set", "queue"}]]
  /\ left \in Nat /\ sent \in [ConnThreads -> Nat] /\ told \in Seq({"up", "down"})

(* Where the loop is, and what it still has to do there. *)
LoopOK == /\ at # "dispatch" => revents = {}
          /\ at # "batch" => doing = <<>>
          /\ ~added => events = {} /\ revents = {}

(* Threads in a call hold the connection. *)
CallsHold == \A t \in ConnThreads : tpc[t] # NoCall => t \in has

(* Nothing refers to a connection that was destroyed. *)
DeadOK == ~alive => /\ ~inMap /\ removals = 0 /\ has = {} /\ ~added
                    /\ \A what \in Holding : ~Queued(what)

(* Before connectEstablished(), which is the only functor. *)
NewOK == told = <<>> => /\ state = "kConnecting" /\ inMap /\ alive /\ removals = 0 /\ has = {} /\ delayed = 0
                        /\ ~added /\ late = {}
                        /\ \/ pending = <<Functor("connectEstablished")>> /\ doing = <<>>
                           \/ doing = <<Functor("connectEstablished")>> /\ pending = <<>>

(* Between connectEstablished() and the close. *)
UpOK == told # <<>> => /\ ~Queued("connectEstablished") /\ state # "kConnecting"
                       /\ ~Closed => /\ told = <<"up">> /\ Up /\ inMap /\ alive /\ removals = 0
                                     /\ late = {} /\ ~Queued("connectDestroyed")

(* After the close, as long as it overtook no call. *)
ClosedOK == Closed /\ late = {} =>
  /\ told = <<"up", "down">> /\ state = "kDisconnected" /\ events = {} /\ revents \subseteq {"out"}
  /\ removals = IF inMap THEN 1 ELSE 0
  /\ ~inMap /\ ~Queued("connectDestroyed") => ~added

(* Once the server has let go, connectDestroyed() is behind what was       *)
(* queued before.                                                          *)
OrderOK == ~inMap => Guarded(pending, FALSE) /\ Guarded(doing, Has(pending, "connectDestroyed"))

ConnOK == LoopOK /\ CallsHold /\ DeadOK /\ NewOK /\ UpOK /\ ClosedOK /\ OrderOK

ConnInv == ConnTypeOK /\ ConnectionSound /\ (failed = {} => ConnOK)

LEMMA FunctorsGrow ==
  ASSUME NEW s \in Seq(FunctorRecord), NEW f \in FunctorRecord
  PROVE  /\ Append(s, f) \in Seq(FunctorRecord)
         /\ \A what : Has(Append(s, f), what) <=> Has(s, what) \/ f.what = what
         /\ Guarded(s, FALSE) /\ ~Early(f) => Guarded(Append(s, f), FALSE)
         /\ Destroys(f) => Guarded(Append(s, f), FALSE)
<1> DEFINE q == Append(s, f)
<1>1. /\ q \in Seq(FunctorRecord) /\ Len(s) \in Nat /\ DOMAIN s = 1..Len(s) /\ DOMAIN q = 1..(Len(s) + 1)
      /\ \A j \in 1..Len(s) : q[j] = s[j]
      /\ q[Len(s) + 1] = f
  BY AppendProperties, LenProperties
<1> HIDE DEF q
<1>2. /\ Len(s) + 1 \in DOMAIN q /\ DOMAIN s \subseteq DOMAIN q
      /\ \A j \in DOMAIN q : j \in DOMAIN s \/ j = Len(s) + 1
      /\ \A j \in DOMAIN s : j < Len(s) + 1
  BY <1>1
<1>3. \A what : Has(q, what) <=> Has(s, what) \/ f.what = what
  BY <1>1, <1>2 DEF Has
<1>4. Guarded(s, FALSE) /\ ~Early(f) => Guarded(q, FALSE)
  BY <1>1, <1>2 DEF Guarded, Behind
<1>5. Destroys(f) => Guarded(q, FALSE)
  BY <1>1, <1>2 DEF Guarded, Behind, Destroys, Early, Holding
<1> QED
  BY <1>1, <1>3, <1>4, <1>5 DEF q

LEMMA FunctorsShrink ==
  ASSUME NEW s \in Seq(FunctorRecord), s # <<>>
  PROVE  /\ Tail(s) \in Seq(FunctorRecord) /\ Head(s) \in FunctorRecord /\ Has(s, Head(s).what)
         /\ \A what : Has(Tail(s), what) => Has(s, what)
         /\ \A what : Has(s, what) /\ Head(s).what # what => Has(Tail(s), what)
         /\ \A C \in BOOLEAN : Guarded(s, C) => Guarded(Tail(s), C)
         /\ \A C \in BOOLEAN : Guarded(s, C) /\ Early(Head(s)) => C \/ Has(s, "connectDestroyed")
<1> DEFINE q == Tail(s)
<1>1. /\ q \in Seq(FunctorRecord) /\ Len(s) \in Nat /\ Len(s) >= 1 /\ DOMAIN s = 1..Len(s) /\ DOMAIN q = 1..(Len(s) - 1)
      /\ \A j \in 1..(Len(s) - 1) : q[j] = s[j + 1]
      /\ Head(s) = s[1] /\ s[1] \in FunctorRecord
  BY HeadTailProperties, LenProperties, ElementOfSeq, EmptySeq
<1> HIDE DEF q
<1>2. /\ 1 \in DOMAIN s /\ \A j \in DOMAIN q : j + 1 \in DOMAIN s /\ q[j] = s[j + 1]
      /\ \A j \in DOMAIN s : j = 1 \/ (j - 1 \in DOMAIN q /\ (j - 1) + 1 = j /\ q[j - 1] = s[j])
      /\ \A j \in DOMAIN q, k \in DOMAIN s : j + 1 < k => k # 1 /\ j < k - 1
  BY <1>1
<1>3. \A what : Has(q, what) => Has(s, what)
  BY <1>2 DEF Has
<1>4. \A what : Has(s, what) /\ Head(s).what # what => Has(q, what)
  BY <1>1, <1>2 DEF Has
<1>5. \A C \in BOOLEAN : Guarded(s, C) => Guarded(q, C)
  <2> SUFFICES ASSUME NEW C \in BOOLEAN, Guarded(s, C), NEW k \in DOMAIN q, Early(q[k])
               PROVE  Behind(q, k) \/ C
    BY DEF Guarded
  <2>1. k + 1 \in DOMAIN s /\ Early(s[k + 1])
    BY <1>2
  <2>2. CASE C
    BY <2>2
  <2>3. CASE Behind(s, k + 1)
    <3>1. PICK j \in DOMAIN s : k + 1 < j /\ Destroys(s[j])
      BY <2>3 DEF Behind
    <3>2. k < j - 1 /\ j - 1 \in DOMAIN q /\ q[j - 1] = s[j]
      BY <1>2, <3>1
    <3> QED
      BY <3>1, <3>2 DEF Behind
  <2> QED
    BY <2>1, <2>2, <2>3 DEF Guarded
<1>6. \A C \in BOOLEAN : Guarded(s, C) /\ Early(Head(s)) => C \/ Has(s, "connectDestroyed")
  BY <1>1, <1>2 DEF Guarded, Behind, Destroys, Has
<1> QED
  BY <1>1, <1>2, <1>3, <1>4, <1>5, <1>6 DEF q, Has

LEMMA FunctorsJoin ==
  ASSUME NEW s \in Seq(FunctorRecord), NEW q \in Seq(FunctorRecord), NEW g \in BOOLEAN
  PROVE  HeldByFunctors(s \o q, g) <=> g \/ \E what \in Holding : Has(s, what) \/ Has(q, what)
<1>1. /\ DOMAIN (s \o q) = 1..(Len(s) + Len(q)) /\ Len(s) \in Nat /\ Len(q) \in Nat
      /\ DOMAIN s = 1..Len(s) /\ DOMAIN q = 1..Len(q)
      /\ \A i \in 1..(Len(s) + Len(q)) : (s \o q)[i] = IF i <= Len(s) THEN s[i] ELSE q[i - Len(s)]
  BY ConcatProperties, LenProperties
<1>2. /\ \A i \in DOMAIN s : i \in DOMAIN (s \o q) /\ (s \o q)[i] = s[i]
      /\ \A i \in DOMAIN q : Len(s) + i \in DOMAIN (s \o q) /\ (s \o q)[Len(s) + i] = q[i]
  <2>1. \A i \in DOMAIN q : Len(s) + i \in DOMAIN (s \o q) /\ ~(Len(s) + i <= Len(s)) /\ Len(s) + i - Len(s) = i
    BY <1>1
  <2>2. \A i \in DOMAIN s : i \in DOMAIN (s \o q) /\ i <= Len(s)
    BY <1>1
  <2> QED
    BY <1>1, <2>1, <2>2
<1>3. \A i \in DOMAIN (s \o q) : \/ i \in DOMAIN s /\ (s \o q)[i] = s[i]
                                 \/ i - Len(s) \in DOMAIN q /\ (s \o q)[i] = q[i - Len(s)]
  BY <1>1
<1> QED
  BY <1>2, <1>3 DEF HeldByFunctors, Has

(* What connectionCallback_ was told. *)
LEMMA ToldCases ==
  /\ told = <<>> => ~Closed
  /\ told = <<"up">> => ~Closed
  /\ told = <<"up", "down">> => Closed
  /\ told \in Seq({"up", "down"}) => \A s : s = Append(told, "down") =>
        "down" \in Range(s) /\ s # <<>> /\ s \in Seq({"up", "down"}) /\ (told = <<"up">> => s = <<"up", "down">>)
<1>1. told = <<>> => ~Closed
  BY DEF Closed, Range
<1>2. told = <<"up">> => ~Closed
  BY DEF Closed, Range
<1>3. told = <<"up", "down">> => Closed
  BY DEF Closed, Range
<1>4. ASSUME told \in Seq({"up", "down"}), NEW s, s = Append(told, "down")
      PROVE  "down" \in Range(s) /\ s # <<>> /\ s \in Seq({"up", "down"}) /\ (told = <<"up">> => s = <<"up", "down">>)
  <2>1. s \in Seq({"up", "down"}) /\ Len(s) = Len(told) + 1 /\ s[Len(told) + 1] = "down" /\ Len(told) \in Nat
        /\ DOMAIN s = 1..Len(told) + 1
    BY <1>4, AppendProperties, LenProperties
  <2>2. "down" \in Range(s) /\ s # <<>>
    BY <2>1 DEF Range
  <2>3. Append(<<"up">>, "down") = <<"up", "down">>
    <3> DEFINE p == <<"up">>
               q == <<"up", "down">>
    <3>1. p \in Seq({"up", "down"}) /\ Len(p) = 1 /\ p[1] = "up" /\ "down" \in {"up", "down"}
      OBVIOUS
    <3>2. q \in Seq({"up", "down"}) /\ Len(q) = 2 /\ q[1] = "up" /\ q[2] = "down"
      OBVIOUS
    <3> HIDE DEF p, q
    <3>3. /\ Append(p, "down") \in Seq({"up", "down"}) /\ Len(Append(p, "down")) = 2
          /\ Append(p, "down")[1] = "up" /\ Append(p, "down")[2] = "down"
      <4>1. /\ Append(p, "down") \in Seq({"up", "down"}) /\ Len(Append(p, "down")) = Len(p) + 1
            /\ \A i \in 1..Len(p) : Append(p, "down")[i] = p[i]
            /\ Append(p, "down")[Len(p) + 1] = "down"
        BY ZenonT(40), <3>1, AppendProperties
      <4>2. 1 + 1 = 2 /\ 1 \in 1..1
        OBVIOUS
      <4> QED
        BY <3>1, <4>1, <4>2
    <3>4. Append(p, "down") = q
      BY <3>2, <3>3, SeqEqual
    <3> QED
      BY <3>4 DEF p, q
  <2> QED
    BY <1>4, <2>1, <2>2, <2>3
<1> QED
  BY <1>1, <1>2, <1>3, <1>4

LEMMA ConnTypes ==
  /\ NoCall \in [op : CallOps, step : {"none", "set", "queue"}]
  /\ \A what \in Holding : Functor(what) \in FunctorRecord /\ Functor(what).what = what /\ ~Early(Functor(what))
  /\ \A what \in Holding \cup RawWork, m \in Seq(Units), l \in BOOLEAN :
       /\ [what |-> what, msg |-> m, late |-> l] \in FunctorRecord
       /\ Early([what |-> what, msg |-> m, late |-> l]) => ~l
       /\ [what |-> what, msg |-> m, late |-> l].what = what
  /\ Holding \cap RawWork = {}
<1>1. <<>> \in Seq(Units)
  BY EmptySeq
<1> QED
  BY <1>1 DEF NoCall, CallOps, Functor, FunctorRecord, Early, Holding, RawWork

LEMMA ConnInitInv == ConnectionInit => ConnInv
<1> SUFFICES ASSUME ConnectionInit PROVE ConnInv
  OBVIOUS
<1>1. ConnTypeOK
  <2>1. Functor("connectEstablished") \in FunctorRecord
    BY ConnTypes DEF Holding
  <2>2. pending \in Seq(FunctorRecord) /\ doing = <<>> /\ doing \in Seq(FunctorRecord)
    BY <2>1, EmptySeq DEF ConnectionInit
  <2>3. out \in Seq(Units) /\ wire \in Seq(Units) /\ told \in Seq({"up", "down"})
    BY EmptySeq DEF ConnectionInit
  <2>4. tpc \in [ConnThreads -> [op : CallOps, step : {"none", "set", "queue"}]] /\ sent \in [ConnThreads -> Nat]
    BY ConnTypes DEF ConnectionInit
  <2> QED
    BY <2>2, <2>3, <2>4, ConnectionAssumption DEF ConnectionInit, ConnTypeOK, ConnStates
<1>2. ConnectionSound
  BY DEF ConnectionInit, ConnectionSound, AssertionsHold, RawFunctorsLive
<1>3. ~Closed
  BY ToldCases DEF ConnectionInit
<1>4. ConnOK
  BY <1>3 DEF ConnectionInit, ConnOK, LoopOK, CallsHold, DeadOK, NewOK, UpOK, ClosedOK, OrderOK
<1> QED
  BY <1>1, <1>2, <1>4 DEF ConnInv

(* Steps that leave the connection and its functors alone. *)
LEMMA PeerFinishesKeeps == ASSUME ConnInv, failed = {}, PeerFinishes PROVE ConnInv'
<1>1. UNCHANGED <<state, channelVars, alive, outVars, serverPart, loopPart, threadPart, told, late, failed>> /\ peerEnded' = TRUE
  BY DEF PeerFinishes
<1>2. ConnTypeOK' /\ ConnectionSound'
  BY <1>1 DEF ConnInv, ConnTypeOK, ConnectionSound, AssertionsHold, RawFunctorsLive, channelVars, outVars, serverPart, loopPart, threadPart
<1>3. ConnOK'
  BY <1>1 DEF ConnInv, ConnOK, LoopOK, CallsHold, DeadOK, NewOK, UpOK, ClosedOK, OrderOK, Queued, Closed, Up,
              channelVars, outVars, serverPart, loopPart, threadPart
<1> QED
  BY <1>2, <1>3 DEF ConnInv

LEMMA PeerLinkKeeps == ASSUME ConnInv, failed = {}, PeerReads \/ PeerResets PROVE ConnInv'
<1>1. /\ UNCHANGED <<state, channelVars, alive, out, wire, wshut, owed, serverPart, loopPart, threadPart, told, late, failed>>
      /\ peerEnded' \in BOOLEAN
  BY DEF PeerReads, PeerResets, ConnInv, ConnTypeOK
<1>2. ConnTypeOK' /\ ConnectionSound'
  BY <1>1 DEF ConnInv, ConnTypeOK, ConnectionSound, AssertionsHold, RawFunctorsLive, channelVars, serverPart, loopPart, threadPart
<1>3. ConnOK'
  BY <1>1 DEF ConnInv, ConnOK, LoopOK, CallsHold, DeadOK, NewOK, UpOK, ClosedOK, OrderOK, Queued, Closed, Up,
              channelVars, serverPart, loopPart, threadPart
<1> QED
  BY <1>2, <1>3 DEF ConnInv

LEMMA PollConnectionKeeps == ASSUME ConnInv, failed = {}, PollConnection PROVE ConnInv'
<1>1. /\ UNCHANGED <<state, channelVars, alive, outVars, peerEnded, serverPart, pending, doing, gripped, delayed,
                 threadPart, told, late, failed>>
      /\ at = "poll" /\ at' = "dispatch" /\ revents' = ChannelEvents
  BY DEF PollConnection
<1>2. revents' \subseteq {"in", "out", "hup"} /\ (events = {} => revents' = {})
  BY <1>1 DEF ChannelEvents
<1>3. ConnTypeOK' /\ ConnectionSound'
  BY <1>1, <1>2 DEF ConnInv, ConnTypeOK, ConnectionSound, AssertionsHold, RawFunctorsLive, channelVars, outVars, serverPart, threadPart
<1>4. LoopOK'
  BY <1>1, <1>2 DEF ConnInv, ConnOK, LoopOK, channelVars
<1>5. ClosedOK'
  BY <1>1, <1>2 DEF ConnInv, ConnOK, ClosedOK, Closed, Queued, channelVars, serverPart
<1>6. (CallsHold /\ DeadOK /\ NewOK /\ UpOK /\ OrderOK)'
  BY <1>1 DEF ConnInv, ConnOK, CallsHold, DeadOK, NewOK, UpOK, OrderOK, Queued, Closed, Up,
              channelVars, outVars, serverPart, threadPart
<1> QED
  BY <1>3, <1>4, <1>5, <1>6 DEF ConnInv, ConnOK

LEMMA CallStartsKeeps ==
  ASSUME ConnInv, failed = {}, NEW t \in ConnThreads,
         NEW op \in {"send", "shutdown", "forceClose", "forceCloseWithDelay"}, CallStarts(t, op)
  PROVE  ConnInv'
<1>1. /\ UNCHANGED <<state, channelVars, alive, outVars, peerEnded, serverPart, loopPart, has, sent, told, late, failed>>
      /\ t \in has /\ left > 0 /\ left' = left - 1
      /\ tpc' = [tpc EXCEPT ![t] = [op |-> op, step |-> IF op = "send" THEN "queue" ELSE "set"]]
  BY DEF CallStarts
<1>2. left' \in Nat
  BY <1>1 DEF ConnInv, ConnTypeOK
<1>3. tpc' \in [ConnThreads -> [op : CallOps, step : {"none", "set", "queue"}]]
      /\ \A u \in ConnThreads : u # t => tpc'[u] = tpc[u]
  BY <1>1 DEF ConnInv, ConnTypeOK, CallOps
<1>4. ConnTypeOK' /\ ConnectionSound'
  BY <1>1, <1>2, <1>3 DEF ConnInv, ConnTypeOK, ConnectionSound, AssertionsHold, RawFunctorsLive, channelVars, outVars, serverPart, loopPart
<1>5. CallsHold'
  BY <1>1, <1>3 DEF ConnInv, ConnOK, CallsHold
<1>6. (LoopOK /\ DeadOK /\ NewOK /\ UpOK /\ ClosedOK /\ OrderOK)'
  BY <1>1 DEF ConnInv, ConnOK, LoopOK, DeadOK, NewOK, UpOK, ClosedOK, OrderOK, Queued, Closed, Up,
              channelVars, serverPart, loopPart
<1> QED
  BY <1>4, <1>5, <1>6 DEF ConnInv, ConnOK

LEMMA PendingGrows ==
  ASSUME ConnTypeOK, OrderOK, NEW f \in FunctorRecord, pending' = Append(pending, f), doing' = doing
  PROVE  /\ pending' \in Seq(FunctorRecord)
         /\ \A what : Queued(what)' <=> Queued(what) \/ f.what = what
         /\ inMap' = inMap /\ (Early(f) => inMap) => OrderOK'
         /\ Destroys(f) => OrderOK'
<1>1. pending \in Seq(FunctorRecord)
  BY DEF ConnTypeOK
<1>2. /\ pending' \in Seq(FunctorRecord)
      /\ \A what : Has(pending', what) <=> Has(pending, what) \/ f.what = what
      /\ Guarded(pending, FALSE) /\ ~Early(f) => Guarded(pending', FALSE)
      /\ Destroys(f) => Guarded(pending', FALSE)
  BY <1>1, FunctorsGrow
<1>3. \A what : Queued(what)' <=> Queued(what) \/ f.what = what
  BY <1>2 DEF Queued
<1>4. ASSUME inMap' = inMap, Early(f) => inMap PROVE OrderOK'
  BY <1>2, <1>4 DEF OrderOK, Guarded
<1>5. ASSUME Destroys(f) PROVE OrderOK'
  BY <1>2, <1>5 DEF OrderOK, Guarded, Destroys
<1> QED
  BY <1>2, <1>3, <1>4, <1>5

(* A functor is run: the others stay in their order. *)
LEMMA DoingShrinks ==
  ASSUME ConnTypeOK, OrderOK, doing # <<>>, doing' = Tail(doing)
  PROVE  /\ doing' \in Seq(FunctorRecord) /\ Head(doing) \in FunctorRecord /\ Queued(Head(doing).what)
         /\ Guarded(doing, Has(pending, "connectDestroyed")) => Guarded(doing', Has(pending, "connectDestroyed"))
         /\ Early(Head(doing)) /\ ~inMap => Queued("connectDestroyed")
         /\ \A what : Has(doing', what) => Has(doing, what)
         /\ \A what : Has(doing, what) /\ Head(doing).what # what => Has(doing', what)
<1>1. doing \in Seq(FunctorRecord) /\ Has(pending, "connectDestroyed") \in BOOLEAN
  BY DEF ConnTypeOK, Has
<1>2. /\ doing' \in Seq(FunctorRecord) /\ Head(doing) \in FunctorRecord /\ Has(doing, Head(doing).what)
      /\ \A what : Has(doing', what) => Has(doing, what)
      /\ \A what : Has(doing, what) /\ Head(doing).what # what => Has(doing', what)
      /\ \A C \in BOOLEAN : Guarded(doing, C) => Guarded(doing', C)
      /\ \A C \in BOOLEAN : Guarded(doing, C) /\ Early(Head(doing)) => C \/ Has(doing, "connectDestroyed")
  BY <1>1, FunctorsShrink
<1> QED
  BY <1>1, <1>2 DEF OrderOK, Queued

LEMMA CallSetsStateKeeps == ASSUME ConnInv, failed = {}, NEW t \in ConnThreads, CallSetsState(t) PROVE ConnInv'
<1>1. /\ UNCHANGED <<channelVars, alive, outVars, peerEnded, serverPart, loopPart, has, left, sent, told, failed>>
      /\ tpc[t].step = "set" /\ state' = "kDisconnecting" /\ late' = IF Closed THEN late \cup {tpc[t].op} ELSE late
      /\ tpc' = [tpc EXCEPT ![t].step = "queue"]
  BY DEF CallSetsState
<1>2. t \in has /\ told # <<>>
  BY <1>1 DEF ConnInv, ConnOK, CallsHold, NewOK, NoCall
<1>3. tpc' \in [ConnThreads -> [op : CallOps, step : {"none", "set", "queue"}]]
      /\ \A u \in ConnThreads : u # t => tpc'[u] = tpc[u]
  BY <1>1 DEF ConnInv, ConnTypeOK
<1>4. Closed' = Closed /\ (Closed => late' # {}) /\ (~Closed => late' = late)
  BY <1>1 DEF Closed
<1>5. ConnTypeOK'
  BY <1>1, <1>3 DEF ConnInv, ConnTypeOK, channelVars, outVars, serverPart, loopPart, ConnStates
<1>6. ConnectionSound'
  BY <1>1, <1>4 DEF ConnInv, ConnectionSound, AssertionsHold, RawFunctorsLive
<1>7. CallsHold'
  BY <1>1, <1>2, <1>3 DEF ConnInv, ConnOK, CallsHold
<1>8. UpOK'
  BY <1>1, <1>2, <1>4 DEF ConnInv, ConnOK, UpOK, Up, Queued, serverPart, loopPart
<1>9. ClosedOK' /\ NewOK'
  BY <1>1, <1>2, <1>4 DEF ConnInv, ConnOK, UpOK, ClosedOK, NewOK
<1>10. (LoopOK /\ DeadOK /\ OrderOK)'
  BY <1>1 DEF ConnInv, ConnOK, LoopOK, DeadOK, OrderOK, Queued, channelVars, serverPart, loopPart
<1> QED
  BY <1>5, <1>6, <1>7, <1>8, <1>9, <1>10 DEF ConnInv, ConnOK

(* A thread that holds the connection queues a functor, or a timer. *)
LEMMA ThreadQueues ==
  ASSUME ConnInv, failed = {}, has # {}, has' = has, left' \in Nat, sent' \in [ConnThreads -> Nat],
         tpc' \in [ConnThreads -> [op : CallOps, step : {"none", "set", "queue"}]],
         \A u \in ConnThreads : tpc'[u] # NoCall => u \in has,
         NEW f \in FunctorRecord, f.what \notin {"connectEstablished", "connectDestroyed"}, f.late = ~inMap,
         \/ pending' = Append(pending, f) /\ delayed' = delayed
         \/ pending' = pending /\ delayed' = delayed + 1,
         UNCHANGED <<state, channelVars, alive, outVars, peerEnded, serverPart, at, revents, doing, gripped, told, late, failed>>
  PROVE  ConnInv'
<1>1. /\ ConnTypeOK /\ OrderOK /\ alive /\ told # <<>>
  BY DEF ConnInv, ConnOK, DeadOK, NewOK
<1>2. /\ pending' \in Seq(FunctorRecord) /\ OrderOK' /\ delayed' \in Nat
      /\ \A what \in {"connectEstablished", "connectDestroyed"} : Queued(what)' <=> Queued(what)
  <2>1. CASE pending' = Append(pending, f) /\ delayed' = delayed
    <3>1. Early(f) => inMap
      BY DEF Early
    <3> QED
      BY <1>1, <2>1, <3>1, PendingGrows DEF serverPart, ConnTypeOK
  <2>2. CASE pending' = pending /\ delayed' = delayed + 1
    <3>1. delayed' \in Nat
      BY <1>1, <2>2 DEF ConnTypeOK
    <3>2. pending' \in Seq(FunctorRecord) /\ OrderOK'
      BY <1>1, <2>2 DEF ConnTypeOK, OrderOK, serverPart
    <3>3. \A what : Queued(what)' <=> Queued(what)
      BY <2>2 DEF Queued
    <3> QED
      BY <3>1, <3>2, <3>3
  <2> QED
    BY <2>1, <2>2
<1>3. ConnTypeOK'
  BY <1>1, <1>2 DEF ConnTypeOK, channelVars, outVars, serverPart
<1>4. ConnectionSound'
  BY DEF ConnInv, ConnectionSound, AssertionsHold, RawFunctorsLive
<1>5. CallsHold'
  BY DEF CallsHold
<1>6. DeadOK' /\ NewOK'
  BY <1>1 DEF DeadOK, NewOK
<1>7. LoopOK'
  BY DEF ConnInv, ConnOK, LoopOK, channelVars
<1>8. UpOK'
  BY <1>1, <1>2 DEF ConnInv, ConnOK, UpOK, Closed, Up, serverPart
<1>9. ClosedOK'
  BY <1>1, <1>2 DEF ConnInv, ConnOK, ClosedOK, Closed, serverPart, channelVars
<1> QED
  BY <1>2, <1>3, <1>4, <1>5, <1>6, <1>7, <1>8, <1>9 DEF ConnInv, ConnOK

LEMMA CallQueuesKeeps == ASSUME ConnInv, failed = {}, NEW t \in ConnThreads, CallQueues(t) PROVE ConnInv'
<1>1. /\ UNCHANGED <<state, channelVars, alive, outVars, peerEnded, serverPart, at, revents, doing, gripped,
                     has, left, told, late, failed>>
      /\ tpc[t].step = "queue" /\ tpc' = [tpc EXCEPT ![t] = NoCall]
      /\ sent' = [sent EXCEPT ![t] = IF tpc[t].op = "send" THEN @ + 1 ELSE @]
  BY DEF CallQueues
<1>2. t \in has /\ ConnTypeOK /\ left \in Nat /\ sent[t] \in Nat
  BY <1>1 DEF ConnInv, ConnOK, CallsHold, NoCall, ConnTypeOK
<1>3. tpc' \in [ConnThreads -> [op : CallOps, step : {"none", "set", "queue"}]]
      /\ \A u \in ConnThreads : tpc'[u] # NoCall => u \in has
  BY <1>1, <1>2, ConnTypes DEF ConnInv, ConnOK, CallsHold, ConnTypeOK
<1>4. sent' \in [ConnThreads -> Nat]
  <2>1. sent[t] + 1 \in Nat
    BY <1>2
  <2> QED
    BY <1>1, <1>2, <2>1 DEF ConnTypeOK
<1>5. Message(t, sent[t] + 1) \in Seq(Units) /\ <<>> \in Seq(Units)
  <2>1. PICK m \in Nat : m = sent[t] + 1
    BY <1>2
  <2>2. Message(t, m) \in [1..MessageUnits -> Units] /\ MessageUnits \in Nat
    BY ConnectionAssumption DEF Message, Units
  <2> QED
    BY <2>1, <2>2, SeqDef, EmptySeq
<1>6. PICK f \in FunctorRecord :
        /\ f.what \notin {"connectEstablished", "connectDestroyed"} /\ f.late = ~inMap
        /\ \/ pending' = Append(pending, f) /\ delayed' = delayed
           \/ pending' = pending /\ delayed' = delayed + 1
  <2> DEFINE F(w, m) == [what |-> w, msg |-> m, late |-> ~inMap]
  <2>1. (~inMap) \in BOOLEAN
    BY <1>2 DEF ConnTypeOK
  <2>2. \A w \in {"sendInLoop", "shutdownInLoop", "forceCloseInLoop"}, m \in Seq(Units) :
          F(w, m) \in FunctorRecord /\ F(w, m).what \notin {"connectEstablished", "connectDestroyed"} /\ F(w, m).late = ~inMap
    BY <2>1 DEF FunctorRecord, Holding, RawWork
  <2>3. CASE tpc[t].op = "send"
    <3>1. pending' = Append(pending, F("sendInLoop", Message(t, sent[t] + 1))) /\ delayed' = delayed
      BY <2>3 DEF CallQueues, Queue
    <3> QED
      BY <1>5, <2>2, <3>1
  <2>4. CASE tpc[t].op = "shutdown"
    <3>1. pending' = Append(pending, F("shutdownInLoop", <<>>)) /\ delayed' = delayed
      BY <2>4 DEF CallQueues, Queue
    <3> QED
      BY <1>5, <2>2, <3>1
  <2>5. CASE tpc[t].op = "forceClose"
    <3>1. pending' = Append(pending, F("forceCloseInLoop", <<>>)) /\ delayed' = delayed
      BY <2>5 DEF CallQueues, Queue
    <3> QED
      BY <1>5, <2>2, <3>1
  <2>6. CASE tpc[t].op \notin {"send", "shutdown", "forceClose"}
    <3>1. pending' = pending /\ delayed' = delayed + 1
      BY <2>6 DEF CallQueues
    <3> QED
      BY <1>5, <2>2, <3>1
  <2> QED
    BY <2>3, <2>4, <2>5, <2>6
<1> QED
  BY <1>1, <1>2, <1>3, <1>4, <1>6, ThreadQueues

LEMMA CallReadingKeeps ==
  ASSUME ConnInv, failed = {}, NEW t \in ConnThreads, NEW what \in {"startReadInLoop", "stopReadInLoop"},
         CallReading(t, what)
  PROVE  ConnInv'
<1>1. /\ UNCHANGED <<state, channelVars, alive, outVars, peerEnded, serverPart, at, revents, doing, gripped, delayed,
                     has, tpc, sent, told, late, failed>>
      /\ t \in has /\ left > 0 /\ left' = left - 1
      /\ pending' = Append(pending, [what |-> what, msg |-> <<>>, late |-> ~inMap])
  BY DEF CallReading, Queue
<1>2. left' \in Nat
  BY <1>1 DEF ConnInv, ConnTypeOK
<1>3. /\ tpc' \in [ConnThreads -> [op : CallOps, step : {"none", "set", "queue"}]] /\ sent' \in [ConnThreads -> Nat]
      /\ \A u \in ConnThreads : tpc'[u] # NoCall => u \in has
  BY <1>1 DEF ConnInv, ConnOK, ConnTypeOK, CallsHold
<1>4. PICK f \in FunctorRecord : /\ f.what \notin {"connectEstablished", "connectDestroyed"} /\ f.late = ~inMap
                                 /\ pending' = Append(pending, f)
  <2>1. (~inMap) \in BOOLEAN /\ <<>> \in Seq(Units)
    BY EmptySeq DEF ConnInv, ConnTypeOK
  <2> QED
    BY <1>1, <2>1 DEF FunctorRecord, RawWork
<1> QED
  BY <1>1, <1>2, <1>3, <1>4, ThreadQueues

(* The last pointer goes, or another. *)
LEMMA ReleasedKeeps ==
  ASSUME ConnInv, failed = {}, has' \subseteq has, CallsHold',
         Released(pending \o doing, gripped', inMap, removals, has'),
         LoopOK', told # <<>>,
         UNCHANGED <<state, channelVars, outVars, peerEnded, serverPart, revents, pending, doing, delayed, tpc, left, sent, told, late>>,
         at' \in {"poll", "dispatch", "batch"}, gripped' \in BOOLEAN
  PROVE  ConnInv'
<1>1. ConnTypeOK /\ ConnOK /\ ConnectionSound
  BY DEF ConnInv
<1>2. pending \in Seq(FunctorRecord) /\ doing \in Seq(FunctorRecord)
  BY <1>1 DEF ConnTypeOK
<1>3. HeldByFunctors(pending \o doing, gripped') <=> gripped' \/ \E what \in Holding : Queued(what)
  BY <1>2, FunctorsJoin DEF Queued
<1> DEFINE free == ~HeldByFunctors(pending \o doing, gripped') /\ ~inMap /\ ~(removals > 0) /\ has' = {}
<1>4. /\ alive' = (alive /\ ~free)
      /\ failed' = IF alive /\ free => state = "kDisconnected" /\ ~added THEN {} ELSE {"~TcpConnection"}
  BY DEF Released, Require
<1>5. free => /\ ~inMap /\ removals = 0 /\ has' = {} /\ \A what \in Holding : ~Queued(what)
  BY <1>1, <1>3 DEF ConnTypeOK
<1> HIDE DEF free
<1>6. ConnTypeOK'
  BY <1>1, <1>4 DEF ConnTypeOK, channelVars, outVars, serverPart
<1>7. alive /\ free /\ late = {} => state = "kDisconnected" /\ ~added
  BY <1>1, <1>5 DEF ConnOK, UpOK, ClosedOK, Holding
<1>8. ConnectionSound'
  BY <1>1, <1>4, <1>7 DEF ConnectionSound, AssertionsHold, RawFunctorsLive
<1>9. ASSUME failed' = {} PROVE DeadOK'
  BY <1>1, <1>4, <1>5, <1>9 DEF ConnOK, DeadOK, Queued, channelVars, serverPart
<1>10. UpOK'
  <2>1. alive /\ ~Closed => alive'
    BY <1>1, <1>4, <1>5 DEF ConnOK, UpOK
  <2> QED
    BY <1>1, <2>1 DEF ConnOK, UpOK, Queued, Closed, Up, serverPart
<1>11. (NewOK /\ ClosedOK /\ OrderOK)'
  BY <1>1 DEF ConnOK, NewOK, ClosedOK, OrderOK, Queued, Closed, channelVars, serverPart
<1> QED
  BY <1>6, <1>8, <1>9, <1>10, <1>11 DEF ConnInv, ConnOK

LEMMA DropPointerKeeps == ASSUME ConnInv, failed = {}, NEW t \in ConnThreads, DropPointer(t) PROVE ConnInv'
<1>1. /\ t \in has /\ tpc[t] = NoCall /\ Closed /\ has' = has \ {t}
      /\ Released(pending \o doing, gripped, inMap, removals, has')
      /\ UNCHANGED <<state, channelVars, outVars, peerEnded, serverPart, loopPart, tpc, left, sent, told, late>>
  BY DEF DropPointer
<1>2. told # <<>>
  BY <1>1, ToldCases
<1>3. CallsHold'
  BY <1>1 DEF ConnInv, ConnOK, CallsHold
<1>4. LoopOK' /\ at' \in {"poll", "dispatch", "batch"} /\ gripped' \in BOOLEAN /\ gripped' = gripped
  BY <1>1 DEF ConnInv, ConnOK, LoopOK, ConnTypeOK, loopPart, channelVars
<1> QED
  BY <1>1, <1>2, <1>3, <1>4, ReleasedKeeps DEF loopPart

LEMMA EndBatchKeeps == ASSUME ConnInv, failed = {}, EndBatch PROVE ConnInv'
<1>1. /\ at = "batch" /\ doing = <<>> /\ at' = "poll" /\ gripped' = FALSE
      /\ Released(pending, FALSE, inMap, removals, has)
      /\ UNCHANGED <<state, channelVars, outVars, peerEnded, serverPart, revents, pending, doing, delayed,
                 threadPart, told, late>>
  BY DEF EndBatch
<1>2. pending \in Seq(FunctorRecord) /\ pending \o doing = pending
  BY <1>1, ConcatEmptySeq DEF ConnInv, ConnTypeOK
<1>3. Released(pending \o doing, gripped', inMap, removals, has')
  BY <1>1, <1>2 DEF threadPart
<1>4. CallsHold' /\ LoopOK'
  BY <1>1 DEF ConnInv, ConnOK, CallsHold, LoopOK, threadPart, channelVars
<1>5. CASE told = <<>>
  <2>1. alive' = alive /\ failed' = {}
    BY <1>1, <1>5 DEF ConnInv, ConnOK, NewOK, Released, Require
  <2>2. ConnTypeOK' /\ ConnectionSound'
    BY <1>1, <2>1 DEF ConnInv, ConnTypeOK, ConnectionSound, AssertionsHold, RawFunctorsLive, channelVars, outVars, serverPart, threadPart
  <2>3. (DeadOK /\ NewOK /\ UpOK /\ ClosedOK /\ OrderOK)'
    BY <1>1, <2>1 DEF ConnInv, ConnOK, DeadOK, NewOK, UpOK, ClosedOK, OrderOK, Queued, Closed, Up,
                      channelVars, serverPart, threadPart
  <2> QED
    BY <1>4, <2>2, <2>3 DEF ConnInv, ConnOK
<1>6. CASE told # <<>>
  BY <1>1, <1>3, <1>4, <1>6, ReleasedKeeps DEF threadPart
<1> QED
  BY <1>5, <1>6

LEMMA StartFunctorsKeeps == ASSUME ConnInv, failed = {}, StartFunctors PROVE ConnInv'
<1>1. /\ UNCHANGED <<state, channelVars, alive, outVars, peerEnded, serverPart, revents, delayed,
                     threadPart, told, late, failed>>
      /\ at = "dispatch" /\ revents = {} /\ at' = "batch" /\ doing' = pending /\ pending' = <<>>
      /\ gripped' = HeldByFunctors(pending, FALSE) /\ ConnTypeOK /\ ConnOK /\ ConnectionSound
  BY DEF StartFunctors, ConnInv
<1>2. doing = <<>> /\ \A what : Has(<<>>, what) = FALSE
  BY <1>1 DEF ConnOK, LoopOK, Has
<1>3. \A what : Queued(what)' <=> Queued(what)
  BY <1>1, <1>2 DEF Queued
<1>4. gripped' \in BOOLEAN /\ pending' \in Seq(FunctorRecord)
  BY <1>1, EmptySeq DEF HeldByFunctors
<1>5. ConnTypeOK' /\ ConnectionSound'
  BY <1>1, <1>4 DEF ConnTypeOK, ConnectionSound, AssertionsHold, RawFunctorsLive, channelVars, outVars, serverPart, threadPart
<1>6. LoopOK' /\ CallsHold'
  BY <1>1 DEF ConnOK, LoopOK, CallsHold, channelVars, threadPart
<1>7. DeadOK'
  BY <1>1, <1>3 DEF ConnOK, DeadOK, channelVars, serverPart, threadPart
<1>8. NewOK'
  BY <1>1, <1>2 DEF ConnOK, NewOK, channelVars, serverPart, threadPart
<1>9. UpOK' /\ ClosedOK'
  BY <1>1, <1>3 DEF ConnOK, UpOK, ClosedOK, Closed, Up, channelVars, serverPart
<1>10. OrderOK'
  BY <1>1, <1>2 DEF ConnOK, OrderOK, Guarded, serverPart
<1> QED
  BY <1>5, <1>6, <1>7, <1>8, <1>9, <1>10 DEF ConnInv, ConnOK

LEMMA DelayExpiresKeeps == ASSUME ConnInv, failed = {}, DelayExpires PROVE ConnInv'
<1>1. /\ UNCHANGED <<channelVars, alive, outVars, peerEnded, serverPart, at, revents, doing, gripped,
                     threadPart, told, late, failed>>
      /\ at = "dispatch" /\ delayed > 0 /\ delayed' = delayed - 1 /\ ConnTypeOK /\ ConnOK /\ ConnectionSound
  BY DEF DelayExpires, ConnInv
<1>2. told # <<>> /\ delayed' \in Nat
  BY <1>1 DEF ConnOK, NewOK, ConnTypeOK
<1>3. \/ alive /\ Up /\ state' = "kDisconnecting" /\ pending' = Append(pending, Functor("forceCloseInLoop"))
      \/ UNCHANGED <<state, pending>>
  BY DEF DelayExpires
<1>4. /\ pending' \in Seq(FunctorRecord) /\ OrderOK' /\ (pending' # pending => alive)
      /\ \A what \in {"connectEstablished", "connectDestroyed"} : Queued(what)' <=> Queued(what)
  <2>1. CASE alive /\ pending' = Append(pending, Functor("forceCloseInLoop"))
    <3>1. PICK f \in FunctorRecord : f = Functor("forceCloseInLoop") /\ f.what = "forceCloseInLoop" /\ ~Early(f)
      BY ConnTypes DEF Holding
    <3> QED
      BY <1>1, <2>1, <3>1, PendingGrows DEF ConnOK, serverPart
  <2>2. CASE pending' = pending
    BY <1>1, <2>2 DEF ConnTypeOK, ConnOK, OrderOK, Queued, serverPart
  <2> QED
    BY <1>3, <2>1, <2>2
<1>5. state' \in ConnStates /\ state' # "kConnecting" /\ (Up => Up') /\ (state = "kDisconnected" => state' = "kDisconnected")
  BY <1>1, <1>2, <1>3 DEF ConnTypeOK, ConnOK, UpOK, Up, ConnStates
<1>6. ConnTypeOK' /\ ConnectionSound'
  BY <1>1, <1>2, <1>4, <1>5 DEF ConnTypeOK, ConnectionSound, AssertionsHold, RawFunctorsLive, channelVars, outVars, serverPart, threadPart
<1>7. LoopOK' /\ CallsHold'
  BY <1>1 DEF ConnOK, LoopOK, CallsHold, channelVars, threadPart
<1>8. DeadOK'
  BY <1>1, <1>4 DEF ConnOK, DeadOK, Queued, channelVars, serverPart, threadPart
<1>9. NewOK' /\ UpOK' /\ ClosedOK'
  BY <1>1, <1>2, <1>4, <1>5 DEF ConnOK, NewOK, UpOK, ClosedOK, Closed, channelVars, serverPart
<1> QED
  BY <1>4, <1>6, <1>7, <1>8, <1>9 DEF ConnInv, ConnOK

LEMMA RemoveConnectionKeeps == ASSUME ConnInv, failed = {}, RemoveConnectionInLoop PROVE ConnInv'
<1>1. /\ removals > 0 /\ removals' = removals - 1 /\ inMap' = FALSE
      /\ failed' = IF inMap THEN {} ELSE {"removeConnectionInLoop"}
      /\ pending' = Append(pending, Functor("connectDestroyed"))
      /\ UNCHANGED <<state, channelVars, alive, outVars, peerEnded, at, revents, doing, gripped, delayed,
                     threadPart, told, late>>
      /\ ConnTypeOK /\ ConnOK /\ ConnectionSound
  BY DEF RemoveConnectionInLoop, Require, ConnInv
<1>2. removals # 0 /\ removals' \in Nat /\ (removals = 1 => removals' = 0)
  BY <1>1 DEF ConnTypeOK
<1>3. alive /\ told # <<>> /\ Closed
  BY <1>1, <1>2, ToldCases DEF ConnOK, DeadOK, NewOK, UpOK
<1>4. PICK f \in FunctorRecord : f = Functor("connectDestroyed") /\ f.what = "connectDestroyed" /\ ~Early(f)
  BY ConnTypes DEF Holding
<1>5. /\ pending' \in Seq(FunctorRecord) /\ OrderOK'
      /\ \A what : Queued(what)' <=> Queued(what) \/ what = "connectDestroyed"
  BY <1>1, <1>4, PendingGrows DEF ConnOK, Destroys
<1>6. ConnTypeOK'
  BY <1>1, <1>2, <1>5 DEF ConnTypeOK, channelVars, outVars, threadPart
<1>7. late = {} => inMap /\ removals = 1
  BY <1>1, <1>2, <1>3 DEF ConnOK, ClosedOK
<1>8. ConnectionSound'
  BY <1>1, <1>7 DEF ConnectionSound, AssertionsHold, RawFunctorsLive
<1>9. LoopOK' /\ CallsHold' /\ DeadOK' /\ NewOK'
  BY <1>1, <1>3 DEF ConnOK, LoopOK, CallsHold, DeadOK, NewOK, channelVars, threadPart
<1>10. UpOK'
  BY <1>1, <1>3, <1>5 DEF ConnOK, UpOK, Closed
<1>11. ClosedOK'
  BY <1>1, <1>2, <1>3, <1>5, <1>7 DEF ConnOK, ClosedOK, Closed, channelVars
<1> QED
  BY <1>5, <1>6, <1>8, <1>9, <1>10, <1>11 DEF ConnInv, ConnOK

(* handleClose(), from the channel or from a functor. *)
LEMMA HandleCloseKeeps ==
  ASSUME ConnInv, failed = {}, HandleClose, told # <<>>, alive, late = {} => Up,
         revents' \subseteq revents, at' = at, revents' \subseteq {"out"}, pending' = pending,
         doing' \in Seq(FunctorRecord), \A what : Has(doing', what) => Has(doing, what),
         Guarded(doing, Has(pending, "connectDestroyed")) => Guarded(doing', Has(pending, "connectDestroyed")),
         doing = <<>> => doing' = <<>>,
         UNCHANGED <<gripped, delayed>>
  PROVE  ConnInv'
<1>1. /\ failed' = IF Up THEN {} ELSE {"handleClose"}
      /\ state' = "kDisconnected" /\ events' = {} /\ added' = TRUE /\ told' = Append(told, "down")
      /\ removals' = removals + 1 /\ UNCHANGED <<reading, alive, outVars, peerEnded, inMap, threadPart, late>>
      /\ ConnTypeOK /\ ConnOK /\ ConnectionSound
  BY DEF HandleClose, Require, ConnInv
<1>2. /\ removals' \in Nat /\ (removals = 0 => removals' = 1)
  BY <1>1 DEF ConnTypeOK
<1>3. Closed' /\ told' # <<>> /\ told' \in Seq({"up", "down"}) /\ (told = <<"up">> => told' = <<"up", "down">>)
  BY <1>1, ToldCases DEF Closed, ConnTypeOK
<1>4. ConnTypeOK'
  BY <1>1, <1>2, <1>3 DEF ConnTypeOK, outVars, threadPart, ConnStates
<1>5. late = {} => told = <<"up">> /\ inMap /\ removals = 0 /\ ~Queued("connectDestroyed")
  BY <1>1 DEF ConnOK, ClosedOK, UpOK, Up
<1>6. ConnectionSound'
  BY <1>1, <1>3, <1>5 DEF ConnectionSound, AssertionsHold, RawFunctorsLive
<1>7. LoopOK' /\ CallsHold' /\ DeadOK' /\ NewOK'
  BY <1>1, <1>3 DEF ConnOK, LoopOK, CallsHold, DeadOK, NewOK, threadPart
<1>8. \A what : Queued(what)' => Queued(what)
  BY DEF Queued
<1>9. UpOK'
  BY <1>1, <1>3, <1>8 DEF ConnOK, UpOK
<1>10. ClosedOK'
  BY <1>1, <1>2, <1>3, <1>5, <1>8 DEF ClosedOK
<1>11. OrderOK'
  BY <1>1 DEF ConnOK, OrderOK
<1> QED
  BY <1>4, <1>6, <1>7, <1>9, <1>10, <1>11 DEF ConnInv, ConnOK

LEMMA ChannelClosesKeeps == ASSUME ConnInv, failed = {}, ChannelCloses PROVE ConnInv'
<1>1. /\ at = "dispatch" /\ revents \cap {"in", "hup"} # {} /\ revents' = revents \ {"in", "hup"} /\ HandleClose
      /\ UNCHANGED <<at, pending, doing, gripped, delayed>> /\ ConnTypeOK /\ ConnOK
  BY DEF ChannelCloses, ConnInv
<1>2. added /\ alive /\ told # <<>>
  BY <1>1 DEF ConnOK, LoopOK, DeadOK, NewOK
<1>3. late = {} => Up
  BY <1>1, <1>2 DEF ConnOK, UpOK, ClosedOK
<1>4. revents' \subseteq revents /\ revents' \subseteq {"out"} /\ doing' \in Seq(FunctorRecord)
  BY <1>1 DEF ConnTypeOK
<1> QED
  BY <1>1, <1>2, <1>3, <1>4, HandleCloseKeeps

(* A functor that changes at most the channel and the output. *)
LEMMA FunctorRuns ==
  ASSUME ConnInv, failed = {}, at = "batch", doing # <<>>, alive, NextFunctor,
         Head(doing).what \notin {"connectEstablished", "connectDestroyed"},
         UNCHANGED <<state, serverPart, has, told, failed>>,
         out' \in Seq(Units), wire' \in Seq(Units), wshut' \in BOOLEAN, owed' \in BOOLEAN,
         reading' \in BOOLEAN, added' \in BOOLEAN, events' \subseteq {"read", "write"}, ~added' => events' = {},
         late' = late \/ (Closed /\ late' # {}),
         Closed /\ late' = {} => UNCHANGED <<added, events>>,
         pending' \in Seq(FunctorRecord), Guarded(pending, FALSE) => Guarded(pending', FALSE),
         \A what \in {"connectEstablished", "connectDestroyed"} : Has(pending', what) <=> Has(pending, what)
  PROVE  ConnInv' /\ told # <<>>
<1>1. /\ UNCHANGED <<alive, peerEnded, at, revents, gripped, delayed, tpc, left, sent>> /\ doing' = Tail(doing)
      /\ ConnTypeOK /\ ConnOK /\ ConnectionSound
  BY DEF NextFunctor, ConnInv
<1>2. /\ doing' \in Seq(FunctorRecord) /\ Head(doing) \in FunctorRecord
      /\ Guarded(doing, Has(pending, "connectDestroyed")) => Guarded(doing', Has(pending, "connectDestroyed"))
      /\ \A what : Has(doing', what) => Has(doing, what)
      /\ \A what : Has(doing, what) /\ Head(doing).what # what => Has(doing', what)
  BY <1>1, DoingShrinks DEF ConnOK
<1>3. \A what \in {"connectEstablished", "connectDestroyed"} : Queued(what)' <=> Queued(what)
  BY <1>2 DEF Queued
<1>4. told # <<>>
  <2>1. Functor("connectEstablished").what = "connectEstablished" /\ \A x : Head(<<x>>) = x
    BY DEF Functor
  <2> QED
    BY <1>1, <2>1 DEF ConnOK, NewOK
<1>5. ConnTypeOK' /\ ConnectionSound'
  BY <1>1, <1>2 DEF ConnTypeOK, ConnectionSound, AssertionsHold, RawFunctorsLive, serverPart
<1>6. LoopOK' /\ CallsHold' /\ DeadOK' /\ NewOK'
  BY <1>1, <1>4 DEF ConnOK, LoopOK, CallsHold, DeadOK, NewOK
<1>7. UpOK'
  BY <1>1, <1>3, <1>4 DEF ConnOK, UpOK, Closed, Up, serverPart
<1>8. ClosedOK'
  BY <1>1, <1>3 DEF ConnOK, ClosedOK, Closed, serverPart
<1>9. OrderOK'
  <2>1. Guarded(doing', Has(pending, "connectDestroyed")) => Guarded(doing', Has(pending', "connectDestroyed"))
    BY DEF Guarded
  <2> QED
    BY <1>1, <1>2, <2>1 DEF ConnOK, OrderOK, serverPart
<1> QED
  BY <1>4, <1>5, <1>6, <1>7, <1>8, <1>9 DEF ConnInv, ConnOK

LEMMA ShutdownInLoopKeeps == ASSUME ConnInv, failed = {}, ShutdownInLoop PROVE ConnInv'
<1>1. /\ at = "batch" /\ doing # <<>> /\ alive /\ NextFunctor /\ Head(doing).what = "shutdownInLoop"
      /\ UNCHANGED <<state, channelVars, out, wire, owed, serverPart, pending, has, told, late, failed>>
      /\ wshut' = (wshut \/ "write" \notin events)
  BY DEF ShutdownInLoop, RunsAlive, Runs, ShutdownNow
<1>2. /\ out' \in Seq(Units) /\ wire' \in Seq(Units) /\ wshut' \in BOOLEAN /\ owed' \in BOOLEAN
      /\ reading' \in BOOLEAN /\ added' \in BOOLEAN /\ events' \subseteq {"read", "write"}
      /\ (~added' => events' = {}) /\ pending' \in Seq(FunctorRecord)
  BY <1>1 DEF ConnInv, ConnTypeOK, ConnOK, LoopOK, channelVars
<1> QED
  BY <1>1, <1>2, FunctorRuns DEF channelVars

LEMMA RunCallbackKeeps == ASSUME ConnInv, failed = {}, RunCallback PROVE ConnInv'
<1>1. /\ at = "batch" /\ doing # <<>> /\ alive /\ NextFunctor /\ Head(doing).what \in {"writeComplete", "highWater"}
      /\ UNCHANGED <<state, channelVars, out, wire, wshut, serverPart, pending, has, told, late, failed>>
      /\ owed' = (owed /\ Head(doing).what # "writeComplete")
  BY DEF RunCallback, RunsAlive, Runs
<1>2. /\ out' \in Seq(Units) /\ wire' \in Seq(Units) /\ wshut' \in BOOLEAN /\ owed' \in BOOLEAN
      /\ reading' \in BOOLEAN /\ added' \in BOOLEAN /\ events' \subseteq {"read", "write"}
      /\ (~added' => events' = {}) /\ pending' \in Seq(FunctorRecord)
  BY <1>1 DEF ConnInv, ConnTypeOK, ConnOK, LoopOK, channelVars
<1> QED
  BY <1>1, <1>2, FunctorRuns DEF channelVars

LEMMA StartReadKeeps == ASSUME ConnInv, failed = {}, StartReadInLoop PROVE ConnInv'
<1>1. /\ at = "batch" /\ doing # <<>> /\ alive /\ NextFunctor /\ Head(doing).what = "startReadInLoop"
      /\ UNCHANGED <<state, outVars, serverPart, pending, has, told, failed>>
  BY DEF StartReadInLoop, RunsAlive, Runs
<1>2. ConnTypeOK /\ LoopOK /\ ClosedOK /\ (Closed /\ late = {} => events = {})
  BY DEF ConnInv, ConnOK, ClosedOK
<1>3. /\ reading' \in BOOLEAN /\ added' \in BOOLEAN /\ events' \subseteq {"read", "write"} /\ (~added' => events' = {})
      /\ late' = late \/ (Closed /\ late' # {})
      /\ Closed /\ late' = {} => UNCHANGED <<added, events>>
  BY <1>2 DEF StartReadInLoop, ConnTypeOK, LoopOK, channelVars
<1>4. /\ out' \in Seq(Units) /\ wire' \in Seq(Units) /\ wshut' \in BOOLEAN /\ owed' \in BOOLEAN
      /\ pending' \in Seq(FunctorRecord)
  BY <1>1, <1>2 DEF ConnTypeOK, outVars
<1> QED
  BY <1>1, <1>3, <1>4, FunctorRuns

LEMMA StopReadKeeps == ASSUME ConnInv, failed = {}, StopReadInLoop PROVE ConnInv'
<1>1. /\ at = "batch" /\ doing # <<>> /\ alive /\ NextFunctor /\ Head(doing).what = "stopReadInLoop"
      /\ UNCHANGED <<state, outVars, serverPart, pending, has, told, failed>>
  BY DEF StopReadInLoop, RunsAlive, Runs
<1>2. ConnTypeOK /\ LoopOK
  BY DEF ConnInv, ConnOK
<1>3. /\ reading' \in BOOLEAN /\ added' \in BOOLEAN /\ events' \subseteq {"read", "write"} /\ (~added' => events' = {})
      /\ late' = late \/ (Closed /\ late' # {})
      /\ Closed /\ late' = {} => UNCHANGED <<added, events>>
  BY <1>2 DEF StopReadInLoop, ConnTypeOK, LoopOK, channelVars
<1>4. /\ out' \in Seq(Units) /\ wire' \in Seq(Units) /\ wshut' \in BOOLEAN /\ owed' \in BOOLEAN
      /\ pending' \in Seq(FunctorRecord)
  BY <1>1, <1>2 DEF ConnTypeOK, outVars
<1> QED
  BY <1>1, <1>3, <1>4, FunctorRuns

LEMMA ForceCloseInLoopKeeps == ASSUME ConnInv, failed = {}, ForceCloseInLoop PROVE ConnInv'
<1>1. /\ at = "batch" /\ doing # <<>> /\ alive /\ NextFunctor /\ Head(doing).what = "forceCloseInLoop" /\ pending' = pending
      /\ IF Up THEN HandleClose ELSE UNCHANGED <<state, channelVars, outVars, serverPart, has, told, late, failed>>
  BY DEF ForceCloseInLoop, RunsAlive, Runs
<1>2. /\ UNCHANGED <<alive, peerEnded, at, revents, gripped, delayed, tpc, left, sent>> /\ doing' = Tail(doing)
      /\ ConnTypeOK /\ ConnOK /\ revents = {}
  BY <1>1 DEF NextFunctor, ConnInv, ConnOK, LoopOK
<1>3. /\ doing' \in Seq(FunctorRecord)
      /\ Guarded(doing, Has(pending, "connectDestroyed")) => Guarded(doing', Has(pending, "connectDestroyed"))
      /\ \A what : Has(doing', what) => Has(doing, what)
  BY <1>1, <1>2, DoingShrinks DEF ConnOK
<1>4. CASE Up
  <2>1. told # <<>>
    BY <1>2, <1>4 DEF ConnOK, NewOK, Up
  <2> QED
    BY <1>1, <1>2, <1>3, <1>4, <2>1, HandleCloseKeeps
<1>5. CASE ~Up
  <2>1. UNCHANGED <<state, channelVars, outVars, serverPart, has, told, late, failed>>
    BY <1>1, <1>5
  <2>2. /\ out' \in Seq(Units) /\ wire' \in Seq(Units) /\ wshut' \in BOOLEAN /\ owed' \in BOOLEAN
        /\ reading' \in BOOLEAN /\ added' \in BOOLEAN /\ events' \subseteq {"read", "write"}
        /\ (~added' => events' = {}) /\ pending' \in Seq(FunctorRecord)
    BY <1>1, <1>2, <2>1 DEF ConnTypeOK, ConnOK, LoopOK, channelVars, outVars
  <2> QED
    BY <1>1, <2>1, <2>2, FunctorRuns DEF channelVars
<1> QED
  BY <1>4, <1>5

LEMMA RunDanglingKeeps == ASSUME ConnInv, failed = {}, RunDangling PROVE ConnInv'
<1>1. /\ at = "batch" /\ doing # <<>> /\ ~alive /\ NextFunctor
      /\ failed' = {IF Head(doing).late THEN "late call" ELSE "dangling"}
      /\ late' = IF Head(doing).late THEN late \cup {Head(doing).what} ELSE late
      /\ UNCHANGED <<state, channelVars, outVars, serverPart, pending, has, told>>
      /\ ConnTypeOK /\ ConnOK
  BY DEF RunDangling, ConnInv
<1>2. /\ UNCHANGED <<alive, peerEnded, at, revents, gripped, delayed, tpc, left, sent>> /\ doing' = Tail(doing)
  BY <1>1 DEF NextFunctor
<1>3. /\ doing' \in Seq(FunctorRecord) /\ Queued(Head(doing).what)
      /\ Early(Head(doing)) /\ ~inMap => Queued("connectDestroyed")
  BY <1>1, <1>2, DoingShrinks DEF ConnOK
<1>4. Head(doing).late
  BY <1>1, <1>3 DEF ConnOK, DeadOK, Early, Holding
<1>5. ConnTypeOK'
  BY <1>1, <1>2, <1>3 DEF ConnTypeOK, channelVars, outVars, serverPart
<1>6. ConnectionSound' /\ failed' # {}
  BY <1>1, <1>4 DEF ConnectionSound, AssertionsHold, RawFunctorsLive
<1> QED
  BY <1>5, <1>6 DEF ConnInv

LEMMA ConnectEstablishedKeeps == ASSUME ConnInv, failed = {}, ConnectEstablished PROVE ConnInv'
<1>1. /\ at = "batch" /\ doing # <<>> /\ alive /\ NextFunctor /\ Head(doing).what = "connectEstablished"
      /\ failed' = IF state = "kConnecting" THEN {} ELSE {"connectEstablished"}
      /\ state' = "kConnected" /\ events' = {"read"} /\ added' = TRUE /\ told' = Append(told, "up") /\ has' = ConnThreads
      /\ UNCHANGED <<reading, outVars, serverPart, pending, late>>
      /\ ConnTypeOK /\ ConnOK /\ ConnectionSound
  BY DEF ConnectEstablished, RunsAlive, Runs, Require, ConnInv
<1>2. /\ UNCHANGED <<alive, peerEnded, at, revents, gripped, delayed, tpc, left, sent>> /\ doing' = Tail(doing)
      /\ revents = {}
  BY <1>1 DEF NextFunctor, ConnOK, LoopOK
<1>3. Queued("connectEstablished")
  BY <1>1, <1>2, DoingShrinks DEF ConnOK
<1>4. told = <<>>
  BY <1>1, <1>3 DEF ConnOK, UpOK
<1>5. pending = <<>> /\ doing = <<Functor("connectEstablished")>>
  BY <1>1, <1>4 DEF ConnOK, NewOK
<1>6. doing' = <<>> /\ \A what : ~Queued(what)'
  BY <1>1, <1>2, <1>5 DEF Queued, Has
<1>7. told' = <<"up">> /\ told' \in Seq({"up", "down"}) /\ ~Closed'
  <2>1. told' = <<"up">>
    BY <1>1, <1>4
  <2> QED
    BY <2>1, ToldCases DEF Closed, Range
<1>8. ConnTypeOK'
  BY <1>1, <1>2, <1>6, <1>7, EmptySeq DEF ConnTypeOK, outVars, serverPart, ConnStates
<1>9. failed' = {} /\ late' = {} /\ ConnectionSound'
  BY <1>1, <1>4, <1>7 DEF ConnOK, NewOK, ConnectionSound, AssertionsHold, RawFunctorsLive
<1>10. LoopOK' /\ CallsHold' /\ DeadOK'
  BY <1>1, <1>2 DEF ConnOK, LoopOK, CallsHold, DeadOK
<1>11. NewOK' /\ ClosedOK'
  BY <1>7 DEF NewOK, ClosedOK
<1>12. UpOK'
  BY <1>1, <1>2, <1>4, <1>6, <1>7, <1>9 DEF ConnOK, NewOK, UpOK, Up, serverPart
<1>13. OrderOK'
  BY <1>1, <1>4 DEF ConnOK, NewOK, OrderOK, serverPart
<1> QED
  BY <1>8, <1>9, <1>10, <1>11, <1>12, <1>13 DEF ConnInv, ConnOK

LEMMA ConnectDestroyedKeeps == ASSUME ConnInv, failed = {}, ConnectDestroyed PROVE ConnInv'
<1>1. /\ at = "batch" /\ doing # <<>> /\ alive /\ NextFunctor /\ Head(doing).what = "connectDestroyed"
      /\ IF Connected THEN state' = "kDisconnected" /\ events' = {} /\ told' = Append(told, "down")
                      ELSE UNCHANGED <<state, events, told>>
      /\ failed' = IF events' = {} THEN {} ELSE {"Channel::remove"}
      /\ added' = FALSE /\ UNCHANGED <<reading, outVars, serverPart, pending, has, late>>
      /\ ConnTypeOK /\ ConnOK /\ ConnectionSound
  BY DEF ConnectDestroyed, RunsAlive, Runs, Require, ConnInv
<1>2. /\ UNCHANGED <<alive, peerEnded, at, revents, gripped, delayed, tpc, left, sent>> /\ doing' = Tail(doing)
      /\ revents = {}
  BY <1>1 DEF NextFunctor, ConnOK, LoopOK
<1>3. /\ doing' \in Seq(FunctorRecord) /\ Queued("connectDestroyed")
      /\ Guarded(doing, Has(pending, "connectDestroyed")) => Guarded(doing', Has(pending, "connectDestroyed"))
      /\ \A what : Has(doing', what) => Has(doing, what)
  BY <1>1, <1>2, DoingShrinks DEF ConnOK
<1>4. told # <<>> /\ Closed
  <2>1. \A x : Has(<<>>, x) = FALSE
    BY DEF Has
  <2>2. \A x : Has(<<Functor("connectEstablished")>>, x) => x = "connectEstablished"
    BY DEF Has, Functor
  <2> QED
    BY <1>1, <1>3, <2>1, <2>2 DEF ConnOK, NewOK, UpOK, Queued
<1>5. /\ told' # <<>> /\ Closed' /\ told' \in Seq({"up", "down"}) /\ state' \in ConnStates /\ state' # "kConnecting"
      /\ events' \subseteq {"read", "write"}
  BY <1>1, <1>4, ToldCases DEF Closed, ConnTypeOK, ConnStates, Connected, ConnOK, UpOK
<1>6. ConnTypeOK'
  BY <1>1, <1>2, <1>3, <1>5 DEF ConnTypeOK, outVars, serverPart
<1>7. late = {} => UNCHANGED <<state, events, told>> /\ events' = {}
  BY <1>1, <1>4 DEF ConnOK, ClosedOK, Connected
<1>8. ConnectionSound'
  BY <1>1, <1>7 DEF ConnectionSound, AssertionsHold, RawFunctorsLive
<1>9. ASSUME failed' = {} PROVE LoopOK'
  BY <1>1, <1>2, <1>9 DEF LoopOK
<1>10. CallsHold' /\ DeadOK' /\ NewOK'
  BY <1>1, <1>2, <1>5 DEF ConnOK, CallsHold, DeadOK, NewOK
<1>11. \A what : Queued(what)' => Queued(what)
  BY <1>1, <1>3 DEF Queued
<1>12. UpOK'
  BY <1>1, <1>4, <1>5, <1>11 DEF ConnOK, UpOK
<1>13. ClosedOK'
  BY <1>1, <1>2, <1>4, <1>7 DEF ConnOK, ClosedOK, serverPart
<1>14. OrderOK'
  BY <1>1, <1>3 DEF ConnOK, OrderOK, serverPart
<1> QED
  BY <1>6, <1>8, <1>9, <1>10, <1>12, <1>13, <1>14 DEF ConnInv, ConnOK

LEMMA CutUnits ==
  ASSUME NEW s \in Seq(Units), NEW n \in 0..Len(s)
  PROVE  SubSeq(s, 1, n) \in Seq(Units) /\ SubSeq(s, n + 1, Len(s)) \in Seq(Units)
<1>1. Len(s) \in Nat /\ n \in Nat /\ n <= Len(s)
  BY LenProperties
<1>2. \A k \in 1..Len(s) : s[k] \in Units
  BY ElementOfSeq
<1>3. 1..n \subseteq 1..Len(s) /\ (n + 1)..Len(s) \subseteq 1..Len(s) /\ n + 1 \in Int /\ n \in Int /\ Len(s) \in Int
  BY <1>1
<1>4. SubSeq(s, 1, n) \in Seq(Units)
  BY <1>2, <1>3, SubSeqProperties
<1>5. SubSeq(s, n + 1, Len(s)) \in Seq(Units)
  BY <1>2, <1>3, SubSeqProperties
<1> QED
  BY <1>4, <1>5

LEMMA ChannelWritesKeeps == ASSUME ConnInv, failed = {}, ChannelWrites PROVE ConnInv'
<1>1. /\ at = "dispatch" /\ revents = {"out"} /\ revents' = {}
      /\ UNCHANGED <<state, reading, added, alive, peerEnded, serverPart, at, doing, gripped, delayed,
                     threadPart, told, late, failed>>
      /\ ConnTypeOK /\ ConnOK /\ ConnectionSound
  BY DEF ChannelWrites, ConnInv
<1>2. added /\ alive /\ told # <<>>
  BY <1>1 DEF ConnOK, LoopOK, DeadOK, NewOK
<1>3. /\ out' \in Seq(Units) /\ wire' \in Seq(Units) /\ wshut' \in BOOLEAN /\ owed' \in BOOLEAN
      /\ events' \subseteq events
      /\ \/ pending' = pending
         \/ pending' = Append(pending, Functor("writeComplete"))
  <2>1. CASE "write" \in events /\ link # "reset"
    <3>1. PICK n \in 1..Len(out) :
            /\ wire' = wire \o SubSeq(out, 1, n) /\ out' = SubSeq(out, n + 1, Len(out))
            /\ events' = IF n = Len(out) THEN events \ {"write"} ELSE events
            /\ pending' = IF n = Len(out) THEN Written(pending) ELSE pending
            /\ IF n = Len(out) /\ ShutsAfterWrite THEN ShutdownNow(events') ELSE UNCHANGED wshut
            /\ owed' = TRUE
      BY <2>1 DEF ChannelWrites
    <3>2. out \in Seq(Units) /\ wire \in Seq(Units) /\ Len(out) \in Nat
      BY <1>1, LenProperties DEF ConnTypeOK
    <3>3. n \in 0..Len(out)
      BY <3>2
    <3>4. SubSeq(out, 1, n) \in Seq(Units) /\ SubSeq(out, n + 1, Len(out)) \in Seq(Units)
      BY <3>2, <3>3, CutUnits
    <3>5. out' \in Seq(Units) /\ wire' \in Seq(Units)
      BY <3>1, <3>2, <3>4, ConcatProperties
    <3>6. wshut' \in BOOLEAN /\ owed' \in BOOLEAN
      BY <1>1, <3>1 DEF ConnTypeOK, ShutdownNow
    <3>7. events' \subseteq events /\ (pending' = pending \/ pending' = Append(pending, Functor("writeComplete")))
      BY <3>1 DEF Written
    <3> QED
      BY <3>5, <3>6, <3>7
  <2>2. CASE ~("write" \in events /\ link # "reset")
    BY <1>1, <2>2 DEF ChannelWrites, ConnTypeOK, outVars
  <2> QED
    BY <2>1, <2>2
<1>4. /\ pending' \in Seq(FunctorRecord) /\ OrderOK'
      /\ \A what \in {"connectEstablished", "connectDestroyed"} : Queued(what)' <=> Queued(what)
  <2>1. CASE pending' = pending
    BY <1>1, <2>1 DEF ConnTypeOK, ConnOK, OrderOK, Queued, serverPart
  <2>2. CASE pending' = Append(pending, Functor("writeComplete"))
    <3>1. PICK f \in FunctorRecord : f = Functor("writeComplete") /\ f.what = "writeComplete" /\ ~Early(f)
      BY ConnTypes DEF Holding
    <3> QED
      BY <1>1, <2>2, <3>1, PendingGrows DEF ConnOK, serverPart
  <2> QED
    BY <1>3, <2>1, <2>2
<1>5. ConnTypeOK' /\ ConnectionSound'
  BY <1>1, <1>3, <1>4 DEF ConnTypeOK, ConnectionSound, AssertionsHold, RawFunctorsLive, serverPart, threadPart
<1>6. LoopOK' /\ CallsHold' /\ DeadOK' /\ NewOK'
  BY <1>1, <1>2 DEF ConnOK, LoopOK, CallsHold, DeadOK, NewOK, threadPart
<1>7. UpOK'
  BY <1>1, <1>2, <1>4 DEF ConnOK, UpOK, Closed, Up, serverPart
<1>8. ClosedOK'
  BY <1>1, <1>3, <1>4 DEF ConnOK, ClosedOK, Closed, serverPart
<1> QED
  BY <1>4, <1>5, <1>6, <1>7, <1>8 DEF ConnInv, ConnOK

LEMMA SendInLoopKeeps == ASSUME ConnInv, failed = {}, SendInLoop PROVE ConnInv'
<1>1. /\ at = "batch" /\ doing # <<>> /\ alive /\ NextFunctor /\ Head(doing).what = "sendInLoop"
      /\ UNCHANGED <<state, reading, serverPart, has, told, late, failed>>
      /\ ConnTypeOK /\ ConnOK
  BY DEF SendInLoop, RunsAlive, Runs, ConnInv
<1>2. PICK msg \in Seq(Units) : msg = Head(doing).msg
  <2>1. Head(doing) \in FunctorRecord
    BY <1>1, DoingShrinks DEF ConnOK, NextFunctor
  <2> QED
    BY <2>1 DEF FunctorRecord
<1>3. CASE UNCHANGED <<events, added, outVars, pending>>
  <2>1. /\ out' \in Seq(Units) /\ wire' \in Seq(Units) /\ wshut' \in BOOLEAN /\ owed' \in BOOLEAN
        /\ reading' \in BOOLEAN /\ added' \in BOOLEAN /\ events' \subseteq {"read", "write"}
        /\ (~added' => events' = {}) /\ pending' \in Seq(FunctorRecord)
    BY <1>1, <1>3 DEF ConnTypeOK, ConnOK, LoopOK, outVars
  <2> QED
    BY <1>1, <1>3, <2>1, FunctorRuns
<1>4. CASE ~(state = "kDisconnected" \/ (Direct /\ (wshut \/ link = "reset")))
  <2>1. PICK n \in 0..Len(msg) :
          /\ wire' = wire \o SubSeq(msg, 1, n) /\ out' = out \o SubSeq(msg, n + 1, Len(msg))
          /\ events' = IF Len(msg) - n > 0 THEN events \cup {"write"} ELSE events
          /\ added' = (added \/ Len(msg) - n > 0)
          /\ pending' = CASE Len(msg) - n = 0 -> Append(pending, Functor("writeComplete"))
                          [] Len(msg) - n > 0 /\ HighWater(Len(msg) - n) -> Append(pending, Functor("highWater"))
                          [] OTHER -> pending
          /\ owed' = (owed \/ n > 0) /\ UNCHANGED wshut
    <3>1. Len(msg) \in Nat /\ 0 \in 0..Len(msg)
      BY LenProperties
    <3> QED
      BY <1>2, <1>4, <3>1 DEF SendInLoop
  <2>2. SubSeq(msg, 1, n) \in Seq(Units) /\ SubSeq(msg, n + 1, Len(msg)) \in Seq(Units)
    BY CutUnits
  <2>3. out' \in Seq(Units) /\ wire' \in Seq(Units)
    BY <1>1, <2>1, <2>2, ConcatProperties DEF ConnTypeOK
  <2>4. /\ wshut' \in BOOLEAN /\ owed' \in BOOLEAN /\ reading' \in BOOLEAN /\ added' \in BOOLEAN
        /\ events' \subseteq {"read", "write"} /\ (~added' => events' = {})
    BY <1>1, <2>1 DEF ConnTypeOK, ConnOK, LoopOK
  <2>5. ~(Closed /\ late' = {})
    BY <1>1, <1>4 DEF ConnOK, ClosedOK
  <2>6. \/ pending' = pending
        \/ \E f \in FunctorRecord : f.what \in {"writeComplete", "highWater"} /\ ~Early(f) /\ pending' = Append(pending, f)
    <3>1. \A w \in {"writeComplete", "highWater"} : Functor(w) \in FunctorRecord /\ Functor(w).what = w /\ ~Early(Functor(w))
      BY ConnTypes DEF Holding
    <3>2. pending' \in {pending, Append(pending, Functor("writeComplete")), Append(pending, Functor("highWater"))}
      BY <2>1
    <3> QED
      BY <3>1, <3>2
  <2>7. /\ pending' \in Seq(FunctorRecord) /\ (Guarded(pending, FALSE) => Guarded(pending', FALSE))
        /\ \A what \in {"connectEstablished", "connectDestroyed"} : Has(pending', what) <=> Has(pending, what)
    <3>1. pending \in Seq(FunctorRecord)
      BY <1>1 DEF ConnTypeOK
    <3> QED
      BY <2>6, <3>1, FunctorsGrow
  <2> QED
    BY <1>1, <2>3, <2>4, <2>5, <2>7, FunctorRuns
<1> QED
  BY <1>3, <1>4 DEF SendInLoop

LEMMA ConnStepKeeps == ASSUME ConnInv, [ConnectionNext]_connectionVars PROVE ConnInv'
<1>1. CASE UNCHANGED connectionVars
  <2>1. UNCHANGED <<state, channelVars, alive, outVars, peerEnded, serverPart, loopPart, threadPart, told, late, failed>>
    BY <1>1 DEF connectionVars
  <2>2. ConnTypeOK' /\ ConnectionSound'
    BY <2>1 DEF ConnInv, ConnTypeOK, ConnectionSound, AssertionsHold, RawFunctorsLive,
                channelVars, outVars, serverPart, loopPart, threadPart
  <2>3. failed = {} => ConnOK'
    BY <2>1 DEF ConnInv, ConnOK, LoopOK, CallsHold, DeadOK, NewOK, UpOK, ClosedOK, OrderOK, Queued, Closed, Up,
                channelVars, outVars, serverPart, loopPart, threadPart
  <2> QED
    BY <2>1, <2>2, <2>3 DEF ConnInv
<1>2. CASE ConnectionNext
  <2>1. failed = {}
    BY <1>2 DEF ConnectionNext
  <2>2. CASE LoopStep
    BY <2>1, <2>2, PollConnectionKeeps, ChannelClosesKeeps, ChannelWritesKeeps, StartFunctorsKeeps, RunDanglingKeeps,
       ConnectEstablishedKeeps, SendInLoopKeeps, ShutdownInLoopKeeps, ForceCloseInLoopKeeps, StartReadKeeps,
       StopReadKeeps, RunCallbackKeeps, ConnectDestroyedKeeps, EndBatchKeeps DEF LoopStep
  <2>3. CASE DelayExpires \/ RemoveConnectionInLoop \/ PeerFinishes \/ PeerReads \/ PeerResets
    BY <2>1, <2>3, DelayExpiresKeeps, RemoveConnectionKeeps, PeerFinishesKeeps, PeerLinkKeeps
  <2>4. ASSUME NEW t \in ConnThreads,
               \/ \E op \in {"send", "shutdown", "forceClose", "forceCloseWithDelay"} : CallStarts(t, op)
               \/ \E what \in {"startReadInLoop", "stopReadInLoop"} : CallReading(t, what)
               \/ CallSetsState(t) \/ CallQueues(t) \/ DropPointer(t)
        PROVE  ConnInv'
    BY <2>1, <2>4, CallStartsKeeps, CallReadingKeeps, CallSetsStateKeeps, CallQueuesKeeps, DropPointerKeeps
  <2> QED
    BY <1>2, <2>2, <2>3, <2>4 DEF ConnectionNext
<1> QED
  BY <1>1, <1>2

(* A connection used from several threads, with the server in another      *)
(* loop, for any number of threads and calls: unless the close overtook a  *)
(* call no assert() fails and the callback hears "up" once and then "down" *)
(* once; and no functor with a raw `this` that was queued while the server *)
(* had the connection finds it destroyed.                                  *)
THEOREM ConnectionIsSound == ConnectionSpec => []ConnectionSound
<1>1. ConnectionInit => ConnInv
  BY ConnInitInv
<1>2. ConnInv /\ [ConnectionNext]_connectionVars => ConnInv'
  BY ConnStepKeeps
<1>3. ConnInv => ConnectionSound
  BY DEF ConnInv
<1> QED
  BY <1>1, <1>2, <1>3, PTL DEF ConnectionSpec

-----------------------------------------------------------------------------
(* The output of TcpConnection.  A message is whole and in its place in a; *)
(* the queues hold the following ones.                                     *)

InOrder(a) == \A i \in DOMAIN a :
  /\ a[i][3] > 1 => i > 1 /\ a[i - 1] = <<a[i][1], a[i][2], a[i][3] - 1>>
  /\ ~(a[i][3] > 1) => {a[k][2] : k \in {j \in 1..i - 1 : a[j][1] = a[i][1] /\ a[j][3] = 1}} = 1..a[i][2] - 1
  /\ a[i][3] < MessageUnits => i < Len(a) /\ a[i + 1] = <<a[i][1], a[i][2], a[i][3] + 1>>

Carries(f, t, k) == f.what = "sendInLoop" /\ f.msg = Message(t, k)
Done(a, t) == {k \in Nat : \E j \in DOMAIN a : a[j] = <<t, k, 1>>}
Nums(s, t) == {k \in Nat : \E j \in DOMAIN s : Carries(s[j], t, k)}
NumsBefore(s, i, t) == {k \in Nat : \E j \in DOMAIN s : j < i /\ Carries(s[j], t, k)}

(* Of the n[t] messages of a thread t those in a come first, then those of *)
(* the batch d, then those pending in p.                                   *)
Consecutive(a, d, p, n) == \A t \in ConnThreads :
  /\ Done(a, t) \cup Nums(d, t) \cup Nums(p, t) = 1..n[t]
  /\ \A i \in DOMAIN d, k \in Nat : Carries(d[i], t, k) => Done(a, t) \cup NumsBefore(d, i, t) = 1..k - 1
  /\ \A i \in DOMAIN p, k \in Nat :
       Carries(p[i], t, k) => (Done(a, t) \cup Nums(d, t)) \cup NumsBefore(p, i, t) = 1..k - 1

WholeMessages(s) == \A i \in DOMAIN s : s[i].what = "sendInLoop" => \E t \in ConnThreads, k \in Nat : s[i].msg = Message(t, k)

(* The channel waits for writing exactly when there is output. *)
WritesPending == ~Closed => ("write" \in events <=> out # <<>>)

(* write() faults, and no output waits: what is sent is dropped. *)
Dropping == wshut \/ (link = "reset" /\ out = <<>>)

(* Until messages are dropped, none is missing. *)
NoneMissing == late = {} /\ ~Closed /\ ~Dropping => Consecutive(wire \o out, doing, pending, sent)

OutInv == /\ WritesPending /\ ShutAfterOutput
          /\ WriteCompleteFollows
          /\ WholeMessages(doing) /\ WholeMessages(pending)
          /\ late = {} => InOrder(wire \o out)
          /\ NoneMissing

LEMMA MessageIs ==
  ASSUME NEW t \in ConnThreads, NEW k \in Nat
  PROVE  /\ Message(t, k) \in Seq(Units) /\ Len(Message(t, k)) = MessageUnits /\ MessageUnits \in Nat /\ MessageUnits >= 1
         /\ \A i \in 1..MessageUnits : Message(t, k)[i] = <<t, k, i>>
         /\ Message(t, k)[1] = <<t, k, 1>>
<1>1. MessageUnits \in Nat /\ MessageUnits >= 1 /\ 1 \in 1..MessageUnits
  BY ConnectionAssumption
<1>2. Message(t, k) \in [1..MessageUnits -> Units] /\ \A i \in 1..MessageUnits : Message(t, k)[i] = <<t, k, i>>
  BY <1>1 DEF Message, Units
<1>3. Message(t, k) \in Seq(Units) /\ Len(Message(t, k)) = MessageUnits
  BY <1>1, <1>2, SeqDef
<1> QED
  BY <1>1, <1>2, <1>3

LEMMA OneMessage ==
  ASSUME NEW f, NEW t \in ConnThreads, NEW k \in Nat, NEW u \in ConnThreads, NEW m \in Nat,
         Carries(f, t, k), Carries(f, u, m)
  PROVE  t = u /\ k = m
<1>1. Message(t, k)[1] = <<t, k, 1>> /\ Message(u, m)[1] = <<u, m, 1>>
  BY MessageIs
<1>2. <<t, k, 1>> = <<u, m, 1>>
  BY <1>1 DEF Carries
<1> QED
  BY <1>2

LEMMA NumsGrow ==
  ASSUME NEW s \in Seq(FunctorRecord), NEW f \in FunctorRecord, NEW t \in ConnThreads
  PROVE  /\ \A k \in Nat : k \in Nums(Append(s, f), t) <=> k \in Nums(s, t) \/ Carries(f, t, k)
         /\ \A i \in DOMAIN s : NumsBefore(Append(s, f), i, t) = NumsBefore(s, i, t) /\ Append(s, f)[i] = s[i]
         /\ Len(s) + 1 \notin DOMAIN s /\ NumsBefore(Append(s, f), Len(s) + 1, t) = Nums(s, t) /\ Append(s, f)[Len(s) + 1] = f
         /\ DOMAIN Append(s, f) = DOMAIN s \cup {Len(s) + 1}
<1> DEFINE q == Append(s, f)
<1>1. /\ q \in Seq(FunctorRecord) /\ Len(s) \in Nat /\ DOMAIN s = 1..Len(s) /\ DOMAIN q = 1..(Len(s) + 1)
      /\ \A j \in 1..Len(s) : q[j] = s[j]
      /\ q[Len(s) + 1] = f
  BY AppendProperties, LenProperties
<1> HIDE DEF q
<1>2. /\ DOMAIN q = DOMAIN s \cup {Len(s) + 1} /\ Len(s) + 1 \notin DOMAIN s
      /\ \A j \in DOMAIN s : q[j] = s[j] /\ j < Len(s) + 1 /\ ~(Len(s) + 1 < j)
      /\ ~(Len(s) + 1 < Len(s) + 1)
  BY <1>1
<1>3. \A k \in Nat : k \in Nums(q, t) <=> k \in Nums(s, t) \/ Carries(f, t, k)
  BY <1>1, <1>2 DEF Nums
<1>4. \A i \in DOMAIN s : NumsBefore(q, i, t) = NumsBefore(s, i, t)
  BY <1>1, <1>2 DEF NumsBefore
<1>5. NumsBefore(q, Len(s) + 1, t) = Nums(s, t)
  BY <1>1, <1>2 DEF NumsBefore, Nums
<1> QED
  BY <1>1, <1>2, <1>3, <1>4, <1>5 DEF q

LEMMA NumsShrink ==
  ASSUME NEW s \in Seq(FunctorRecord), s # <<>>, NEW t \in ConnThreads
  PROVE  /\ \A k \in Nat : k \in Nums(s, t) <=> k \in Nums(Tail(s), t) \/ Carries(Head(s), t, k)
         /\ \A i \in DOMAIN Tail(s) : /\ i + 1 \in DOMAIN s /\ Tail(s)[i] = s[i + 1]
                                      /\ \A k \in Nat : k \in NumsBefore(s, i + 1, t)
                                           <=> k \in NumsBefore(Tail(s), i, t) \/ Carries(Head(s), t, k)
         /\ 1 \in DOMAIN s /\ Head(s) = s[1] /\ NumsBefore(s, 1, t) = {}
<1> DEFINE q == Tail(s)
<1>1. /\ q \in Seq(FunctorRecord) /\ Len(s) \in Nat /\ Len(s) >= 1 /\ DOMAIN s = 1..Len(s) /\ DOMAIN q = 1..(Len(s) - 1)
      /\ \A j \in 1..(Len(s) - 1) : q[j] = s[j + 1]
      /\ Head(s) = s[1]
  BY HeadTailProperties, LenProperties, EmptySeq
<1> HIDE DEF q
<1>2. /\ 1 \in DOMAIN s /\ \A j \in DOMAIN q : j + 1 \in DOMAIN s /\ q[j] = s[j + 1] /\ 1 < j + 1
      /\ \A j \in DOMAIN s : j = 1 \/ (j - 1 \in DOMAIN q /\ (j - 1) + 1 = j /\ q[j - 1] = s[j])
      /\ \A j \in DOMAIN q, i \in DOMAIN q : j < i <=> j + 1 < i + 1
      /\ \A j \in DOMAIN s : ~(j < 1)
  BY <1>1
<1>3. \A k \in Nat : k \in Nums(s, t) <=> k \in Nums(q, t) \/ Carries(Head(s), t, k)
  BY <1>1, <1>2 DEF Nums
<1>4. ASSUME NEW i \in DOMAIN q, NEW k \in Nat
      PROVE  k \in NumsBefore(s, i + 1, t) <=> k \in NumsBefore(q, i, t) \/ Carries(Head(s), t, k)
  <2>1. ASSUME NEW j \in DOMAIN s, j < i + 1, Carries(s[j], t, k)
        PROVE  k \in NumsBefore(q, i, t) \/ Carries(Head(s), t, k)
    <3>1. CASE j = 1
      BY <1>1, <2>1, <3>1
    <3>2. CASE j - 1 \in DOMAIN q /\ (j - 1) + 1 = j /\ q[j - 1] = s[j]
      <4>1. j - 1 < i
        BY <1>2, <2>1, <3>2
      <4> QED
        BY <2>1, <3>2, <4>1 DEF NumsBefore
    <3> QED
      BY <1>2, <3>1, <3>2
  <2>2. ASSUME NEW j \in DOMAIN q, j < i, Carries(q[j], t, k) PROVE k \in NumsBefore(s, i + 1, t)
    BY <1>2, <2>2 DEF NumsBefore
  <2>3. Carries(Head(s), t, k) => k \in NumsBefore(s, i + 1, t)
    BY <1>1, <1>2 DEF NumsBefore
  <2> QED
    BY <2>1, <2>2, <2>3 DEF NumsBefore
<1>5. NumsBefore(s, 1, t) = {}
  BY <1>2 DEF NumsBefore
<1> QED
  BY <1>1, <1>2, <1>3, <1>4, <1>5 DEF q

LEMMA DoneGrows ==
  ASSUME NEW a \in Seq(Units), NEW t \in ConnThreads, NEW k \in Nat
  PROVE  \A u \in ConnThreads, m \in Nat :
           m \in Done(a \o Message(t, k), u) <=> m \in Done(a, u) \/ (u = t /\ m = k)
<1>1. PICK M \in Seq(Units) : M = Message(t, k)
  BY MessageIs
<1>2. /\ Len(M) = MessageUnits /\ MessageUnits \in Nat /\ MessageUnits >= 1 /\ M[1] = <<t, k, 1>>
      /\ \A i \in 1..MessageUnits : M[i] = <<t, k, i>>
  BY <1>1, MessageIs
<1>3. /\ DOMAIN (a \o M) = 1..(Len(a) + Len(M)) /\ Len(a) \in Nat /\ DOMAIN a = 1..Len(a)
      /\ \A i \in 1..(Len(a) + Len(M)) : (a \o M)[i] = IF i <= Len(a) THEN a[i] ELSE M[i - Len(a)]
  BY ConcatProperties, LenProperties
<1>4. /\ \A i \in DOMAIN a : i \in DOMAIN (a \o M) /\ (a \o M)[i] = a[i]
      /\ Len(a) + 1 \in DOMAIN (a \o M) /\ (a \o M)[Len(a) + 1] = <<t, k, 1>>
      /\ \A i \in DOMAIN (a \o M) : \/ i \in DOMAIN a
                                    \/ i - Len(a) \in 1..MessageUnits /\ (a \o M)[i] = <<t, k, i - Len(a)>>
  <2>1. /\ \A i \in 1..Len(a) : i \in 1..(Len(a) + Len(M)) /\ i <= Len(a)
        /\ Len(a) + 1 \in 1..(Len(a) + Len(M)) /\ ~(Len(a) + 1 <= Len(a)) /\ (Len(a) + 1) - Len(a) = 1
        /\ \A i \in 1..(Len(a) + Len(M)) : i \in 1..Len(a) \/ (~(i <= Len(a)) /\ i - Len(a) \in 1..MessageUnits)
    BY <1>2, <1>3
  <2> QED
    BY <1>2, <1>3, <2>1
<1> SUFFICES ASSUME NEW u \in ConnThreads, NEW m \in Nat
             PROVE  m \in Done(a \o M, u) <=> m \in Done(a, u) \/ (u = t /\ m = k)
  BY <1>1
<1>5. m \in Done(a, u) \/ (u = t /\ m = k) => m \in Done(a \o M, u)
  BY <1>4 DEF Done
<1>6. ASSUME m \in Done(a \o M, u) PROVE m \in Done(a, u) \/ (u = t /\ m = k)
  <2>1. PICK i \in DOMAIN (a \o M) : (a \o M)[i] = <<u, m, 1>>
    BY <1>6 DEF Done
  <2>2. CASE i \in DOMAIN a
    BY <1>4, <2>1, <2>2 DEF Done
  <2>3. CASE (a \o M)[i] = <<t, k, i - Len(a)>>
    BY <2>1, <2>3
  <2> QED
    BY <1>4, <2>2, <2>3
<1> QED
  BY <1>5, <1>6

(* A message put behind what is in order, with all before it there. *)
LEMMA OrderGrows ==
  ASSUME NEW a \in Seq(Units), NEW t \in ConnThreads, NEW k \in Nat, InOrder(a), Done(a, t) = 1..k - 1
  PROVE  InOrder(a \o Message(t, k))
<1>1. PICK M \in Seq(Units) : M = Message(t, k)
  BY MessageIs
<1>2. /\ Len(M) = MessageUnits /\ MessageUnits \in Nat /\ MessageUnits >= 1
      /\ \A i \in 1..MessageUnits : M[i] = <<t, k, i>>
  BY <1>1, MessageIs
<1>3. PICK b \in Seq(Units) : b = a \o M
  BY ConcatProperties
<1>4. PICK l \in Nat : l = Len(a)
  BY LenProperties
<1>5. /\ DOMAIN b = 1..(l + MessageUnits) /\ DOMAIN a = 1..l /\ Len(b) = l + MessageUnits
      /\ \A i \in 1..(l + MessageUnits) : b[i] = IF i <= l THEN a[i] ELSE M[i - l]
  <2>1. /\ Len(a \o M) = Len(a) + Len(M)
        /\ \A i \in 1..(Len(a) + Len(M)) : (a \o M)[i] = IF i <= Len(a) THEN a[i] ELSE M[i - Len(a)]
    BY ConcatProperties
  <2>2. DOMAIN b = 1..Len(b) /\ DOMAIN a = 1..Len(a)
    BY LenProperties
  <2> QED
    BY <1>2, <1>3, <1>4, <2>1, <2>2
<1>6. /\ \A i \in 1..l : b[i] = a[i]
      /\ \A r \in 1..MessageUnits : b[l + r] = <<t, k, r>>
  <2>1. /\ \A i \in 1..l : i \in 1..(l + MessageUnits) /\ i <= l
        /\ \A r \in 1..MessageUnits : l + r \in 1..(l + MessageUnits) /\ ~(l + r <= l) /\ (l + r) - l = r
    BY <1>2
  <2> QED
    BY <1>2, <1>5, <2>1
<1>7. \A i \in 1..l : a[i] \in Units
  BY <1>4, ElementOfSeq
<1>8. ASSUME NEW i \in 1..l
      PROVE  /\ b[i][3] > 1 => i > 1 /\ b[i - 1] = <<b[i][1], b[i][2], b[i][3] - 1>>
             /\ ~(b[i][3] > 1) => {b[j][2] : j \in {x \in 1..i - 1 : b[x][1] = b[i][1] /\ b[x][3] = 1}} = 1..b[i][2] - 1
             /\ b[i][3] < MessageUnits => i < Len(b) /\ b[i + 1] = <<b[i][1], b[i][2], b[i][3] + 1>>
  <2>1. b[i] = a[i] /\ i \in DOMAIN a
    BY <1>5, <1>6
  <2>2. /\ a[i][3] > 1 => i > 1 /\ a[i - 1] = <<a[i][1], a[i][2], a[i][3] - 1>>
        /\ ~(a[i][3] > 1) => {a[j][2] : j \in {x \in 1..i - 1 : a[x][1] = a[i][1] /\ a[x][3] = 1}} = 1..a[i][2] - 1
        /\ a[i][3] < MessageUnits => i < l /\ a[i + 1] = <<a[i][1], a[i][2], a[i][3] + 1>>
    BY <1>4, <2>1 DEF InOrder
  <2>3. i > 1 => i - 1 \in 1..l
    OBVIOUS
  <2>4. \A x \in 1..i - 1 : x \in 1..l
    OBVIOUS
  <2>5. i < l => i + 1 \in 1..l /\ i < l + MessageUnits
    BY <1>2
  <2>6. {b[j][2] : j \in {x \in 1..i - 1 : b[x][1] = b[i][1] /\ b[x][3] = 1}}
          = {a[j][2] : j \in {x \in 1..i - 1 : a[x][1] = a[i][1] /\ a[x][3] = 1}}
    <3>1. \A x \in 1..i - 1 : b[x] = a[x]
      BY <1>6, <2>4
    <3> QED
      BY SMTT(30), <2>1, <3>1
  <2>7. b[i][3] > 1 => i > 1 /\ b[i - 1] = <<b[i][1], b[i][2], b[i][3] - 1>>
    BY <1>6, <2>1, <2>2, <2>3
  <2>8. b[i][3] < MessageUnits => i < Len(b) /\ b[i + 1] = <<b[i][1], b[i][2], b[i][3] + 1>>
    BY <1>5, <1>6, <2>1, <2>2, <2>5
  <2> QED
    BY <2>1, <2>2, <2>6, <2>7, <2>8
<1>9. ASSUME NEW r \in 1..MessageUnits, NEW i \in Nat, i = l + r
      PROVE  /\ b[i][3] > 1 => i > 1 /\ b[i - 1] = <<b[i][1], b[i][2], b[i][3] - 1>>
             /\ ~(b[i][3] > 1) => {b[j][2] : j \in {x \in 1..i - 1 : b[x][1] = b[i][1] /\ b[x][3] = 1}} = 1..b[i][2] - 1
             /\ b[i][3] < MessageUnits => i < Len(b) /\ b[i + 1] = <<b[i][1], b[i][2], b[i][3] + 1>>
  <2>1. b[i][1] = t /\ b[i][2] = k /\ b[i][3] = r
    BY <1>6, <1>9
  <2>2. r > 1 => i > 1 /\ b[i - 1] = <<t, k, r - 1>>
    <3>1. r > 1 => r - 1 \in 1..MessageUnits /\ i - 1 = l + (r - 1) /\ i > 1
      <4>1. r \in Nat /\ 1 <= r /\ r <= MessageUnits /\ MessageUnits \in Nat /\ l \in Nat
        BY <1>2
      <4> QED
        BY <1>9, <4>1
    <3> QED
      BY <1>6, <3>1
  <2>3. r < MessageUnits => i < Len(b) /\ b[i + 1] = <<t, k, r + 1>>
    <3>1. r < MessageUnits => r + 1 \in 1..MessageUnits /\ i + 1 = l + (r + 1) /\ i < l + MessageUnits
      <4>1. r \in Nat /\ 1 <= r /\ r <= MessageUnits /\ MessageUnits \in Nat /\ l \in Nat
        BY <1>2
      <4> QED
        BY <1>9, <4>1
    <3> QED
      BY <1>5, <1>6, <3>1
  <2>4. ASSUME ~(r > 1) PROVE {b[j][2] : j \in {x \in 1..i - 1 : b[x][1] = t /\ b[x][3] = 1}} = 1..k - 1
    <3>1. i - 1 = l
      BY <1>2, <1>9, <2>4
    <3>2. \A x \in 1..l : b[x] = a[x] /\ a[x] \in ConnThreads \X Nat \X Nat
      BY <1>6, <1>7 DEF Units
    <3>3. \A x \in 1..l : (a[x][1] = t /\ a[x][3] = 1) => a[x] = <<t, a[x][2], 1>> /\ a[x][2] \in Nat
      BY <3>2
    <3>4. {b[j][2] : j \in {x \in 1..l : b[x][1] = t /\ b[x][3] = 1}} = Done(a, t)
      <4>1. ASSUME NEW x \in 1..l, b[x][1] = t, b[x][3] = 1 PROVE b[x][2] \in Done(a, t)
        BY <1>5, <3>2, <3>3, <4>1 DEF Done
      <4>2. ASSUME NEW m \in Done(a, t) PROVE \E x \in 1..l : b[x][1] = t /\ b[x][3] = 1 /\ b[x][2] = m
        <5>1. PICK x \in 1..l : a[x] = <<t, m, 1>>
          BY <1>5, <4>2 DEF Done
        <5>2. b[x] = <<t, m, 1>>
          BY <3>2, <5>1
        <5>3. b[x][1] = t /\ b[x][3] = 1 /\ b[x][2] = m
          BY <5>2
        <5> QED
          BY <5>3
      <4> QED
        BY <4>1, <4>2
    <3> QED
      BY <3>1, <3>4
  <2> QED
    BY <2>1, <2>2, <2>3, <2>4
<1>10. \A i \in DOMAIN b : i \in 1..l \/ (i \in Nat /\ i - l \in 1..MessageUnits /\ i = l + (i - l))
  BY <1>2, <1>5
<1>11. InOrder(b)
  BY <1>8, <1>9, <1>10 DEF InOrder
<1> QED
  BY <1>1, <1>3, <1>11

(* A functor is queued: not a message, or the next one of its thread. *)
LEMMA ConsecutiveQueue ==
  ASSUME NEW a, NEW d, NEW p \in Seq(FunctorRecord), NEW f \in FunctorRecord, NEW n, f.what # "sendInLoop",
         Consecutive(a, d, p, n)
  PROVE  Consecutive(a, d, Append(p, f), n)
<1> SUFFICES ASSUME NEW t \in ConnThreads
             PROVE  /\ Nums(Append(p, f), t) = Nums(p, t)
                    /\ \A i \in DOMAIN Append(p, f), k \in Nat : Carries(Append(p, f)[i], t, k) =>
                         (Done(a, t) \cup Nums(d, t)) \cup NumsBefore(Append(p, f), i, t) = 1..k - 1
  BY DEF Consecutive
<1>1. \A k : ~Carries(f, t, k)
  BY DEF Carries
<1>2. /\ \A k \in Nat : k \in Nums(Append(p, f), t) <=> k \in Nums(p, t) \/ Carries(f, t, k)
      /\ \A i \in DOMAIN p : NumsBefore(Append(p, f), i, t) = NumsBefore(p, i, t) /\ Append(p, f)[i] = p[i]
      /\ Append(p, f)[Len(p) + 1] = f
      /\ DOMAIN Append(p, f) = DOMAIN p \cup {Len(p) + 1}
  BY NumsGrow
<1>3. Nums(Append(p, f), t) = Nums(p, t)
  BY <1>1, <1>2 DEF Nums
<1> QED
  BY <1>1, <1>2, <1>3 DEF Consecutive

LEMMA ConsecutiveSend ==
  ASSUME NEW a, NEW d, NEW p \in Seq(FunctorRecord), NEW f \in FunctorRecord, NEW n \in [ConnThreads -> Nat],
         NEW t \in ConnThreads, Carries(f, t, n[t] + 1), Consecutive(a, d, p, n)
  PROVE  Consecutive(a, d, Append(p, f), [n EXCEPT ![t] = n[t] + 1])
<1> DEFINE q == Append(p, f)
           n1 == [n EXCEPT ![t] = n[t] + 1]
<1>1. n[t] + 1 \in Nat /\ n1[t] = n[t] + 1 /\ \A u \in ConnThreads : u # t => n1[u] = n[u]
  OBVIOUS
<1>2. 1..(n[t] + 1) = 1..n[t] \cup {n[t] + 1} /\ (n[t] + 1) - 1 = n[t]
  OBVIOUS
<1> SUFFICES ASSUME NEW u \in ConnThreads
             PROVE  /\ Done(a, u) \cup Nums(d, u) \cup Nums(q, u) = 1..n1[u]
                    /\ \A i \in DOMAIN d, k \in Nat : Carries(d[i], u, k) => Done(a, u) \cup NumsBefore(d, i, u) = 1..k - 1
                    /\ \A i \in DOMAIN q, k \in Nat : Carries(q[i], u, k) =>
                         (Done(a, u) \cup Nums(d, u)) \cup NumsBefore(q, i, u) = 1..k - 1
  BY DEF Consecutive
<1>3. /\ \A k \in Nat : k \in Nums(q, u) <=> k \in Nums(p, u) \/ Carries(f, u, k)
      /\ \A i \in DOMAIN p : NumsBefore(q, i, u) = NumsBefore(p, i, u) /\ q[i] = p[i]
      /\ NumsBefore(q, Len(p) + 1, u) = Nums(p, u) /\ q[Len(p) + 1] = f
      /\ DOMAIN q = DOMAIN p \cup {Len(p) + 1}
  BY NumsGrow
<1> HIDE DEF q, n1
<1>4. \A k \in Nat : Carries(f, u, k) <=> u = t /\ k = n[t] + 1
  BY <1>1, OneMessage
<1>5. /\ Done(a, u) \cup Nums(d, u) \cup Nums(p, u) = 1..n[u]
      /\ \A i \in DOMAIN d, k \in Nat : Carries(d[i], u, k) => Done(a, u) \cup NumsBefore(d, i, u) = 1..k - 1
      /\ \A i \in DOMAIN p, k \in Nat :
           Carries(p[i], u, k) => (Done(a, u) \cup Nums(d, u)) \cup NumsBefore(p, i, u) = 1..k - 1
  BY DEF Consecutive
<1>6. Done(a, u) \cup Nums(d, u) \cup Nums(q, u) = 1..n1[u]
  <2>1. CASE u = t
    <3>1. Nums(q, u) = Nums(p, u) \cup {n[t] + 1}
      BY <1>1, <1>3, <1>4, <2>1 DEF Nums
    <3> QED
      BY <1>1, <1>2, <1>5, <2>1, <3>1
  <2>2. CASE u # t
    <3>1. Nums(q, u) = Nums(p, u)
      BY <1>3, <1>4, <2>2 DEF Nums
    <3> QED
      BY <1>1, <1>5, <2>2, <3>1
  <2> QED
    BY <2>1, <2>2
<1>7. ASSUME NEW i \in DOMAIN q, NEW k \in Nat, Carries(q[i], u, k)
      PROVE  (Done(a, u) \cup Nums(d, u)) \cup NumsBefore(q, i, u) = 1..k - 1
  <2>1. CASE i \in DOMAIN p
    BY <1>3, <1>5, <1>7, <2>1
  <2>2. CASE i = Len(p) + 1
    <3>1. u = t /\ k = n[t] + 1
      BY <1>3, <1>4, <1>7, <2>2
    <3> QED
      BY <1>2, <1>3, <1>5, <2>2, <3>1
  <2> QED
    BY <1>3, <2>1, <2>2
<1> QED
  BY <1>5, <1>6, <1>7

(* A functor is run: not a message, or a message that goes to the output. *)
LEMMA ConsecutivePop ==
  ASSUME NEW a, NEW d \in Seq(FunctorRecord), d # <<>>, NEW p, NEW n, Head(d).what # "sendInLoop",
         Consecutive(a, d, p, n)
  PROVE  Consecutive(a, Tail(d), p, n)
<1> DEFINE e == Tail(d)
<1> SUFFICES ASSUME NEW t \in ConnThreads
             PROVE  /\ Nums(e, t) = Nums(d, t)
                    /\ \A i \in DOMAIN e, k \in Nat : Carries(e[i], t, k) => Done(a, t) \cup NumsBefore(e, i, t) = 1..k - 1
  BY DEF Consecutive
<1>1. \A k : ~Carries(Head(d), t, k)
  BY DEF Carries
<1>2. /\ \A k \in Nat : k \in Nums(d, t) <=> k \in Nums(e, t) \/ Carries(Head(d), t, k)
      /\ \A i \in DOMAIN e : /\ i + 1 \in DOMAIN d /\ e[i] = d[i + 1]
                             /\ \A k \in Nat : k \in NumsBefore(d, i + 1, t) <=> k \in NumsBefore(e, i, t) \/ Carries(Head(d), t, k)
  BY NumsShrink
<1> HIDE DEF e
<1>3. Nums(e, t) = Nums(d, t)
  BY <1>1, <1>2 DEF Nums
<1>4. \A i \in DOMAIN e : NumsBefore(e, i, t) = NumsBefore(d, i + 1, t)
  BY <1>1, <1>2 DEF NumsBefore
<1> QED
  BY <1>2, <1>3, <1>4 DEF Consecutive

LEMMA ConsecutiveTake ==
  ASSUME NEW a \in Seq(Units), NEW d \in Seq(FunctorRecord), d # <<>>, NEW p, NEW n,
         NEW t \in ConnThreads, NEW m \in Nat, Carries(Head(d), t, m), Consecutive(a, d, p, n)
  PROVE  Done(a, t) = 1..m - 1 /\ Consecutive(a \o Message(t, m), Tail(d), p, n)
<1> DEFINE e == Tail(d)
           b == a \o Message(t, m)
<1>1. Done(a, t) = 1..m - 1
  <2>1. 1 \in DOMAIN d /\ Head(d) = d[1] /\ NumsBefore(d, 1, t) = {}
    BY NumsShrink
  <2>2. Done(a, t) \cup NumsBefore(d, 1, t) = 1..m - 1
    BY <2>1 DEF Consecutive
  <2> QED
    BY <2>1, <2>2
<1> SUFFICES ASSUME NEW u \in ConnThreads
             PROVE  /\ Done(b, u) \cup Nums(e, u) = Done(a, u) \cup Nums(d, u)
                    /\ \A i \in DOMAIN e, k \in Nat : Carries(e[i], u, k) => Done(b, u) \cup NumsBefore(e, i, u) = 1..k - 1
  BY <1>1 DEF Consecutive
<1>2. /\ \A k \in Nat : k \in Nums(d, u) <=> k \in Nums(e, u) \/ Carries(Head(d), u, k)
      /\ \A i \in DOMAIN e : /\ i + 1 \in DOMAIN d /\ e[i] = d[i + 1]
                             /\ \A k \in Nat : k \in NumsBefore(d, i + 1, u) <=> k \in NumsBefore(e, i, u) \/ Carries(Head(d), u, k)
  BY NumsShrink
<1>3. \A k \in Nat : k \in Done(b, u) <=> k \in Done(a, u) \/ (u = t /\ k = m)
  BY DoneGrows
<1> HIDE DEF e, b
<1>4. \A k \in Nat : Carries(Head(d), u, k) <=> u = t /\ k = m
  BY OneMessage
<1>5. Done(b, u) \cup Nums(e, u) = Done(a, u) \cup Nums(d, u)
  <2>1. /\ Done(b, u) \subseteq Nat /\ Nums(e, u) \subseteq Nat /\ Done(a, u) \subseteq Nat /\ Nums(d, u) \subseteq Nat
    BY DEF Done, Nums
  <2> QED
    BY <1>2, <1>3, <1>4, <2>1
<1>6. ASSUME NEW i \in DOMAIN e PROVE Done(b, u) \cup NumsBefore(e, i, u) = Done(a, u) \cup NumsBefore(d, i + 1, u)
  <2>1. /\ Done(b, u) \subseteq Nat /\ NumsBefore(e, i, u) \subseteq Nat /\ Done(a, u) \subseteq Nat
        /\ NumsBefore(d, i + 1, u) \subseteq Nat
    BY DEF Done, NumsBefore
  <2>2. \A k \in Nat : k \in NumsBefore(d, i + 1, u) <=> k \in NumsBefore(e, i, u) \/ (u = t /\ k = m)
    BY <1>2, <1>4
  <2> QED
    BY <1>3, <2>1, <2>2
<1>7. ASSUME NEW i \in DOMAIN e, NEW k \in Nat, Carries(e[i], u, k)
      PROVE  Done(b, u) \cup NumsBefore(e, i, u) = 1..k - 1
  <2>1. i + 1 \in DOMAIN d /\ Carries(d[i + 1], u, k)
    BY <1>2, <1>7
  <2>2. Done(a, u) \cup NumsBefore(d, i + 1, u) = 1..k - 1
    BY <2>1 DEF Consecutive
  <2> QED
    BY <1>6, <2>2
<1> QED
  BY <1>5, <1>7

LEMMA ConsecutiveStart ==
  ASSUME NEW a, NEW p, NEW n, Consecutive(a, <<>>, p, n)
  PROVE  Consecutive(a, p, <<>>, n)
<1>1. \A t : Nums(<<>>, t) = {}
  BY DEF Nums
<1> QED
  BY <1>1 DEF Consecutive

LEMMA WholeGrow ==
  ASSUME NEW s \in Seq(FunctorRecord), NEW f \in FunctorRecord, WholeMessages(s),
         f.what = "sendInLoop" => \E t \in ConnThreads, k \in Nat : f.msg = Message(t, k)
  PROVE  WholeMessages(Append(s, f))
<1> DEFINE q == Append(s, f)
<1>1. /\ Len(s) \in Nat /\ DOMAIN s = 1..Len(s) /\ DOMAIN q = 1..(Len(s) + 1)
      /\ \A j \in 1..Len(s) : q[j] = s[j]
      /\ q[Len(s) + 1] = f
  BY AppendProperties, LenProperties
<1> HIDE DEF q
<1>2. \A j \in DOMAIN q : j \in DOMAIN s \/ j = Len(s) + 1
  BY <1>1
<1>3. WholeMessages(q)
  BY <1>1, <1>2 DEF WholeMessages
<1> QED
  BY <1>3 DEF q

LEMMA WholeShrink ==
  ASSUME NEW s \in Seq(FunctorRecord), s # <<>>, WholeMessages(s)
  PROVE  /\ WholeMessages(Tail(s))
         /\ Head(s).what = "sendInLoop" => \E t \in ConnThreads, k \in Nat : Carries(Head(s), t, k)
<1>1. /\ Tail(s) \in Seq(FunctorRecord) /\ Len(s) \in Nat /\ Len(s) >= 1 /\ DOMAIN s = 1..Len(s)
      /\ DOMAIN Tail(s) = 1..(Len(s) - 1)
      /\ \A j \in 1..(Len(s) - 1) : Tail(s)[j] = s[j + 1]
      /\ Head(s) = s[1]
  BY HeadTailProperties, LenProperties, EmptySeq
<1>2. 1 \in DOMAIN s /\ \A j \in DOMAIN Tail(s) : j + 1 \in DOMAIN s
  BY <1>1
<1> QED
  BY <1>1, <1>2 DEF WholeMessages, Carries

(* "writeComplete" is queued, in the words of WriteCompleteFollows. *)
LEMMA FollowsIs ==
  ASSUME NEW d \in Seq(FunctorRecord), NEW p \in Seq(FunctorRecord)
  PROVE  (\E i \in DOMAIN (d \o p) : (d \o p)[i].what = "writeComplete")
           <=> Has(p, "writeComplete") \/ Has(d, "writeComplete")
<1>1. /\ DOMAIN (d \o p) = 1..(Len(d) + Len(p)) /\ Len(d) \in Nat /\ Len(p) \in Nat
      /\ DOMAIN d = 1..Len(d) /\ DOMAIN p = 1..Len(p)
      /\ \A i \in 1..(Len(d) + Len(p)) : (d \o p)[i] = IF i <= Len(d) THEN d[i] ELSE p[i - Len(d)]
  BY ConcatProperties, LenProperties
<1>2. /\ \A i \in DOMAIN d : i \in DOMAIN (d \o p) /\ (d \o p)[i] = d[i]
      /\ \A i \in DOMAIN p : Len(d) + i \in DOMAIN (d \o p) /\ (d \o p)[Len(d) + i] = p[i]
  <2>1. \A i \in DOMAIN p : Len(d) + i \in DOMAIN (d \o p) /\ ~(Len(d) + i <= Len(d)) /\ Len(d) + i - Len(d) = i
    BY <1>1
  <2>2. \A i \in DOMAIN d : i \in DOMAIN (d \o p) /\ i <= Len(d)
    BY <1>1
  <2> QED
    BY <1>1, <2>1, <2>2
<1>3. \A i \in DOMAIN (d \o p) : \/ i \in DOMAIN d /\ (d \o p)[i] = d[i]
                                 \/ i - Len(d) \in DOMAIN p /\ (d \o p)[i] = p[i - Len(d)]
  BY <1>1
<1> QED
  BY ZenonT(40), <1>2, <1>3 DEF Has

(* How the queues change when no message is added to them. *)
QueueStep ==
  \/ UNCHANGED <<doing, pending>>
  \/ doing' = doing /\ \E f \in FunctorRecord : f.what # "sendInLoop" /\ pending' = Append(pending, f)
  \/ /\ doing # <<>> /\ doing' = Tail(doing) /\ pending' = pending
     /\ Head(doing).what = "sendInLoop" => Closed \/ Dropping
     /\ Head(doing).what = "writeComplete" => ~owed'
  \/ doing = <<>> /\ doing' = pending /\ pending' = <<>>

LEMMA QueuesKeep ==
  ASSUME ConnTypeOK, WholeMessages(doing), WholeMessages(pending), QueueStep
  PROVE  /\ WholeMessages(doing') /\ WholeMessages(pending')
         /\ doing' \in Seq(FunctorRecord) /\ pending' \in Seq(FunctorRecord)
         /\ Queued("writeComplete") /\ owed' => Queued("writeComplete")'
         /\ \A a : ~Closed /\ ~Dropping /\ Consecutive(a, doing, pending, sent) => Consecutive(a, doing', pending', sent)
<1>1. doing \in Seq(FunctorRecord) /\ pending \in Seq(FunctorRecord)
  BY DEF ConnTypeOK
<1>2. CASE UNCHANGED <<doing, pending>>
  BY <1>1, <1>2 DEF Queued
<1>3. ASSUME doing' = doing, NEW f \in FunctorRecord, f.what # "sendInLoop", pending' = Append(pending, f)
      PROVE  /\ WholeMessages(pending') /\ pending' \in Seq(FunctorRecord)
             /\ Queued("writeComplete") => Queued("writeComplete")'
             /\ \A a : Consecutive(a, doing, pending, sent) => Consecutive(a, doing', pending', sent)
  <2>1. WholeMessages(pending')
    BY <1>1, <1>3, WholeGrow
  <2>2. pending' \in Seq(FunctorRecord) /\ (Has(pending, "writeComplete") => Has(pending', "writeComplete"))
    BY <1>1, <1>3, FunctorsGrow
  <2>3. \A a : Consecutive(a, doing, pending, sent) => Consecutive(a, doing', pending', sent)
    BY <1>1, <1>3, ConsecutiveQueue
  <2> QED
    BY <1>3, <2>1, <2>2, <2>3 DEF Queued
<1>4. ASSUME doing # <<>>, doing' = Tail(doing), pending' = pending,
             Head(doing).what = "sendInLoop" => Closed \/ Dropping, Head(doing).what = "writeComplete" => ~owed'
      PROVE  /\ WholeMessages(doing') /\ doing' \in Seq(FunctorRecord)
             /\ Queued("writeComplete") /\ owed' => Queued("writeComplete")'
             /\ \A a : ~Closed /\ ~Dropping /\ Consecutive(a, doing, pending, sent) => Consecutive(a, doing', pending', sent)
  <2>1. WholeMessages(doing')
    BY <1>1, <1>4, WholeShrink
  <2>2. doing' \in Seq(FunctorRecord)
        /\ (Has(doing, "writeComplete") /\ Head(doing).what # "writeComplete" => Has(doing', "writeComplete"))
    BY <1>1, <1>4, FunctorsShrink
  <2>3. \A a : Head(doing).what # "sendInLoop" /\ Consecutive(a, doing, pending, sent) => Consecutive(a, doing', pending', sent)
    BY <1>1, <1>4, ConsecutivePop
  <2> QED
    BY <1>4, <2>1, <2>2, <2>3 DEF Queued
<1>5. CASE doing = <<>> /\ doing' = pending /\ pending' = <<>>
  <2>1. WholeMessages(pending') /\ pending' \in Seq(FunctorRecord) /\ (Queued("writeComplete") => Has(pending, "writeComplete"))
    BY <1>5 DEF WholeMessages, Queued, Has
  <2>2. \A a : Consecutive(a, doing, pending, sent) => Consecutive(a, doing', pending', sent)
    BY <1>5, ConsecutiveStart
  <2> QED
    BY <1>1, <1>5, <2>1, <2>2 DEF Queued
<1> QED
  BY <1>1, <1>2, <1>3, <1>4, <1>5 DEF QueueStep

(* Steps that write nothing and take no message. *)
LEMMA OutputStays ==
  ASSUME ConnTypeOK, OutInv, QueueStep, UNCHANGED <<out, wire, sent>>,
         Closed => Closed', wshut => wshut', link = "reset" => link' = "reset", late' = {} => late = {}, owed' => owed,
         Closed' \/ ("write" \in events' <=> "write" \in events),
         Closed' \/ (wshut' <=> wshut) \/ "write" \notin events
  PROVE  OutInv'
<1>1. /\ WritesPending /\ ShutAfterOutput /\ WriteCompleteFollows /\ WholeMessages(doing) /\ WholeMessages(pending)
      /\ (late = {} => InOrder(wire \o out)) /\ NoneMissing
  BY DEF OutInv
<1>2. /\ WholeMessages(doing') /\ WholeMessages(pending')
      /\ doing' \in Seq(FunctorRecord) /\ pending' \in Seq(FunctorRecord)
      /\ Queued("writeComplete") /\ owed' => Queued("writeComplete")'
      /\ \A a : ~Closed /\ ~Dropping /\ Consecutive(a, doing, pending, sent) => Consecutive(a, doing', pending', sent)
  BY <1>1, QueuesKeep
<1>3. WritesPending' /\ ShutAfterOutput'
  BY <1>1 DEF WritesPending, ShutAfterOutput
<1>4. WriteCompleteFollows'
  <2>1. doing \in Seq(FunctorRecord) /\ pending \in Seq(FunctorRecord)
    BY DEF ConnTypeOK
  <2>2. owed /\ out = <<>> => Queued("writeComplete")
    BY <1>1, <2>1, FollowsIs DEF WriteCompleteFollows, Queued
  <2>3. owed' /\ out' = <<>> => Has(pending', "writeComplete") \/ Has(doing', "writeComplete")
    BY <1>2, <2>2 DEF Queued
  <2> QED
    BY <1>2, <2>3, FollowsIs DEF WriteCompleteFollows
<1>5. NoneMissing'
  <2>1. Dropping => Dropping'
    BY DEF Dropping
  <2>2. late' = {} /\ ~Closed' /\ ~Dropping' => Consecutive(wire \o out, doing', pending', sent)
    BY <1>1, <1>2, <2>1 DEF NoneMissing
  <2> QED
    BY <2>2 DEF NoneMissing
<1>6. late' = {} => InOrder(wire' \o out')
  BY <1>1
<1> QED
  BY <1>2, <1>3, <1>4, <1>5, <1>6 DEF OutInv

(* Cutting a sequence, and joining the parts behind another. *)
LEMMA CutJoins ==
  ASSUME NEW s \in Seq(Units), NEW w \in Seq(Units), NEW n \in 0..Len(s)
  PROVE  /\ (w \o SubSeq(s, 1, n)) \o SubSeq(s, n + 1, Len(s)) = w \o s
         /\ Len(SubSeq(s, n + 1, Len(s))) = Len(s) - n /\ Len(SubSeq(s, 1, n)) = n
<1>1. Len(s) \in Nat /\ n \in Nat /\ n <= Len(s) /\ Len(w) \in Nat
  BY LenProperties
<1>2. \A k \in 1..Len(s) : s[k] \in Units
  BY ElementOfSeq
<1>3. PICK b, c : b = SubSeq(s, 1, n) /\ c = SubSeq(s, n + 1, Len(s))
  OBVIOUS
<1>4. b \in Seq(Units) /\ c \in Seq(Units)
  BY <1>3, CutUnits
<1>5. Len(b) = n /\ \A i \in 1..n : b[i] = s[i]
  <2>1. 1 \in Int /\ n \in Int /\ \A k \in 1..n : s[k] \in Units
    BY <1>1, <1>2
  <2>2. /\ Len(b) = IF 1 <= n THEN n - 1 + 1 ELSE 0
        /\ \A i \in 1..n - 1 + 1 : b[i] = s[1 + i - 1]
    BY <1>3, <2>1, SubSeqProperties
  <2> QED
    BY <1>1, <2>2
<1>6. Len(c) = Len(s) - n /\ \A i \in 1..Len(s) - n : c[i] = s[n + i]
  <2>1. n + 1 \in Int /\ Len(s) \in Int /\ \A k \in (n + 1)..Len(s) : s[k] \in Units
    BY <1>1, <1>2
  <2>2. /\ Len(c) = IF n + 1 <= Len(s) THEN Len(s) - (n + 1) + 1 ELSE 0
        /\ \A i \in 1..Len(s) - (n + 1) + 1 : c[i] = s[(n + 1) + i - 1]
    BY <1>3, <2>1, SubSeqProperties
  <2> QED
    BY <1>1, <2>2
<1>7. PICK x \in Seq(Units) : x = w \o b
  BY <1>4, ConcatProperties
<1>8. /\ Len(x) = Len(w) + n
      /\ \A i \in 1..Len(w) + n : x[i] = IF i <= Len(w) THEN w[i] ELSE b[i - Len(w)]
  <2>1. /\ Len(w \o b) = Len(w) + Len(b)
        /\ \A i \in 1..Len(w) + Len(b) : (w \o b)[i] = IF i <= Len(w) THEN w[i] ELSE b[i - Len(w)]
    BY <1>4, ConcatProperties
  <2> QED
    BY <1>5, <1>7, <2>1
<1>9. /\ x \o c \in Seq(Units) /\ Len(x \o c) = Len(x) + Len(c)
      /\ \A i \in 1..Len(x) + Len(c) : (x \o c)[i] = IF i <= Len(x) THEN x[i] ELSE c[i - Len(x)]
  BY <1>4, ConcatProperties
<1>10. /\ w \o s \in Seq(Units) /\ Len(w \o s) = Len(w) + Len(s)
       /\ \A i \in 1..Len(w) + Len(s) : (w \o s)[i] = IF i <= Len(w) THEN w[i] ELSE s[i - Len(w)]
  BY ConcatProperties
<1>11. Len(x \o c) = Len(w \o s)
  BY <1>1, <1>6, <1>8, <1>9, <1>10
<1>12. ASSUME NEW i \in 1..Len(w) + Len(s) PROVE (x \o c)[i] = (w \o s)[i]
  <2>1. CASE i <= Len(w)
    BY <1>1, <1>6, <1>8, <1>9, <1>10, <2>1
  <2>2. CASE i > Len(w) /\ i <= Len(w) + n
    <3>1. i - Len(w) \in 1..n /\ i \in 1..Len(w) + n
      BY <1>1, <2>2
    <3>2. i <= Len(x) /\ i \in 1..Len(x) + Len(c) /\ ~(i <= Len(w))
      BY <1>1, <1>6, <1>8, <2>2
    <3>3. (x \o c)[i] = x[i]
      BY <1>9, <3>2
    <3>4. x[i] = s[i - Len(w)]
      BY <1>5, <1>8, <3>1, <3>2
    <3>5. (w \o s)[i] = s[i - Len(w)]
      BY <1>10, <3>2
    <3> QED
      BY <3>3, <3>4, <3>5
  <2>3. CASE i > Len(w) + n
    <3>1. /\ i - (Len(w) + n) \in 1..Len(s) - n /\ n + (i - (Len(w) + n)) = i - Len(w)
          /\ i \in 1..(Len(w) + n) + (Len(s) - n) /\ ~(i <= Len(w) + n) /\ ~(i <= Len(w))
      BY <1>1, <2>3
    <3>2. (x \o c)[i] = c[i - (Len(w) + n)]
      BY <1>6, <1>8, <1>9, <3>1
    <3>3. c[i - (Len(w) + n)] = s[i - Len(w)]
      BY <1>6, <3>1
    <3> QED
      BY <1>10, <3>1, <3>2, <3>3
  <2>4. i \in Int /\ Len(w) \in Int /\ n \in Int
    BY <1>1
  <2>5. i <= Len(w) \/ (i > Len(w) /\ i <= Len(w) + n) \/ i > Len(w) + n
    BY <2>4
  <2> QED
    BY <2>1, <2>2, <2>3, <2>5
<1>13. x \o c = w \o s
  BY <1>9, <1>10, <1>11, <1>12, SeqEqual
<1> QED
  BY <1>3, <1>5, <1>6, <1>7, <1>13

(* Steps of the threads, of the server and of the loop outside its batch. *)
LEMMA QuietSteps ==
  ASSUME ConnInv, failed = {}, OutInv,
         \/ PollConnection \/ ChannelCloses \/ StartFunctors \/ EndBatch \/ DelayExpires \/ RemoveConnectionInLoop
         \/ PeerFinishes \/ PeerReads \/ PeerResets
         \/ \E t \in ConnThreads :
              \/ \E op \in {"send", "shutdown", "forceClose", "forceCloseWithDelay"} : CallStarts(t, op)
              \/ \E what \in {"startReadInLoop", "stopReadInLoop"} : CallReading(t, what)
              \/ CallSetsState(t) \/ DropPointer(t)
  PROVE  OutInv'
<1>1. ConnTypeOK /\ ConnOK
  BY DEF ConnInv
<1>2. ASSUME UNCHANGED <<events, out, wire, wshut, owed, sent, told>>, link = "reset" => link' = "reset", late' = {} => late = {}, QueueStep PROVE OutInv'
  BY <1>1, <1>2, OutputStays DEF Closed
<1>3. UNCHANGED <<doing, pending>> => QueueStep
  BY DEF QueueStep
<1>4. CASE PollConnection \/ PeerFinishes \/ PeerReads \/ PeerResets \/ EndBatch
  BY <1>2, <1>3, <1>4 DEF PollConnection, PeerFinishes, PeerReads, PeerResets, EndBatch, channelVars, outVars, loopPart, threadPart
<1>5. CASE ChannelCloses
  <2>1. told' = Append(told, "down") /\ UNCHANGED <<out, wire, wshut, owed, link, sent, late, doing, pending>>
    BY <1>5 DEF ChannelCloses, HandleClose, outVars, threadPart
  <2>2. Closed'
    BY <1>1, <2>1, ToldCases DEF Closed, ConnTypeOK
  <2> QED
    BY <1>1, <1>3, <2>1, <2>2, OutputStays
<1>6. CASE StartFunctors
  <2>1. QueueStep
    BY <1>1, <1>6 DEF QueueStep, StartFunctors, ConnOK, LoopOK
  <2> QED
    BY <1>2, <1>6, <2>1 DEF StartFunctors, channelVars, outVars, threadPart
<1>7. CASE DelayExpires
  <2>1. Functor("forceCloseInLoop") \in FunctorRecord /\ Functor("forceCloseInLoop").what # "sendInLoop"
    BY ConnTypes DEF Holding
  <2>2. QueueStep
    BY <1>7, <2>1 DEF DelayExpires, QueueStep
  <2> QED
    BY <1>2, <1>7, <2>2 DEF DelayExpires, channelVars, outVars, threadPart
<1>8. CASE RemoveConnectionInLoop
  <2>1. Functor("connectDestroyed") \in FunctorRecord /\ Functor("connectDestroyed").what # "sendInLoop"
    BY ConnTypes DEF Holding
  <2>2. QueueStep
    BY <1>8, <2>1 DEF RemoveConnectionInLoop, QueueStep
  <2> QED
    BY <1>2, <1>8, <2>2 DEF RemoveConnectionInLoop, channelVars, outVars, threadPart
<1>9. ASSUME NEW t \in ConnThreads, NEW op \in {"send", "shutdown", "forceClose", "forceCloseWithDelay"}, CallStarts(t, op)
      PROVE  OutInv'
  BY <1>2, <1>3, <1>9 DEF CallStarts, channelVars, outVars, loopPart
<1>10. ASSUME NEW t \in ConnThreads, NEW what \in {"startReadInLoop", "stopReadInLoop"}, CallReading(t, what)
       PROVE  OutInv'
  <2>1. PICK f : f = [what |-> what, msg |-> <<>>, late |-> ~inMap]
    OBVIOUS
  <2>2. f \in FunctorRecord /\ f.what # "sendInLoop"
    <3>1. <<>> \in Seq(Units) /\ (~inMap) \in BOOLEAN /\ what \in Holding \cup RawWork
      BY EmptySeq DEF RawWork
    <3>2. f.what = what
      BY <2>1
    <3> QED
      BY <2>1, <3>1, <3>2, ConnTypes
  <2>3. QueueStep
    BY <1>10, <2>1, <2>2 DEF CallReading, Queue, QueueStep
  <2> QED
    BY <1>2, <1>10, <2>3 DEF CallReading, channelVars, outVars
<1>11. ASSUME NEW t \in ConnThreads, CallSetsState(t) PROVE OutInv'
  BY <1>2, <1>3, <1>11 DEF CallSetsState, channelVars, outVars, loopPart
<1>12. ASSUME NEW t \in ConnThreads, DropPointer(t) PROVE OutInv'
  BY <1>2, <1>3, <1>12 DEF DropPointer, channelVars, outVars, loopPart
<1> QED
  BY <1>4, <1>5, <1>6, <1>7, <1>8, <1>9, <1>10, <1>11, <1>12

(* Functors other than sendInLoop(), and those that find no connection. *)
LEMMA QuietFunctors ==
  ASSUME ConnInv, failed = {}, OutInv,
         \/ RunDangling \/ ConnectEstablished \/ ShutdownInLoop \/ ForceCloseInLoop
         \/ StartReadInLoop \/ StopReadInLoop \/ RunCallback \/ ConnectDestroyed
  PROVE  OutInv'
<1>1. ConnTypeOK /\ ConnOK
  BY DEF ConnInv
<1>2. /\ doing # <<>> /\ doing' = Tail(doing) /\ pending' = pending
      /\ UNCHANGED <<out, wire, link, sent>>
  BY DEF RunDangling, ConnectEstablished, ShutdownInLoop, ForceCloseInLoop, StartReadInLoop, StopReadInLoop, RunCallback,
         ConnectDestroyed, RunsAlive, Runs, NextFunctor, HandleClose, outVars
<1>3. Queued(Head(doing).what)
  BY <1>1, <1>2, DoingShrinks DEF ConnOK
<1>4. CASE RunDangling
  <2>1. ~alive /\ UNCHANGED <<events, wshut, owed, told>> /\ (late' = {} => late = {})
    BY <1>4 DEF RunDangling, channelVars, outVars
  <2>2. Closed
    BY <1>1, <2>1 DEF ConnOK, NewOK, UpOK
  <2>3. Head(doing).what # "writeComplete"
    BY <1>1, <1>3, <2>1 DEF ConnOK, DeadOK, Holding
  <2> QED
    BY <1>1, <1>2, <2>1, <2>2, <2>3, OutputStays DEF Closed, QueueStep
<1>5. CASE ConnectEstablished
  <2>1. Head(doing).what = "connectEstablished" /\ events' = {"read"} /\ UNCHANGED <<wshut, owed, late>>
    BY <1>5 DEF ConnectEstablished, RunsAlive, Runs, outVars
  <2>2. told = <<>>
    BY <1>1, <1>3, <2>1 DEF ConnOK, UpOK
  <2>3. ~Closed /\ events = {}
    BY <1>1, <2>2, ToldCases DEF ConnOK, NewOK, LoopOK
  <2> QED
    BY <1>1, <1>2, <2>1, <2>3, OutputStays DEF QueueStep
<1>6. CASE ShutdownInLoop
  <2>1. Head(doing).what = "shutdownInLoop" /\ wshut' = (wshut \/ "write" \notin events)
        /\ UNCHANGED <<events, owed, told, late>>
    BY <1>6 DEF ShutdownInLoop, RunsAlive, Runs, ShutdownNow, channelVars
  <2> QED
    BY <1>1, <1>2, <2>1, OutputStays DEF Closed, QueueStep, ConnTypeOK
<1>7. CASE ForceCloseInLoop
  <2>1. /\ Head(doing).what = "forceCloseInLoop" /\ UNCHANGED <<wshut, owed, late>>
        /\ \/ told' = Append(told, "down")
           \/ UNCHANGED <<events, told>>
    BY <1>7 DEF ForceCloseInLoop, RunsAlive, Runs, HandleClose, channelVars, outVars
  <2>2. Closed' \/ UNCHANGED <<events, told>>
    BY <1>1, <2>1, ToldCases DEF Closed, ConnTypeOK
  <2> QED
    BY <1>1, <1>2, <2>1, <2>2, OutputStays DEF Closed, QueueStep
<1>8. CASE StartReadInLoop \/ StopReadInLoop
  <2>1. /\ Head(doing).what \in {"startReadInLoop", "stopReadInLoop"} /\ UNCHANGED <<wshut, owed, told>>
        /\ late' = {} => late = {}
        /\ "write" \in events' <=> "write" \in events
    BY <1>8 DEF StartReadInLoop, StopReadInLoop, RunsAlive, Runs, channelVars, outVars
  <2> QED
    BY <1>1, <1>2, <2>1, OutputStays DEF Closed, QueueStep
<1>9. CASE RunCallback
  <2>1. /\ Head(doing).what \in {"writeComplete", "highWater"} /\ UNCHANGED <<events, wshut, told, late>>
        /\ owed' = (owed /\ Head(doing).what # "writeComplete")
    BY <1>9 DEF RunCallback, RunsAlive, Runs, channelVars
  <2> QED
    BY <1>1, <1>2, <2>1, OutputStays DEF Closed, QueueStep
<1>10. CASE ConnectDestroyed
  <2>1. /\ Head(doing).what = "connectDestroyed" /\ UNCHANGED <<wshut, owed, late>>
        /\ \/ told' = Append(told, "down")
           \/ UNCHANGED <<events, told>>
    BY <1>10 DEF ConnectDestroyed, RunsAlive, Runs, outVars
  <2>2. Closed' \/ UNCHANGED <<events, told>>
    BY <1>1, <2>1, ToldCases DEF Closed, ConnTypeOK
  <2> QED
    BY <1>1, <1>2, <2>1, <2>2, OutputStays DEF Closed, QueueStep
<1> QED
  BY <1>4, <1>5, <1>6, <1>7, <1>8, <1>9, <1>10

(* send() of a thread: its next message is queued. *)
LEMMA CallQueuesOutput ==
  ASSUME ConnInv, failed = {}, OutInv, NEW t \in ConnThreads, CallQueues(t)
  PROVE  OutInv'
<1>1. /\ ConnTypeOK /\ ConnOK /\ doing' = doing
      /\ UNCHANGED <<events, out, wire, wshut, owed, link, told, late>>
      /\ sent \in [ConnThreads -> Nat] /\ doing \in Seq(FunctorRecord) /\ pending \in Seq(FunctorRecord)
  BY DEF ConnInv, ConnTypeOK, CallQueues, channelVars, outVars
<1>2. CASE tpc[t].op # "send"
  <2>1. sent' = sent
    BY <1>1, <1>2 DEF CallQueues
  <2>2. \/ pending' = pending
        \/ \E w \in {"shutdownInLoop", "forceCloseInLoop"} : pending' = Append(pending, [what |-> w, msg |-> <<>>, late |-> ~inMap])
    BY <1>2 DEF CallQueues, Queue
  <2>3. \A w \in {"shutdownInLoop", "forceCloseInLoop"} : [what |-> w, msg |-> <<>>, late |-> ~inMap] \in FunctorRecord
    <3>1. <<>> \in Seq(Units) /\ (~inMap) \in BOOLEAN /\ {"shutdownInLoop", "forceCloseInLoop"} \subseteq Holding \cup RawWork
      BY EmptySeq DEF RawWork, Holding
    <3> QED
      BY <3>1, ConnTypes
  <2>4. \A w \in {"shutdownInLoop", "forceCloseInLoop"} : [what |-> w, msg |-> <<>>, late |-> ~inMap].what # "sendInLoop"
    OBVIOUS
  <2>5. QueueStep
    BY <1>1, <2>2, <2>3, <2>4 DEF QueueStep
  <2> QED
    BY <1>1, <2>1, <2>5, OutputStays DEF Closed
<1>3. CASE tpc[t].op = "send"
  <2>1. PICK f : f = [what |-> "sendInLoop", msg |-> Message(t, sent[t] + 1), late |-> ~inMap]
    OBVIOUS
  <2>2. pending' = Append(pending, f) /\ sent' = [sent EXCEPT ![t] = sent[t] + 1]
    BY <1>1, <1>3, <2>1 DEF CallQueues, Queue
  <2>3. sent[t] + 1 \in Nat
    BY <1>1
  <2>4. f \in FunctorRecord /\ f.what = "sendInLoop" /\ f.msg = Message(t, sent[t] + 1)
    <3>1. Message(t, sent[t] + 1) \in Seq(Units) /\ (~inMap) \in BOOLEAN /\ "sendInLoop" \in Holding \cup RawWork
      BY <2>3, MessageIs DEF RawWork
    <3>2. f \in FunctorRecord
      BY <2>1, <3>1, ConnTypes
    <3> QED
      BY <2>1, <3>2
  <2>5. /\ WritesPending /\ ShutAfterOutput /\ WriteCompleteFollows /\ WholeMessages(doing) /\ WholeMessages(pending)
        /\ (late = {} => InOrder(wire \o out)) /\ NoneMissing
    BY DEF OutInv
  <2>6. WholeMessages(doing') /\ WholeMessages(pending')
    BY <1>1, <2>2, <2>3, <2>4, <2>5, WholeGrow
  <2>7. WriteCompleteFollows'
    <3>1. pending' \in Seq(FunctorRecord) /\ (Has(pending, "writeComplete") => Has(pending', "writeComplete"))
      BY <1>1, <2>2, <2>4, FunctorsGrow
    <3>2. owed /\ out = <<>> => Has(pending, "writeComplete") \/ Has(doing, "writeComplete")
      BY <1>1, <2>5, FollowsIs DEF WriteCompleteFollows
    <3>3. owed' /\ out' = <<>> => Has(pending', "writeComplete") \/ Has(doing', "writeComplete")
      BY <1>1, <3>1, <3>2
    <3>4. doing' \in Seq(FunctorRecord)
      BY <1>1
    <3> QED
      BY <3>1, <3>3, <3>4, FollowsIs DEF WriteCompleteFollows
  <2>8. NoneMissing'
    <3>1. Carries(f, t, sent[t] + 1)
      BY <2>4 DEF Carries
    <3>2. \A a : Consecutive(a, doing, pending, sent) => Consecutive(a, doing, pending', sent')
      BY <1>1, <2>2, <2>4, <3>1, ConsecutiveSend
    <3>3. late = {} /\ ~Closed /\ ~Dropping => Consecutive(wire \o out, doing, pending', sent')
      BY <2>5, <3>2 DEF NoneMissing
    <3> QED
      BY <1>1, <3>3 DEF NoneMissing, Closed, Dropping
  <2>9. WritesPending' /\ ShutAfterOutput' /\ (late' = {} => InOrder(wire' \o out'))
    BY <1>1, <2>5 DEF WritesPending, ShutAfterOutput, Closed
  <2> QED
    BY <2>6, <2>7, <2>8, <2>9 DEF OutInv
<1> QED
  BY <1>2, <1>3

(* handleWrite() moves units from the buffer to the wire. *)
LEMMA ChannelWritesOutput == ASSUME ConnInv, failed = {}, OutInv, ChannelWrites PROVE OutInv'
<1>1. /\ ConnTypeOK /\ UNCHANGED <<told, late, doing, sent>>
      /\ doing \in Seq(FunctorRecord) /\ pending \in Seq(FunctorRecord) /\ out \in Seq(Units) /\ wire \in Seq(Units)
  BY DEF ConnInv, ConnTypeOK, ChannelWrites, threadPart
<1>2. CASE ~("write" \in events /\ link # "reset")
  <2>1. UNCHANGED <<events, out, wire, wshut, owed, link, pending>>
    BY <1>2 DEF ChannelWrites, outVars
  <2> QED
    BY <1>1, <2>1, OutputStays DEF Closed, QueueStep
<1>3. CASE "write" \in events /\ link # "reset"
  <2>1. PICK n \in 1..Len(out) :
          /\ wire' = wire \o SubSeq(out, 1, n) /\ out' = SubSeq(out, n + 1, Len(out))
          /\ events' = IF n = Len(out) THEN events \ {"write"} ELSE events
          /\ pending' = IF n = Len(out) THEN Written(pending) ELSE pending
          /\ IF n = Len(out) /\ ShutsAfterWrite THEN ShutdownNow(events') ELSE UNCHANGED wshut
    BY <1>3 DEF ChannelWrites, outVars
  <2>2. Len(out) \in Nat /\ n \in 0..Len(out) /\ n >= 1 /\ out # <<>>
    BY <1>1, LenProperties
  <2>3. /\ wire' \o out' = wire \o out /\ Len(out') = Len(out) - n
    BY <1>1, <2>1, <2>2, CutJoins
  <2>4. out' = <<>> <=> n = Len(out)
    <3>1. out' \in Seq(Units)
      BY <1>1, <2>1, <2>2, CutUnits
    <3>2. out' = <<>> <=> Len(out') = 0
      BY <3>1, EmptySeq
    <3> QED
      BY <2>2, <2>3, <3>2
  <2>5. /\ WritesPending /\ ShutAfterOutput /\ WriteCompleteFollows /\ WholeMessages(doing) /\ WholeMessages(pending)
        /\ (late = {} => InOrder(wire \o out)) /\ NoneMissing
    BY DEF OutInv
  <2>6. PICK f \in FunctorRecord : f = Functor("writeComplete") /\ f.what = "writeComplete"
    BY ConnTypes DEF Holding
  <2>7. pending' = IF n = Len(out) THEN Append(pending, f) ELSE pending
    BY <2>1, <2>6 DEF Written
  <2>8. /\ WholeMessages(pending') /\ pending' \in Seq(FunctorRecord)
        /\ n = Len(out) => Has(pending', "writeComplete")
        /\ \A a : Consecutive(a, doing, pending, sent) => Consecutive(a, doing, pending', sent)
    <3>1. WholeMessages(Append(pending, f))
      BY <1>1, <2>5, <2>6, WholeGrow
    <3>2. Append(pending, f) \in Seq(FunctorRecord) /\ Has(Append(pending, f), "writeComplete")
      BY <1>1, <2>6, FunctorsGrow
    <3>3. \A a : Consecutive(a, doing, pending, sent) => Consecutive(a, doing, Append(pending, f), sent)
      BY <1>1, <2>6, ConsecutiveQueue
    <3> QED
      BY <1>1, <2>5, <2>7, <3>1, <3>2, <3>3
  <2>9. WritesPending'
    BY <1>1, <1>3, <2>1, <2>4, <2>5 DEF WritesPending, Closed
  <2>10. ShutAfterOutput' /\ (wshut => wshut')
    <3>1. n # Len(out) => wshut' = wshut
      BY <2>1
    <3>2. wshut => wshut'
      BY <2>1 DEF ShutdownNow
    <3> QED
      BY <1>1, <2>2, <2>4, <2>5, <3>1, <3>2 DEF ShutAfterOutput, Closed
  <2>11. WriteCompleteFollows'
    <3>1. doing' \in Seq(FunctorRecord) /\ (out' = <<>> => Has(pending', "writeComplete"))
      BY <1>1, <2>4, <2>8
    <3> QED
      BY <2>8, <3>1, FollowsIs DEF WriteCompleteFollows
  <2>12. NoneMissing'
    <3>1. ~Dropping' => ~Dropping
      BY <1>3, <2>10 DEF Dropping
    <3> QED
      BY <1>1, <2>3, <2>5, <2>8, <2>10, <3>1 DEF NoneMissing, Closed
  <2>13. WholeMessages(doing') /\ (late' = {} => InOrder(wire' \o out'))
    BY <1>1, <2>3, <2>5
  <2> QED
    BY <2>8, <2>9, <2>10, <2>11, <2>12, <2>13 DEF OutInv
<1> QED
  BY <1>2, <1>3

(* What is written at once and what is buffered follow the output. *)
LEMMA SendJoins ==
  ASSUME NEW w \in Seq(Units), NEW o \in Seq(Units), NEW s \in Seq(Units), NEW n \in 0..Len(s), o = <<>> \/ n = 0
  PROVE  /\ (w \o SubSeq(s, 1, n)) \o (o \o SubSeq(s, n + 1, Len(s))) = (w \o o) \o s
         /\ Len(o \o SubSeq(s, n + 1, Len(s))) = Len(o) + (Len(s) - n)
<1>1. PICK b, c : b = SubSeq(s, 1, n) /\ c = SubSeq(s, n + 1, Len(s))
  OBVIOUS
<1>2. b \in Seq(Units) /\ c \in Seq(Units) /\ Len(b) = n /\ Len(c) = Len(s) - n
  BY <1>1, CutUnits, CutJoins
<1>3. Len(o \o c) = Len(o) + (Len(s) - n)
  <2>1. Len(o \o c) = Len(o) + Len(c)
    BY <1>2, ConcatProperties
  <2> QED
    BY <1>2, <2>1
<1>4. CASE o = <<>>
  <2>1. o \o c = c /\ w \o o = w
    BY <1>2, <1>4, ConcatEmptySeq
  <2>2. (w \o b) \o c = w \o s
    BY <1>1, CutJoins
  <2> QED
    BY <1>1, <1>3, <2>1, <2>2
<1>5. CASE n = 0
  <2>1. b = <<>>
    BY <1>2, <1>5, EmptySeq
  <2>2. w \o b = w
    BY <2>1, ConcatEmptySeq
  <2>3. c = s
    <3>1. /\ (<<>> \o b) \o c = <<>> \o s
      BY <1>1, EmptySeq, CutJoins
    <3>2. <<>> \o b = b /\ b \o c = c /\ <<>> \o s = s
      BY <1>2, <2>1, ConcatEmptySeq
    <3> QED
      BY <3>1, <3>2
  <2>4. w \o (o \o s) = (w \o o) \o s
    BY SMTT(30), ConcatAssociative
  <2> QED
    BY <1>1, <1>3, <2>2, <2>3, <2>4
<1> QED
  BY <1>4, <1>5

(* sendInLoop() takes the next message of its thread, or drops it. *)
LEMMA SendInLoopOutput == ASSUME ConnInv, failed = {}, OutInv, SendInLoop PROVE OutInv'
<1>1. /\ doing # <<>> /\ doing' = Tail(doing) /\ Head(doing).what = "sendInLoop"
      /\ UNCHANGED <<told, late, sent>> /\ ConnTypeOK /\ ConnOK
      /\ doing \in Seq(FunctorRecord) /\ pending \in Seq(FunctorRecord) /\ out \in Seq(Units) /\ wire \in Seq(Units)
  BY DEF SendInLoop, RunsAlive, Runs, NextFunctor, ConnInv, ConnTypeOK
<1>2. /\ WritesPending /\ ShutAfterOutput /\ WriteCompleteFollows /\ WholeMessages(doing) /\ WholeMessages(pending)
      /\ (late = {} => InOrder(wire \o out)) /\ NoneMissing
  BY DEF OutInv
<1>3. CASE state = "kDisconnected" \/ (Direct /\ (wshut \/ link = "reset"))
  <2>1. UNCHANGED <<events, out, wire, wshut, owed, link, pending>>
    BY <1>3 DEF SendInLoop, outVars
  <2>2. Closed \/ Dropping
    BY <1>1, <1>3 DEF ConnOK, NewOK, UpOK, Up, Dropping, Direct
  <2> QED
    BY <1>1, <2>1, <2>2, OutputStays DEF Closed, QueueStep
<1>4. CASE ~(state = "kDisconnected" \/ (Direct /\ (wshut \/ link = "reset")))
  <2>1. /\ late = {} => ~Closed
        /\ ~Closed => ~Dropping /\ ~wshut /\ ("write" \in events <=> out # <<>>)
    BY <1>1, <1>2, <1>4 DEF ConnOK, ClosedOK, WritesPending, ShutAfterOutput, Direct, Dropping
  <2>2. PICK t \in ConnThreads, k \in Nat : Carries(Head(doing), t, k)
    BY <1>1, <1>2, WholeShrink
  <2>3. PICK msg \in Seq(Units) : msg = Message(t, k)
    BY MessageIs
  <2>4. Len(msg) = MessageUnits /\ MessageUnits \in Nat /\ MessageUnits >= 1 /\ Head(doing).msg = msg
    BY <2>2, <2>3, MessageIs DEF Carries
  <2>5. PICK n \in 0..Len(msg) :
          /\ ~Direct => n = 0
          /\ wire' = wire \o SubSeq(msg, 1, n) /\ out' = out \o SubSeq(msg, n + 1, Len(msg))
          /\ events' = IF Len(msg) - n > 0 THEN events \cup {"write"} ELSE events
          /\ pending' = CASE Len(msg) - n = 0 -> Append(pending, Functor("writeComplete"))
                          [] Len(msg) - n > 0 /\ HighWater(Len(msg) - n) -> Append(pending, Functor("highWater"))
                          [] OTHER -> pending
          /\ UNCHANGED wshut
    <3>1. 0 \in 0..Len(msg)
      BY <2>4
    <3> QED
      BY <1>4, <2>4, <3>1 DEF SendInLoop
  <2>6. out = <<>> \/ n = 0
    BY <2>5 DEF Direct
  <2>7. /\ wire' \o out' = (wire \o out) \o msg
        /\ Len(out') = Len(out) + (Len(msg) - n)
    BY <1>1, <2>5, <2>6, SendJoins
  <2>8. /\ out' = <<>> => Len(msg) - n = 0
        /\ Len(msg) - n = 0 => out = <<>> /\ out' = <<>>
        /\ Len(msg) - n = 0 \/ Len(msg) - n > 0
    <3>1. Len(out) \in Nat /\ (Len(out) = 0 <=> out = <<>>)
      BY <1>1, LenProperties, EmptySeq
    <3>2. out' \in Seq(Units)
      BY <1>1, <2>5, CutUnits, ConcatProperties
    <3>3. out' = <<>> <=> Len(out') = 0
      BY <3>2, EmptySeq
    <3>4. n \in Nat /\ n <= Len(msg) /\ Len(msg) \in Nat /\ (Len(msg) - n = 0 => n # 0)
      BY <2>4
    <3> QED
      BY <2>6, <2>7, <3>1, <3>3, <3>4
  <2>9. \/ pending' = pending /\ Len(msg) - n > 0
        \/ \E f \in FunctorRecord : /\ f.what \in {"writeComplete", "highWater"} /\ pending' = Append(pending, f)
                                    /\ Len(msg) - n = 0 => f.what = "writeComplete"
    <3>1. \A w \in {"writeComplete", "highWater"} : Functor(w) \in FunctorRecord /\ Functor(w).what = w
      BY ConnTypes DEF Holding
    <3>2. \/ Len(msg) - n = 0 /\ pending' = Append(pending, Functor("writeComplete"))
          \/ Len(msg) - n > 0 /\ pending' \in {pending, Append(pending, Functor("highWater"))}
      BY <2>5, <2>8
    <3>3. Len(msg) - n > 0 => ~(Len(msg) - n = 0)
      BY <2>4
    <3> QED
      BY <3>1, <3>2, <3>3
  <2>10. /\ WholeMessages(pending') /\ pending' \in Seq(FunctorRecord)
         /\ out' = <<>> => Has(pending', "writeComplete")
         /\ \A a, d : Consecutive(a, d, pending, sent) => Consecutive(a, d, pending', sent)
    <3>1. CASE pending' = pending /\ Len(msg) - n > 0
      <4>1. ~(Len(msg) - n = 0)
        BY <2>4, <3>1
      <4> QED
        BY <1>1, <1>2, <2>8, <3>1, <4>1
    <3>2. ASSUME NEW f \in FunctorRecord, f.what \in {"writeComplete", "highWater"}, pending' = Append(pending, f),
                 Len(msg) - n = 0 => f.what = "writeComplete"
          PROVE  /\ WholeMessages(pending') /\ pending' \in Seq(FunctorRecord)
                 /\ out' = <<>> => Has(pending', "writeComplete")
                 /\ \A a, d : Consecutive(a, d, pending, sent) => Consecutive(a, d, pending', sent)
      <4>1. WholeMessages(pending')
        BY <1>1, <1>2, <3>2, WholeGrow
      <4>2. pending' \in Seq(FunctorRecord) /\ (f.what = "writeComplete" => Has(pending', "writeComplete"))
        BY <1>1, <3>2, FunctorsGrow
      <4>3. \A a, d : Consecutive(a, d, pending, sent) => Consecutive(a, d, pending', sent)
        BY <1>1, <3>2, ConsecutiveQueue
      <4> QED
        BY <2>8, <3>2, <4>1, <4>2, <4>3
    <3> QED
      BY <2>9, <3>1, <3>2
  <2>11. late = {} => InOrder(wire' \o out') /\ Consecutive(wire' \o out', doing', pending', sent)
    <3> SUFFICES ASSUME late = {} PROVE InOrder(wire' \o out') /\ Consecutive(wire' \o out', doing', pending', sent)
      OBVIOUS
    <3>1. InOrder(wire \o out) /\ Consecutive(wire \o out, doing, pending, sent)
      BY <1>2, <2>1 DEF NoneMissing
    <3>2. PICK a \in Seq(Units) : a = wire \o out
      BY <1>1, ConcatProperties
    <3>3. Done(a, t) = 1..k - 1 /\ Consecutive(a \o msg, doing', pending, sent)
      <4>1. PICK d \in Seq(FunctorRecord) : d = doing
        BY <1>1
      <4>2. d # <<>> /\ Carries(Head(d), t, k) /\ Consecutive(a, d, pending, sent)
        BY <1>1, <2>2, <3>1, <3>2, <4>1
      <4>3. Done(a, t) = 1..k - 1 /\ Consecutive(a \o Message(t, k), Tail(d), pending, sent)
        BY <4>2, ConsecutiveTake
      <4> QED
        BY <1>1, <2>3, <4>1, <4>3
    <3>4. InOrder(a \o msg)
      BY <2>3, <3>1, <3>2, <3>3, OrderGrows
    <3> QED
      BY <2>7, <2>10, <3>2, <3>3, <3>4
  <2>12. WritesPending' /\ ShutAfterOutput'
    <3>1. ~Closed => ("write" \in events' <=> out' # <<>>)
      BY <2>1, <2>5, <2>8
    <3> QED
      BY <1>1, <2>1, <2>5, <3>1 DEF WritesPending, ShutAfterOutput, Closed
  <2>13. WholeMessages(doing') /\ doing' \in Seq(FunctorRecord)
    BY <1>1, <1>2, WholeShrink, FunctorsShrink
  <2>14. WriteCompleteFollows'
    BY <2>10, <2>13, FollowsIs DEF WriteCompleteFollows
  <2>15. NoneMissing' /\ (late' = {} => InOrder(wire' \o out'))
    BY <1>1, <2>11 DEF NoneMissing
  <2> QED
    BY <2>10, <2>12, <2>13, <2>14, <2>15 DEF OutInv
<1> QED
  BY <1>3, <1>4

LEMMA OutputStepKeeps == ASSUME ConnInv, OutInv, [ConnectionNext]_connectionVars PROVE OutInv'
<1>1. CASE UNCHANGED connectionVars
  <2>1. /\ UNCHANGED <<events, out, wire, wshut, owed, link, sent, told, late, doing, pending>> /\ ConnTypeOK
    BY <1>1 DEF connectionVars, channelVars, outVars, loopPart, threadPart, ConnInv
  <2> QED
    BY <2>1, OutputStays DEF QueueStep, Closed
<1>2. CASE ConnectionNext
  <2>1. failed = {}
    BY <1>2 DEF ConnectionNext
  <2>2. CASE LoopStep
    BY <2>1, <2>2, QuietSteps, QuietFunctors, ChannelWritesOutput, SendInLoopOutput DEF LoopStep
  <2>3. CASE DelayExpires \/ RemoveConnectionInLoop \/ PeerFinishes \/ PeerReads \/ PeerResets
    BY <2>1, <2>3, QuietSteps
  <2>4. ASSUME NEW t \in ConnThreads,
               \/ \E op \in {"send", "shutdown", "forceClose", "forceCloseWithDelay"} : CallStarts(t, op)
               \/ \E what \in {"startReadInLoop", "stopReadInLoop"} : CallReading(t, what)
               \/ CallSetsState(t) \/ CallQueues(t) \/ DropPointer(t)
        PROVE  OutInv'
    BY <2>1, <2>4, QuietSteps, CallQueuesOutput
  <2> QED
    BY <1>2, <2>2, <2>3, <2>4 DEF ConnectionNext
<1> QED
  BY <1>1, <1>2

LEMMA OutputInit == ConnectionInit => OutInv
<1> SUFFICES ASSUME ConnectionInit PROVE OutInv
  OBVIOUS
<1>1. /\ pending = <<Functor("connectEstablished")>> /\ doing = <<>> /\ wire = <<>> /\ out = <<>> /\ events = {}
      /\ wshut = FALSE /\ owed = FALSE /\ sent = [t \in ConnThreads |-> 0]
  BY DEF ConnectionInit
<1>2. Functor("connectEstablished").what = "connectEstablished"
  BY DEF Functor
<1>3. \A i \in DOMAIN pending : pending[i].what # "sendInLoop"
  BY <1>1, <1>2
<1>4. wire \o out = <<>>
  BY <1>1, EmptySeq, ConcatEmptySeq
<1>5. WholeMessages(doing) /\ WholeMessages(pending) /\ InOrder(<<>>)
  BY <1>1, <1>3 DEF WholeMessages, InOrder
<1>6. Consecutive(<<>>, doing, pending, sent)
  <2>1. \A t : Done(<<>>, t) = {} /\ Nums(doing, t) = {} /\ Nums(pending, t) = {}
    BY <1>1, <1>3 DEF Done, Nums, Carries
  <2>2. \A t \in ConnThreads : 1..sent[t] = {}
    BY <1>1
  <2> QED
    BY <1>1, <1>3, <2>1, <2>2 DEF Consecutive, Carries
<1> QED
  BY <1>1, <1>4, <1>5, <1>6 DEF OutInv, WritesPending, ShutAfterOutput, WriteCompleteFollows, NoneMissing

(* For any number of threads, messages and units of a message: what the    *)
(* threads send goes out whole, in the order of each thread and without a  *)
(* gap; shutdown() shuts the write side behind it; and writeComplete       *)
(* follows the last unit.                                                  *)
THEOREM OutputIsSound == ConnectionSpec => []OutputSound
<1>1. ConnectionInit => ConnInv /\ OutInv
  BY ConnInitInv, OutputInit
<1>2. ConnInv /\ OutInv /\ [ConnectionNext]_connectionVars => ConnInv' /\ OutInv'
  BY ConnStepKeeps, OutputStepKeeps
<1>3. OutInv => OutputSound
  <2> SUFFICES ASSUME OutInv, late = {}, NEW i \in DOMAIN (wire \o out)
               PROVE  LET a == wire \o out
                          t == a[i][1]  m == a[i][2]  u == a[i][3] IN
                      /\ IF u > 1 THEN i > 1 /\ a[i - 1] = <<t, m, u - 1>>
                                  ELSE {a[k][2] : k \in {k \in 1..i - 1 : a[k][1] = t /\ a[k][3] = 1}} = 1..m - 1
                      /\ u < MessageUnits => i < Len(a) /\ a[i + 1] = <<t, m, u + 1>>
    BY DEF OutputSound, WireInOrder, OutInv
  <2> QED
    BY DEF OutInv, InOrder
<1> QED
  BY <1>1, <1>2, <1>3, PTL DEF ConnectionSpec

-----------------------------------------------------------------------------
(* Poller.  A channel is registered when it is added to the loop.          *)

Interests == SUBSET {"in"}
ChanRecord == [fd : ChannelFds \cup {-1}, events : Interests, index : Int,
               added : BOOLEAN, removed : BOOLEAN]
Slots == [fd : Int, events : Interests]
Mapped == {f \in ChannelFds : map[f] # NoChannel}

PollerTypeOK ==
  /\ kind \in {"epoll", "poll"} /\ chan \in [Channels -> ChanRecord]
  /\ map \in [ChannelFds -> Channels \cup {NoChannel}]
  /\ kernel \in [ChannelFds -> [events : Interests, ptr : Channels \cup {NoChannel}]]
  /\ pollfds \in Seq(Slots) /\ reported \in Seq(Channels) /\ current \in Channels \cup {NoChannel}
  /\ ready \in [ChannelFds -> SUBSET {"in", "hup"}] /\ room \in Nat

(* A descriptor has one channel, and channels_ has the registered ones. *)
OwnersOK ==
  /\ \A c, d \in Channels : Alive(c) /\ chan[c].fd = chan[d].fd => c = d
  /\ \A c \in Channels : ~Alive(c) => ~chan[c].added
  /\ \A c \in Channels : ~chan[c].added => chan[c].events = {}
  /\ \A c \in Channels : chan[c].added => map[chan[c].fd] = c
  /\ \A f \in ChannelFds : map[f] # NoChannel => chan[map[f]].fd = f /\ chan[map[f]].added

EpollOK == kind = "epoll" =>
  /\ \A c \in Channels : chan[c].index \in {kNew, kAdded, kDeleted}
  /\ \A c \in Channels : chan[c].added <=> chan[c].index # kNew
  /\ \A c \in Channels : chan[c].index = kDeleted => chan[c].events = {}
  /\ \A f \in ChannelFds :
       kernel[f] = IF map[f] # NoChannel /\ chan[map[f]].index = kAdded
                   THEN [events |-> chan[map[f]].events, ptr |-> map[f]] ELSE Absent

(* The entry of a channel in pollfds_: ignored when it asks for nothing. *)
Slot(ch) == PollFd(IF ch.events = {} THEN Ignored(ch.fd) ELSE ch.fd, ch.events)

(* PollPoller leaves the index of a channel that it removed. *)
Indexed(ch) == IF ch.added THEN ~ch.removed ELSE IF ch.removed THEN ch.index >= 0 ELSE ch.index = kNew

PollOK == kind = "poll" =>
  /\ \A c \in Channels : Indexed(chan[c])
  /\ \A c \in Channels : chan[c].added =>
       chan[c].index + 1 \in DOMAIN pollfds /\ pollfds[chan[c].index + 1] = Slot(chan[c])
  /\ \A i \in DOMAIN pollfds : \E c \in Channels : chan[c].added /\ chan[c].index + 1 = i
  /\ Len(pollfds) = Cardinality(Mapped)

ReportedOK == \A c \in ToSet(reported) \cup {current} : c = NoChannel \/ Alive(c)

PollerInv == PollerTypeOK /\ ~broken /\ OwnersOK /\ EpollOK /\ PollOK /\ ReportedOK

LEMMA PollerInvImplies == PollerInv => PollerSound
<1> SUFFICES ASSUME PollerInv PROVE PollerSound
  OBVIOUS
<1>0. \A c \in Channels : ~Reopened(c)
  BY DEF PollerInv, PollOK, Indexed, Reopened
<1>1. NoPollerFailure
  BY <1>0 DEF PollerInv, ReportedOK, NoPollerFailure
<1>2. \A c \in Channels : Alive(c) => chan[c].fd \in ChannelFds
  BY DEF PollerInv, PollerTypeOK, ChanRecord, Alive
<1>3. \A c \in Channels : Alive(c) => (chan[c].added <=> map[chan[c].fd] = c)
  <2> SUFFICES ASSUME NEW c \in Channels, Alive(c) PROVE chan[c].added <=> map[chan[c].fd] = c
    OBVIOUS
  <2>1. chan[c].fd \in ChannelFds /\ c # NoChannel
    BY <1>2, PollerAssumption DEF NoChannel
  <2> QED
    BY <2>1 DEF PollerInv, OwnersOK
<1>4. ASSUME kind = "poll", NEW f \in ChannelFds, map[f] # NoChannel
      PROVE  \E i \in DOMAIN pollfds : /\ i = chan[map[f]].index + 1 /\ pollfds[i].fd \in {f, Ignored(f)}
                                       /\ pollfds[i].events = chan[map[f]].events
  <2>1. PICK c \in Channels : c = map[f] /\ chan[c].fd = f /\ chan[c].added
    BY <1>4 DEF PollerInv, PollerTypeOK, OwnersOK
  <2>2. chan[c].index + 1 \in DOMAIN pollfds /\ pollfds[chan[c].index + 1] = Slot(chan[c])
    BY <1>4, <2>1 DEF PollerInv, PollOK
  <2> QED
    BY <2>1, <2>2 DEF Slot, PollFd
<1>5. TablesAgree
  BY <1>3, <1>4 DEF PollerInv, EpollOK, PollOK, TablesAgree, Mapped
<1>6. InterestKept
  <2> SUFFICES ASSUME NEW c \in Channels, chan[c].events # {}
               PROVE  \/ kind = "epoll" /\ chan[c].index = kAdded
                      \/ kind = "poll" /\ \E i \in DOMAIN pollfds : i = chan[c].index + 1 /\ pollfds[i].fd = chan[c].fd
    BY DEF InterestKept
  <2>1. chan[c].added /\ kind \in {"epoll", "poll"}
    BY DEF PollerInv, OwnersOK, PollerTypeOK
  <2>2. CASE kind = "epoll"
    BY <2>1, <2>2 DEF PollerInv, EpollOK
  <2>3. CASE kind = "poll"
    <3>1. chan[c].index + 1 \in DOMAIN pollfds /\ pollfds[chan[c].index + 1] = Slot(chan[c])
      BY <2>1, <2>3 DEF PollerInv, PollOK
    <3> QED
      BY <2>3, <3>1 DEF Slot, PollFd
  <2> QED
    BY <2>1, <2>2, <2>3
<1> QED
  BY <1>1, <1>5, <1>6 DEF PollerSound

LEMMA PollerInitInv == PollerInit => PollerInv
<1> SUFFICES ASSUME PollerInit PROVE PollerInv
  OBVIOUS
<1>1. PollerTypeOK
  BY PollerAssumption, EmptySeq DEF PollerInit, PollerTypeOK, Dead, Absent, ChanRecord, Interests, kNew, NoChannel
<1>2. \A c \in Channels : /\ chan[c].fd = -1 /\ chan[c].events = {} /\ chan[c].index = kNew /\ ~Alive(c)
                           /\ ~chan[c].added /\ ~chan[c].removed
  BY DEF PollerInit, Dead, Alive
<1>3. \A f \in ChannelFds : map[f] = NoChannel
  BY DEF PollerInit
<1>4. OwnersOK
  BY <1>2, <1>3 DEF OwnersOK
<1>5. EpollOK
  BY <1>2, <1>3 DEF EpollOK, PollerInit, kNew, kDeleted
<1>6. PollOK
  <2>1. Mapped = {} /\ Cardinality({}) = 0 /\ pollfds = <<>>
    BY <1>3, FS_EmptySet DEF Mapped, PollerInit
  <2> QED
    BY <1>2, <2>1 DEF PollOK, Indexed
<1>7. ReportedOK /\ ~broken
  BY DEF ReportedOK, PollerInit, ToSet
<1> QED
  BY <1>1, <1>4, <1>5, <1>6, <1>7 DEF PollerInv

(* Steps of the loop and of the kernel leave the tables alone. *)
LEMMA TablesStay ==
  ASSUME PollerInv, UNCHANGED <<kind, chan, tableVars>>, room' \in Nat,
         ready' \in [ChannelFds -> SUBSET {"in", "hup"}], reported' \in Seq(Channels), current' \in Channels \cup {NoChannel},
         \A c \in ToSet(reported') \cup {current'} : c = NoChannel \/ Alive(c)
  PROVE  PollerInv'
<1>1. PollerTypeOK' /\ ~broken' /\ ReportedOK'
  BY DEF PollerInv, PollerTypeOK, ReportedOK, tableVars, Alive
<1>2. OwnersOK' /\ EpollOK' /\ PollOK'
  BY DEF PollerInv, OwnersOK, EpollOK, PollOK, tableVars, Alive, Mapped
<1> QED
  BY <1>1, <1>2 DEF PollerInv

LEMMA FdReadyKeeps == ASSUME PollerInv, NEW f \in ChannelFds, FdReady(f) PROVE PollerInv'
<1>1. ready' \in [ChannelFds -> SUBSET {"in", "hup"}] /\ UNCHANGED <<kind, chan, tableVars, room, reported, current>>
  BY DEF FdReady, PollerInv, PollerTypeOK
<1> QED
  BY <1>1, TablesStay DEF PollerInv, PollerTypeOK, ReportedOK

LEMMA HandleEventKeeps == ASSUME PollerInv, HandleEvent PROVE PollerInv'
<1>1. /\ reported # <<>> /\ current' = Head(reported) /\ reported' = Tail(reported)
      /\ ready' = [ready EXCEPT ![chan[current'].fd] = @ \ {"in"}] /\ UNCHANGED <<kind, chan, tableVars, room>>
  BY DEF HandleEvent
<1>2. PICK r \in Seq(Channels) : r = reported
  BY DEF PollerInv, PollerTypeOK
<1>3. /\ Tail(r) \in Seq(Channels) /\ Head(r) \in Channels
      /\ Head(r) \in ToSet(r) /\ ToSet(Tail(r)) \subseteq ToSet(r)
  <2>1. /\ Tail(r) \in Seq(Channels) /\ Len(r) \in Nat /\ Len(r) >= 1 /\ DOMAIN r = 1..Len(r) /\ DOMAIN Tail(r) = 1..(Len(r) - 1)
        /\ \A j \in 1..(Len(r) - 1) : Tail(r)[j] = r[j + 1]
        /\ Head(r) = r[1] /\ r[1] \in Channels
    BY <1>1, <1>2, HeadTailProperties, LenProperties, ElementOfSeq, EmptySeq
  <2>2. 1 \in DOMAIN r /\ \A j \in DOMAIN Tail(r) : j + 1 \in DOMAIN r /\ Tail(r)[j] = r[j + 1]
    BY <2>1
  <2> QED
    BY <2>1, <2>2 DEF ToSet
<1>4. \A c \in ToSet(reported') \cup {current'} : c = NoChannel \/ Alive(c)
  BY <1>1, <1>2, <1>3 DEF PollerInv, ReportedOK
<1>5. ready' \in [ChannelFds -> SUBSET {"in", "hup"}] /\ room' \in Nat
  BY <1>1 DEF PollerInv, PollerTypeOK
<1> QED
  BY <1>1, <1>2, <1>3, <1>4, <1>5, TablesStay

LEMMA EndDispatchKeeps == ASSUME PollerInv, EndDispatch PROVE PollerInv'
<1>1. reported' = reported /\ current' = NoChannel /\ UNCHANGED <<kind, chan, tableVars, room, ready>>
  BY DEF EndDispatch
<1> QED
  BY <1>1, TablesStay DEF PollerInv, PollerTypeOK, ReportedOK

LEMMA PollKeeps == ASSUME PollerInv, Poll PROVE PollerInv'
<1>1. current = NoChannel /\ UNCHANGED <<kind, chan, tableVars, ready, current>>
  BY DEF Poll
<1>2. \A f \in ChannelFds : map[f] # NoChannel => map[f] \in Channels /\ Alive(map[f])
  BY PollerAssumption DEF PollerInv, PollerTypeOK, OwnersOK, Alive
<1>3. /\ room' \in Nat
      /\ \E n \in Nat : reported' \in [1..n -> Channels] /\ \A i \in 1..n : Alive(reported'[i])
  <2>1. CASE EPollPoll
    <3> DEFINE fired == {f \in ChannelFds : kernel[f] # Absent /\ Fires(f, kernel[f].events)}
    <3>1. PICK n : n = IF Cardinality(fired) < room THEN Cardinality(fired) ELSE room
      OBVIOUS
    <3>2. kind = "epoll" /\ room' = Grown(n) /\ \E fs \in Injection(1..n, fired) : reported' = [i \in 1..n |-> kernel[fs[i]].ptr]
      BY <2>1, <3>1 DEF EPollPoll, MaxEvents
    <3>3. PICK fs \in Injection(1..n, fired) : reported' = [i \in 1..n |-> kernel[fs[i]].ptr]
      BY <3>2
    <3>4. \A i \in 1..n : fs[i] \in fired
      BY DEF Injection
    <3>5. \A f \in fired : kernel[f].ptr \in Channels /\ Alive(kernel[f].ptr)
      <4> SUFFICES ASSUME NEW f \in fired PROVE kernel[f].ptr \in Channels /\ Alive(kernel[f].ptr)
        OBVIOUS
      <4>1. map[f] # NoChannel /\ kernel[f] = [events |-> chan[map[f]].events, ptr |-> map[f]]
        BY <3>2 DEF PollerInv, EpollOK
      <4> QED
        BY <1>2, <4>1
    <3>6. n \in Nat /\ room' \in Nat
      <4>1. fired \subseteq ChannelFds /\ IsFiniteSet(fired)
        BY PollerAssumption, FS_Subset
      <4>2. Cardinality(fired) \in Nat /\ room \in Nat
        BY <4>1, FS_CardinalityType DEF PollerInv, PollerTypeOK
      <4> HIDE DEF fired
      <4>3. n \in Nat
        BY <3>1, <4>2
      <4> QED
        BY <3>2, <4>2, <4>3 DEF Grown
    <3> HIDE DEF fired
    <3> QED
      BY <3>3, <3>4, <3>5, <3>6
  <2>2. CASE PollPoll
    <3> DEFINE fired == {i \in DOMAIN pollfds : pollfds[i].fd >= 0 /\ Fires(pollfds[i].fd, pollfds[i].events)}
    <3>1. PICK n : n = Cardinality(fired)
      OBVIOUS
    <3>2. PICK is \in [1..n -> fired] : reported' = [i \in 1..n |-> map[pollfds[is[i]].fd]]
      BY <2>2, <3>1 DEF PollPoll
    <3>3. ASSUME NEW i \in fired PROVE map[pollfds[i].fd] \in Channels /\ Alive(map[pollfds[i].fd])
      <4>1. PICK c \in Channels : chan[c].added /\ chan[c].index + 1 = i /\ pollfds[i] = Slot(chan[c])
        BY <2>2 DEF PollerInv, PollOK, PollPoll
      <4>2. pollfds[i].fd \in {chan[c].fd, Ignored(chan[c].fd)} /\ pollfds[i].fd >= 0
        BY <4>1 DEF Slot, PollFd
      <4>3. Alive(c) /\ map[chan[c].fd] = c
        BY <4>1 DEF PollerInv, OwnersOK
      <4>4. chan[c].fd \in Nat
        BY <4>3, PollerAssumption DEF PollerInv, PollerTypeOK, ChanRecord, Alive
      <4>5. pollfds[i].fd = chan[c].fd
        BY <4>2, <4>4 DEF Ignored
      <4> QED
        BY <4>3, <4>5
    <3>4. n \in Nat
      <4>1. DOMAIN pollfds = 1..Len(pollfds) /\ Len(pollfds) \in Nat
        BY LenProperties DEF PollerInv, PollerTypeOK
      <4>2. IsFiniteSet(1..Len(pollfds))
        <5>1. 1 \in Int /\ Len(pollfds) \in Int
          BY <4>1
        <5> QED
          BY <5>1, FS_Interval
      <4>3. fired \subseteq 1..Len(pollfds)
        BY <4>1
      <4> HIDE DEF fired
      <4> QED
        BY <3>1, <4>2, <4>3, FS_Subset, FS_CardinalityType
    <3>5. room' \in Nat
      BY <2>2 DEF PollPoll, PollerInv, PollerTypeOK
    <3> HIDE DEF fired
    <3> QED
      BY <3>2, <3>3, <3>4, <3>5
  <2> QED
    BY <2>1, <2>2 DEF Poll
<1>4. PICK n \in Nat : reported' \in [1..n -> Channels] /\ \A i \in 1..n : Alive(reported'[i])
  BY <1>3
<1>5. reported' \in Seq(Channels)
  BY <1>4, SeqDef
<1>6. \A c \in ToSet(reported') : Alive(c)
  BY <1>4 DEF ToSet
<1>7. ready' \in [ChannelFds -> SUBSET {"in", "hup"}]
  BY <1>1 DEF PollerInv, PollerTypeOK
<1> QED
  BY <1>1, <1>3, <1>5, <1>6, <1>7, TablesStay

(* A channel that is not registered is made or deleted. *)
LEMMA UnregisteredChanges ==
  ASSUME PollerInv, NEW c \in Channels, ~chan[c].added, NEW r \in ChanRecord, r.index = kNew, r.events = {},
         ~r.added, ~r.removed, chan' = [chan EXCEPT ![c] = r], r.fd # -1 => \A d \in Channels : chan[d].fd # r.fd,
         UNCHANGED <<kind, map, pollfds, broken, room, reported, current>>,
         ready' \in [ChannelFds -> SUBSET {"in", "hup"}],
         kernel' = kernel \/ (Alive(c) /\ kernel' = [kernel EXCEPT ![chan[c].fd] = Absent]),
         r.fd # -1 \/ (reported = <<>> /\ current = NoChannel)
  PROVE  PollerInv'
<1>1. PollerTypeOK /\ OwnersOK /\ chan \in [Channels -> ChanRecord]
  BY DEF PollerInv, PollerTypeOK
<1>2. chan'[c] = r /\ \A d \in Channels : d # c => chan'[d] = chan[d]
  BY <1>1
<1>3. chan' \in [Channels -> ChanRecord]
  BY <1>1
<1>4. \A f \in ChannelFds : map[f] # NoChannel => map[f] \in Channels /\ map[f] # c
  BY <1>1, PollerAssumption DEF PollerTypeOK, OwnersOK
<1>5. kind = "epoll" => \A f \in ChannelFds : kernel'[f] = kernel[f]
  <2> SUFFICES ASSUME kind = "epoll", Alive(c), kernel' = [kernel EXCEPT ![chan[c].fd] = Absent] PROVE kernel[chan[c].fd] = Absent
    BY <1>1 DEF PollerTypeOK
  <2>1. chan[c].fd \in ChannelFds
    BY <1>1 DEF Alive, ChanRecord
  <2>2. map[chan[c].fd] = NoChannel
    BY <1>1, <1>4, <2>1 DEF OwnersOK
  <2> QED
    BY <2>1, <2>2 DEF PollerInv, EpollOK
<1>6. PollerTypeOK' /\ ~broken'
  <2>1. kernel' \in [ChannelFds -> [events : Interests, ptr : Channels \cup {NoChannel}]]
    <3>1. Absent \in [events : Interests, ptr : Channels \cup {NoChannel}]
      BY DEF Absent, Interests
    <3> QED
      BY <1>1, <3>1 DEF PollerTypeOK
  <2> QED
    BY <1>1, <1>3, <2>1 DEF PollerInv, PollerTypeOK
<1>7. OwnersOK'
  BY <1>1, <1>2, <1>4 DEF OwnersOK, Alive
<1>8. EpollOK'
  <2> SUFFICES ASSUME kind = "epoll" PROVE EpollOK'
    BY DEF EpollOK
  <2>1. \A d \in Channels : /\ chan'[d].index \in {kNew, kAdded, kDeleted} /\ (chan'[d].index = kDeleted => chan'[d].events = {})
                             /\ (chan'[d].added <=> chan'[d].index # kNew)
    BY <1>2 DEF PollerInv, EpollOK
  <2>2. ASSUME NEW f \in ChannelFds
        PROVE  kernel'[f] = IF map'[f] # NoChannel /\ chan'[map'[f]].index = kAdded
                            THEN [events |-> chan'[map'[f]].events, ptr |-> map'[f]] ELSE Absent
    <3>1. map[f] # NoChannel => chan'[map[f]] = chan[map[f]]
      BY <1>2, <1>4
    <3>2. kernel[f] = IF map[f] # NoChannel /\ chan[map[f]].index = kAdded
                      THEN [events |-> chan[map[f]].events, ptr |-> map[f]] ELSE Absent
      BY DEF PollerInv, EpollOK
    <3>3. kernel'[f] = kernel[f] /\ map'[f] = map[f]
      BY <1>5
    <3> QED
      BY <3>1, <3>2, <3>3
  <2> QED
    BY <2>1, <2>2 DEF EpollOK
<1>9. PollOK'
  <2> SUFFICES ASSUME kind = "poll" PROVE PollOK'
    BY DEF PollOK
  <2>1. \A d \in Channels : Indexed(chan'[d])
    BY <1>2 DEF PollerInv, PollOK, Indexed
  <2>2. \A d \in Channels : chan'[d].added => chan[d].added /\ chan'[d] = chan[d]
    BY <1>2
  <2>3. \A d \in Channels : chan[d].added => chan'[d] = chan[d]
    BY <1>2
  <2> QED
    BY <2>1, <2>2, <2>3 DEF PollerInv, PollOK, Mapped
<1>10. ReportedOK'
  BY <1>1, <1>2 DEF PollerInv, ReportedOK, PollerTypeOK, Alive, ToSet
<1> QED
  BY <1>6, <1>7, <1>8, <1>9, <1>10 DEF PollerInv

LEMMA NewChannelKeeps == ASSUME PollerInv, NEW c \in Channels, NEW f \in ChannelFds, NewChannel(c, f) PROVE PollerInv'
<1>1. PICK r : r = [Dead EXCEPT !.fd = f]
  OBVIOUS
<1>2. r \in ChanRecord /\ r.index = kNew /\ r.events = {} /\ ~r.added /\ ~r.removed /\ r.fd = f /\ f # -1
  <2>1. r = [fd |-> f, events |-> {}, index |-> kNew, added |-> FALSE, removed |-> FALSE]
    BY <1>1 DEF Dead
  <2>2. f # -1 /\ kNew \in Int /\ {} \in Interests
    BY PollerAssumption DEF kNew, Interests
  <2> QED
    BY <2>1, <2>2 DEF ChanRecord
<1>3. /\ ~Alive(c) /\ f \in FreeFds /\ chan' = [chan EXCEPT ![c] = r] /\ ready' = [ready EXCEPT ![f] = {}]
      /\ UNCHANGED <<kind, map, kernel, pollfds, broken, room, reported, current>>
  BY <1>1 DEF NewChannel, tableVars
<1>4. ~chan[c].added /\ \A d \in Channels : chan[d].fd # f
  BY <1>3 DEF PollerInv, OwnersOK, FreeFds
<1>5. ready' \in [ChannelFds -> SUBSET {"in", "hup"}]
  BY <1>3 DEF PollerInv, PollerTypeOK
<1> QED
  BY <1>2, <1>3, <1>4, <1>5, UnregisteredChanges

LEMMA DeleteChannelKeeps == ASSUME PollerInv, NEW c \in Channels, DeleteChannel(c) PROVE PollerInv'
<1>1. Dead \in ChanRecord /\ Dead.index = kNew /\ Dead.events = {} /\ Dead.fd = -1 /\ ~Dead.added /\ ~Dead.removed
  BY DEF Dead, ChanRecord, Interests, kNew
<1>2. /\ Alive(c) /\ ~chan[c].added /\ reported = <<>> /\ current = NoChannel
      /\ chan' = [chan EXCEPT ![c] = Dead] /\ kernel' = [kernel EXCEPT ![chan[c].fd] = Absent]
      /\ UNCHANGED <<kind, map, pollfds, broken, room, ready, reported, current>>
  BY DEF DeleteChannel
<1>3. ready' \in [ChannelFds -> SUBSET {"in", "hup"}]
  BY <1>2 DEF PollerInv, PollerTypeOK
<1> QED
  BY <1>1, <1>2, <1>3, UnregisteredChanges

(* channels_ after channel c was registered, updated or removed. *)
LEMMA OwnersChange ==
  ASSUME PollerTypeOK, OwnersOK, NEW c \in Channels, Alive(c), chan' \in [Channels -> ChanRecord],
         \A d \in Channels : chan'[d].fd = chan[d].fd,
         \A d \in Channels : d # c => (chan'[d].added <=> chan[d].added) /\ chan'[d].events = chan[d].events,
         ~chan'[c].added => chan'[c].events = {},
         map' = [map EXCEPT ![chan[c].fd] = IF chan'[c].added THEN c ELSE NoChannel]
  PROVE  /\ OwnersOK' /\ map' \in [ChannelFds -> Channels \cup {NoChannel}] /\ chan[c].fd \in ChannelFds
         /\ map[chan[c].fd] = IF chan[c].added THEN c ELSE NoChannel
         /\ \A f \in ChannelFds : f # chan[c].fd => map'[f] = map[f] /\ map[f] # c
<1>1. chan[c].fd \in ChannelFds /\ c # NoChannel
  BY PollerAssumption DEF PollerTypeOK, ChanRecord, Alive, NoChannel
<1>2. /\ map' \in [ChannelFds -> Channels \cup {NoChannel}] /\ \A f \in ChannelFds : f # chan[c].fd => map'[f] = map[f]
      /\ map'[chan[c].fd] = IF chan'[c].added THEN c ELSE NoChannel
  BY <1>1 DEF PollerTypeOK
<1>3. \A f \in ChannelFds : map[f] # NoChannel => map[f] \in Channels /\ chan[map[f]].fd = f /\ chan[map[f]].added
  BY DEF PollerTypeOK, OwnersOK
<1>4. \A f \in ChannelFds : f # chan[c].fd => map[f] # c
  BY <1>1, <1>3
<1>5. map[chan[c].fd] = IF chan[c].added THEN c ELSE NoChannel
  BY <1>1, <1>3 DEF OwnersOK
<1>6. \A d \in Channels : d # c => chan[d].fd # chan[c].fd /\ (chan[d].added => chan[d].fd \in ChannelFds)
  BY DEF OwnersOK, PollerTypeOK, ChanRecord, Alive
<1>7. \A d, e \in Channels : Alive(d)' /\ chan'[d].fd = chan'[e].fd => d = e
  BY DEF OwnersOK, Alive
<1>8. \A d \in Channels : ~Alive(d)' => ~chan'[d].added
  BY DEF OwnersOK, Alive
<1>9. \A d \in Channels : ~chan'[d].added => chan'[d].events = {}
  BY DEF OwnersOK
<1>10. \A d \in Channels : chan'[d].added => map'[chan'[d].fd] = d
  BY <1>2, <1>6 DEF OwnersOK
<1>11. \A f \in ChannelFds : map'[f] # NoChannel => chan'[map'[f]].fd = f /\ chan'[map'[f]].added
  BY <1>1, <1>2, <1>3, <1>4
<1> QED
  BY <1>1, <1>2, <1>4, <1>5, <1>7, <1>8, <1>9, <1>10, <1>11 DEF OwnersOK

(* What is left of the invariant when the tables of one poller are right. *)
LEMMA TablesChange ==
  ASSUME PollerInv, chan' \in [Channels -> ChanRecord], \A d \in Channels : chan'[d].fd = chan[d].fd,
         map' \in [ChannelFds -> Channels \cup {NoChannel}], OwnersOK', EpollOK', PollOK', ~broken',
         kernel' \in [ChannelFds -> [events : Interests, ptr : Channels \cup {NoChannel}]], pollfds' \in Seq(Slots),
         UNCHANGED <<kind, room, ready, reported, current>>
  PROVE  PollerInv'
<1>1. PollerTypeOK'
  BY DEF PollerInv, PollerTypeOK
<1>2. ReportedOK'
  <2>1. \A c \in ToSet(reported) : c \in Channels
    BY DEF PollerInv, PollerTypeOK, ToSet
  <2> QED
    BY <2>1 DEF PollerInv, PollerTypeOK, ReportedOK, Alive
<1> QED
  BY <1>1, <1>2 DEF PollerInv

(* EPollPoller: ch is the channel with the events it asks for now, r what  *)
(* becomes of it, k its entry in the kernel.                               *)
LEMMA EpollChange ==
  ASSUME PollerInv, kind = "epoll", NEW c \in Channels, Alive(c), NEW r \in ChanRecord, NEW k,
         r.fd = chan[c].fd, r.index \in {kNew, kAdded, kDeleted}, r.index # kAdded => r.events = {},
         r.added <=> r.index # kNew,
         chan' = [chan EXCEPT ![c] = r],
         map' = [map EXCEPT ![chan[c].fd] = IF r.added THEN c ELSE NoChannel],
         kernel' = [kernel EXCEPT ![chan[c].fd] = k],
         k = IF r.index = kAdded THEN [events |-> r.events, ptr |-> c] ELSE Absent,
         ~broken', UNCHANGED <<pollfds, kind, room, ready, reported, current>>
  PROVE  PollerInv'
<1>1. PollerTypeOK /\ OwnersOK /\ chan \in [Channels -> ChanRecord]
  BY DEF PollerInv, PollerTypeOK
<1>2. chan' \in [Channels -> ChanRecord] /\ chan'[c] = r /\ \A d \in Channels : d # c => chan'[d] = chan[d]
  BY <1>1
<1>3. \A d \in Channels : chan'[d].fd = chan[d].fd
  BY <1>2
<1>4. ~chan'[c].added => chan'[c].events = {}
  BY <1>2 DEF kNew, kAdded
<1>5. /\ OwnersOK' /\ map' \in [ChannelFds -> Channels \cup {NoChannel}] /\ chan[c].fd \in ChannelFds
      /\ \A f \in ChannelFds : f # chan[c].fd => map'[f] = map[f] /\ map[f] # c
  <2>1. \A d \in Channels : d # c => (chan'[d].added <=> chan[d].added) /\ chan'[d].events = chan[d].events
    BY <1>2
  <2>2. map' = [map EXCEPT ![chan[c].fd] = IF chan'[c].added THEN c ELSE NoChannel]
    BY <1>2
  <2> QED
    BY <1>1, <1>2, <1>3, <1>4, <2>1, <2>2, OwnersChange
<1>6. kernel' \in [ChannelFds -> [events : Interests, ptr : Channels \cup {NoChannel}]]
  <2>1. k \in [events : Interests, ptr : Channels \cup {NoChannel}]
    BY DEF Absent, Interests, ChanRecord
  <2> QED
    BY <1>1, <2>1 DEF PollerTypeOK
<1>7. EpollOK'
  <2>1. \A d \in Channels : /\ chan'[d].index \in {kNew, kAdded, kDeleted} /\ (chan'[d].index = kDeleted => chan'[d].events = {})
                             /\ (chan'[d].added <=> chan'[d].index # kNew)
    BY <1>2 DEF PollerInv, EpollOK, kAdded, kDeleted
  <2>2. ASSUME NEW f \in ChannelFds
        PROVE  kernel'[f] = IF map'[f] # NoChannel /\ chan'[map'[f]].index = kAdded
                            THEN [events |-> chan'[map'[f]].events, ptr |-> map'[f]] ELSE Absent
    <3>1. CASE f = chan[c].fd
      <4>1. kernel'[f] = k /\ map'[f] = IF r.added THEN c ELSE NoChannel
        BY <1>1, <1>5, <3>1 DEF PollerTypeOK
      <4>2. c # NoChannel /\ kNew # kAdded
        BY PollerAssumption DEF NoChannel, kNew, kAdded
      <4> QED
        BY <1>2, <4>1, <4>2
    <3>2. CASE f # chan[c].fd
      <4>1. kernel'[f] = kernel[f] /\ map'[f] = map[f] /\ map[f] # c
        BY <1>1, <1>5, <3>2 DEF PollerTypeOK
      <4>2. map[f] # NoChannel => chan'[map[f]] = chan[map[f]]
        BY <1>1, <1>2, <4>1 DEF PollerTypeOK
      <4> QED
        BY <4>1, <4>2 DEF PollerInv, EpollOK
    <3> QED
      BY <3>1, <3>2
  <2> QED
    BY <2>1, <2>2 DEF EpollOK
<1>8. PollOK' /\ pollfds' \in Seq(Slots)
  BY <1>1 DEF PollOK, PollerTypeOK
<1> QED
  BY <1>2, <1>3, <1>5, <1>6, <1>7, <1>8, TablesChange

(* What a channel's index says of channels_. *)
LEMMA MapOfChannel ==
  ASSUME PollerInv, NEW c \in Channels, Alive(c)
  PROVE  chan[c].fd \in ChannelFds /\ c # NoChannel /\ map[chan[c].fd] = IF chan[c].added THEN c ELSE NoChannel
<1>1. chan[c].fd \in ChannelFds /\ c # NoChannel
  BY PollerAssumption DEF PollerInv, PollerTypeOK, ChanRecord, Alive, NoChannel
<1>2. map[chan[c].fd] # NoChannel => /\ map[chan[c].fd] \in Channels /\ chan[map[chan[c].fd]].fd = chan[c].fd
                                     /\ chan[map[chan[c].fd]].added
  BY <1>1 DEF PollerInv, PollerTypeOK, OwnersOK
<1>3. chan[c].added => map[chan[c].fd] = c
  BY DEF PollerInv, OwnersOK
<1>4. \A d \in Channels : chan[d].fd = chan[c].fd => d = c
  BY DEF PollerInv, OwnersOK
<1> QED
  BY <1>1, <1>2, <1>3, <1>4

(* What it says of the kernel. *)
LEMMA EpollFacts ==
  ASSUME PollerInv, kind = "epoll", NEW c \in Channels, Alive(c)
  PROVE  /\ chan[c].fd \in ChannelFds /\ chan[c].index \in {kNew, kAdded, kDeleted}
         /\ map[chan[c].fd] = IF chan[c].index = kNew THEN NoChannel ELSE c
         /\ kernel[chan[c].fd] = IF chan[c].index = kAdded THEN [events |-> chan[c].events, ptr |-> c] ELSE Absent
         /\ [events |-> chan[c].events, ptr |-> c] # Absent
<1>1. chan[c].fd \in ChannelFds /\ chan[c].index \in {kNew, kAdded, kDeleted} /\ c # NoChannel /\ kNew # kAdded
  BY PollerAssumption DEF PollerInv, PollerTypeOK, ChanRecord, Alive, NoChannel, EpollOK, kNew, kAdded
<1>2. map[chan[c].fd] = IF chan[c].index = kNew THEN NoChannel ELSE c
  BY <1>1, MapOfChannel DEF PollerInv, EpollOK
<1>3. kernel[chan[c].fd] = IF chan[c].index = kAdded THEN [events |-> chan[c].events, ptr |-> c] ELSE Absent
  BY <1>1, <1>2 DEF PollerInv, EpollOK
<1>4. [events |-> chan[c].events, ptr |-> c] # Absent
  BY <1>1 DEF Absent
<1> QED
  BY <1>1, <1>2, <1>3, <1>4

LEMMA EpollUpdateKeeps ==
  ASSUME PollerInv, kind = "epoll", NEW c \in Channels, Alive(c), NEW evts \in Interests, UpdateChannel(c, evts)
  PROVE  PollerInv'
<1>1. PICK ch : ch = [chan[c] EXCEPT !.events = evts, !.added = TRUE]
  OBVIOUS
<1>2. chan[c] \in ChanRecord
  BY DEF PollerInv, PollerTypeOK
<1>3. ch \in ChanRecord /\ ch.fd = chan[c].fd /\ ch.index = chan[c].index /\ ch.events = evts /\ ch.added
  BY <1>1, <1>2 DEF ChanRecord
<1>4. EPollUpdate(c, ch) /\ UNCHANGED <<pollfds, kind, room, ready, reported, current>>
  BY <1>1 DEF UpdateChannel
<1>5. /\ chan[c].fd \in ChannelFds /\ chan[c].index \in {kNew, kAdded, kDeleted}
      /\ map[chan[c].fd] = IF chan[c].index = kNew THEN NoChannel ELSE c
      /\ kernel[chan[c].fd] = IF chan[c].index = kAdded THEN [events |-> chan[c].events, ptr |-> c] ELSE Absent
      /\ [events |-> chan[c].events, ptr |-> c] # Absent
  BY EpollFacts
<1>6. ~broken /\ kNew # kAdded /\ kDeleted # kAdded /\ kNew # kDeleted
  BY DEF PollerInv, kNew, kAdded, kDeleted
<1>7. \A i \in {kNew, kAdded, kDeleted} : /\ [ch EXCEPT !.index = i] \in ChanRecord
                                          /\ [ch EXCEPT !.index = i].fd = chan[c].fd /\ [ch EXCEPT !.index = i].index = i
                                          /\ [ch EXCEPT !.index = i].events = evts /\ [ch EXCEPT !.index = i].added
  BY <1>3 DEF ChanRecord, kNew, kAdded, kDeleted
<1>8. CASE chan[c].index \in {kNew, kDeleted}
  <2>1. /\ map' = [map EXCEPT ![chan[c].fd] = c]
        /\ chan' = [chan EXCEPT ![c] = [ch EXCEPT !.index = kAdded]]
        /\ EpollCtl("ADD", ch, c, map[ch.fd] # IF ch.index = kNew THEN NoChannel ELSE c)
    BY <1>3, <1>4, <1>6, <1>8 DEF EPollUpdate
  <2>2. kernel' = [kernel EXCEPT ![chan[c].fd] = [events |-> evts, ptr |-> c]] /\ ~broken'
    BY <1>3, <1>5, <1>6, <1>8, <2>1 DEF EpollCtl
  <2>3. PICK r \in ChanRecord : r = [ch EXCEPT !.index = kAdded] /\ r.fd = chan[c].fd /\ r.index = kAdded /\ r.events = evts /\ r.added
    BY <1>7
  <2> QED
    BY <1>4, <1>6, <2>1, <2>2, <2>3, EpollChange
<1>9. CASE chan[c].index = kAdded
  <2>0. map = [map EXCEPT ![chan[c].fd] = c]
    BY <1>5, <1>6, <1>9 DEF PollerInv, PollerTypeOK
  <2>1. CASE evts = {}
    <3>1. EpollCtl("DEL", ch, c, map[ch.fd] # c) /\ chan' = [chan EXCEPT ![c] = [ch EXCEPT !.index = kDeleted]] /\ map' = map
      BY <1>3, <1>4, <1>6, <1>9, <2>1 DEF EPollUpdate
    <3>2. kernel' = [kernel EXCEPT ![chan[c].fd] = Absent] /\ ~broken'
      BY <1>3, <1>5, <1>6, <1>9, <3>1 DEF EpollCtl
    <3>3. PICK r \in ChanRecord : r = [ch EXCEPT !.index = kDeleted] /\ r.fd = chan[c].fd /\ r.index = kDeleted /\ r.events = evts /\ r.added
      BY <1>7
    <3> QED
      BY <1>4, <1>6, <2>0, <2>1, <3>1, <3>2, <3>3, EpollChange
  <2>2. CASE evts # {}
    <3>1. EpollCtl("MOD", ch, c, map[ch.fd] # c) /\ chan' = [chan EXCEPT ![c] = ch] /\ map' = map
      BY <1>3, <1>4, <1>6, <1>9, <2>2 DEF EPollUpdate
    <3>2. kernel' = [kernel EXCEPT ![chan[c].fd] = [events |-> evts, ptr |-> c]] /\ ~broken'
      BY <1>3, <1>5, <1>6, <1>9, <3>1 DEF EpollCtl
    <3> QED
      BY <1>3, <1>4, <1>6, <1>9, <2>0, <3>1, <3>2, EpollChange
  <2> QED
    BY <2>1, <2>2
<1> QED
  BY <1>5, <1>8, <1>9

LEMMA EpollRemoveKeeps ==
  ASSUME PollerInv, kind = "epoll", NEW c \in Channels, RemoveChannel(c)
  PROVE  PollerInv'
<1>1. /\ Alive(c) /\ chan[c].added /\ chan[c].events = {} 
      /\ UNCHANGED <<pollfds, kind, room, ready, reported, current>>
  BY DEF RemoveChannel
<1>2. chan[c] \in ChanRecord
  BY DEF PollerInv, PollerTypeOK
<1>21. PICK ch : ch = [chan[c] EXCEPT !.added = FALSE, !.removed = TRUE]
  OBVIOUS
<1>22. /\ EPollRemove(c, ch)
       /\ ch \in ChanRecord /\ ch.fd = chan[c].fd /\ ch.index = chan[c].index /\ ch.events = chan[c].events /\ ~ch.added
  BY <1>2, <1>21 DEF RemoveChannel, ChanRecord
<1>3. PICK r \in ChanRecord : r = [ch EXCEPT !.index = kNew] /\ r.fd = chan[c].fd /\ r.index = kNew /\ r.events = {} /\ ~r.added
  <2>1. kNew \in Int
    BY DEF kNew
  <2>2. /\ [ch EXCEPT !.index = kNew] \in ChanRecord /\ [ch EXCEPT !.index = kNew].fd = chan[c].fd
        /\ [ch EXCEPT !.index = kNew].index = kNew /\ [ch EXCEPT !.index = kNew].events = chan[c].events /\ ~[ch EXCEPT !.index = kNew].added
    BY <1>22, <2>1 DEF ChanRecord
  <2> QED
    BY <1>1, <2>2
<1>4. /\ chan[c].fd \in ChannelFds /\ chan[c].index \in {kNew, kAdded, kDeleted}
      /\ map[chan[c].fd] = c
      /\ kernel[chan[c].fd] = IF chan[c].index = kAdded THEN [events |-> chan[c].events, ptr |-> c] ELSE Absent
      /\ [events |-> chan[c].events, ptr |-> c] # Absent
  BY <1>1, EpollFacts DEF PollerInv, EpollOK
<1>5. ~broken /\ kNew # kAdded
  BY DEF PollerInv, kNew, kAdded
<1>6. map' = [map EXCEPT ![chan[c].fd] = NoChannel] /\ chan' = [chan EXCEPT ![c] = r]
  BY <1>3, <1>22 DEF EPollRemove
<1>7. kernel' = [kernel EXCEPT ![chan[c].fd] = Absent] /\ ~broken'
  <2>1. CASE chan[c].index = kAdded
    BY <1>1, <1>4, <1>5, <1>22, <2>1 DEF EPollRemove, EpollCtl
  <2>2. CASE chan[c].index # kAdded
    <3>1. ~broken' /\ kernel' = kernel
      BY <1>1, <1>4, <1>5, <1>22, <2>2 DEF EPollRemove, PollerInv, EpollOK
    <3> QED
      BY <1>4, <2>2, <3>1 DEF PollerInv, PollerTypeOK
  <2> QED
    BY <2>1, <2>2
<1> QED
  BY <1>1, <1>3, <1>5, <1>6, <1>7, EpollChange

(* PollPoller: an entry of pollfds_ tells its descriptor, ignored or not.  *)
LEMMA SlotDecodes ==
  ASSUME NEW r \in ChanRecord, r.fd # -1
  PROVE  /\ Slot(r) \in Slots /\ r.fd \in Nat
         /\ r.fd = IF Slot(r).fd < 0 THEN Ignored(Slot(r).fd) ELSE Slot(r).fd
         /\ Slot(r).events = r.events
<1>1. r.fd \in Nat /\ r.events \in Interests
  BY PollerAssumption DEF ChanRecord
<1>2. Slot(r) = [fd |-> IF r.events = {} THEN Ignored(r.fd) ELSE r.fd, events |-> r.events]
  BY DEF Slot, PollFd
<1>3. Ignored(r.fd) \in Int /\ Ignored(r.fd) < 0 /\ Ignored(Ignored(r.fd)) = r.fd
  BY <1>1 DEF Ignored
<1>4. Slot(r).fd = IF r.events = {} THEN Ignored(r.fd) ELSE r.fd
  BY <1>2
<1>5. Slot(r) \in Slots
  BY <1>1, <1>2, <1>3 DEF Slots
<1> QED
  BY <1>1, <1>2, <1>3, <1>4, <1>5

(* A registered channel has its entry, and no other channel has that one.  *)
LEMMA PollFacts ==
  ASSUME PollerInv, kind = "poll"
  PROVE  /\ Len(pollfds) \in Nat /\ DOMAIN pollfds = 1..Len(pollfds) /\ IsFiniteSet(Mapped)
         /\ \A c \in Channels : chan[c].added =>
              Alive(c) /\ chan[c].index + 1 \in 1..Len(pollfds) /\ pollfds[chan[c].index + 1] = Slot(chan[c])
         /\ \A c, d \in Channels : chan[c].added /\ chan[d].added /\ chan[d].index = chan[c].index => c = d
<1>1. Len(pollfds) \in Nat /\ DOMAIN pollfds = 1..Len(pollfds)
  BY LenProperties DEF PollerInv, PollerTypeOK
<1>2. IsFiniteSet(Mapped)
  <2>1. Mapped \subseteq ChannelFds
    BY DEF Mapped
  <2> QED
    BY <2>1, PollerAssumption, FS_Subset
<1>3. \A c \in Channels : chan[c].added =>
        Alive(c) /\ chan[c].index + 1 \in 1..Len(pollfds) /\ pollfds[chan[c].index + 1] = Slot(chan[c])
  BY <1>1 DEF PollerInv, OwnersOK, PollOK
<1>4. ASSUME NEW c \in Channels, NEW d \in Channels, chan[c].added, chan[d].added, chan[d].index = chan[c].index PROVE c = d
  <2>1. Slot(chan[c]) = Slot(chan[d]) /\ Alive(c) /\ Alive(d)
    BY <1>3, <1>4
  <2>2. chan[c] \in ChanRecord /\ chan[d] \in ChanRecord /\ chan[c].fd # -1 /\ chan[d].fd # -1
    BY <2>1 DEF PollerInv, PollerTypeOK, Alive
  <2>3. chan[c].fd = chan[d].fd
    BY <2>1, <2>2, SlotDecodes
  <2> QED
    BY <2>1, <2>3 DEF PollerInv, OwnersOK
<1> QED
  BY <1>1, <1>2, <1>3, <1>4

LEMMA PollChange ==
  ASSUME PollerInv, kind = "poll", NEW c \in Channels, Alive(c), chan' \in [Channels -> ChanRecord],
         \A d \in Channels : chan'[d].fd = chan[d].fd,
         \A d \in Channels : d # c => (chan'[d].added <=> chan[d].added) /\ chan'[d].events = chan[d].events,
         ~chan'[c].added => chan'[c].events = {},
         map' = [map EXCEPT ![chan[c].fd] = IF chan'[c].added THEN c ELSE NoChannel],
         pollfds' \in Seq(Slots), \A d \in Channels : Indexed(chan'[d]),
         \A d \in Channels : chan'[d].added =>
           chan'[d].index + 1 \in 1..Len(pollfds') /\ pollfds'[chan'[d].index + 1] = Slot(chan'[d]),
         \A i \in 1..Len(pollfds') : \E d \in Channels : chan'[d].added /\ chan'[d].index + 1 = i,
         Len(pollfds') = IF chan'[c].added
                         THEN IF chan[c].added THEN Len(pollfds) ELSE Len(pollfds) + 1
                         ELSE IF chan[c].added THEN Len(pollfds) - 1 ELSE Len(pollfds),
         ~broken', UNCHANGED <<kernel, kind, room, ready, reported, current>>
  PROVE  PollerInv'
<1>1. PollerTypeOK /\ OwnersOK
  BY DEF PollerInv
<1>2. /\ OwnersOK' /\ map' \in [ChannelFds -> Channels \cup {NoChannel}] /\ chan[c].fd \in ChannelFds
      /\ map[chan[c].fd] = IF chan[c].added THEN c ELSE NoChannel
      /\ \A f \in ChannelFds : f # chan[c].fd => map'[f] = map[f] /\ map[f] # c
  BY <1>1, OwnersChange
<1>3. c # NoChannel
  BY PollerAssumption DEF NoChannel
<1>4. map'[chan[c].fd] = IF chan'[c].added THEN c ELSE NoChannel
  BY <1>1, <1>2 DEF PollerTypeOK
<1>5. Mapped' = IF chan'[c].added THEN Mapped \cup {chan[c].fd} ELSE Mapped \ {chan[c].fd}
  BY <1>2, <1>3, <1>4 DEF Mapped
<1>6. chan[c].fd \in Mapped <=> chan[c].added
  BY <1>2, <1>3 DEF Mapped
<1>7. Len(pollfds') = Cardinality(Mapped')
  <2>1. IsFiniteSet(Mapped) /\ Len(pollfds) = Cardinality(Mapped)
    BY PollFacts DEF PollerInv, PollOK
  <2>2. PICK M, f : M = Mapped /\ f = chan[c].fd
    OBVIOUS
  <2>3. /\ Cardinality(M \cup {f}) = IF f \in M THEN Cardinality(M) ELSE Cardinality(M) + 1
        /\ Cardinality(M \ {f}) = IF f \in M THEN Cardinality(M) - 1 ELSE Cardinality(M)
    BY <2>1, <2>2, FS_AddElement, FS_RemoveElement
  <2> QED
    BY <1>5, <1>6, <2>1, <2>2, <2>3
<1>8. PollOK'
  <2>1. DOMAIN pollfds' = 1..Len(pollfds')
    BY LenProperties
  <2> QED
    BY <1>7, <2>1 DEF PollOK
<1>9. EpollOK' /\ kernel' \in [ChannelFds -> [events : Interests, ptr : Channels \cup {NoChannel}]]
  BY <1>1 DEF EpollOK, PollerTypeOK
<1> QED
  BY <1>2, <1>8, <1>9, TablesChange

LEMMA PollUpdateKeeps ==
  ASSUME PollerInv, kind = "poll", NEW c \in Channels, Alive(c), NEW evts \in Interests, UpdateChannel(c, evts),
         chan[c].added \/ (~chan[c].removed /\ evts # {})
  PROVE  PollerInv'
<1>1. PICK ch : ch = [chan[c] EXCEPT !.events = evts, !.added = TRUE]
  OBVIOUS
<1>2. chan[c] \in ChanRecord /\ chan \in [Channels -> ChanRecord] /\ pollfds \in Seq(Slots)
  BY DEF PollerInv, PollerTypeOK
<1>3. /\ ch \in ChanRecord /\ ch.fd = chan[c].fd /\ ch.index = chan[c].index /\ ch.events = evts
      /\ ch.added /\ ~ch.removed
  <2>1. ch \in ChanRecord /\ ch.fd = chan[c].fd /\ ch.index = chan[c].index /\ ch.events = evts /\ ch.added
    BY <1>1, <1>2 DEF ChanRecord
  <2>2. ch.removed = chan[c].removed
    BY <1>1, <1>2 DEF ChanRecord
  <2>3. ~chan[c].removed
    BY DEF PollerInv, PollOK, Indexed
  <2> QED
    BY <2>1, <2>2, <2>3
<1>4. PollUpdate(c, ch) /\ UNCHANGED <<kernel, kind, room, ready, reported, current>>
  BY <1>1 DEF UpdateChannel
<1>5. chan[c].fd \in ChannelFds /\ map[chan[c].fd] = IF chan[c].added THEN c ELSE NoChannel
  BY MapOfChannel
<1>6. /\ Len(pollfds) \in Nat
      /\ \A d \in Channels : chan[d].added =>
           Alive(d) /\ chan[d].index + 1 \in 1..Len(pollfds) /\ pollfds[chan[d].index + 1] = Slot(chan[d])
      /\ \A d, e \in Channels : chan[d].added /\ chan[e].added /\ chan[e].index = chan[d].index => d = e
      /\ \A i \in 1..Len(pollfds) : \E d \in Channels : chan[d].added /\ chan[d].index + 1 = i
  BY PollFacts DEF PollerInv, PollOK
<1>7. ~broken /\ kNew = -1 /\ ch.index \in Int
  BY <1>3 DEF PollerInv, kNew, ChanRecord
<1>71. \A d \in Channels : Indexed(chan[d])
  BY DEF PollerInv, PollOK
<1>8. CASE ~chan[c].added
  <2>0. chan[c].index = kNew
    BY <1>8, <1>71 DEF Indexed
  <2>1. PICK r \in ChanRecord : r = [ch EXCEPT !.index = Len(pollfds)] /\ r.fd = chan[c].fd /\ r.index = Len(pollfds) /\ r.events = evts
                                /\ r.added /\ ~r.removed
    <3>1. /\ [ch EXCEPT !.index = Len(pollfds)] \in ChanRecord /\ [ch EXCEPT !.index = Len(pollfds)].fd = ch.fd
          /\ [ch EXCEPT !.index = Len(pollfds)].index = Len(pollfds) /\ [ch EXCEPT !.index = Len(pollfds)].events = ch.events
          /\ [ch EXCEPT !.index = Len(pollfds)].added /\ ~[ch EXCEPT !.index = Len(pollfds)].removed
      BY <1>3, <1>6 DEF ChanRecord
    <3> QED
      BY <1>3, <3>1
  <2>2. /\ pollfds' = Append(pollfds, PollFd(ch.fd, ch.events)) /\ chan' = [chan EXCEPT ![c] = r]
        /\ map' = [map EXCEPT ![chan[c].fd] = c] /\ ~broken'
    <3>1. ch.index < 0 /\ ~(ch.index >= 0)
      BY <1>3, <1>7, <2>0
    <3>2. /\ pollfds' = Append(pollfds, PollFd(ch.fd, ch.events)) /\ chan' = [chan EXCEPT ![c] = r]
          /\ map' = [map EXCEPT ![ch.fd] = c] /\ broken' = (broken \/ map[ch.fd] # NoChannel)
      BY <1>4, <2>1, <3>1 DEF PollUpdate
    <3> QED
      BY <1>3, <1>5, <1>7, <1>8, <3>2
  <2>3. Slot(r) = PollFd(ch.fd, ch.events) /\ Slot(r) \in Slots
    BY <1>3, <1>8, <2>1, SlotDecodes DEF Slot, Alive
  <2>4. /\ pollfds' \in Seq(Slots) /\ Len(pollfds') = Len(pollfds) + 1 /\ pollfds'[Len(pollfds) + 1] = Slot(r)
        /\ \A i \in 1..Len(pollfds) : pollfds'[i] = pollfds[i]
    BY <1>2, <2>2, <2>3, AppendProperties
  <2>5. chan' \in [Channels -> ChanRecord] /\ chan'[c] = r /\ \A d \in Channels : d # c => chan'[d] = chan[d]
    BY <1>2, <2>2
  <2>6. \A d \in Channels : chan'[d].added =>
          chan'[d].index + 1 \in 1..Len(pollfds') /\ pollfds'[chan'[d].index + 1] = Slot(chan'[d])
    <3> SUFFICES ASSUME NEW d \in Channels, chan'[d].added
                 PROVE  chan'[d].index + 1 \in 1..Len(pollfds') /\ pollfds'[chan'[d].index + 1] = Slot(chan'[d])
      OBVIOUS
    <3>1. CASE d = c
      <4>1. chan'[d] = r /\ r.index + 1 = Len(pollfds) + 1 /\ Len(pollfds) + 1 \in 1..Len(pollfds')
        BY <1>6, <2>1, <2>4, <2>5, <3>1
      <4> QED
        BY <2>4, <4>1
    <3>2. CASE d # c
      <4>1. chan'[d] = chan[d] /\ chan[d].index + 1 \in 1..Len(pollfds) /\ pollfds[chan[d].index + 1] = Slot(chan[d])
        BY <1>6, <2>5, <3>2
      <4>2. chan[d].index + 1 \in 1..Len(pollfds')
        BY <1>6, <2>4, <4>1
      <4> QED
        BY <2>4, <4>1, <4>2
    <3> QED
      BY <3>1, <3>2
  <2>7. ASSUME NEW i \in 1..Len(pollfds') PROVE \E d \in Channels : chan'[d].added /\ chan'[d].index + 1 = i
    <3>1. CASE i = Len(pollfds) + 1
      <4>1. chan'[c].index = Len(pollfds) /\ chan'[c].added
        BY <2>1, <2>5
      <4> QED
        BY <3>1, <4>1
    <3>2. CASE i # Len(pollfds) + 1
      <4>1. i \in 1..Len(pollfds)
        BY <1>6, <2>4, <3>2
      <4> QED
        BY <1>6, <1>8, <2>5, <4>1
    <3> QED
      BY <3>1, <3>2
  <2>8. \A d \in Channels : Indexed(chan'[d])
    BY <1>71, <2>1, <2>5 DEF Indexed
  <2> QED
    BY <1>4, <1>8, <2>1, <2>2, <2>4, <2>5, <2>6, <2>7, <2>8, PollChange
<1>9. CASE chan[c].added
  <2>1. ch.index >= 0 /\ chan[c].index + 1 \in 1..Len(pollfds) /\ pollfds[chan[c].index + 1] = Slot(chan[c])
    BY <1>3, <1>6, <1>7, <1>9
  <2>2. pollfds[chan[c].index + 1].fd \in {ch.fd, Ignored(ch.fd)}
    BY <1>3, <2>1 DEF Slot, PollFd
  <2>3. /\ pollfds' = [pollfds EXCEPT ![chan[c].index + 1] = Slot(ch)] /\ chan' = [chan EXCEPT ![c] = ch]
        /\ map' = map /\ ~broken'
    <3>1. ~(ch.index < 0) /\ map[ch.fd] = c
      BY <1>3, <1>5, <1>7, <1>9, <2>1
    <3>2. /\ pollfds' = [pollfds EXCEPT ![ch.index + 1] = Slot(ch)] /\ chan' = [chan EXCEPT ![c] = ch] /\ map' = map
          /\ broken' = (broken \/ pollfds[ch.index + 1].fd \notin {ch.fd, Ignored(ch.fd)})
      BY <1>4, <3>1 DEF PollUpdate, Slot
    <3> QED
      BY <1>3, <1>5, <1>7, <1>9, <2>2, <3>2
  <2>4. Slot(ch) \in Slots
    BY <1>3, SlotDecodes DEF Alive
  <2>5. PICK k \in 1..Len(pollfds) : k = chan[c].index + 1
    BY <2>1
  <2>6. /\ pollfds' \in Seq(Slots) /\ Len(pollfds') = Len(pollfds)
        /\ \A i \in 1..Len(pollfds) : pollfds'[i] = IF i = k THEN Slot(ch) ELSE pollfds[i]
    BY <1>2, <2>3, <2>4, <2>5, ExceptSeq
  <2>7. chan' \in [Channels -> ChanRecord] /\ chan'[c] = ch /\ \A d \in Channels : d # c => chan'[d] = chan[d]
    BY <1>2, <1>3, <2>3
  <2>8. \A d \in Channels : /\ chan'[d].index = chan[d].index /\ chan[d].index \in Int
                             /\ (chan'[d].added <=> chan[d].added)
    BY <1>2, <1>3, <1>9, <2>7 DEF ChanRecord
  <2>81. \A d \in Channels : Indexed(chan'[d])
    BY <1>3, <1>71, <2>7 DEF Indexed
  <2>9. ASSUME NEW d \in Channels, chan'[d].added
        PROVE  chan'[d].index + 1 \in 1..Len(pollfds') /\ pollfds'[chan'[d].index + 1] = Slot(chan'[d])
    <3>1. chan[d].index + 1 \in 1..Len(pollfds) /\ pollfds[chan[d].index + 1] = Slot(chan[d])
      BY <1>6, <2>8, <2>9
    <3>2. CASE d = c
      BY <2>5, <2>6, <2>7, <2>8, <3>1, <3>2
    <3>3. CASE d # c
      <4>1. chan[d].index + 1 # k
        BY <1>6, <1>9, <2>5, <2>8, <2>9, <3>3
      <4> QED
        BY <2>6, <2>7, <2>8, <3>1, <3>3, <4>1
    <3> QED
      BY <3>2, <3>3
  <2>10. \A i \in 1..Len(pollfds') : \E d \in Channels : chan'[d].added /\ chan'[d].index + 1 = i
    BY <1>6, <2>6, <2>8
  <2>11. map' = [map EXCEPT ![chan[c].fd] = c]
    BY <1>5, <1>9, <2>3 DEF PollerInv, PollerTypeOK
  <2>12. \A d \in Channels : chan'[d].fd = chan[d].fd
    BY <1>3, <2>7
  <2>13. \A d \in Channels : d # c => chan'[d].events = chan[d].events
    BY <2>7
  <2> QED
    BY <1>4, <1>9, <2>3, <2>6, <2>7, <2>8, <2>81, <2>9, <2>10, <2>11, <2>12, <2>13, PollChange
<1> QED
  BY <1>8, <1>9

(* The last entry takes the place of entry k. *)
LEMMA SwapOut ==
  ASSUME NEW S, NEW s \in Seq(S), NEW k \in 1..Len(s)
  PROVE  /\ Front([s EXCEPT ![k] = Last(s)]) \in Seq(S) /\ Len(Front([s EXCEPT ![k] = Last(s)])) = Len(s) - 1
         /\ \A i \in 1..(Len(s) - 1) : Front([s EXCEPT ![k] = Last(s)])[i] = IF i = k THEN s[Len(s)] ELSE s[i]
<1>1. Len(s) \in Nat /\ Len(s) >= 1 /\ Len(s) \in 1..Len(s)
  BY LenProperties
<1>2. PICK x \in S : x = s[Len(s)] /\ x = Last(s)
  BY <1>1, ElementOfSeq DEF Last
<1>3. PICK t \in Seq(S) : /\ t = [s EXCEPT ![k] = x] /\ Len(t) = Len(s) /\ \A j \in 1..Len(s) : t[j] = IF j = k THEN x ELSE s[j]
  <2>1. /\ [s EXCEPT ![k] = x] \in Seq(S) /\ Len([s EXCEPT ![k] = x]) = Len(s)
        /\ \A j \in 1..Len(s) : [s EXCEPT ![k] = x][j] = IF j = k THEN x ELSE s[j]
    BY ExceptSeq
  <2> QED
    BY <2>1
<1>4. Len(s) - 1 \in Int /\ \A i \in 1..(Len(s) - 1) : i \in 1..Len(t)
  BY <1>1, <1>3
<1>5. \A i \in 1..(Len(s) - 1) : t[i] \in S
  BY <1>4, ElementOfSeq
<1>6. /\ SubSeq(t, 1, Len(s) - 1) \in Seq(S)
      /\ Len(SubSeq(t, 1, Len(s) - 1)) = IF 1 <= Len(s) - 1 THEN Len(s) - 1 - 1 + 1 ELSE 0
      /\ \A i \in 1..(Len(s) - 1 - 1 + 1) : SubSeq(t, 1, Len(s) - 1)[i] = t[1 + i - 1]
  BY <1>4, <1>5, SubSeqProperties
<1>7. Front(t) = SubSeq(t, 1, Len(s) - 1)
  BY <1>3 DEF Front
<1>8. Len(Front(t)) = Len(s) - 1 /\ \A i \in 1..(Len(s) - 1) : Front(t)[i] = t[i]
  <2>1. Len(s) - 1 - 1 + 1 = Len(s) - 1 /\ \A i \in 1..(Len(s) - 1) : 1 + i - 1 = i
    BY <1>1
  <2>2. ~(1 <= Len(s) - 1) => Len(s) - 1 = 0
    <3>1. \A m \in Nat : m >= 1 => (1 <= m - 1 \/ m - 1 = 0)
      OBVIOUS
    <3> QED
      BY <1>1, <3>1
  <2> QED
    BY <1>6, <1>7, <2>1, <2>2
<1> QED
  BY <1>1, <1>2, <1>3, <1>4, <1>6, <1>7, <1>8

LEMMA PollRemoveKeeps ==
  ASSUME PollerInv, kind = "poll", NEW c \in Channels, RemoveChannel(c)
  PROVE  PollerInv'
<1>1. /\ Alive(c) /\ chan[c].added /\ chan[c].events = {} 
      /\ UNCHANGED <<kernel, kind, room, ready, reported, current>>
  BY DEF RemoveChannel
<1>2. chan \in [Channels -> ChanRecord] /\ chan[c] \in ChanRecord /\ pollfds \in Seq(Slots) /\ ~broken
  BY DEF PollerInv, PollerTypeOK
<1>3. /\ Len(pollfds) \in Nat
      /\ \A d \in Channels : chan[d].added =>
           Alive(d) /\ chan[d].index + 1 \in 1..Len(pollfds) /\ pollfds[chan[d].index + 1] = Slot(chan[d])
      /\ \A d, e \in Channels : chan[d].added /\ chan[e].added /\ chan[e].index = chan[d].index => d = e
      /\ \A i \in 1..Len(pollfds) : \E d \in Channels : chan[d].added /\ chan[d].index + 1 = i
  BY PollFacts DEF PollerInv, PollOK
<1>4. PICK r \in ChanRecord : /\ r = [chan[c] EXCEPT !.added = FALSE, !.removed = TRUE]
                              /\ r.fd = chan[c].fd /\ r.index = chan[c].index /\ r.events = {} /\ ~r.added /\ r.removed
  <2>1. PICK q : q = [chan[c] EXCEPT !.added = FALSE, !.removed = TRUE]
    OBVIOUS
  <2>2. q \in ChanRecord /\ q.fd = chan[c].fd /\ q.index = chan[c].index /\ q.events = chan[c].events /\ ~q.added /\ q.removed
    BY <1>2, <2>1 DEF ChanRecord
  <2> QED
    BY <1>1, <2>1, <2>2
<1>41. PollRemove(c, r)
  BY <1>1, <1>4 DEF RemoveChannel
<1>5. PICK k \in 1..Len(pollfds) : k = chan[c].index + 1 /\ pollfds[k] = Slot(chan[c])
  BY <1>1, <1>3
<1>6. PICK n \in 1..Len(pollfds) : n = Len(pollfds)
  BY <1>3
<1>7. PICK o \in Channels : /\ chan[o].added /\ chan[o].index + 1 = n /\ Alive(o)
                            /\ pollfds[n] = Slot(chan[o])
  BY <1>3
<1>8. map[IF Last(pollfds).fd < 0 THEN Ignored(Last(pollfds).fd) ELSE Last(pollfds).fd] = o
  <2>1. Last(pollfds) = Slot(chan[o])
    BY <1>6, <1>7 DEF Last
  <2>2. chan[o] \in ChanRecord /\ chan[o].fd # -1
    BY <1>2, <1>7 DEF Alive
  <2>3. chan[o].fd = IF Slot(chan[o]).fd < 0 THEN Ignored(Slot(chan[o]).fd) ELSE Slot(chan[o]).fd
    BY <2>2, SlotDecodes
  <2>4. map[chan[o].fd] = o
    BY <1>7 DEF PollerInv, OwnersOK
  <2> QED
    BY <2>1, <2>3, <2>4
<1>9. pollfds[k] = PollFd(Ignored(chan[c].fd), chan[c].events) /\ map[chan[c].fd] = c
  BY <1>1, <1>5 DEF Slot, PollerInv, OwnersOK
<1>10. /\ map' = [map EXCEPT ![chan[c].fd] = NoChannel] /\ ~broken'
       /\ pollfds' = Front([pollfds EXCEPT ![k] = Last(pollfds)])
       /\ chan' = IF k = n THEN [chan EXCEPT ![c] = r] ELSE [chan EXCEPT ![o].index = chan[c].index, ![c] = r]
  <2>1. r.index + 1 = k /\ r.fd = chan[c].fd /\ r.events = chan[c].events /\ Len(pollfds) = n /\ ~broken
    BY <1>1, <1>2, <1>4, <1>5, <1>6
  <2>2. PICK w : w = map[IF Last(pollfds).fd < 0 THEN Ignored(Last(pollfds).fd) ELSE Last(pollfds).fd]
    OBVIOUS
  <2>3. /\ map' = [map EXCEPT ![r.fd] = NoChannel]
        /\ broken' = (broken \/ map[r.fd] # c \/ pollfds[r.index + 1] # PollFd(Ignored(r.fd), r.events))
        /\ pollfds' = Front([pollfds EXCEPT ![r.index + 1] = Last(pollfds)])
        /\ chan' = IF r.index + 1 = Len(pollfds) THEN [chan EXCEPT ![c] = r]
                   ELSE [chan EXCEPT ![w].index = r.index, ![c] = r]
    BY <1>41, <2>2 DEF PollRemove
  <2> QED
    BY <1>4, <1>8, <1>9, <2>1, <2>2, <2>3
<1>11. /\ pollfds' \in Seq(Slots) /\ Len(pollfds') = n - 1
       /\ \A i \in 1..(n - 1) : pollfds'[i] = IF i = k THEN pollfds[n] ELSE pollfds[i]
  BY <1>2, <1>6, <1>10, SwapOut
<1>12. k = n <=> o = c
  <2>1. chan[c].index \in Int /\ chan[o].index \in Int
    BY <1>2 DEF ChanRecord
  <2> QED
    BY <1>1, <1>3, <1>5, <1>7, <2>1
<1>13. /\ chan' \in [Channels -> ChanRecord] /\ chan'[c] = r
       /\ o # c => /\ chan'[o].fd = chan[o].fd /\ chan'[o].events = chan[o].events /\ chan'[o].index = chan[c].index
                   /\ Slot(chan'[o]) = Slot(chan[o]) /\ chan'[o].added /\ ~chan'[o].removed
       /\ \A d \in Channels : d # c /\ d # o => chan'[d] = chan[d]
  <2>1. CASE o = c
    BY <1>2, <1>10, <1>12, <2>1
  <2>2. CASE o # c
    <3>1. PICK q \in ChanRecord : /\ q = [chan[o] EXCEPT !.index = chan[c].index]
                                  /\ q.fd = chan[o].fd /\ q.events = chan[o].events /\ q.index = chan[c].index
                                  /\ q.added /\ ~q.removed
      <4>1. /\ [chan[o] EXCEPT !.index = chan[c].index] \in ChanRecord /\ [chan[o] EXCEPT !.index = chan[c].index].fd = chan[o].fd
            /\ [chan[o] EXCEPT !.index = chan[c].index].events = chan[o].events
            /\ [chan[o] EXCEPT !.index = chan[c].index].index = chan[c].index
            /\ [chan[o] EXCEPT !.index = chan[c].index].added = chan[o].added
            /\ [chan[o] EXCEPT !.index = chan[c].index].removed = chan[o].removed
        BY <1>2 DEF ChanRecord
      <4>2. chan[o].added /\ ~chan[o].removed
        BY <1>7 DEF PollerInv, PollOK, Indexed
      <4> QED
        BY <4>1, <4>2
    <3>2. chan' = [chan EXCEPT ![o] = q, ![c] = r]
      BY <1>10, <1>12, <2>2, <3>1
    <3>3. chan'[o] = q /\ chan'[c] = r /\ chan' \in [Channels -> ChanRecord] /\ \A d \in Channels : d # c /\ d # o => chan'[d] = chan[d]
      BY <1>2, <2>2, <3>2
    <3> QED
      BY <3>1, <3>3 DEF Slot
  <2> QED
    BY <2>1, <2>2
<1>14. ASSUME NEW d \in Channels, d # c
       PROVE  (chan'[d].added <=> chan[d].added) /\ chan'[d].events = chan[d].events /\ chan'[d].fd = chan[d].fd
  BY <1>1, <1>7, <1>13, <1>14
<1>15. ASSUME NEW d \in Channels, chan'[d].added
       PROVE  chan'[d].index + 1 \in 1..Len(pollfds') /\ pollfds'[chan'[d].index + 1] = Slot(chan'[d])
  <2>1. d # c /\ chan[d].added
    BY <1>4, <1>13, <1>14, <1>15
  <2>2. CASE d = o
    <3>1. chan'[d].index + 1 = k /\ k # n /\ k \in 1..(n - 1)
      BY <1>3, <1>5, <1>6, <1>12, <1>13, <2>1, <2>2
    <3> QED
      BY <1>7, <1>11, <1>13, <2>1, <2>2, <3>1
  <2>3. CASE d # o
    <3>1. chan'[d] = chan[d] /\ chan[d].index + 1 \in 1..Len(pollfds) /\ pollfds[chan[d].index + 1] = Slot(chan[d])
      BY <1>3, <1>13, <2>1, <2>3
    <3>2. chan[d].index # chan[o].index /\ chan[d].index # chan[c].index
      BY <1>1, <1>3, <1>7, <2>1, <2>3
    <3>3. chan[d].index \in Int /\ chan[c].index \in Int /\ chan[o].index \in Int
      BY <1>2 DEF ChanRecord
    <3>4. chan[d].index + 1 \in 1..(n - 1) /\ chan[d].index + 1 # k
      BY <1>3, <1>5, <1>6, <1>7, <3>1, <3>2, <3>3
    <3> QED
      BY <1>11, <3>1, <3>4
  <2> QED
    BY <2>2, <2>3
<1>16. ASSUME NEW i \in 1..Len(pollfds') PROVE \E d \in Channels : chan'[d].added /\ chan'[d].index + 1 = i
  <2>1. i \in 1..Len(pollfds) /\ i # n
    BY <1>3, <1>6, <1>11
  <2>2. CASE i = k
    BY <1>1, <1>5, <1>12, <1>13, <2>1, <2>2
  <2>3. CASE i # k
    <3>1. PICK d \in Channels : chan[d].added /\ chan[d].index + 1 = i
      BY <1>3, <2>1
    <3>2. d # c /\ d # o
      BY <1>5, <1>7, <2>1, <2>3, <3>1
    <3> QED
      BY <1>13, <3>1, <3>2
  <2> QED
    BY <2>2, <2>3
<1>17. \A d \in Channels : chan'[d].fd = chan[d].fd
  BY <1>4, <1>13, <1>14
<1>18. Len(pollfds') = Len(pollfds) - 1
  BY <1>6, <1>11
<1>19. \A d \in Channels : Indexed(chan'[d])
  <2>1. chan[c].index >= 0 /\ \A d \in Channels : Indexed(chan[d])
    <3>1. chan[c].index \in Int /\ chan[c].index + 1 \in 1..Len(pollfds)
      BY <1>2, <1>5 DEF ChanRecord
    <3> QED
      BY <3>1 DEF PollerInv, PollOK
  <2>2. Indexed(chan'[c])
    <3>1. chan'[c] = r /\ ~r.added /\ r.removed /\ r.index = chan[c].index
      BY <1>4, <1>13
    <3> QED
      BY <2>1, <3>1 DEF Indexed
  <2>3. o # c => Indexed(chan'[o])
    BY <1>13 DEF Indexed
  <2>4. \A d \in Channels : d # c /\ d # o => Indexed(chan'[d])
    BY <1>13, <2>1
  <2> QED
    BY <2>2, <2>3, <2>4
<1> QED
  BY <1>1, <1>4, <1>19, <1>10, <1>11, <1>13, <1>14, <1>15, <1>16, <1>17, <1>18, PollChange

(* A channel that PollPoller removed is enabled: the assertion fails, and  *)
(* the tables are as they were.                                            *)
LEMMA ReopenAborts ==
  ASSUME PollerInv, kind = "poll", NEW c \in Channels, Alive(c), NEW evts \in Interests, UpdateChannel(c, evts),
         ~chan[c].added, chan[c].removed
  PROVE  broken' /\ PollerSound'
<1>1. PICK ch : ch = [chan[c] EXCEPT !.events = evts, !.added = TRUE]
  OBVIOUS
<1>2. chan[c] \in ChanRecord /\ chan \in [Channels -> ChanRecord]
  BY DEF PollerInv, PollerTypeOK
<1>3. ch.fd = chan[c].fd /\ ch.index = chan[c].index /\ ch.events = evts /\ ch.added /\ ch.removed
  BY <1>1, <1>2 DEF ChanRecord
<1>4. PollUpdate(c, ch) /\ UNCHANGED <<kernel, kind, room, ready, reported, current>>
  BY <1>1 DEF UpdateChannel
<1>5. chan[c].fd \in ChannelFds /\ c # NoChannel /\ map[chan[c].fd] = NoChannel
  BY MapOfChannel
<1>6. chan[c].index \in Int /\ chan[c].index >= 0
  BY <1>2 DEF PollerInv, PollOK, Indexed, ChanRecord
<1>7. broken' = TRUE /\ chan' = [chan EXCEPT ![c] = ch] /\ map' = map /\ pollfds' = pollfds
  <2>1. ~(ch.index < 0) /\ map[ch.fd] # c
    BY <1>3, <1>5, <1>6
  <2> QED
    BY <1>4, <2>1 DEF PollUpdate
<1>8. chan'[c] = ch /\ \A d \in Channels : d # c => chan'[d] = chan[d]
  BY <1>2, <1>7
<1>9. Reopened(c)' /\ \A d \in Channels : d # c => (Reopened(d)' <=> Reopened(d))
  BY <1>3, <1>4, <1>8 DEF Reopened, Alive
<1>10. PollerSound
  BY PollerInvImplies
<1>11. \A d \in Channels : Alive(d)' <=> Alive(d)
  BY <1>3, <1>8 DEF Alive
<1>12. NoPollerFailure'
  <2>1. \A d \in ToSet(reported) \cup {current} : d = NoChannel \/ d \in Channels
    BY DEF PollerInv, PollerTypeOK, ToSet
  <2>2. \A d \in ToSet(reported) \cup {current} : d = NoChannel \/ Alive(d)
    BY DEF PollerInv, ReportedOK
  <2>3. \A d \in ToSet(reported') \cup {current'} : d = NoChannel \/ Alive(d)'
    BY <1>4, <1>11, <2>1, <2>2
  <2> QED
    BY <1>7, <1>9, <2>3 DEF NoPollerFailure
<1>13. \A f \in ChannelFds : map[f] # NoChannel => map[f] \in Channels /\ map[f] # c
  BY DEF PollerInv, PollerTypeOK, OwnersOK
<1>14. TablesAgree'
  <2>1. ASSUME NEW d \in Channels, Alive(d)', ~Reopened(d)' PROVE (chan'[d].added <=> map'[chan'[d].fd] = d)
    <3>1. d # c /\ Alive(d) /\ ~Reopened(d) /\ chan'[d] = chan[d]
      BY <1>8, <1>9, <1>11, <2>1
    <3> QED
      BY <1>7, <1>10, <3>1 DEF PollerSound, TablesAgree
  <2>2. Len(pollfds) = Cardinality({f \in ChannelFds : map[f] # NoChannel})
    BY <1>10 DEF PollerSound, TablesAgree
  <2>3. ASSUME NEW f \in ChannelFds, map[f] # NoChannel
        PROVE  \E i \in DOMAIN pollfds' : /\ i = chan'[map[f]].index + 1 /\ pollfds'[i].fd \in {f, Ignored(f)}
                                          /\ pollfds'[i].events = chan'[map[f]].events
    <3>1. chan'[map[f]] = chan[map[f]]
      BY <1>8, <1>13, <2>3
    <3> QED
      BY <1>7, <1>10, <2>3, <3>1 DEF PollerSound, TablesAgree
  <2>4. kind' = "poll"
    BY <1>4
  <2> QED
    BY <1>7, <2>1, <2>2, <2>3, <2>4 DEF TablesAgree
<1>15. InterestKept'
  <2> SUFFICES ASSUME NEW d \in Channels, chan'[d].events # {}, ~Reopened(d)'
               PROVE  kind' = "poll" /\ \E i \in DOMAIN pollfds' : i = chan'[d].index + 1 /\ pollfds'[i].fd = chan'[d].fd
    BY DEF InterestKept
  <2>1. d # c /\ ~Reopened(d) /\ chan'[d] = chan[d]
    BY <1>8, <1>9
  <2> QED
    BY <1>4, <1>7, <1>10, <2>1 DEF PollerSound, InterestKept
<1> QED
  BY <1>7, <1>12, <1>14, <1>15 DEF PollerSound

(* The process runs, or it has aborted with its tables as they should be.  *)
PollerOrAborted == PollerInv \/ (broken /\ PollerSound)

LEMMA PollerStepKeeps == PollerOrAborted /\ [PollerNext]_pollerVars => PollerOrAborted'
<1> SUFFICES ASSUME PollerOrAborted, [PollerNext]_pollerVars PROVE PollerOrAborted'
  OBVIOUS
<1>1. CASE broken /\ PollerSound
  <2>1. UNCHANGED <<kind, chan, map, kernel, pollfds, broken, reported, current>>
    BY <1>1 DEF PollerNext, pollerVars, tableVars
  <2>2. \A c : (Alive(c)' <=> Alive(c)) /\ (Reopened(c)' <=> Reopened(c))
    BY <2>1 DEF Alive, Reopened
  <2>3. NoPollerFailure'
    BY <1>1, <2>1, <2>2 DEF PollerSound, NoPollerFailure
  <2>4. TablesAgree'
    BY <1>1, <2>1, <2>2 DEF PollerSound, TablesAgree
  <2>5. InterestKept'
    BY <1>1, <2>1, <2>2 DEF PollerSound, InterestKept
  <2> QED
    BY <1>1, <2>1, <2>3, <2>4, <2>5 DEF PollerOrAborted, PollerSound
<1> SUFFICES ASSUME PollerInv PROVE PollerOrAborted'
  BY <1>1 DEF PollerOrAborted
<1>2. CASE UNCHANGED pollerVars
  <2>1. PollerInv'
    BY <1>2, TablesStay DEF pollerVars, PollerInv, PollerTypeOK, ReportedOK
  <2> QED
    BY <2>1 DEF PollerOrAborted
<1>3. CASE Poll \/ HandleEvent \/ EndDispatch
  BY <1>3, PollKeeps, HandleEventKeeps, EndDispatchKeeps DEF PollerOrAborted
<1>4. {"in"} \in Interests /\ {} \in Interests /\ kind \in {"epoll", "poll"} /\ {"in"} # {}
  BY DEF Interests, PollerInv, PollerTypeOK
<1>5. ASSUME NEW c \in Channels, EnableReading(c) PROVE PollerOrAborted'
  <2>1. Alive(c) /\ UpdateChannel(c, {"in"})
    BY <1>5 DEF EnableReading
  <2>2. CASE kind = "epoll"
    BY <1>4, <2>1, <2>2, EpollUpdateKeeps DEF PollerOrAborted
  <2>3. CASE kind = "poll" /\ (chan[c].added \/ ~chan[c].removed)
    BY <1>4, <2>1, <2>3, PollUpdateKeeps DEF PollerOrAborted
  <2>4. CASE kind = "poll" /\ ~chan[c].added /\ chan[c].removed
    BY <1>4, <2>1, <2>4, ReopenAborts DEF PollerOrAborted
  <2> QED
    BY <1>4, <2>2, <2>3, <2>4
<1>6. ASSUME NEW c \in Channels, DisableAll(c) PROVE PollerOrAborted'
  BY <1>4, <1>6, EpollUpdateKeeps, PollUpdateKeeps DEF DisableAll, PollerOrAborted
<1>7. ASSUME NEW c \in Channels, RemoveChannel(c) PROVE PollerOrAborted'
  BY <1>4, <1>7, EpollRemoveKeeps, PollRemoveKeeps DEF PollerOrAborted
<1>8. ASSUME NEW c \in Channels, DeleteChannel(c) \/ \E f \in ChannelFds : NewChannel(c, f) PROVE PollerOrAborted'
  BY <1>8, DeleteChannelKeeps, NewChannelKeeps DEF PollerOrAborted
<1>9. ASSUME NEW f \in ChannelFds, FdReady(f) PROVE PollerOrAborted'
  BY <1>9, FdReadyKeeps DEF PollerOrAborted
<1> QED
  BY <1>2, <1>3, <1>5, <1>6, <1>7, <1>8, <1>9 DEF PollerNext

(* For any number of channels and descriptors, and for epoll and poll both: *)
(* an assertion fails exactly when a channel that PollPoller has removed is *)
(* enabled again, no other does and no epoll_ctl() does, no channel is      *)
(* reported once its owner deleted it, and index_, channels_, pollfds_ and  *)
(* the kernel's interest list agree through every updateChannel() and       *)
(* removeChannel().                                                         *)
THEOREM PollerIsSound == PollerSpec => []PollerSound
<1>1. PollerInit => PollerOrAborted
  BY PollerInitInv DEF PollerOrAborted
<1>2. PollerOrAborted /\ [PollerNext]_pollerVars => PollerOrAborted'
  BY PollerStepKeeps
<1>3. PollerOrAborted => PollerSound
  BY PollerInvImplies DEF PollerOrAborted
<1> QED
  BY <1>1, <1>2, <1>3, PTL DEF PollerSpec

-----------------------------------------------------------------------------
(* TcpClient.  The invariant is stated of the values: a whether the client *)
(* is alive, n its connection, c, st and ch connect_, state_ and channel_  *)
(* of the connector, so and cb the sockets and their callbacks, w the      *)
(* functors in the order they run, al the timers, re whether a restart is  *)
(* due, as what was asked, ra the rash orders met so far.                  *)

FunctorNames == {"startInLoop", "stopInLoop", "resetChannel", "connectDestroyed", "forceCloseInLoop"}
AlarmRecord == [start : Nat, keep : BOOLEAN]

Includes(w, f) == \E i \in 1..Len(w) : w[i] = f
Once(w, f) == \A i, j \in 1..Len(w) : w[i] = f /\ w[j] = f => i = j
Ahead(w, f, g) == \E i \in 1..Len(w) : w[i] = f /\ \A j \in 1..Len(w) : w[j] = g => i < j

HasStart(al) == al.start > 0
OneStart(al) == al.start <= 1

ValuesOK(a, n, c, st, ch, so, cb, w, al, re, as, ra) ==
  /\ a \in BOOLEAN /\ n \in Fds \cup {0} /\ c \in BOOLEAN
  /\ st \in {"disconnected", "connecting", "connected"} /\ ch \in Fds \cup {0}
  /\ so \in [Fds -> {"closed", "connecting", "up", "down"}] /\ cb \in [Fds -> {"none", "client", "detail"}]
  /\ w \in Seq(FunctorNames) /\ al \in AlarmRecord /\ re \in BOOLEAN /\ as \subseteq {"connect", "stop"}

(* channel_ outlives an attempt until the functor that resets it. *)
ChannelOK(st, ch, w) ==
  /\ st = "connecting" => ch # 0
  /\ Includes(w, "resetChannel") <=> ch # 0 /\ st # "connecting"
  /\ Once(w, "resetChannel")

(* One socket connects, one connection is up, and one is being closed. *)
SocksOK(a, n, st, ch, so, cb) ==
  /\ \A s \in Fds : so[s] = "connecting" <=> st = "connecting" /\ ch = s
  /\ n # 0 => a /\ so[n] = "up" /\ cb[n] = "client" /\ ch \in {0, n}
  /\ \A s \in Fds :
       so[s] = "up" => st = "connected" /\ ((a /\ n = s /\ cb[s] = "client") \/ (~a /\ ch = 0 /\ cb[s] = "detail"))
  /\ \A s, t \in Fds : so[s] = "up" /\ so[t] = "up" => s = t
  /\ \A s, t \in Fds : so[s] = "down" /\ so[t] = "down" => s = t
  /\ \A s, t \in Fds : so[s] = "up" /\ so[t] = "down" => ch # 0

(* connectDestroyed() comes before the channel of the next connection goes. *)
DownOK(so, w) == \A s \in Fds : so[s] = "down" => Ahead(w, "connectDestroyed", "resetChannel")

(* One attempt is under way at a time. *)
StartOK(a, n, st, ch, w, al, re, as) ==
  /\ "connect" \notin as => ~Includes(w, "startInLoop")
  /\ "connect" \notin as \/ Includes(w, "startInLoop") => st = "disconnected" /\ ch = 0 /\ ~HasStart(al) /\ ~re
  /\ Once(w, "startInLoop")
  /\ HasStart(al) => st = "disconnected"
  /\ OneStart(al)
  /\ a => ~al.keep
  /\ re => st = "connected" /\ ch = 0 /\ a /\ n = 0

(* A client that is gone: the connector makes no attempt, and a timer      *)
(* keeps it while it is used, unless a rash order came before.             *)
Quiet(ch, w) == ch = 0 /\ \A f \in RawFunctors : ~Includes(w, f)
GoneOK(a, c, st, ch, w, al, ra) ==
  ~a => (~c \/ st = "connected") /\ (Quiet(ch, w) \/ al.keep \/ HasStart(al) \/ ra # {})
StopOK(a, st, w) == ~a /\ st = "connecting" => Includes(w, "stopInLoop")

Core(a, n, c, st, ch, so, cb, w, al, re, as, ra) ==
  /\ ValuesOK(a, n, c, st, ch, so, cb, w, al, re, as, ra)
  /\ ChannelOK(st, ch, w) /\ SocksOK(a, n, st, ch, so, cb) /\ DownOK(so, w)
  /\ StartOK(a, n, st, ch, w, al, re, as) /\ GoneOK(a, c, st, ch, w, al, ra)

Work == running \o queued
PendingOK(c, st, w, al, re, gave) == c /\ st = "disconnected" /\ ~gave => Includes(w, "startInLoop") \/ re \/ HasStart(al)

ClientRecord == [alive : BOOLEAN, connect : BOOLEAN, retry : BOOLEAN, connection : Fds \cup {0}]
ConnectorRecord ==
  [connect : BOOLEAN, state : {"disconnected", "connecting", "connected"}, channel : Fds \cup {0}, delay : Nat]

ClientTypeOK ==
  /\ client \in ClientRecord
  /\ connector \in ConnectorRecord
  /\ queued \in Seq(FunctorNames) /\ running \in Seq(FunctorNames) /\ functors \in BOOLEAN
  /\ gaveUp \in BOOLEAN

ClientInv ==
  /\ ClientTypeOK /\ ~misuse
  /\ ~functors => running = <<>>
  /\ restarting => ~functors
  /\ Core(client.alive, client.connection, connector.connect, connector.state, connector.channel, socks, closeBy,
          Work, alarms, restarting, asked, rash)
  /\ StopOK(client.alive, connector.state, Work)
  /\ PendingOK(connector.connect, connector.state, Work, alarms, restarting, gaveUp)

(* Functors are queued at the end and run from the front. *)
LEMMA AppendIndex ==
  ASSUME NEW S, NEW w \in Seq(S), NEW f \in S
  PROVE  /\ Append(w, f) \in Seq(S) /\ Len(Append(w, f)) = Len(w) + 1 /\ Append(w, f)[Len(w) + 1] = f
         /\ \A i \in 1..Len(w) : Append(w, f)[i] = w[i]
         /\ \A i : i \in 1..(Len(w) + 1) <=> i \in 1..Len(w) \/ i = Len(w) + 1
         /\ Len(w) + 1 \notin 1..Len(w) /\ \A i \in 1..Len(w) : i < Len(w) + 1
<1>1. Len(w) \in Nat
  BY LenProperties
<1>2. /\ \A i : i \in 1..(Len(w) + 1) <=> i \in 1..Len(w) \/ i = Len(w) + 1
      /\ Len(w) + 1 \notin 1..Len(w) /\ \A i \in 1..Len(w) : i < Len(w) + 1
  BY <1>1
<1> QED
  BY <1>2, AppendProperties

LEMMA WorkAppend ==
  ASSUME NEW S, NEW w \in Seq(S), NEW f \in S
  PROVE  /\ Append(w, f) \in Seq(S)
         /\ \A g : Includes(Append(w, f), g) <=> Includes(w, g) \/ g = f
         /\ \A g : Once(w, g) /\ (g = f => ~Includes(w, g)) => Once(Append(w, f), g)
         /\ \A g, h : Ahead(w, g, h) => Ahead(Append(w, f), g, h)
         /\ \A h : ~Includes(w, h) /\ h # f => Ahead(Append(w, f), f, h)
<1>0. PICK v, l : v = Append(w, f) /\ l = Len(w)
  OBVIOUS
<1>1. /\ v = Append(w, f) /\ l = Len(w) /\ Len(v) = l + 1 /\ v[l + 1] = f /\ v \in Seq(S)
      /\ \A i \in 1..l : v[i] = w[i]
      /\ \A i : i \in 1..(l + 1) <=> i \in 1..l \/ i = l + 1
      /\ l + 1 \notin 1..l /\ \A i \in 1..l : i < l + 1
  BY <1>0, AppendIndex
<1>2. \A g : Includes(v, g) <=> Includes(w, g) \/ g = f
  BY <1>1 DEF Includes
<1>3. ASSUME NEW g, Once(w, g), g = f => ~Includes(w, g) PROVE Once(v, g)
  BY <1>1, <1>3 DEF Once, Includes
<1>4. ASSUME NEW g, NEW h, Ahead(w, g, h) PROVE Ahead(v, g, h)
  <2>1. PICK i \in 1..l : w[i] = g /\ \A j \in 1..l : w[j] = h => i < j
    BY <1>1, <1>4 DEF Ahead
  <2>2. i \in 1..Len(v) /\ v[i] = g /\ \A j \in 1..Len(v) : v[j] = h => i < j
    BY <1>1, <2>1
  <2> QED
    BY <2>2 DEF Ahead
<1>5. ASSUME NEW h, ~Includes(w, h), h # f PROVE Ahead(v, f, h)
  <2>1. l + 1 \in 1..Len(v) /\ v[l + 1] = f /\ \A j \in 1..Len(v) : v[j] # h
    BY <1>1, <1>5 DEF Includes
  <2> QED
    BY <2>1 DEF Ahead
<1> QED
  BY <1>1, <1>2, <1>3, <1>4, <1>5

LEMMA TailIndex ==
  ASSUME NEW S, NEW w \in Seq(S), w # <<>>
  PROVE  /\ Tail(w) \in Seq(S) /\ Len(Tail(w)) = Len(w) - 1 /\ Head(w) = w[1] /\ 1 \in 1..Len(w) /\ Head(w) \in S
         /\ \A i \in 1..(Len(w) - 1) : Tail(w)[i] = w[i + 1] /\ i + 1 \in 1..Len(w) /\ i + 1 # 1
         /\ \A i \in 1..Len(w) : i # 1 => i - 1 \in 1..(Len(w) - 1) /\ (i - 1) + 1 = i
<1>1. Len(w) \in Nat /\ Len(w) # 0
  BY LenProperties, EmptySeq
<1>2. /\ 1 \in 1..Len(w) /\ \A i \in 1..(Len(w) - 1) : i + 1 \in 1..Len(w) /\ i + 1 # 1
      /\ \A i \in 1..Len(w) : i # 1 => i - 1 \in 1..(Len(w) - 1) /\ (i - 1) + 1 = i
  BY <1>1
<1>3. /\ Tail(w) \in Seq(S) /\ Len(Tail(w)) = Len(w) - 1 /\ Head(w) \in S /\ \A i \in 1..Len(Tail(w)) : Tail(w)[i] = w[i + 1]
  BY HeadTailProperties
<1>4. Head(w) = w[1]
  BY <1>1
<1> QED
  BY <1>2, <1>3, <1>4

LEMMA WorkTail ==
  ASSUME NEW S, NEW w \in Seq(S), w # <<>>
  PROVE  /\ Tail(w) \in Seq(S)
         /\ \A g : Includes(w, g) <=> Includes(Tail(w), g) \/ g = Head(w)
         /\ \A g : Once(w, g) => Once(Tail(w), g) /\ (g = Head(w) => ~Includes(Tail(w), g))
         /\ \A g, h : Ahead(w, g, h) /\ g # Head(w) => Ahead(Tail(w), g, h) /\ h # Head(w)
<1>0. PICK v, l : v = Tail(w) /\ l = Len(w)
  OBVIOUS
<1>1. /\ v = Tail(w) /\ l = Len(w) /\ Len(v) = l - 1 /\ Head(w) = w[1] /\ 1 \in 1..l /\ v \in Seq(S)
      /\ \A i \in 1..(l - 1) : v[i] = w[i + 1] /\ i + 1 \in 1..l /\ i + 1 # 1
      /\ \A i \in 1..l : i # 1 => i - 1 \in 1..(l - 1) /\ (i - 1) + 1 = i
  BY <1>0, TailIndex
<1>2. \A i \in 1..l : i # 1 => w[i] = v[i - 1]
  BY <1>1
<1>3. \A g : Includes(w, g) <=> Includes(v, g) \/ g = Head(w)
  BY <1>1, <1>2 DEF Includes
<1>4. \A i, j \in 1..(l - 1) : (i + 1 = j + 1 => i = j) /\ (i + 1 < j + 1 => i < j)
  <2>1. l \in Nat
    BY <1>1, LenProperties
  <2> QED
    BY <2>1
<1>5. ASSUME NEW g, Once(w, g) PROVE Once(v, g) /\ (g = Head(w) => ~Includes(v, g))
  BY <1>1, <1>4, <1>5 DEF Once, Includes
<1>6. ASSUME NEW g, NEW h, Ahead(w, g, h), g # Head(w) PROVE Ahead(v, g, h) /\ h # Head(w)
  <2>1. PICK i \in 1..l : w[i] = g /\ \A j \in 1..l : w[j] = h => i < j
    BY <1>1, <1>6 DEF Ahead
  <2>2. i # 1
    BY <1>1, <1>6, <2>1
  <2>3. \A j \in 1..(l - 1) : v[j] = h => i - 1 < j
    <3> SUFFICES ASSUME NEW j \in 1..(l - 1), v[j] = h PROVE i - 1 < j
      OBVIOUS
    <3>1. i < j + 1
      BY <1>1, <2>1
    <3>2. i \in Int /\ j \in Int
      OBVIOUS
    <3> QED
      BY <3>1, <3>2
  <2>4. h # Head(w)
    <3>1. ~(i < 1)
      OBVIOUS
    <3> QED
      BY <1>1, <2>1, <3>1
  <2>5. i - 1 \in 1..Len(v) /\ v[i - 1] = g
    BY <1>1, <1>2, <2>1, <2>2
  <2> QED
    BY <1>1, <2>3, <2>4, <2>5 DEF Ahead
<1> QED
  BY <1>1, <1>3, <1>5, <1>6

LEMMA AlarmAdded ==
  ASSUME NEW al \in AlarmRecord, NEW al1, al1 = [al EXCEPT !.start = @ + 1]
  PROVE  al1 \in AlarmRecord /\ HasStart(al1) /\ al1.keep = al.keep /\ (~HasStart(al) => OneStart(al1))
<1>1. PICK m \in Nat : m = al.start
  BY DEF AlarmRecord
<1>2. al1 \in AlarmRecord /\ al1.start = m + 1 /\ al1.keep = al.keep
  BY <1>1 DEF AlarmRecord
<1> QED
  BY <1>1, <1>2 DEF HasStart, OneStart

LEMMA AlarmTaken ==
  ASSUME NEW al \in AlarmRecord, NEW al1, al1 = [al EXCEPT !.start = @ - 1], HasStart(al), OneStart(al)
  PROVE  al1 \in AlarmRecord /\ ~HasStart(al1) /\ OneStart(al1) /\ al1.keep = al.keep
<1>1. PICK m \in Nat : m = al.start /\ m = 1
  BY DEF AlarmRecord, HasStart, OneStart
<1>2. al1 \in AlarmRecord /\ al1.start = m - 1 /\ al1.keep = al.keep
  BY <1>1 DEF AlarmRecord
<1> QED
  BY <1>1, <1>2 DEF HasStart, OneStart

LEMMA AlarmKept ==
  ASSUME NEW al \in AlarmRecord, NEW b \in BOOLEAN, NEW al1, al1 = [al EXCEPT !.keep = b]
  PROVE  al1 \in AlarmRecord /\ (HasStart(al1) <=> HasStart(al)) /\ (OneStart(al1) <=> OneStart(al)) /\ al1.keep = b
<1>1. al1 \in AlarmRecord /\ al1.start = al.start /\ al1.keep = b
  BY DEF AlarmRecord
<1> QED
  BY <1>1 DEF HasStart, OneStart

(* What the invariant says of the functors, for one that is taken and for  *)
(* one that is queued.                                                     *)
TakenOff(w, v) ==
  /\ v \in Seq(FunctorNames)
  /\ \A f : Includes(w, f) <=> Includes(v, f) \/ f = Head(w)
  /\ Once(w, "resetChannel") => Once(v, "resetChannel") /\ ("resetChannel" = Head(w) => ~Includes(v, "resetChannel"))
  /\ Once(w, "startInLoop") => Once(v, "startInLoop") /\ ("startInLoop" = Head(w) => ~Includes(v, "startInLoop"))
  /\ Ahead(w, "connectDestroyed", "resetChannel") /\ "connectDestroyed" # Head(w)
       => Ahead(v, "connectDestroyed", "resetChannel") /\ "resetChannel" # Head(w)
QueuedOn(w, f, v) ==
  /\ v \in Seq(FunctorNames)
  /\ \A g : Includes(v, g) <=> Includes(w, g) \/ g = f
  /\ Once(w, "resetChannel") /\ ("resetChannel" = f => ~Includes(w, "resetChannel")) => Once(v, "resetChannel")
  /\ Once(w, "startInLoop") /\ ("startInLoop" = f => ~Includes(w, "startInLoop")) => Once(v, "startInLoop")
  /\ Ahead(w, "connectDestroyed", "resetChannel") => Ahead(v, "connectDestroyed", "resetChannel")
  /\ f = "connectDestroyed" /\ ~Includes(w, "resetChannel") => Ahead(v, "connectDestroyed", "resetChannel")

LEMMA TakeFacts ==
  ASSUME NEW w \in Seq(FunctorNames), w # <<>>
  PROVE  TakenOff(w, Tail(w))
<1>1. PICK S : S = FunctorNames
  OBVIOUS
<1>2. w \in Seq(S)
  BY <1>1
<1> QED
  BY <1>1, <1>2, WorkTail DEF TakenOff

LEMMA QueueFacts ==
  ASSUME NEW w \in Seq(FunctorNames), NEW f \in FunctorNames
  PROVE  QueuedOn(w, f, Append(w, f))
<1>1. PICK S : S = FunctorNames
  OBVIOUS
<1>2. w \in Seq(S) /\ f \in S
  BY <1>1
<1>3. /\ Append(w, f) \in Seq(S)
      /\ \A g : Includes(Append(w, f), g) <=> Includes(w, g) \/ g = f
      /\ \A g : Once(w, g) /\ (g = f => ~Includes(w, g)) => Once(Append(w, f), g)
      /\ \A g, h : Ahead(w, g, h) => Ahead(Append(w, f), g, h)
      /\ \A h : ~Includes(w, h) /\ h # f => Ahead(Append(w, f), f, h)
  BY <1>2, WorkAppend
<1>4. f = "connectDestroyed" /\ ~Includes(w, "resetChannel") => Ahead(Append(w, f), "connectDestroyed", "resetChannel")
  BY <1>3
<1> QED
  BY <1>1, <1>3, <1>4 DEF QueuedOn

Changed(f, g, s, x) == g = [f EXCEPT ![s] = x]

(* A functor is taken. *)
LEMMA CoreTake ==
  ASSUME NEW a, NEW n, NEW c, NEW st, NEW ch, NEW so, NEW cb, NEW w, NEW al, NEW re, NEW as, NEW ra,
         Core(a, n, c, st, ch, so, cb, w, al, re, as, ra), w # <<>>,
         Head(w) \notin {"resetChannel", "connectDestroyed"}
  PROVE  Core(a, n, c, st, ch, so, cb, Tail(w), al, re, as, ra)
<1>1. PICK v : v = Tail(w)
  OBVIOUS
<1>2. TakenOff(w, v)
  BY <1>1, TakeFacts DEF Core, ValuesOK
<1>3. Core(a, n, c, st, ch, so, cb, v, al, re, as, ra)
  BY <1>2 DEF TakenOff, Core, ValuesOK, ChannelOK, SocksOK, DownOK, StartOK, GoneOK, Quiet, RawFunctors
<1> QED
  BY <1>1, <1>3

(* resetChannel() *)
LEMMA CoreReset ==
  ASSUME NEW a, NEW n, NEW c, NEW st, NEW ch, NEW so, NEW cb, NEW w, NEW al, NEW re, NEW as, NEW ra,
         Core(a, n, c, st, ch, so, cb, w, al, re, as, ra), w # <<>>, Head(w) = "resetChannel"
  PROVE  Core(a, n, c, st, 0, so, cb, Tail(w), al, re, as, ra)
<1>1. PICK v : v = Tail(w)
  OBVIOUS
<1>2. TakenOff(w, v)
  BY <1>1, TakeFacts DEF Core, ValuesOK
<1>3. ch # 0 /\ st # "connecting" /\ \A s \in Fds : so[s] # "down"
  BY <1>2 DEF TakenOff, Core, ChannelOK, DownOK
<1>4. Core(a, n, c, st, 0, so, cb, v, al, re, as, ra)
  BY <1>2, <1>3 DEF TakenOff, Core, ValuesOK, ChannelOK, SocksOK, DownOK, StartOK, GoneOK, Quiet, RawFunctors
<1> QED
  BY <1>1, <1>4

(* connectDestroyed() *)
LEMMA CoreDestroyed ==
  ASSUME NEW a, NEW n, NEW c, NEW st, NEW ch, NEW so, NEW cb, NEW w, NEW al, NEW re, NEW as, NEW ra,
         Core(a, n, c, st, ch, so, cb, w, al, re, as, ra), w # <<>>, Head(w) = "connectDestroyed",
         NEW s \in Fds, so[s] = "down",
         NEW so1, NEW cb1, Changed(so, so1, s, "closed"), Changed(cb, cb1, s, "none")
  PROVE  Core(a, n, c, st, ch, so1, cb1, Tail(w), al, re, as, ra)
<1>1. PICK v : v = Tail(w)
  OBVIOUS
<1>2. TakenOff(w, v)
  BY <1>1, TakeFacts DEF Core, ValuesOK
<1>3. /\ so1 \in [Fds -> {"closed", "connecting", "up", "down"}] /\ cb1 \in [Fds -> {"none", "client", "detail"}]
      /\ so1[s] = "closed" /\ \A t \in Fds : t # s => so1[t] = so[t] /\ cb1[t] = cb[t]
  BY DEF Core, ValuesOK, Changed
<1>4. DownOK(so1, v)
  BY <1>3 DEF Core, SocksOK, DownOK
<1>5. SocksOK(a, n, st, ch, so1, cb1)
  BY <1>3 DEF Core, SocksOK, ValuesOK
<1>6. Core(a, n, c, st, ch, so1, cb1, v, al, re, as, ra)
  BY <1>2, <1>3, <1>4, <1>5 DEF TakenOff, Core, ValuesOK, ChannelOK, StartOK, GoneOK, Quiet, RawFunctors
<1> QED
  BY <1>1, <1>6

(* connect() of the client *)
LEMMA CoreConnect ==
  ASSUME NEW a, NEW n, NEW c, NEW st, NEW ch, NEW so, NEW cb, NEW w, NEW al, NEW re, NEW as, NEW ra,
         Core(a, n, c, st, ch, so, cb, w, al, re, as, ra), a, "connect" \notin as
  PROVE  Core(a, n, TRUE, st, ch, so, cb, Append(w, "startInLoop"), al, re, as \cup {"connect"}, ra)
<1>1. PICK v : v = Append(w, "startInLoop")
  OBVIOUS
<1>2. QueuedOn(w, "startInLoop", v)
  BY <1>1, QueueFacts DEF Core, ValuesOK, FunctorNames
<1>3. Core(a, n, TRUE, st, ch, so, cb, v, al, re, as \cup {"connect"}, ra)
  BY <1>2 DEF QueuedOn, Core, ValuesOK, ChannelOK, SocksOK, DownOK, StartOK, GoneOK, Quiet, RawFunctors
<1> QED
  BY <1>1, <1>3

(* stop() of the client *)
LEMMA CoreStop ==
  ASSUME NEW a, NEW n, NEW c, NEW st, NEW ch, NEW so, NEW cb, NEW w, NEW al, NEW re, NEW as, NEW ra,
         Core(a, n, c, st, ch, so, cb, w, al, re, as, ra), a, "connect" \in as
  PROVE  Core(a, n, FALSE, st, ch, so, cb, Append(w, "stopInLoop"), al, re, as \cup {"stop"}, ra)
<1>1. PICK v : v = Append(w, "stopInLoop")
  OBVIOUS
<1>2. QueuedOn(w, "stopInLoop", v)
  BY <1>1, QueueFacts DEF Core, ValuesOK, FunctorNames
<1>3. Core(a, n, FALSE, st, ch, so, cb, v, al, re, as \cup {"stop"}, ra)
  BY <1>2 DEF QueuedOn, Core, ValuesOK, ChannelOK, SocksOK, DownOK, StartOK, GoneOK, Quiet, RawFunctors
<1> QED
  BY <1>1, <1>3

(* ~TcpClient() of a connected client, before and after forceClose() *)
LEMMA CoreLeave ==
  ASSUME NEW a, NEW n, NEW c, NEW st, NEW ch, NEW so, NEW cb, NEW w, NEW al, NEW re, NEW as, NEW ra,
         Core(a, n, c, st, ch, so, cb, w, al, re, as, ra), a, n # 0, ch = 0,
         NEW ra1, Quiet(ch, w) \/ ra1 # {},
         NEW cb1, Changed(cb, cb1, n, "detail")
  PROVE  Core(FALSE, 0, c, st, ch, so, cb1, w, al, re, as, ra1)
<1>2. n \in Fds /\ so[n] = "up" /\ ~re /\ st = "connected"
  BY DEF Core, ValuesOK, SocksOK, StartOK
<1>3. cb1 \in [Fds -> {"none", "client", "detail"}] /\ cb1[n] = "detail" /\ \A t \in Fds : t # n => cb1[t] = cb[t]
  BY <1>2 DEF Core, ValuesOK, Changed
<1>4. SocksOK(FALSE, 0, st, ch, so, cb1)
  BY <1>2, <1>3 DEF Core, ValuesOK, SocksOK
<1>5. Core(FALSE, 0, c, st, ch, so, cb1, w, al, re, as, ra1)
  BY <1>2, <1>3, <1>4 DEF Core, ValuesOK, ChannelOK, DownOK, StartOK, GoneOK
<1> QED
  BY <1>2, <1>5

LEMMA CoreForceClose ==
  ASSUME NEW a, NEW n, NEW c, NEW st, NEW ch, NEW so, NEW cb, NEW w, NEW al, NEW re, NEW as, NEW ra,
         Core(a, n, c, st, ch, so, cb, w, al, re, as, ra)
  PROVE  Core(a, n, c, st, ch, so, cb, Append(w, "forceCloseInLoop"), al, re, as, ra)
<1>1. PICK v : v = Append(w, "forceCloseInLoop")
  OBVIOUS
<1>2. QueuedOn(w, "forceCloseInLoop", v)
  BY <1>1, QueueFacts DEF Core, ValuesOK, FunctorNames
<1>3. Core(a, n, c, st, ch, so, cb, v, al, re, as, ra)
  BY <1>2 DEF QueuedOn, Core, ValuesOK, ChannelOK, SocksOK, DownOK, StartOK, GoneOK, Quiet, RawFunctors
<1> QED
  BY <1>1, <1>3

(* ~TcpClient() of a client without a connection *)
LEMMA CoreKeep ==
  ASSUME NEW a, NEW n, NEW c, NEW st, NEW ch, NEW so, NEW cb, NEW w, NEW al, NEW re, NEW as, NEW ra,
         Core(a, n, c, st, ch, so, cb, w, al, re, as, ra), a, n = 0, ~re
  PROVE  Core(FALSE, 0, FALSE, st, ch, so, cb, Append(w, "stopInLoop"), [al EXCEPT !.keep = TRUE], re, as, ra)
<1>1. PICK v, al1 : v = Append(w, "stopInLoop") /\ al1 = [al EXCEPT !.keep = TRUE]
  OBVIOUS
<1>2. QueuedOn(w, "stopInLoop", v)
  BY <1>1, QueueFacts DEF Core, ValuesOK, FunctorNames
<1>4. /\ al1 \in AlarmRecord /\ al1.keep /\ (HasStart(al1) <=> HasStart(al)) /\ (OneStart(al1) <=> OneStart(al))
  BY <1>1, AlarmKept DEF Core, ValuesOK
<1>5. SocksOK(FALSE, 0, st, ch, so, cb)
  BY DelayAssumption DEF Core, SocksOK
<1>6. Core(FALSE, 0, FALSE, st, ch, so, cb, v, al1, re, as, ra)
  BY <1>2, <1>4, <1>5 DEF QueuedOn, Core, ValuesOK, ChannelOK, DownOK, StartOK, GoneOK
<1> QED
  BY <1>1, <1>6

(* handleWrite(): the socket becomes a connection of the client. *)
LEMMA CoreNewConnection ==
  ASSUME NEW a, NEW n, NEW c, NEW st, NEW ch, NEW so, NEW cb, NEW w, NEW al, NEW re, NEW as, NEW ra,
         Core(a, n, c, st, ch, so, cb, w, al, re, as, ra), st = "connecting", c,
         NEW so1, NEW cb1, Changed(so, so1, ch, "up"), Changed(cb, cb1, ch, "client")
  PROVE  a /\ Core(a, ch, c, "connected", ch, so1, cb1, Append(w, "resetChannel"), al, re, as, ra)
<1>1. PICK v : v = Append(w, "resetChannel")
  OBVIOUS
<1>2. QueuedOn(w, "resetChannel", v)
  BY <1>1, QueueFacts DEF Core, ValuesOK, FunctorNames
<1>3. /\ ch \in Fds /\ ~re /\ ~HasStart(al) /\ "connect" \in as /\ a
      /\ ~Includes(w, "startInLoop") /\ ~Includes(w, "resetChannel")
      /\ \A s \in Fds : so[s] # "up" /\ (so[s] = "connecting" <=> s = ch)
  BY DelayAssumption DEF Core, ValuesOK, ChannelOK, SocksOK, StartOK, GoneOK
<1>4. /\ so1 \in [Fds -> {"closed", "connecting", "up", "down"}] /\ cb1 \in [Fds -> {"none", "client", "detail"}]
      /\ so1[ch] = "up" /\ cb1[ch] = "client" /\ \A t \in Fds : t # ch => so1[t] = so[t] /\ cb1[t] = cb[t]
  BY <1>3 DEF Core, ValuesOK, Changed
<1>5. ch # 0
  BY <1>3, DelayAssumption
<1>6. SocksOK(a, ch, "connected", ch, so1, cb1)
  BY <1>3, <1>4, <1>5 DEF Core, SocksOK
<1>7. DownOK(so1, v)
  BY <1>2, <1>3, <1>4 DEF Core, DownOK, QueuedOn
<1>8. Core(a, ch, c, "connected", ch, so1, cb1, v, al, re, as, ra)
  BY <1>2, <1>3, <1>4, <1>5, <1>6, <1>7 DEF QueuedOn, Core, ValuesOK, ChannelOK, StartOK, GoneOK
<1> QED
  BY <1>1, <1>3, <1>8

(* The attempt ends without a connection: the socket is closed. *)
LEMMA CoreEnd ==
  ASSUME NEW a, NEW n, NEW c, NEW st, NEW ch, NEW so, NEW cb, NEW w, NEW al, NEW re, NEW as, NEW ra,
         Core(a, n, c, st, ch, so, cb, w, al, re, as, ra), st = "connecting",
         NEW st1 \in {"disconnected", "connected"}, NEW al1, st1 = "connected" \/ ~c => al1 = al,
         st1 = "disconnected" /\ c => al1 = [al EXCEPT !.start = @ + 1], st1 = "connected" => ~c,
         NEW so1, Changed(so, so1, ch, "closed")
  PROVE  Core(a, n, c, st1, ch, so1, cb, Append(w, "resetChannel"), al1, re, as, ra)
<1>1. PICK v : v = Append(w, "resetChannel")
  OBVIOUS
<1>2. QueuedOn(w, "resetChannel", v)
  BY <1>1, QueueFacts DEF Core, ValuesOK, FunctorNames
<1>3. /\ ch \in Fds /\ n = 0 /\ ~re /\ ~HasStart(al) /\ "connect" \in as
      /\ ~Includes(w, "startInLoop") /\ ~Includes(w, "resetChannel")
      /\ c => a
      /\ (~a => al.keep \/ ra # {}) /\ (a => ~al.keep)
      /\ \A s \in Fds : so[s] # "up" /\ (so[s] = "connecting" <=> s = ch)
  BY DelayAssumption DEF Core, ValuesOK, ChannelOK, SocksOK, StartOK, GoneOK, Quiet
<1>4. /\ so1 \in [Fds -> {"closed", "connecting", "up", "down"}]
      /\ so1[ch] = "closed" /\ \A t \in Fds : t # ch => so1[t] = so[t]
  BY <1>3 DEF Core, ValuesOK, Changed
<1>5. ch # 0
  BY <1>3, DelayAssumption
<1>6. SocksOK(a, n, st1, ch, so1, cb)
  BY <1>3, <1>4, <1>5 DEF Core, SocksOK
<1>7. DownOK(so1, v)
  BY <1>2, <1>3, <1>4 DEF Core, DownOK, QueuedOn
<1>9. al \in AlarmRecord /\ OneStart(al) /\ c \in BOOLEAN
  BY DEF Core, ValuesOK, StartOK
<1>10. ASSUME st1 = "disconnected", c
       PROVE  al1 \in AlarmRecord /\ HasStart(al1) /\ OneStart(al1) /\ al1.keep = al.keep
  BY <1>3, <1>9, <1>10, AlarmAdded
<1>11. /\ al1 \in AlarmRecord /\ OneStart(al1) /\ al1.keep = al.keep
       /\ st1 = "disconnected" \/ ~HasStart(al1)
  BY <1>3, <1>9, <1>10
<1>12. Core(a, n, c, st1, ch, so1, cb, v, al1, re, as, ra)
  BY <1>2, <1>3, <1>4, <1>5, <1>6, <1>7, <1>11 DEF QueuedOn, Core, ValuesOK, ChannelOK, StartOK, GoneOK
<1> QED
  BY <1>1, <1>12

(* handleClose() of the client's connection, and of one it left behind *)
LEMMA CoreClose ==
  ASSUME NEW a, NEW n, NEW c, NEW st, NEW ch, NEW so, NEW cb, NEW w, NEW al, NEW re, NEW as, NEW ra,
         Core(a, n, c, st, ch, so, cb, w, al, re, as, ra),
         NEW s \in Fds, so[s] = "up", ch # s, cb[s] = "client", NEW so1, Changed(so, so1, s, "down")
  PROVE  Core(a, 0, c, st, ch, so1, cb, Append(w, "connectDestroyed"), al, re, as, ra)
<1>1. PICK v : v = Append(w, "connectDestroyed")
  OBVIOUS
<1>2. QueuedOn(w, "connectDestroyed", v)
  BY <1>1, QueueFacts DEF Core, ValuesOK, FunctorNames
<1>3. /\ st = "connected" /\ ch = 0 /\ a /\ n = s /\ ~re /\ \A t \in Fds : so[t] # "down"
      /\ ~Includes(w, "resetChannel") /\ ~Includes(w, "startInLoop") /\ ~HasStart(al) /\ "connect" \in as
  BY DelayAssumption DEF Core, ValuesOK, SocksOK, ChannelOK, StartOK
<1>4. so1 \in [Fds -> {"closed", "connecting", "up", "down"}] /\ so1[s] = "down" /\ \A t \in Fds : t # s => so1[t] = so[t]
  BY DEF Core, ValuesOK, Changed
<1>5. SocksOK(a, 0, st, ch, so1, cb) /\ DownOK(so1, v)
  BY <1>2, <1>3, <1>4 DEF Core, SocksOK, DownOK, QueuedOn
<1>6. Core(a, 0, c, st, ch, so1, cb, v, al, re, as, ra)
  BY <1>2, <1>3, <1>4, <1>5 DEF QueuedOn, Core, ValuesOK, ChannelOK, StartOK, GoneOK
<1> QED
  BY <1>1, <1>6

LEMMA CoreCloseLeft ==
  ASSUME NEW a, NEW n, NEW c, NEW st, NEW ch, NEW so, NEW cb, NEW w, NEW al, NEW re, NEW as, NEW ra,
         Core(a, n, c, st, ch, so, cb, w, al, re, as, ra),
         NEW s \in Fds, so[s] = "up", ch # s, cb[s] = "detail", NEW so1, Changed(so, so1, s, "down")
  PROVE  Core(a, n, c, st, ch, so1, cb, Append(w, "connectDestroyed"), al, re, as, ra)
<1>1. PICK v : v = Append(w, "connectDestroyed")
  OBVIOUS
<1>2. QueuedOn(w, "connectDestroyed", v)
  BY <1>1, QueueFacts DEF Core, ValuesOK, FunctorNames
<1>3. /\ st = "connected" /\ ch = 0 /\ ~a /\ n = 0 /\ ~re /\ \A t \in Fds : so[t] # "down"
      /\ ~Includes(w, "resetChannel") /\ ~Includes(w, "startInLoop") /\ ~HasStart(al) /\ "connect" \in as
  BY DelayAssumption DEF Core, ValuesOK, SocksOK, ChannelOK, StartOK
<1>4. so1 \in [Fds -> {"closed", "connecting", "up", "down"}] /\ so1[s] = "down" /\ \A t \in Fds : t # s => so1[t] = so[t]
  BY DEF Core, ValuesOK, Changed
<1>5. SocksOK(a, 0, st, ch, so1, cb) /\ DownOK(so1, v)
  BY <1>2, <1>3, <1>4 DEF Core, SocksOK, DownOK, QueuedOn
<1>6. Core(a, n, c, st, ch, so1, cb, v, al, re, as, ra)
  BY <1>2, <1>3, <1>4, <1>5 DEF QueuedOn, Core, ValuesOK, ChannelOK, StartOK, GoneOK, Quiet, RawFunctors
<1> QED
  BY <1>1, <1>6

(* restart() *)
LEMMA CoreRestart ==
  ASSUME NEW a, NEW n, NEW c, NEW st, NEW ch, NEW so, NEW cb, NEW w, NEW al, NEW re, NEW as, NEW ra,
         Core(a, n, c, st, ch, so, cb, w, al, re, as, ra), re
  PROVE  Core(a, n, TRUE, "disconnected", ch, so, cb, w, al, FALSE, as, ra)
<1>1. /\ st = "connected" /\ ch = 0 /\ a /\ n = 0 /\ ~HasStart(al) /\ "connect" \in as /\ ~Includes(w, "startInLoop")
      /\ \A s \in Fds : so[s] # "up"
  BY DelayAssumption DEF Core, StartOK, SocksOK
<1> QED
  BY <1>1 DEF Core, ValuesOK, ChannelOK, SocksOK, DownOK, StartOK, GoneOK, Quiet, RawFunctors

(* A timer expires, of a retry or of the destructor. *)
LEMMA CoreExpire ==
  ASSUME NEW a, NEW n, NEW c, NEW st, NEW ch, NEW so, NEW cb, NEW w, NEW al, NEW re, NEW as, NEW ra,
         Core(a, n, c, st, ch, so, cb, w, al, re, as, ra),
         NEW al1 \in AlarmRecord, HasStart(al1) => HasStart(al), OneStart(al1), al1.keep => al.keep,
         NEW ra1, Quiet(ch, w) \/ ra1 # {}
  PROVE  Core(a, n, c, st, ch, so, cb, w, al1, re, as, ra1)
BY DEF Core, ValuesOK, StartOK, GoneOK

(* connect() of the connector: under way, and to be tried again *)
LEMMA CoreAttempt ==
  ASSUME NEW a, NEW n, NEW c, NEW st, NEW ch, NEW so, NEW cb, NEW w, NEW al, NEW re, NEW as, NEW ra,
         Core(a, n, c, st, ch, so, cb, w, al, re, as, ra),
         st = "disconnected", ch = 0, ~HasStart(al), ~re, "connect" \in as, ~Includes(w, "startInLoop"), c,
         NEW s \in Fds, so[s] = "closed", NEW so1, Changed(so, so1, s, "connecting")
  PROVE  Core(a, n, c, "connecting", s, so1, cb, w, al, re, as, ra)
<1>1. /\ a /\ n = 0 /\ ~Includes(w, "resetChannel")
      /\ \A t \in Fds : so[t] \notin {"up", "connecting"}
  <2>1. c /\ ~a => st = "connected"
    BY DEF Core, GoneOK
  <2>2. a /\ ~Includes(w, "resetChannel")
    BY <2>1 DEF Core, ChannelOK
  <2>4. n = 0 /\ \A t \in Fds : so[t] \notin {"up", "connecting"}
    BY DEF Core, SocksOK, ValuesOK
  <2> QED
    BY <2>2, <2>4
<1>2. so1 \in [Fds -> {"closed", "connecting", "up", "down"}] /\ so1[s] = "connecting" /\ \A t \in Fds : t # s => so1[t] = so[t]
  BY DEF Core, ValuesOK, Changed
<1>3. s # 0
  BY DelayAssumption
<1>4. SocksOK(a, n, "connecting", s, so1, cb) /\ DownOK(so1, w)
  BY <1>1, <1>2, <1>3 DEF Core, SocksOK, DownOK
<1> QED
  BY <1>1, <1>2, <1>3, <1>4 DEF Core, ValuesOK, ChannelOK, StartOK, GoneOK

LEMMA CoreRetry ==
  ASSUME NEW a, NEW n, NEW c, NEW st, NEW ch, NEW so, NEW cb, NEW w, NEW al, NEW re, NEW as, NEW ra,
         Core(a, n, c, st, ch, so, cb, w, al, re, as, ra),
         st = "disconnected", ~HasStart(al), ~re, "connect" \in as, ~Includes(w, "startInLoop"), c,
         NEW s \in Fds, so[s] = "closed", NEW so1, Changed(so, so1, s, "closed")
  PROVE  Core(a, n, c, "disconnected", ch, so1, cb, w, [al EXCEPT !.start = @ + 1], re, as, ra)
<1>1. PICK al1 : al1 = [al EXCEPT !.start = @ + 1]
  OBVIOUS
<1>2. a
  <2>1. c /\ ~a => st = "connected"
    BY DEF Core, GoneOK
  <2> QED
    BY <2>1
<1>4. al1 \in AlarmRecord /\ HasStart(al1) /\ OneStart(al1) /\ al1.keep = al.keep
  BY <1>1, AlarmAdded DEF Core, ValuesOK
<1>5. so1 = so
  BY DEF Core, ValuesOK, Changed
<1>6. Core(a, n, c, "disconnected", ch, so, cb, w, al1, re, as, ra)
  BY <1>2, <1>4 DEF Core, ValuesOK, StartOK, GoneOK
<1> QED
  BY <1>1, <1>5, <1>6

(* running and queued together *)
LEMMA WorkShape ==
  ASSUME NEW r \in Seq(FunctorNames), NEW q \in Seq(FunctorNames)
  PROVE  /\ r \o q \in Seq(FunctorNames)
         /\ \A f \in FunctorNames : r \o Append(q, f) = Append(r \o q, f)
         /\ r # <<>> => /\ r \o q # <<>> /\ Head(r \o q) = Head(r) /\ Tail(r \o q) = Tail(r) \o q
                        /\ Head(r) \in FunctorNames /\ Tail(r) \in Seq(FunctorNames)
         /\ r = <<>> => r \o q = q
         /\ q \o <<>> = q
         /\ \A f : f \in ToSet(q) \cup ToSet(r) <=> Includes(r \o q, f)
<1>1. PICK S : S = FunctorNames
  OBVIOUS
<1>2. r \in Seq(S) /\ q \in Seq(S)
  BY <1>1
<1>3. PICK l, m, w : l = Len(r) /\ m = Len(q) /\ w = r \o q
  OBVIOUS
<1>4. /\ l \in Nat /\ m \in Nat /\ DOMAIN r = 1..l /\ DOMAIN q = 1..m
      /\ w \in Seq(S) /\ Len(w) = l + m
      /\ \A i \in 1..(l + m) : w[i] = IF i <= l THEN r[i] ELSE q[i - l]
  BY <1>2, <1>3, LenProperties, ConcatProperties
<1>5. ASSUME NEW f \in S PROVE r \o Append(q, f) = Append(w, f)
  <2>1. <<f>> \in Seq(S) /\ Append(q, f) = q \o <<f>> /\ Append(w, f) = w \o <<f>>
    BY <1>2, <1>4, AppendIsConcat
  <2> QED
    BY <1>2, <1>3, <2>1, ConcatAssociative
<1>6. ASSUME r # <<>> PROVE /\ w # <<>> /\ Head(w) = Head(r) /\ Tail(w) = Tail(r) \o q
                            /\ Head(r) \in S /\ Tail(r) \in Seq(S)
  <2>1. /\ Head(r) \in S /\ Tail(r) \in Seq(S) /\ r = <<Head(r)>> \o Tail(r)
        /\ l # 0
    <3>1. Head(r) \in S /\ Tail(r) \in Seq(S)
      BY <1>2, <1>6, HeadTailProperties
    <3>2. l # 0
      BY <1>2, <1>3, <1>6, EmptySeq
    <3>3. r = <<Head(r)>> \o Tail(r)
      BY <1>2, <1>6
    <3> QED
      BY <3>1, <3>2, <3>3
  <2>2. PICK h, t : h = Head(r) /\ t = Tail(r)
    OBVIOUS
  <2>3. h \in S /\ t \in Seq(S) /\ <<h>> \in Seq(S) /\ r = <<h>> \o t
    BY <2>1, <2>2
  <2>4. w = <<h>> \o (t \o q)
    BY <1>2, <1>3, <2>3, ConcatAssociative
  <2>5. t \o q \in Seq(S)
    BY <1>2, <2>3, ConcatProperties
  <2>6. PICK u \in Seq(S) : u = t \o q
    BY <2>5
  <2>7. w # <<>> /\ Head(w) = h /\ Tail(w) = u
    BY <2>3, <2>4, <2>6
  <2> QED
    BY <2>1, <2>2, <2>6, <2>7
<1>7. r = <<>> => w = q
  BY <1>2, <1>3, ConcatEmptySeq
<1>8. q \o <<>> = q
  BY <1>2, ConcatEmptySeq
<1>9. \A f : f \in ToSet(q) \cup ToSet(r) <=> Includes(w, f)
  <2> SUFFICES ASSUME NEW f PROVE f \in ToSet(q) \cup ToSet(r) <=> Includes(w, f)
    OBVIOUS
  <2>1. \A i \in 1..l : i \in 1..(l + m) /\ i <= l
    BY <1>4
  <2>2. \A i \in 1..m : l + i \in 1..(l + m) /\ ~(l + i <= l) /\ (l + i) - l = i
    BY <1>4
  <2>4. \A i \in 1..(l + m) : (i <= l => i \in 1..l) /\ (~(i <= l) => i - l \in 1..m)
    BY <1>4
  <2>5. f \in ToSet(r) => Includes(w, f)
    BY <1>4, <2>1 DEF ToSet, Includes
  <2>6. ASSUME f \in ToSet(q) PROVE Includes(w, f)
    <3>1. PICK i \in 1..m : q[i] = f
      BY <1>4, <2>6 DEF ToSet
    <3>2. l + i \in 1..Len(w) /\ w[l + i] = f
      BY <1>4, <2>2, <3>1
    <3> QED
      BY <3>2 DEF Includes
  <2>7. Includes(w, f) => f \in ToSet(q) \cup ToSet(r)
    BY <1>4, <2>4 DEF ToSet, Includes
  <2> QED
    BY <2>5, <2>6, <2>7
<1> QED
  BY <1>1, <1>3, <1>4, <1>5, <1>6, <1>7, <1>8, <1>9

(* A functor queued behind the ones that run *)
LEMMA FunctorQueued ==
  ASSUME NEW r \in Seq(FunctorNames), NEW q \in Seq(FunctorNames), NEW f \in FunctorNames
  PROVE  /\ Append(q, f) \in Seq(FunctorNames) /\ r \o Append(q, f) = Append(r \o q, f)
         /\ QueuedOn(r \o q, f, Append(r \o q, f))
<1>1. r \o q \in Seq(FunctorNames) /\ r \o Append(q, f) = Append(r \o q, f)
  BY WorkShape
<1>2. QueuedOn(r \o q, f, Append(r \o q, f)) /\ QueuedOn(q, f, Append(q, f))
  BY <1>1, QueueFacts
<1> QED
  BY <1>1, <1>2 DEF QueuedOn

LEMMA ClientConnectKeeps == ASSUME ClientInv, ClientConnect PROVE ClientInv'
<1>1. PICK a, n, c, st, ch, so, cb, w, al, re, as, ra, r, q :
        /\ a = client.alive /\ n = client.connection /\ c = connector.connect /\ st = connector.state
        /\ ch = connector.channel /\ so = socks /\ cb = closeBy /\ w = Work /\ al = alarms
        /\ re = restarting /\ as = asked /\ ra = rash /\ r = running /\ q = queued
  OBVIOUS
<1>2. /\ Core(a, n, c, st, ch, so, cb, w, al, re, as, ra)
      /\ StopOK(a, st, w) /\ PendingOK(c, st, w, al, re, gaveUp)
  BY <1>1 DEF ClientInv
<1>3. r \in Seq(FunctorNames) /\ q \in Seq(FunctorNames) /\ w = r \o q
  BY <1>1 DEF ClientInv, ClientTypeOK, Work
<1>4. a /\ "connect" \notin as
  BY <1>1 DEF ClientInv, ClientConnect
<1>5. /\ client'.alive = a /\ client'.connection = n /\ connector'.connect = TRUE /\ connector'.state = st
      /\ connector'.channel = ch /\ socks' = so /\ closeBy' = cb /\ alarms' = al /\ restarting' = re
      /\ rash' = ra /\ asked' = as \cup {"connect"} /\ running' = r /\ queued' = Append(q, "startInLoop") /\ gaveUp' = gaveUp
  BY <1>1 DEF ClientInv, ClientTypeOK, ClientRecord, ConnectorRecord, ClientConnect, loopVars
<1>6. PICK v : v = Append(w, "startInLoop")
  OBVIOUS
<1>7. Work' = v /\ queued' \in Seq(FunctorNames) /\ QueuedOn(w, "startInLoop", v)
  BY <1>3, <1>5, <1>6, FunctorQueued DEF Work, FunctorNames
<1>8. Core(a, n, TRUE, st, ch, so, cb, v, al, re, as \cup {"connect"}, ra)
  BY <1>2, <1>4, <1>6, CoreConnect
<1>9. StopOK(a, st, v) /\ PendingOK(TRUE, st, v, al, re, gaveUp)
  BY <1>2, <1>7 DEF QueuedOn, StopOK, PendingOK
<1>10. ClientTypeOK' /\ ~misuse' /\ (~functors' => running' = <<>>) /\ (restarting' => ~functors')
  BY <1>7 DEF ClientInv, ClientTypeOK, ClientRecord, ConnectorRecord, ClientConnect, loopVars
<1> QED
  BY <1>5, <1>7, <1>8, <1>9, <1>10 DEF ClientInv

LEMMA ClientStopKeeps == ASSUME ClientInv, ClientStop PROVE ClientInv'
<1>1. PICK a, n, c, st, ch, so, cb, w, al, re, as, ra, r, q :
        /\ a = client.alive /\ n = client.connection /\ c = connector.connect /\ st = connector.state
        /\ ch = connector.channel /\ so = socks /\ cb = closeBy /\ w = Work /\ al = alarms
        /\ re = restarting /\ as = asked /\ ra = rash /\ r = running /\ q = queued
  OBVIOUS
<1>2. /\ Core(a, n, c, st, ch, so, cb, w, al, re, as, ra)
      /\ StopOK(a, st, w) /\ PendingOK(c, st, w, al, re, gaveUp)
  BY <1>1 DEF ClientInv
<1>3. r \in Seq(FunctorNames) /\ q \in Seq(FunctorNames) /\ w = r \o q
  BY <1>1 DEF ClientInv, ClientTypeOK, Work
<1>4. a /\ "connect" \in as
  BY <1>1 DEF ClientInv, ClientStop
<1>5. /\ client'.alive = a /\ client'.connection = n /\ connector'.connect = FALSE /\ connector'.state = st
      /\ connector'.channel = ch /\ socks' = so /\ closeBy' = cb /\ alarms' = al /\ restarting' = re
      /\ rash' = ra /\ asked' = as \cup {"stop"} /\ running' = r /\ queued' = Append(q, "stopInLoop") /\ gaveUp' = gaveUp
  BY <1>1 DEF ClientInv, ClientTypeOK, ClientRecord, ConnectorRecord, ClientStop, loopVars
<1>6. PICK v : v = Append(w, "stopInLoop")
  OBVIOUS
<1>7. Work' = v /\ queued' \in Seq(FunctorNames) /\ QueuedOn(w, "stopInLoop", v)
  BY <1>3, <1>5, <1>6, FunctorQueued DEF Work, FunctorNames
<1>8. Core(a, n, FALSE, st, ch, so, cb, v, al, re, as \cup {"stop"}, ra)
  BY <1>2, <1>4, <1>6, CoreStop
<1>9. StopOK(a, st, v) /\ PendingOK(FALSE, st, v, al, re, gaveUp)
  BY <1>2, <1>7 DEF QueuedOn, StopOK, PendingOK
<1>10. ClientTypeOK' /\ ~misuse' /\ (~functors' => running' = <<>>) /\ (restarting' => ~functors')
  BY <1>7 DEF ClientInv, ClientTypeOK, ClientRecord, ConnectorRecord, ClientStop, loopVars
<1> QED
  BY <1>5, <1>7, <1>8, <1>9, <1>10 DEF ClientInv

LEMMA ClientDisconnectKeeps == ASSUME ClientInv, ClientDisconnect PROVE ClientInv'
<1>1. client'.alive = client.alive /\ client'.connection = client.connection /\ ClientTypeOK'
  BY DEF ClientInv, ClientTypeOK, ClientRecord, ClientDisconnect, loopVars
<1> QED
  BY <1>1 DEF ClientInv, ClientDisconnect, loopVars, Work

LEMMA ClientInvSound == ASSUME ClientInv, dangling => rash # {} PROVE ClientSound
<1>1. PICK a, n, c, st, ch, so, cb, w, al, re, as, ra, r, q :
        /\ a = client.alive /\ n = client.connection /\ c = connector.connect /\ st = connector.state
        /\ ch = connector.channel /\ so = socks /\ cb = closeBy /\ w = Work /\ al = alarms
        /\ re = restarting /\ as = asked /\ ra = rash /\ r = running /\ q = queued
  OBVIOUS
<1>2. /\ Core(a, n, c, st, ch, so, cb, w, al, re, as, ra)
      /\ StopOK(a, st, w) /\ PendingOK(c, st, w, al, re, gaveUp) /\ ~misuse
  BY <1>1 DEF ClientInv
<1>3. r \in Seq(FunctorNames) /\ q \in Seq(FunctorNames) /\ w = r \o q
  BY <1>1 DEF ClientInv, ClientTypeOK, Work
<1>4. \A f : Waiting(f) <=> Includes(w, f)
  BY <1>1, <1>3, WorkShape DEF Waiting
<1>6. NoClientMisuse
  BY <1>2 DEF NoClientMisuse
<1>7. ConnectorOutlivesUse
  <2>1. ASSUME ~a, ~(al.start > 0), ~al.keep, ra = {} PROVE Quiet(ch, w)
    BY <1>2, <2>1 DEF Core, GoneOK, HasStart
  <2>2. ASSUME ~ConnectorAlive, rash = {} PROVE ~ConnectorInUse
    <3>1. Quiet(ch, w)
      BY <1>1, <2>1, <2>2 DEF ConnectorAlive
    <3> QED
      BY <1>1, <1>4, <3>1 DEF ConnectorInUse, Quiet
  <2> QED
    BY <2>2 DEF ConnectorOutlivesUse
<1>8. SocketsAccounted
  <2>1. \A s \in Fds : so[s] = "connecting" <=> st = "connecting" /\ ch = s
    BY <1>2 DEF Core, SocksOK
  <2>2. n # 0 => so[n] = "up"
    BY <1>2 DEF Core, SocksOK
  <2>3. ASSUME NEW s \in Fds, so[s] = "down" PROVE Waiting("connectDestroyed")
    <3>1. Ahead(w, "connectDestroyed", "resetChannel")
      BY <1>2, <2>3 DEF Core, DownOK
    <3>2. Includes(w, "connectDestroyed")
      BY <3>1 DEF Ahead, Includes
    <3> QED
      BY <1>4, <3>2
  <2> QED
    BY <1>1, <2>1, <2>2, <2>3 DEF SocketsAccounted
<1>9. AttemptPending
  <2> SUFFICES ASSUME c, st = "disconnected", ~gaveUp
               PROVE  Waiting("startInLoop") \/ re \/ al.start > 0
    BY <1>1 DEF AttemptPending
  <2>1. Includes(w, "startInLoop") \/ re \/ HasStart(al)
    BY <1>2 DEF PendingOK
  <2> QED
    BY <1>4, <2>1 DEF HasStart
<1> QED
  BY <1>6, <1>7, <1>8, <1>9 DEF ClientSound

(* The functors of the connector, and its use *)
LEMMA InUse ==
  ASSUME ClientInv PROVE ConnectorInUse <=> ~Quiet(connector.channel, Work)
<1>1. \A f : Waiting(f) <=> Includes(Work, f)
  BY WorkShape DEF ClientInv, ClientTypeOK, Waiting, Work
<1> QED
  BY <1>1 DEF ConnectorInUse, Quiet

(* The destructor of a connected client may be the end of a connector      *)
(* whose channel_ is not reset.                                            *)
LEMMA DestroyAborts ==
  ASSUME ClientInv, ~dangling, DestroyClient, client.connection # 0, connector.channel # 0
  PROVE  dangling' /\ ClientSound'
<1>1. PICK a, n, c, st, ch, so, cb, w, al, re, as, ra, r, q :
        /\ a = client.alive /\ n = client.connection /\ c = connector.connect /\ st = connector.state
        /\ ch = connector.channel /\ so = socks /\ cb = closeBy /\ w = Work /\ al = alarms
        /\ re = restarting /\ as = asked /\ ra = rash /\ r = running /\ q = queued
  OBVIOUS
<1>2. /\ Core(a, n, c, st, ch, so, cb, w, al, re, as, ra)
      /\ StopOK(a, st, w) /\ PendingOK(c, st, w, al, re, gaveUp)
  BY <1>1 DEF ClientInv
<1>3. r \in Seq(FunctorNames) /\ q \in Seq(FunctorNames) /\ w = r \o q
  BY <1>1 DEF ClientInv, ClientTypeOK, Work
<1>4. /\ a /\ n # 0 /\ ch # 0 /\ client' = [client EXCEPT !.alive = FALSE, !.connection = 0]
      /\ rash' = ra \cup {"destroyed"} /\ connector' = connector /\ alarms' = al /\ socks' = so
      /\ misuse' = misuse /\ restarting' = re /\ running' = r /\ gaveUp' = gaveUp
      /\ queued' \in {q, Append(q, "forceCloseInLoop")}
      /\ dangling' = (~ConnectorAlive' /\ connector'.channel # 0)
  BY <1>1 DEF DestroyClient, Release, Rash, ConnectorInUse, loopVars
<1>5. client'.alive = FALSE /\ client'.connection = 0
  BY <1>4 DEF ClientInv, ClientTypeOK, ClientRecord
<1>6. st = "connected" /\ ~HasStart(al) /\ ~al.keep
  <2>1. n \in Fds /\ so[n] = "up"
    BY <1>2, <1>4 DEF Core, ValuesOK, SocksOK
  <2>2. st = "connected"
    BY <1>2, <2>1 DEF Core, SocksOK
  <2> QED
    BY <1>2, <1>4, <2>2 DEF Core, StartOK
<1>7. dangling'
  BY <1>1, <1>4, <1>5, <1>6 DEF ConnectorAlive, HasStart
<1>8. ~misuse
  BY DEF ClientInv
<1>9. NoClientMisuse' /\ ConnectorOutlivesUse'
  BY <1>4, <1>8 DEF NoClientMisuse, ConnectorOutlivesUse
<1>10. SocketsAccounted
  BY ClientInvSound DEF ClientSound
<1>11. Waiting("connectDestroyed") => Waiting("connectDestroyed")'
  <2>1. r \o q \in Seq(FunctorNames) /\ \A f : f \in ToSet(q) \cup ToSet(r) <=> Includes(r \o q, f)
    BY <1>3, WorkShape
  <2>2. queued' = Append(q, "forceCloseInLoop") => /\ queued' \in Seq(FunctorNames)
                                                 /\ running' \o queued' = Append(r \o q, "forceCloseInLoop")
                                                 /\ QueuedOn(r \o q, "forceCloseInLoop", running' \o queued')
    <3>1. PICK f \in FunctorNames : f = "forceCloseInLoop"
      BY DEF FunctorNames
    <3>2. /\ Append(q, f) \in Seq(FunctorNames) /\ r \o Append(q, f) = Append(r \o q, f)
          /\ QueuedOn(r \o q, f, Append(r \o q, f))
      BY <1>3, FunctorQueued
    <3> QED
      BY <1>4, <3>1, <3>2
  <2>3. queued' \in Seq(FunctorNames) /\ running' \in Seq(FunctorNames)
    BY <1>3, <1>4, <2>2
  <2>4. \A f : f \in ToSet(queued') \cup ToSet(running') <=> Includes(running' \o queued', f)
    BY <2>3, WorkShape
  <2>5. Includes(r \o q, "connectDestroyed") => Includes(running' \o queued', "connectDestroyed")
    BY <1>4, <2>2 DEF QueuedOn
  <2>6. (Waiting("connectDestroyed"))' <=> "connectDestroyed" \in ToSet(queued') \cup ToSet(running')
    BY DEF Waiting, ToSet
  <2>7. Waiting("connectDestroyed") <=> "connectDestroyed" \in ToSet(q) \cup ToSet(r)
    BY <1>1 DEF Waiting
  <2> QED
    BY <2>1, <2>4, <2>5, <2>6, <2>7
<1>12. SocketsAccounted'
  BY <1>1, <1>4, <1>5, <1>10, <1>11 DEF SocketsAccounted
<1>13. AttemptPending'
  BY <1>1, <1>4, <1>6 DEF AttemptPending
<1> QED
  BY <1>7, <1>9, <1>12, <1>13 DEF ClientSound

LEMMA DestroyClientKeeps ==
  ASSUME ClientInv, ~dangling, DestroyClient PROVE ClientInv' \/ (dangling' /\ ClientSound')
<1>0. CASE client.connection # 0 /\ connector.channel # 0
  BY <1>0, DestroyAborts
<1> SUFFICES ASSUME client.connection = 0 \/ connector.channel = 0 PROVE ClientInv'
  BY <1>0
<1>1. PICK a, n, c, st, ch, so, cb, w, al, re, as, ra, r, q :
        /\ a = client.alive /\ n = client.connection /\ c = connector.connect /\ st = connector.state
        /\ ch = connector.channel /\ so = socks /\ cb = closeBy /\ w = Work /\ al = alarms
        /\ re = restarting /\ as = asked /\ ra = rash /\ r = running /\ q = queued
  OBVIOUS
<1>2. /\ Core(a, n, c, st, ch, so, cb, w, al, re, as, ra)
      /\ StopOK(a, st, w) /\ PendingOK(c, st, w, al, re, gaveUp)
  BY <1>1 DEF ClientInv
<1>3. r \in Seq(FunctorNames) /\ q \in Seq(FunctorNames) /\ w = r \o q
  BY <1>1 DEF ClientInv, ClientTypeOK, Work
<1>4. a /\ ~re /\ functors /\ n \in Fds \cup {0}
  BY <1>1 DEF ClientInv, ClientTypeOK, ClientRecord, DestroyClient
<1>5. /\ client'.alive = FALSE /\ client'.connection = 0 /\ socks' = so /\ restarting' = re /\ asked' = as
      /\ running' = r /\ gaveUp' = gaveUp
      /\ client' \in ClientRecord
      /\ ~misuse' /\ functors' /\ running' \in Seq(FunctorNames) /\ gaveUp' \in BOOLEAN
  BY <1>1, <1>3 DEF ClientInv, ClientTypeOK, ClientRecord, DestroyClient, loopVars
<1>6. CASE n # 0
  <2>1. /\ ch = 0 /\ rash' = (IF ConnectorInUse THEN rash \cup {"destroyed"} ELSE rash)
        /\ closeBy' = [cb EXCEPT ![n] = "detail"] /\ queued' \in {q, Append(q, "forceCloseInLoop")}
        /\ connector' = connector /\ alarms' = al
    BY <1>1, <1>6 DEF DestroyClient, Rash
  <2>2. PICK ra1 : ra1 = rash' /\ (Quiet(ch, w) \/ ra1 # {})
    BY <1>1, <2>1, InUse
  <2>3. PICK cb1 : cb1 = [cb EXCEPT ![n] = "detail"]
    OBVIOUS
  <2>4. Core(FALSE, 0, c, st, ch, so, cb1, w, al, re, as, ra1) /\ st = "connected"
    <3>2. Changed(cb, cb1, n, "detail")
      BY <2>3 DEF Changed
    <3>3. Core(FALSE, 0, c, st, ch, so, cb1, w, al, re, as, ra1)
      BY <1>2, <1>4, <1>6, <2>1, <2>2, <3>2, CoreLeave
    <3>4. st = "connected"
      BY <1>2, <1>4, <1>6 DEF Core, SocksOK
    <3> QED
      BY <3>3, <3>4
  <2>5. PICK v : v = Append(w, "forceCloseInLoop")
    OBVIOUS
  <2>6. Core(FALSE, 0, c, st, ch, so, cb1, v, al, re, as, ra1)
    BY <2>4, <2>5, CoreForceClose
  <2>7. Work' \in {w, v} /\ queued' \in Seq(FunctorNames)
    <3>1. Append(q, "forceCloseInLoop") \in Seq(FunctorNames) /\ r \o Append(q, "forceCloseInLoop") = v
      BY <1>3, <2>5, FunctorQueued DEF FunctorNames
    <3> QED
      BY <1>3, <1>5, <2>1, <3>1 DEF Work
  <2>8. Core(FALSE, 0, c, st, ch, so, cb1, Work', al, re, as, ra1)
    BY <2>4, <2>6, <2>7
  <2>9. StopOK(FALSE, st, Work') /\ PendingOK(c, st, Work', al, re, gaveUp)
    BY <2>4 DEF StopOK, PendingOK
  <2>10. ClientTypeOK'
    BY <1>5, <2>1, <2>7 DEF ClientInv, ClientTypeOK
  <2> QED
    BY <1>1, <1>4, <1>5, <2>1, <2>2, <2>3, <2>8, <2>9, <2>10 DEF ClientInv
<1>7. CASE n = 0
  <2>1. /\ connector' = [connector EXCEPT !.connect = FALSE] /\ queued' = Append(q, "stopInLoop")
        /\ alarms' = [al EXCEPT !.keep = TRUE] /\ closeBy' = cb /\ rash' = ra
    BY <1>1, <1>7 DEF DestroyClient, KeepConnector
  <2>2. /\ connector'.connect = FALSE /\ connector'.state = st /\ connector'.channel = ch
        /\ connector' \in ConnectorRecord
    BY <1>1, <2>1 DEF ClientInv, ClientTypeOK, ConnectorRecord
  <2>3. PICK v, al1 : v = Append(w, "stopInLoop") /\ al1 = [al EXCEPT !.keep = TRUE]
    OBVIOUS
  <2>4. Core(FALSE, 0, FALSE, st, ch, so, cb, v, al1, re, as, ra)
    BY <1>2, <1>4, <1>7, <2>3, CoreKeep
  <2>5. Work' = v /\ queued' \in Seq(FunctorNames) /\ QueuedOn(w, "stopInLoop", v)
    BY <1>3, <1>5, <2>1, <2>3, FunctorQueued DEF Work, FunctorNames
  <2>6. StopOK(FALSE, st, v) /\ PendingOK(FALSE, st, v, al1, re, gaveUp)
    BY <2>5 DEF QueuedOn, StopOK, PendingOK
  <2>7. ClientTypeOK'
    BY <1>5, <2>2, <2>5 DEF ClientInv, ClientTypeOK
  <2> QED
    BY <1>4, <1>5, <2>1, <2>2, <2>3, <2>4, <2>5, <2>6, <2>7 DEF ClientInv
<1> QED
  BY <1>6, <1>7

(* retry() of an attempt that is under way *)
LEMMA RetryEnds ==
  ASSUME NEW a, NEW n, NEW c, NEW st, NEW ch, NEW so, NEW cb, NEW w, NEW al, NEW re, NEW as, NEW ra,
         Core(a, n, c, st, ch, so, cb, w, al, re, as, ra), st = "connecting", connector \in ConnectorRecord,
         c = connector.connect, st = connector.state, ch = connector.channel, so = socks, al = alarms,
         Retry(connector, connector.channel, alarms)
  PROVE  /\ Core(a, n, connector'.connect, connector'.state, connector'.channel, socks', cb,
                 Append(w, "resetChannel"), alarms', re, as, ra)
         /\ connector' \in ConnectorRecord /\ connector'.state = "disconnected"
         /\ connector'.connect => HasStart(alarms')
<1>1. PICK so1, al1 : so1 = socks' /\ al1 = alarms'
  OBVIOUS
<1>2. Changed(so, so1, ch, "closed") /\ c \in BOOLEAN
  BY <1>1 DEF Retry, Changed, ConnectorRecord
<1>3. LesserDelay(2 * connector.delay) \in Nat
  BY DelayAssumption DEF LesserDelay, ConnectorRecord
<1>4. CASE c
  <2>1. /\ connector' = [connector EXCEPT !.state = "disconnected", !.delay = LesserDelay(2 * connector.delay)]
        /\ al1 = [al EXCEPT !.start = @ + 1]
    BY <1>1, <1>4 DEF Retry
  <2>2. /\ connector' \in ConnectorRecord /\ connector'.connect = c /\ connector'.state = "disconnected"
        /\ connector'.channel = ch
    BY <1>3, <2>1 DEF ConnectorRecord
  <2>3. Core(a, n, c, "disconnected", ch, so1, cb, Append(w, "resetChannel"), al1, re, as, ra)
    BY <1>2, <1>4, <2>1, CoreEnd
  <2>4. HasStart(al1)
    BY <2>1, AlarmAdded DEF Core, ValuesOK
  <2> QED
    BY <1>1, <2>2, <2>3, <2>4
<1>5. CASE ~c
  <2>1. connector' = [connector EXCEPT !.state = "disconnected"] /\ al1 = al
    BY <1>1, <1>5 DEF Retry
  <2>2. /\ connector' \in ConnectorRecord /\ connector'.connect = c /\ connector'.state = "disconnected"
        /\ connector'.channel = ch
    BY <2>1 DEF ConnectorRecord
  <2>3. Core(a, n, c, "disconnected", ch, so1, cb, Append(w, "resetChannel"), al1, re, as, ra)
    BY <1>2, <1>5, <2>1, CoreEnd
  <2> QED
    BY <1>1, <1>5, <2>2, <2>3
<1> QED
  BY <1>2, <1>4, <1>5

(* startInLoop(), wherever it is called from *)
Ready(a, n, c, st, ch, so, cb, w, al, re, as, ra) ==
  /\ Core(a, n, c, st, ch, so, cb, w, al, re, as, ra) /\ st = "disconnected" /\ ~HasStart(al) /\ ~re
  /\ "connect" \in as /\ ~Includes(w, "startInLoop")
Started(a, n, cb, w, re, as, ra) ==
  /\ Core(a, n, connector'.connect, connector'.state, connector'.channel, socks', cb, w, alarms', re, as, ra)
  /\ connector' \in ConnectorRecord /\ ~misuse' /\ gaveUp' \in BOOLEAN
  /\ StopOK(a, connector'.state, w)
  /\ PendingOK(connector'.connect, connector'.state, w, alarms', re, gaveUp')

LEMMA StartKeeps ==
  ASSUME NEW a, NEW n, NEW cb, NEW w, NEW al, NEW re, NEW as, NEW ra, NEW k \in ConnectorRecord,
         Ready(a, n, k.connect, k.state, k.channel, socks, cb, w, al, re, as, ra),
         ~misuse, gaveUp \in BOOLEAN, StartInLoop(k, al), ~misuse'
  PROVE  Started(a, n, cb, w, re, as, ra)
<1>1. PICK c, st, ch, so : c = k.connect /\ st = k.state /\ ch = k.channel /\ so = socks
  OBVIOUS
<1>2. /\ Core(a, n, c, st, ch, so, cb, w, al, re, as, ra) /\ st = "disconnected" /\ ~HasStart(al) /\ ~re
      /\ "connect" \in as /\ ~Includes(w, "startInLoop")
  BY <1>1 DEF Ready
<1>3. PICK so1, al1 : so1 = socks' /\ al1 = alarms'
  OBVIOUS
<1>4. c \in BOOLEAN
  BY <1>1 DEF ConnectorRecord
<1>5. CASE connector' = k /\ al1 = al /\ so1 = so /\ ~misuse' /\ gaveUp' \in BOOLEAN /\ (~c \/ gaveUp')
  BY <1>1, <1>2, <1>3, <1>5 DEF Started, StopOK, PendingOK
<1>6. CASE ~c
  <2>1. connector' = k /\ al1 = al /\ so1 = so /\ ~misuse' /\ gaveUp' = gaveUp
    BY <1>1, <1>2, <1>3, <1>6 DEF StartInLoop
  <2> QED
    BY <1>3, <1>5, <1>6, <2>1
<1>7. ASSUME c, NEW s \in Fds, socks[s] = "closed", Connecting(k, s, al), gaveUp' = gaveUp
      PROVE  Started(a, n, cb, w, re, as, ra)
  <2>1. /\ connector' \in ConnectorRecord /\ connector'.connect = c /\ connector'.state = "connecting"
        /\ connector'.channel = s /\ ch = 0 /\ al1 = al /\ Changed(so, so1, s, "connecting") /\ so[s] = "closed"
    BY <1>1, <1>2, <1>3, <1>7 DEF Connecting, ConnectorRecord, Changed
  <2>2. Core(a, n, c, "connecting", s, so1, cb, w, al, re, as, ra)
    BY <1>2, <1>7, <2>1, CoreAttempt
  <2>3. a
    BY <1>2, <1>7 DEF Core, GoneOK, ValuesOK
  <2> QED
    BY <1>3, <1>7, <2>1, <2>2, <2>3 DEF Started, StopOK, PendingOK
<1>8. ASSUME c, NEW s \in Fds, socks[s] = "closed", Retry(k, s, al), misuse' = misuse, gaveUp' = gaveUp
      PROVE  Started(a, n, cb, w, re, as, ra)
  <2>1. LesserDelay(2 * k.delay) \in Nat
    BY DelayAssumption DEF LesserDelay, ConnectorRecord
  <2>2. /\ connector' = [k EXCEPT !.state = "disconnected", !.delay = LesserDelay(2 * k.delay)]
        /\ al1 = [al EXCEPT !.start = @ + 1] /\ Changed(so, so1, s, "closed") /\ so[s] = "closed"
    BY <1>1, <1>3, <1>8 DEF Retry, Changed
  <2>3. /\ connector' \in ConnectorRecord /\ connector'.connect = c /\ connector'.state = "disconnected"
        /\ connector'.channel = ch
    BY <1>1, <2>1, <2>2 DEF ConnectorRecord
  <2>4. Core(a, n, c, "disconnected", ch, so1, cb, w, al1, re, as, ra)
    BY <1>2, <1>8, <2>2, CoreRetry
  <2>5. HasStart(al1)
    BY <1>2, <2>2, AlarmAdded DEF Core, ValuesOK
  <2> QED
    BY <1>3, <1>8, <2>3, <2>4, <2>5 DEF Started, StopOK, PendingOK
<1>9. CASE c
  <2>1. Connect(k, al)
    BY <1>1, <1>2, <1>9 DEF StartInLoop
  <2>2. PICK s \in Fds : /\ socks[s] = "closed"
                         /\ \/ Connecting(k, s, al) /\ gaveUp' = gaveUp
                            \/ Retry(k, s, al) /\ misuse' = misuse /\ gaveUp' = gaveUp
                            \/ connector' = k /\ al1 = al /\ gaveUp' = TRUE /\ so1 = so /\ misuse' = misuse
    BY <1>1, <1>3, <2>1 DEF Connect
  <2> QED
    BY <1>3, <1>5, <1>7, <1>8, <1>9, <2>2
<1> QED
  BY <1>4, <1>6, <1>9

(* With its channel reset the connector starts without an assertion, and   *)
(* an assertion that fails is the one of connecting().                     *)
LEMMA StartSafe ==
  ASSUME NEW al, NEW k, k.state = "disconnected", ~misuse, StartInLoop(k, al), misuse'
  PROVE  k.channel # 0 /\ \E s \in Fds : socks[s] = "closed" /\ Connecting(k, s, al)
<1>1. CASE Connect(k, al)
  <2>1. PICK s \in Fds : /\ socks[s] = "closed"
                         /\ Connecting(k, s, al) \/ misuse' = misuse
    BY <1>1 DEF Connect
  <2>2. Connecting(k, s, al)
    BY <2>1
  <2>3. k.channel # 0
    BY <2>2 DEF Connecting
  <2> QED
    BY <2>1, <2>2, <2>3
<1>2. CASE misuse' = (misuse \/ k.state # "disconnected")
  BY <1>2
<1> QED
  BY <1>1, <1>2 DEF StartInLoop

LEMMA HandleWriteKeeps == ASSUME ClientInv, HandleWrite PROVE ClientInv'
<1>1. PICK a, n, c, st, ch, so, cb, w, al, re, as, ra, r, q :
        /\ a = client.alive /\ n = client.connection /\ c = connector.connect /\ st = connector.state
        /\ ch = connector.channel /\ so = socks /\ cb = closeBy /\ w = Work /\ al = alarms
        /\ re = restarting /\ as = asked /\ ra = rash /\ r = running /\ q = queued
  OBVIOUS
<1>2. /\ Core(a, n, c, st, ch, so, cb, w, al, re, as, ra)
      /\ StopOK(a, st, w) /\ PendingOK(c, st, w, al, re, gaveUp)
  BY <1>1 DEF ClientInv
<1>3. r \in Seq(FunctorNames) /\ q \in Seq(FunctorNames) /\ w = r \o q
  BY <1>1 DEF ClientInv, ClientTypeOK, Work
<1>4. st = "connecting" /\ ~functors /\ ~re /\ connector \in ConnectorRecord /\ c \in BOOLEAN
  BY <1>1 DEF ClientInv, ClientTypeOK, HandleWrite, Dispatching, ConnectorRecord
<1>5. /\ connector' = [connector EXCEPT !.state = "connected"] /\ queued' = Append(q, "resetChannel")
      /\ NewConnection(ch) /\ running' = r /\ functors' = functors /\ alarms' = al /\ restarting' = re
      /\ rash' = ra /\ asked' = as /\ gaveUp' = gaveUp
  BY <1>1 DEF HandleWrite, RemoveAndResetChannel, loopVars
<1>6. /\ connector' \in ConnectorRecord /\ connector'.connect = c /\ connector'.state = "connected"
      /\ connector'.channel = ch
  BY <1>1, <1>4, <1>5 DEF ConnectorRecord
<1>7. PICK v, so1, cb1 : v = Append(w, "resetChannel") /\ so1 = socks' /\ cb1 = closeBy'
  OBVIOUS
<1>8. Work' = v /\ queued' \in Seq(FunctorNames)
  BY <1>3, <1>5, <1>7, FunctorQueued DEF Work, FunctorNames
<1>9. StopOK(client'.alive, "connected", v) /\ PendingOK(c, "connected", v, al, re, gaveUp)
  BY DEF StopOK, PendingOK
<1>10. ch \in Fds \cup {0} /\ ~misuse
  BY <1>1 DEF ClientInv, ClientTypeOK, ConnectorRecord
<1>11. CASE c
  <2>1. /\ client' = [client EXCEPT !.connection = ch] /\ Changed(so, so1, ch, "up")
        /\ Changed(cb, cb1, ch, "client") /\ misuse' = (misuse \/ ~client.alive)
    BY <1>1, <1>5, <1>7, <1>11 DEF NewConnection, Changed
  <2>2. Core(a, ch, c, "connected", ch, so1, cb1, v, al, re, as, ra)
    BY <1>2, <1>4, <1>7, <1>11, <2>1, CoreNewConnection
  <2>3. a
    BY <1>2, <1>4, <1>11 DEF Core, GoneOK, ValuesOK
  <2>4. ~misuse' /\ client'.alive = a /\ client'.connection = ch
        /\ client' \in ClientRecord
    BY <1>1, <1>10, <2>1, <2>3 DEF ClientInv, ClientTypeOK, ClientRecord
  <2>5. ClientTypeOK' /\ (~functors' => running' = <<>>) /\ (restarting' => ~functors')
    BY <1>1, <1>5, <1>6, <1>8, <2>4 DEF ClientInv, ClientTypeOK
  <2> QED
    BY <1>5, <1>6, <1>7, <1>8, <1>9, <2>2, <2>4, <2>5 DEF ClientInv
<1>12. CASE ~c
  <2>1. client' = client /\ Changed(so, so1, ch, "closed") /\ cb1 = cb /\ misuse' = misuse
    BY <1>1, <1>5, <1>7, <1>12 DEF NewConnection, Changed
  <2>2. Core(a, n, c, "connected", ch, so1, cb, v, al, re, as, ra)
    BY <1>2, <1>4, <1>7, <1>12, <2>1, CoreEnd
  <2>3. ClientTypeOK' /\ ~misuse' /\ (~functors' => running' = <<>>) /\ (restarting' => ~functors')
    BY <1>1, <1>5, <1>6, <1>8, <2>1 DEF ClientInv, ClientTypeOK
  <2> QED
    BY <1>1, <1>5, <1>6, <1>7, <1>8, <1>9, <2>1, <2>2, <2>3 DEF ClientInv
<1> QED
  BY <1>4, <1>11, <1>12

LEMMA HandleErrorKeeps == ASSUME ClientInv, HandleError PROVE ClientInv'
<1>1. PICK a, n, c, st, ch, so, cb, w, al, re, as, ra, r, q :
        /\ a = client.alive /\ n = client.connection /\ c = connector.connect /\ st = connector.state
        /\ ch = connector.channel /\ so = socks /\ cb = closeBy /\ w = Work /\ al = alarms
        /\ re = restarting /\ as = asked /\ ra = rash /\ r = running /\ q = queued
  OBVIOUS
<1>2. /\ Core(a, n, c, st, ch, so, cb, w, al, re, as, ra)
      /\ StopOK(a, st, w) /\ PendingOK(c, st, w, al, re, gaveUp)
  BY <1>1 DEF ClientInv
<1>3. r \in Seq(FunctorNames) /\ q \in Seq(FunctorNames) /\ w = r \o q
  BY <1>1 DEF ClientInv, ClientTypeOK, Work
<1>4. st = "connecting" /\ connector \in ConnectorRecord
  BY <1>1 DEF ClientInv, ClientTypeOK, HandleError
<1>5. /\ queued' = Append(q, "resetChannel") /\ Retry(connector, connector.channel, alarms) /\ client' = client
      /\ closeBy' = cb /\ running' = r /\ functors' = functors /\ restarting' = re /\ misuse' = misuse
      /\ rash' = ra /\ asked' = as /\ gaveUp' = gaveUp
  BY <1>1 DEF HandleError, RemoveAndResetChannel, loopVars
<1>6. PICK v : v = Append(w, "resetChannel")
  OBVIOUS
<1>7. Work' = v /\ queued' \in Seq(FunctorNames)
  BY <1>3, <1>5, <1>6, FunctorQueued DEF Work, FunctorNames
<1>8. /\ Core(a, n, connector'.connect, connector'.state, connector'.channel, socks', cb, v, alarms', re, as, ra)
      /\ connector' \in ConnectorRecord /\ connector'.state = "disconnected"
      /\ connector'.connect => HasStart(alarms')
  BY <1>1, <1>2, <1>4, <1>5, <1>6, RetryEnds
<1>9. StopOK(a, connector'.state, v) /\ PendingOK(connector'.connect, connector'.state, v, alarms', re, gaveUp)
  BY <1>8 DEF StopOK, PendingOK
<1>10. ClientTypeOK' /\ ~misuse' /\ (~functors' => running' = <<>>) /\ (restarting' => ~functors')
  BY <1>1, <1>5, <1>7, <1>8 DEF ClientInv, ClientTypeOK
<1> QED
  BY <1>1, <1>5, <1>7, <1>8, <1>9, <1>10 DEF ClientInv

LEMMA RestartKeeps == ASSUME ClientInv, Restart PROVE ClientInv'
<1>1. PICK a, n, c, st, ch, so, cb, w, al, re, as, ra, r, q :
        /\ a = client.alive /\ n = client.connection /\ c = connector.connect /\ st = connector.state
        /\ ch = connector.channel /\ so = socks /\ cb = closeBy /\ w = Work /\ al = alarms
        /\ re = restarting /\ as = asked /\ ra = rash /\ r = running /\ q = queued
  OBVIOUS
<1>2. /\ Core(a, n, c, st, ch, so, cb, w, al, re, as, ra)
      /\ StopOK(a, st, w) /\ PendingOK(c, st, w, al, re, gaveUp)
  BY <1>1 DEF ClientInv
<1>3. r \in Seq(FunctorNames) /\ q \in Seq(FunctorNames) /\ w = r \o q
  BY <1>1 DEF ClientInv, ClientTypeOK, Work
<1>4. re /\ re \in BOOLEAN /\ ~misuse /\ ~functors /\ gaveUp \in BOOLEAN
  BY <1>1, <1>2 DEF ClientInv, ClientTypeOK, Restart, Core, ValuesOK
<1>5. PICK k : k = [connector EXCEPT !.state = "disconnected", !.delay = InitDelay, !.connect = TRUE]
  OBVIOUS
<1>6. k \in ConnectorRecord /\ k.connect = TRUE /\ k.state = "disconnected" /\ k.channel = ch
  BY <1>1, <1>5, DelayAssumption DEF ClientInv, ClientTypeOK, ConnectorRecord
<1>7. Core(a, n, TRUE, "disconnected", ch, so, cb, w, al, FALSE, as, ra)
  BY <1>2, <1>4, CoreRestart
<1>8. Ready(a, n, TRUE, "disconnected", ch, so, cb, w, al, FALSE, as, ra)
  BY <1>2, <1>4, <1>7 DEF Core, StartOK, Ready
<1>9. /\ StartInLoop(k, al) /\ restarting' = FALSE /\ client' = client /\ closeBy' = cb /\ queued' = q
      /\ running' = r /\ functors' = functors /\ rash' = ra /\ asked' = as
  BY <1>1, <1>5 DEF Restart, loopVars
<1>10. /\ Core(a, n, connector'.connect, connector'.state, connector'.channel, socks', cb, w, alarms', FALSE, as, ra)
       /\ connector' \in ConnectorRecord /\ ~misuse' /\ gaveUp' \in BOOLEAN
       /\ StopOK(a, connector'.state, w)
       /\ PendingOK(connector'.connect, connector'.state, w, alarms', FALSE, gaveUp')
  <2>1. Ready(a, n, k.connect, k.state, k.channel, socks, cb, w, al, FALSE, as, ra)
    BY <1>1, <1>6, <1>8
  <2>2. ~misuse'
    <3>1. ch = 0
      BY <1>2, <1>4 DEF Core, StartOK
    <3> QED
      BY <1>4, <1>6, <1>9, <3>1, StartSafe
  <2>3. Started(a, n, cb, w, FALSE, as, ra)
    BY <1>4, <1>6, <1>9, <2>1, <2>2, StartKeeps
  <2> QED
    BY <2>3 DEF Started
<1>11. Work' = w
  BY <1>3, <1>9 DEF Work
<1>12. ClientTypeOK' /\ (~functors' => running' = <<>>)
  BY <1>1, <1>9, <1>10 DEF ClientInv, ClientTypeOK
<1> QED
  BY <1>1, <1>9, <1>10, <1>11, <1>12 DEF ClientInv

(* A timer may start an attempt before the channel of the last one is      *)
(* reset.                                                                  *)
LEMMA OvertakenAborts ==
  ASSUME ClientInv, ~dangling, AlarmExpires, NEW al, NEW s \in Fds, socks[s] = "closed",
         connector.state = "disconnected", connector.channel # 0, Connecting(connector, s, al)
  PROVE  ClientSound'
<1>1. /\ connector' = [connector EXCEPT !.state = "connecting", !.channel = s]
      /\ socks' = [socks EXCEPT ![s] = "connecting"]
  BY DEF Connecting
<1>2. connector'.state = "connecting" /\ connector'.channel = s
  BY <1>1 DEF ClientInv, ClientTypeOK, ConnectorRecord
<1>3. "overtaken" \in rash' /\ client' = client /\ queued' = queued /\ running' = running
  BY DEF AlarmExpires, Rash, ConnectorInUse, loopVars
<1>4. NoClientMisuse' /\ ConnectorOutlivesUse'
  BY <1>3 DEF NoClientMisuse, ConnectorOutlivesUse
<1>5. AttemptPending'
  BY <1>2 DEF AttemptPending
<1>6. SocketsAccounted /\ socks \in [Fds -> {"closed", "connecting", "up", "down"}]
  BY ClientInvSound DEF ClientSound, ClientInv, Core, ValuesOK
<1>7. socks'[s] = "connecting" /\ \A t \in Fds : t # s => socks'[t] = socks[t]
  BY <1>1, <1>6
<1>8. SocketsAccounted'
  <2>1. \A t \in Fds : socks'[t] = "connecting" <=> connector'.state = "connecting" /\ connector'.channel = t
    BY <1>2, <1>6, <1>7 DEF SocketsAccounted
  <2>2. client.connection \in Fds \cup {0}
    BY DEF ClientInv, ClientTypeOK, ClientRecord
  <2>3. client'.connection # 0 => socks'[client'.connection] = "up"
    BY <1>3, <1>6, <1>7, <2>2 DEF SocketsAccounted
  <2>4. \A t \in Fds : socks'[t] = "down" => (Waiting("connectDestroyed"))'
    <3>1. (Waiting("connectDestroyed"))' <=> Waiting("connectDestroyed")
      BY <1>3 DEF Waiting, ToSet
    <3> QED
      BY <1>6, <1>7, <3>1 DEF SocketsAccounted
  <2> QED
    BY <2>1, <2>3, <2>4 DEF SocketsAccounted
<1> QED
  BY <1>4, <1>5, <1>8 DEF ClientSound

LEMMA AlarmExpiresKeeps ==
  ASSUME ClientInv, ~dangling, AlarmExpires PROVE ClientInv' \/ (misuse' /\ ClientSound')
<1>1. PICK a, n, c, st, ch, so, cb, w, al, re, as, ra, r, q :
        /\ a = client.alive /\ n = client.connection /\ c = connector.connect /\ st = connector.state
        /\ ch = connector.channel /\ so = socks /\ cb = closeBy /\ w = Work /\ al = alarms
        /\ re = restarting /\ as = asked /\ ra = rash /\ r = running /\ q = queued
  OBVIOUS
<1>2. /\ Core(a, n, c, st, ch, so, cb, w, al, re, as, ra)
      /\ StopOK(a, st, w) /\ PendingOK(c, st, w, al, re, gaveUp)
  BY <1>1 DEF ClientInv
<1>3. r \in Seq(FunctorNames) /\ q \in Seq(FunctorNames) /\ w = r \o q
  BY <1>1 DEF ClientInv, ClientTypeOK, Work
<1>4. /\ ~misuse /\ ~re /\ gaveUp \in BOOLEAN /\ connector \in ConnectorRecord
      /\ client' = client /\ closeBy' = cb /\ queued' = q /\ running' = r /\ functors' = functors
      /\ restarting' = re /\ asked' = as
      /\ rash' = (IF ConnectorInUse THEN rash \cup {"overtaken"} ELSE rash)
  BY <1>1 DEF ClientInv, ClientTypeOK, AlarmExpires, Dispatching, Rash, loopVars
<1>5. PICK ra1 : ra1 = rash' /\ (Quiet(ch, w) \/ ra1 # {})
  BY <1>1, <1>4, InUse
<1>6. al \in AlarmRecord /\ OneStart(al)
  BY <1>2 DEF Core, ValuesOK, StartOK
<1>8. Work' = w
  BY <1>3, <1>4 DEF Work
<1>9. CASE alarms.start > 0 /\ StartInLoop(connector, [alarms EXCEPT !.start = @ - 1])
  <2>1. PICK al1 : al1 = [al EXCEPT !.start = @ - 1]
    OBVIOUS
  <2>2. HasStart(al) /\ StartInLoop(connector, al1)
    BY <1>1, <1>9, <2>1 DEF HasStart
  <2>3. al1 \in AlarmRecord /\ ~HasStart(al1) /\ OneStart(al1) /\ al1.keep = al.keep
    BY <1>6, <2>1, <2>2, AlarmTaken
  <2>4. Core(a, n, c, st, ch, so, cb, w, al1, re, as, ra1)
    BY <1>2, <1>5, <2>3, CoreExpire
  <2>5. Ready(a, n, connector.connect, connector.state, connector.channel, socks, cb, w, al1, re, as, ra1)
    <3>1. st = "disconnected" /\ "connect" \in as /\ ~Includes(w, "startInLoop")
      BY <1>2, <2>2 DEF Core, StartOK
    <3> QED
      BY <1>1, <1>4, <2>3, <2>4, <3>1 DEF Ready
  <2>6. CASE misuse'
    <3>1. connector.state = "disconnected"
      BY <2>5 DEF Ready
    <3>2. connector.channel # 0 /\ \E s \in Fds : socks[s] = "closed" /\ Connecting(connector, s, al1)
      BY <1>4, <2>2, <2>6, <3>1, StartSafe
    <3> QED
      BY <2>6, <3>1, <3>2, OvertakenAborts
  <2>7. CASE ~misuse'
    <3>1. /\ Core(a, n, connector'.connect, connector'.state, connector'.channel, socks', cb, w, alarms', re, as, ra1)
          /\ connector' \in ConnectorRecord /\ ~misuse' /\ gaveUp' \in BOOLEAN
          /\ StopOK(a, connector'.state, w)
          /\ PendingOK(connector'.connect, connector'.state, w, alarms', re, gaveUp')
      <4>1. Started(a, n, cb, w, re, as, ra1)
        BY <1>4, <2>2, <2>5, <2>7, StartKeeps
      <4> QED
        BY <4>1 DEF Started
    <3>2. ClientTypeOK' /\ (~functors' => running' = <<>>) /\ (restarting' => ~functors')
      BY <1>1, <1>4, <3>1 DEF ClientInv, ClientTypeOK
    <3> QED
      BY <1>1, <1>4, <1>5, <1>8, <3>1, <3>2 DEF ClientInv
  <2> QED
    BY <2>6, <2>7
<1>10. CASE alarms' = [alarms EXCEPT !.keep = FALSE] /\ UNCHANGED <<connector, socks, misuse, gaveUp>>
  <2>1. PICK al1 : al1 = [al EXCEPT !.keep = FALSE]
    OBVIOUS
  <2>2. al1 \in AlarmRecord /\ (HasStart(al1) <=> HasStart(al)) /\ (OneStart(al1) <=> OneStart(al)) /\ al1.keep = FALSE
    BY <1>6, <2>1, AlarmKept
  <2>3. Core(a, n, c, st, ch, so, cb, w, al1, re, as, ra1)
    BY <1>2, <1>5, <1>6, <2>2, CoreExpire
  <2>4. PendingOK(c, st, w, al1, re, gaveUp)
    BY <1>2, <2>2 DEF PendingOK
  <2>5. ClientTypeOK' /\ ~misuse' /\ (~functors' => running' = <<>>) /\ (restarting' => ~functors')
    BY <1>1, <1>4, <1>10 DEF ClientInv, ClientTypeOK
  <2> QED
    BY <1>1, <1>2, <1>4, <1>5, <1>8, <1>10, <2>1, <2>3, <2>4, <2>5 DEF ClientInv
<1> QED
  BY <1>9, <1>10 DEF AlarmExpires

LEMMA TakeFunctorsKeeps == ASSUME ClientInv, TakeFunctors PROVE ClientInv'
<1>1. PICK a, n, c, st, ch, so, cb, w, al, re, as, ra, r, q :
        /\ a = client.alive /\ n = client.connection /\ c = connector.connect /\ st = connector.state
        /\ ch = connector.channel /\ so = socks /\ cb = closeBy /\ w = Work /\ al = alarms
        /\ re = restarting /\ as = asked /\ ra = rash /\ r = running /\ q = queued
  OBVIOUS
<1>2. /\ Core(a, n, c, st, ch, so, cb, w, al, re, as, ra)
      /\ StopOK(a, st, w) /\ PendingOK(c, st, w, al, re, gaveUp)
  BY <1>1 DEF ClientInv
<1>3. r \in Seq(FunctorNames) /\ q \in Seq(FunctorNames) /\ w = r \o q
  BY <1>1 DEF ClientInv, ClientTypeOK, Work
<1>4. /\ ~functors /\ ~re /\ functors' = TRUE /\ running' = q /\ queued' = <<>> /\ client' = client
      /\ connector' = connector /\ socks' = so /\ closeBy' = cb /\ alarms' = al /\ restarting' = re
      /\ misuse' = misuse /\ rash' = ra /\ asked' = as /\ gaveUp' = gaveUp
  BY <1>1 DEF TakeFunctors, Dispatching
<1>5. r = <<>>
  BY <1>1, <1>4 DEF ClientInv
<1>6. Work' = w
  BY <1>3, <1>4, <1>5, WorkShape DEF Work
<1>7. <<>> \in Seq(FunctorNames)
  OBVIOUS
<1>8. ClientTypeOK' /\ ~misuse' /\ functors' /\ ~restarting'
  BY <1>1, <1>3, <1>4, <1>7 DEF ClientInv, ClientTypeOK
<1> QED
  BY <1>1, <1>2, <1>4, <1>6, <1>8 DEF ClientInv

LEMMA EndFunctorsKeeps == ASSUME ClientInv, EndFunctors PROVE ClientInv'
<1>1. PICK a, n, c, st, ch, so, cb, w, al, re, as, ra, r, q :
        /\ a = client.alive /\ n = client.connection /\ c = connector.connect /\ st = connector.state
        /\ ch = connector.channel /\ so = socks /\ cb = closeBy /\ w = Work /\ al = alarms
        /\ re = restarting /\ as = asked /\ ra = rash /\ r = running /\ q = queued
  OBVIOUS
<1>2. /\ Core(a, n, c, st, ch, so, cb, w, al, re, as, ra)
      /\ StopOK(a, st, w) /\ PendingOK(c, st, w, al, re, gaveUp)
  BY <1>1 DEF ClientInv
<1>3. r \in Seq(FunctorNames) /\ q \in Seq(FunctorNames) /\ w = r \o q
  BY <1>1 DEF ClientInv, ClientTypeOK, Work
<1>4. /\ functors /\ r = <<>> /\ functors' = FALSE /\ running' = r /\ queued' = q /\ client' = client
      /\ connector' = connector /\ socks' = so /\ closeBy' = cb /\ restarting' = re /\ alarms' = al
      /\ misuse' = misuse /\ rash' = ra /\ asked' = as /\ gaveUp' = gaveUp
  BY <1>1 DEF EndFunctors
<1>5. Work' = w
  BY <1>3, <1>4 DEF Work
<1>6. ClientTypeOK' /\ ~misuse' /\ ~functors' /\ running' = <<>>
  BY <1>1, <1>3, <1>4 DEF ClientInv, ClientTypeOK
<1> QED
  BY <1>1, <1>2, <1>4, <1>5, <1>6 DEF ClientInv

(* handleClose(), from an event or from forceCloseInLoop() *)
ClosedDown(c, st, ch, cb, w, al, as, ra) ==
  /\ Core(client'.alive, client'.connection, c, st, ch, socks', cb, w, al, restarting', as, ra)
  /\ client' \in ClientRecord /\ ~misuse' /\ st = "connected"

LEMMA CloseKeeps ==
  ASSUME NEW a, NEW n, NEW c, NEW st, NEW ch, NEW so, NEW cb, NEW w, NEW al, NEW re, NEW as, NEW ra,
         Core(a, n, c, st, ch, so, cb, w, al, re, as, ra), NEW s \in Fds, so[s] = "up", ch # s,
         a = client.alive, n = client.connection, so = socks, cb = closeBy, re = restarting,
         client \in ClientRecord, ~misuse, CloseConnection(s)
  PROVE  ClosedDown(c, st, ch, cb, Append(w, "connectDestroyed"), al, as, ra)
<1>1. PICK so1, v, re1 : so1 = socks' /\ v = Append(w, "connectDestroyed") /\ re1 = restarting'
  OBVIOUS
<1>2. Changed(so, so1, s, "down")
  BY <1>1 DEF CloseConnection, Changed
<1>3. st = "connected"
  BY DEF Core, SocksOK
<1>4. CASE cb[s] = "client"
  <2>1. /\ client' = [client EXCEPT !.connection = 0] /\ re1 = (client.retry /\ client.connect)
        /\ misuse' = (misuse \/ ~client.alive \/ client.connection # s)
    BY <1>1, <1>4 DEF CloseConnection
  <2>2. /\ client' \in ClientRecord /\ client'.alive = a /\ client'.connection = 0 /\ re1 \in BOOLEAN
    BY <2>1 DEF ClientRecord
  <2>3. a /\ n = s
    BY <1>4 DEF Core, SocksOK
  <2>4. ~misuse'
    BY <2>1, <2>3
  <2>5. Core(a, 0, c, st, ch, so1, cb, v, al, re, as, ra)
    BY <1>1, <1>2, <1>4, CoreClose
  <2>6. ch = 0
    BY <2>3 DEF Core, SocksOK, ValuesOK
  <2>7. Core(a, 0, c, st, ch, so1, cb, v, al, re1, as, ra)
    BY <1>3, <2>2, <2>3, <2>5, <2>6 DEF Core, ValuesOK, StartOK
  <2> QED
    BY <1>1, <1>3, <2>2, <2>4, <2>7 DEF ClosedDown
<1>5. CASE cb[s] = "detail"
  <2>1. client' = client /\ misuse' = misuse /\ re1 = re
    BY <1>1, <1>5 DEF CloseConnection
  <2>2. Core(a, n, c, st, ch, so1, cb, v, al, re, as, ra)
    BY <1>1, <1>2, <1>5, CoreCloseLeft
  <2> QED
    BY <1>1, <1>3, <2>1, <2>2 DEF ClosedDown
<1> QED
  BY <1>4, <1>5 DEF CloseConnection

LEMMA PeerClosesKeeps == ASSUME ClientInv, PeerCloses PROVE ClientInv'
<1>1. PICK a, n, c, st, ch, so, cb, w, al, re, as, ra, r, q :
        /\ a = client.alive /\ n = client.connection /\ c = connector.connect /\ st = connector.state
        /\ ch = connector.channel /\ so = socks /\ cb = closeBy /\ w = Work /\ al = alarms
        /\ re = restarting /\ as = asked /\ ra = rash /\ r = running /\ q = queued
  OBVIOUS
<1>2. /\ Core(a, n, c, st, ch, so, cb, w, al, re, as, ra)
      /\ StopOK(a, st, w) /\ PendingOK(c, st, w, al, re, gaveUp)
  BY <1>1 DEF ClientInv
<1>3. r \in Seq(FunctorNames) /\ q \in Seq(FunctorNames) /\ w = r \o q
  BY <1>1 DEF ClientInv, ClientTypeOK, Work
<1>4. PICK s \in Fds : /\ so[s] = "up" /\ ch # s /\ CloseConnection(s) /\ ~functors
                       /\ connector' = connector /\ closeBy' = cb /\ running' = r /\ functors' = functors
                       /\ alarms' = al /\ rash' = ra /\ asked' = as /\ gaveUp' = gaveUp
  BY <1>1 DEF PeerCloses, Dispatching, loopVars
<1>5. PICK v : v = Append(w, "connectDestroyed")
  OBVIOUS
<1>6. queued' = Append(q, "connectDestroyed")
  BY <1>1, <1>4 DEF CloseConnection
<1>7. Work' = v /\ queued' \in Seq(FunctorNames)
  BY <1>3, <1>4, <1>5, <1>6, FunctorQueued DEF Work, FunctorNames
<1>8. client \in ClientRecord /\ ~misuse
  BY DEF ClientInv, ClientTypeOK
<1>9. ClosedDown(c, st, ch, cb, v, al, as, ra)
  BY <1>1, <1>2, <1>4, <1>5, <1>8, CloseKeeps
<1>10. StopOK(client'.alive, st, v) /\ PendingOK(c, st, v, al, restarting', gaveUp)
  BY <1>9 DEF ClosedDown, StopOK, PendingOK
<1>11. ClientTypeOK' /\ (~functors' => running' = <<>>) /\ (restarting' => ~functors')
  BY <1>1, <1>4, <1>7, <1>9 DEF ClientInv, ClientTypeOK, ClosedDown
<1> QED
  BY <1>1, <1>4, <1>7, <1>9, <1>10, <1>11 DEF ClientInv, ClosedDown

LEMMA RunFunctorKeeps == ASSUME ClientInv, RunFunctor PROVE ClientInv'
<1>1. PICK a, n, c, st, ch, so, cb, w, al, re, as, ra, r, q :
        /\ a = client.alive /\ n = client.connection /\ c = connector.connect /\ st = connector.state
        /\ ch = connector.channel /\ so = socks /\ cb = closeBy /\ w = Work /\ al = alarms
        /\ re = restarting /\ as = asked /\ ra = rash /\ r = running /\ q = queued
  OBVIOUS
<1>2. /\ Core(a, n, c, st, ch, so, cb, w, al, re, as, ra)
      /\ StopOK(a, st, w) /\ PendingOK(c, st, w, al, re, gaveUp)
  BY <1>1 DEF ClientInv
<1>3. r \in Seq(FunctorNames) /\ q \in Seq(FunctorNames) /\ w = r \o q
  BY <1>1 DEF ClientInv, ClientTypeOK, Work
<1>4. /\ functors /\ ~re /\ r # <<>> /\ running' = Tail(r) /\ functors' = functors /\ rash' = ra /\ asked' = as
      /\ ~misuse /\ client \in ClientRecord /\ connector \in ConnectorRecord /\ gaveUp \in BOOLEAN
  BY <1>1 DEF ClientInv, ClientTypeOK, RunFunctor
<1>5. PICK h, t : h = Head(r) /\ t = Tail(w)
  OBVIOUS
<1>6. /\ w # <<>> /\ Head(w) = h /\ t = Tail(r) \o q /\ h \in FunctorNames /\ Tail(r) \in Seq(FunctorNames)
  BY <1>3, <1>4, <1>5, WorkShape
<1>7. \A f : Includes(w, f) <=> Includes(t, f) \/ f = h
  <2>1. w \in Seq(FunctorNames)
    BY <1>2 DEF Core, ValuesOK
  <2>2. TakenOff(w, t)
    BY <1>5, <1>6, <2>1, TakeFacts
  <2> QED
    BY <1>6, <2>2 DEF TakenOff
<1>8. queued' = q => Work' = t
  BY <1>4, <1>6 DEF Work
<1>9. \A f \in FunctorNames : queued' = Append(q, f) => Work' = Append(t, f) /\ queued' \in Seq(FunctorNames)
  BY <1>3, <1>4, <1>6, FunctorQueued DEF Work
<1>10. h \notin {"resetChannel", "connectDestroyed"} => Core(a, n, c, st, ch, so, cb, t, al, re, as, ra)
  BY <1>2, <1>5, <1>6, CoreTake
<1>11. CASE h = "startInLoop"
  <2>1. /\ StartInLoop(connector, al) /\ queued' = q /\ client' = client /\ closeBy' = cb /\ restarting' = re
    BY <1>1, <1>5, <1>11 DEF RunFunctor
  <2>2. Ready(a, n, connector.connect, connector.state, connector.channel, socks, cb, t, al, re, as, ra)
    <3>1. Includes(w, "startInLoop")
      BY <1>7, <1>11
    <3>2. st = "disconnected" /\ ch = 0 /\ ~HasStart(al) /\ "connect" \in as
      BY <1>2, <3>1 DEF Core, StartOK
    <3>3. ~Includes(t, "startInLoop")
      <4>1. w \in Seq(FunctorNames) /\ Once(w, "startInLoop")
        BY <1>2 DEF Core, ValuesOK, StartOK
      <4>2. TakenOff(w, t)
        BY <1>5, <1>6, <4>1, TakeFacts
      <4> QED
        BY <1>6, <1>11, <4>1, <4>2 DEF TakenOff
    <3>4. Core(a, n, c, st, ch, so, cb, t, al, re, as, ra)
      BY <1>10, <1>11
    <3> QED
      BY <1>1, <1>4, <3>2, <3>3, <3>4 DEF Ready
  <2>3. Started(a, n, cb, t, re, as, ra)
    <3>1. st = "disconnected" /\ ch = 0
      BY <1>2, <1>7, <1>11 DEF Core, StartOK
    <3>2. ~misuse'
      BY <1>1, <1>4, <2>1, <3>1, StartSafe
    <3> QED
      BY <1>4, <2>1, <2>2, <3>2, StartKeeps
  <2>4. ClientTypeOK' /\ Work' = t
    BY <1>1, <1>3, <1>4, <1>6, <1>8, <2>1, <2>3 DEF ClientTypeOK, Started
  <2> QED
    BY <1>1, <1>4, <2>1, <2>3, <2>4 DEF ClientInv, Started
<1>12. CASE h = "stopInLoop"
  <2>1. StopInLoop /\ client' = client /\ closeBy' = cb /\ restarting' = re /\ misuse' = misuse /\ gaveUp' = gaveUp
    BY <1>1, <1>5, <1>12 DEF RunFunctor
  <2>2. Core(a, n, c, st, ch, so, cb, t, al, re, as, ra)
    BY <1>10, <1>12
  <2>3. CASE st = "connecting"
    <3>1. queued' = Append(q, "resetChannel") /\ Retry(connector, connector.channel, alarms)
      BY <1>1, <2>1, <2>3 DEF StopInLoop, RemoveAndResetChannel
    <3>2. PICK v : v = Append(t, "resetChannel")
      OBVIOUS
    <3>3. Work' = v /\ queued' \in Seq(FunctorNames)
      BY <1>9, <3>1, <3>2 DEF FunctorNames
    <3>4. /\ Core(a, n, connector'.connect, connector'.state, connector'.channel, socks', cb, v, alarms', re, as, ra)
          /\ connector' \in ConnectorRecord /\ connector'.state = "disconnected"
          /\ connector'.connect => HasStart(alarms')
      BY <1>1, <1>4, <2>2, <2>3, <3>1, <3>2, RetryEnds
    <3>5. StopOK(a, connector'.state, v) /\ PendingOK(connector'.connect, connector'.state, v, alarms', re, gaveUp)
      BY <3>4 DEF StopOK, PendingOK
    <3>6. ClientTypeOK'
      BY <1>4, <1>6, <2>1, <3>3, <3>4 DEF ClientTypeOK
    <3> QED
      BY <1>1, <1>4, <2>1, <3>3, <3>4, <3>5, <3>6 DEF ClientInv
  <2>4. CASE st # "connecting"
    <3>1. queued' = q /\ connector' = connector /\ socks' = so /\ alarms' = al
      BY <1>1, <2>1, <2>4 DEF StopInLoop
    <3>2. StopOK(a, st, t) /\ PendingOK(c, st, t, al, re, gaveUp)
      BY <1>2, <1>7, <1>12, <2>4 DEF StopOK, PendingOK
    <3>3. ClientTypeOK' /\ Work' = t
      BY <1>1, <1>3, <1>4, <1>6, <1>8, <2>1, <3>1 DEF ClientTypeOK
    <3> QED
      BY <1>1, <1>4, <2>1, <2>2, <3>1, <3>2, <3>3 DEF ClientInv
  <2> QED
    BY <2>3, <2>4
<1>13. CASE h = "resetChannel"
  <2>1. /\ connector' = [connector EXCEPT !.channel = 0] /\ queued' = q /\ socks' = so /\ alarms' = al
        /\ client' = client /\ closeBy' = cb /\ restarting' = re /\ misuse' = misuse /\ gaveUp' = gaveUp
    BY <1>1, <1>5, <1>13 DEF RunFunctor
  <2>2. /\ connector' \in ConnectorRecord /\ connector'.connect = c /\ connector'.state = st /\ connector'.channel = 0
    BY <1>1, <1>4, <2>1 DEF ConnectorRecord
  <2>3. Core(a, n, c, st, 0, so, cb, t, al, re, as, ra)
    BY <1>2, <1>5, <1>6, <1>13, CoreReset
  <2>4. StopOK(a, st, t) /\ PendingOK(c, st, t, al, re, gaveUp)
    BY <1>2, <1>7, <1>13 DEF StopOK, PendingOK
  <2>5. ClientTypeOK' /\ Work' = t
    BY <1>1, <1>3, <1>4, <1>6, <1>8, <2>1, <2>2 DEF ClientTypeOK
  <2> QED
    BY <1>1, <1>4, <2>1, <2>2, <2>3, <2>4, <2>5 DEF ClientInv
<1>14. CASE h = "connectDestroyed"
  <2>1. PICK so1, cb1 : so1 = socks' /\ cb1 = closeBy'
    OBVIOUS
  <2>2. PICK s \in Fds : so[s] = "down" /\ Changed(so, so1, s, "closed") /\ Changed(cb, cb1, s, "none")
    BY <1>1, <1>5, <1>14, <2>1 DEF RunFunctor, Changed
  <2>3. /\ connector' = connector /\ queued' = q /\ alarms' = al
        /\ client' = client /\ restarting' = re /\ misuse' = misuse /\ gaveUp' = gaveUp
    BY <1>1, <1>5, <1>14 DEF RunFunctor
  <2>4. Core(a, n, c, st, ch, so1, cb1, t, al, re, as, ra)
    BY <1>2, <1>5, <1>6, <1>14, <2>2, CoreDestroyed
  <2>5. StopOK(a, st, t) /\ PendingOK(c, st, t, al, re, gaveUp)
    BY <1>2, <1>7, <1>14 DEF StopOK, PendingOK
  <2>6. ClientTypeOK' /\ Work' = t
    BY <1>1, <1>3, <1>4, <1>6, <1>8, <2>3 DEF ClientTypeOK
  <2> QED
    BY <1>1, <1>4, <2>1, <2>3, <2>4, <2>5, <2>6 DEF ClientInv
<1>15. CASE h = "forceCloseInLoop"
  <2>1. connector' = connector /\ alarms' = al /\ closeBy' = cb /\ gaveUp' = gaveUp
    BY <1>1, <1>5, <1>15 DEF RunFunctor
  <2>2. Core(a, n, c, st, ch, so, cb, t, al, re, as, ra)
    BY <1>10, <1>15
  <2>3. ASSUME NEW s \in Fds, cb[s] = "detail", so[s] = "up", CloseConnection(s) PROVE ClientInv'
    <3>1. PICK v : v = Append(t, "connectDestroyed")
      OBVIOUS
    <3>2. queued' = Append(q, "connectDestroyed") /\ restarting' = re
      BY <1>1, <2>3 DEF CloseConnection
    <3>3. Work' = v /\ queued' \in Seq(FunctorNames)
      BY <1>9, <3>1, <3>2 DEF FunctorNames
    <3>4. ch # s
      BY <1>2, <2>3, DelayAssumption DEF Core, SocksOK
    <3>5. ClosedDown(c, st, ch, cb, v, al, as, ra)
      BY <1>1, <1>4, <2>2, <2>3, <3>1, <3>4, CloseKeeps
    <3>6. StopOK(client'.alive, st, v) /\ PendingOK(c, st, v, al, restarting', gaveUp)
      BY <3>5 DEF ClosedDown, StopOK, PendingOK
    <3>7. ClientTypeOK'
      BY <1>4, <1>6, <2>1, <3>3, <3>5 DEF ClientTypeOK, ClosedDown
    <3> QED
      BY <1>1, <1>4, <2>1, <3>2, <3>3, <3>5, <3>6, <3>7 DEF ClientInv, ClosedDown
  <2>4. CASE queued' = q /\ socks' = so /\ client' = client /\ restarting' = re /\ misuse' = misuse
    <3>1. StopOK(a, st, t) /\ PendingOK(c, st, t, al, re, gaveUp)
      BY <1>2, <1>7, <1>15 DEF StopOK, PendingOK
    <3>2. ClientTypeOK' /\ Work' = t
      BY <1>1, <1>3, <1>4, <1>6, <1>8, <2>1, <2>4 DEF ClientTypeOK
    <3> QED
      BY <1>1, <1>4, <2>1, <2>2, <2>4, <3>1, <3>2 DEF ClientInv
  <2> QED
    BY <1>1, <1>5, <1>15, <2>3, <2>4 DEF RunFunctor
<1> QED
  BY <1>6, <1>11, <1>12, <1>13, <1>14, <1>15 DEF FunctorNames

LEMMA ClientInitInv == ClientInit => ClientInv /\ ~dangling
<1> SUFFICES ASSUME ClientInit PROVE ClientInv /\ ~dangling
  OBVIOUS
<1>1. /\ client \in ClientRecord /\ client.alive = TRUE /\ client.connection = 0
  BY DEF ClientInit, ClientRecord
<1>2. /\ connector \in ConnectorRecord /\ connector.connect = FALSE /\ connector.state = "disconnected"
      /\ connector.channel = 0
  BY DelayAssumption DEF ClientInit, ConnectorRecord
<1>3. <<>> \in Seq(FunctorNames) /\ Len(<<>>) = 0
  OBVIOUS
<1>4. Work = <<>>
  BY <1>3, ConcatEmptySeq DEF ClientInit, Work
<1>5. \A f : ~Includes(<<>>, f) /\ Once(<<>>, f)
  BY <1>3 DEF Includes, Once
<1>6. PICK so, cb, al : so = socks /\ cb = closeBy /\ al = alarms
  OBVIOUS
<1>7. /\ so \in [Fds -> {"closed", "connecting", "up", "down"}] /\ cb \in [Fds -> {"none", "client", "detail"}]
      /\ \A s \in Fds : so[s] = "closed"
  BY <1>6 DEF ClientInit
<1>8. al \in AlarmRecord /\ ~HasStart(al) /\ OneStart(al) /\ ~al.keep
  <2>1. al = [start |-> 0, keep |-> FALSE]
    BY <1>6 DEF ClientInit
  <2> QED
    BY <2>1 DEF AlarmRecord, HasStart, OneStart
<1>9. ValuesOK(TRUE, 0, FALSE, "disconnected", 0, so, cb, <<>>, al, FALSE, {}, {})
  BY <1>3, <1>7, <1>8 DEF ValuesOK
<1>10. ChannelOK("disconnected", 0, <<>>) /\ SocksOK(TRUE, 0, "disconnected", 0, so, cb) /\ DownOK(so, <<>>)
  BY <1>5, <1>7 DEF ChannelOK, SocksOK, DownOK
<1>11. StartOK(TRUE, 0, "disconnected", 0, <<>>, al, FALSE, {}) /\ GoneOK(TRUE, FALSE, "disconnected", 0, <<>>, al, {})
  BY <1>5, <1>8 DEF StartOK, GoneOK
<1>12. Core(TRUE, 0, FALSE, "disconnected", 0, so, cb, <<>>, al, FALSE, {}, {})
  BY <1>9, <1>10, <1>11 DEF Core
<1>13. StopOK(TRUE, "disconnected", <<>>) /\ PendingOK(FALSE, "disconnected", <<>>, al, FALSE, FALSE)
  BY DEF StopOK, PendingOK
<1>14. /\ restarting = FALSE /\ asked = {} /\ gaveUp = FALSE /\ misuse = FALSE /\ functors = FALSE
       /\ queued = <<>> /\ running = <<>> /\ rash = {} /\ dangling = FALSE
  BY DEF ClientInit
<1>15. ClientTypeOK
  BY <1>1, <1>2, <1>3, <1>14 DEF ClientTypeOK
<1> QED
  BY <1>1, <1>2, <1>4, <1>6, <1>12, <1>13, <1>14, <1>15 DEF ClientInv

(* A connector that is used after its end, or ends in use, was left by a   *)
(* rash order.                                                             *)
LEMMA DanglingIsRash ==
  ASSUME ClientInv, ~dangling, ClientNext, dangling' PROVE rash' # {}
<1>1. CASE DestroyClient
  <2>1. connector'.channel = connector.channel /\ ~ConnectorAlive' /\ connector.channel # 0
    BY <1>1 DEF DestroyClient, Release, ClientInv, ClientTypeOK, ConnectorRecord
  <2>2. CASE client.connection # 0
    BY <1>1, <2>1, <2>2 DEF DestroyClient, Rash, ConnectorInUse
  <2>3. CASE client.connection = 0
    <3>1. alarms' = [alarms EXCEPT !.keep = TRUE]
      BY <1>1, <2>3 DEF DestroyClient, KeepConnector
    <3>2. alarms \in AlarmRecord
      BY DEF ClientInv, Core, ValuesOK
    <3>3. alarms'.keep
      BY <3>1, <3>2 DEF AlarmRecord
    <3> QED
      BY <2>1, <3>3 DEF ConnectorAlive
  <2> QED
    BY <2>2, <2>3
<1>2. CASE AlarmExpires
  <2>1. ~ConnectorAlive' /\ connector'.channel # 0 /\ client' = client
    BY <1>2 DEF AlarmExpires, Release
  <2>2. ~client.alive
    BY <2>1 DEF ConnectorAlive
  <2>3. connector' = connector
    <3>1. CASE alarms.start > 0 /\ StartInLoop(connector, [alarms EXCEPT !.start = @ - 1])
      <4>1. connector.state = "disconnected"
        BY <3>1 DEF ClientInv, Core, StartOK, HasStart
      <4>2. ~connector.connect
        BY <2>2, <4>1 DEF ClientInv, Core, GoneOK
      <4> QED
        BY <3>1, <4>2 DEF StartInLoop
    <3> QED
      BY <1>2, <3>1 DEF AlarmExpires
  <2> QED
    BY <1>2, <2>1, <2>3 DEF AlarmExpires, Rash, ConnectorInUse
<1>3. CASE RunFunctor
  <2>1. Head(running) \in RawFunctors /\ ~ConnectorAlive /\ rash' = rash /\ running # <<>>
    BY <1>3 DEF RunFunctor
  <2>2. running \in Seq(FunctorNames) /\ queued \in Seq(FunctorNames)
    BY DEF ClientInv, ClientTypeOK
  <2>3. Work # <<>> /\ Head(Work) = Head(running) /\ Work \in Seq(FunctorNames)
    BY <2>1, <2>2, WorkShape DEF Work
  <2>4. TakenOff(Work, Tail(Work))
    BY <2>3, TakeFacts
  <2>5. Includes(Work, Head(running))
    BY <2>3, <2>4 DEF TakenOff
  <2>6. ~Quiet(connector.channel, Work)
    BY <2>1, <2>5 DEF Quiet
  <2> QED
    BY <2>1, <2>6 DEF ClientInv, Core, GoneOK, ConnectorAlive, HasStart
<1>4. CASE dangling' = dangling
  BY <1>4
<1> QED
  BY <1>1, <1>2, <1>3, <1>4 DEF ClientNext, ClientConnect, ClientStop, ClientDisconnect, HandleWrite, HandleError,
     PeerCloses, Restart, TakeFunctors, EndFunctors

(* The process goes on with the invariant, or it has aborted. *)
ClientOrAborted == \/ ClientInv /\ (dangling => rash # {})
                   \/ (misuse \/ dangling) /\ ClientSound

LEMMA ClientStepKeeps ==
  ASSUME ClientInv, ClientNext PROVE ClientInv' \/ ((misuse' \/ dangling') /\ ClientSound')
<1>1. ~dangling
  BY DEF ClientNext
<1> QED
  BY <1>1, ClientConnectKeeps, ClientStopKeeps, ClientDisconnectKeeps, DestroyClientKeeps, HandleWriteKeeps,
     HandleErrorKeeps, PeerClosesKeeps, RestartKeeps, AlarmExpiresKeeps, TakeFunctorsKeeps, RunFunctorKeeps,
     EndFunctorsKeeps DEF ClientNext

LEMMA ClientOrAbortedKeeps ==
  ASSUME ClientOrAborted, [ClientNext]_clientVars PROVE ClientOrAborted'
<1>1. CASE UNCHANGED clientVars
  <2>1. ClientInv => ClientInv'
    BY <1>1 DEF ClientInv, ClientTypeOK, clientVars, loopVars, Work
  <2>2. ClientSound => ClientSound'
    <3>1. \A f : (Waiting(f))' <=> Waiting(f)
      BY <1>1 DEF clientVars, loopVars, Waiting, ToSet
    <3>2. NoClientMisuse => NoClientMisuse'
      BY <1>1 DEF clientVars, NoClientMisuse
    <3>3. ConnectorOutlivesUse => ConnectorOutlivesUse'
      BY <1>1, <3>1 DEF clientVars, ConnectorOutlivesUse, ConnectorAlive, ConnectorInUse
    <3>4. SocketsAccounted => SocketsAccounted'
      BY <1>1, <3>1 DEF clientVars, SocketsAccounted
    <3>5. AttemptPending => AttemptPending'
      BY <1>1, <3>1 DEF clientVars, AttemptPending
    <3> QED
      BY <3>2, <3>3, <3>4, <3>5 DEF ClientSound
  <2>3. misuse' = misuse /\ dangling' = dangling /\ rash' = rash
    BY <1>1 DEF clientVars
  <2> QED
    BY <2>1, <2>2, <2>3 DEF ClientOrAborted
<1>2. CASE ClientNext
  <2>1. ClientInv /\ ~dangling
    BY <1>2 DEF ClientOrAborted, ClientNext
  <2> QED
    BY <1>2, <2>1, ClientStepKeeps, DanglingIsRash DEF ClientOrAborted
<1> QED
  BY <1>1, <1>2

(* Connects, stops, retries, timers, closes and the destructor come in any *)
(* order.  No assertion of TcpClient and Connector fails before a timer    *)
(* overtakes a functor of the connector; no functor holds the address of a *)
(* connector that is gone before such a timer or the destructor of a       *)
(* connected client while such a functor is queued.  In every order, up to *)
(* the abort, each socket has one owner and a client that wants its        *)
(* connection has something to wait for.                                   *)
THEOREM ClientIsSound == ClientSpec => []ClientSound
<1>1. ClientInit => ClientOrAborted
  BY ClientInitInv DEF ClientOrAborted
<1>2. ClientOrAborted /\ [ClientNext]_clientVars => ClientOrAborted'
  BY ClientOrAbortedKeeps
<1>3. ClientOrAborted => ClientSound
  BY ClientInvSound DEF ClientOrAborted
<1> QED
  BY <1>1, <1>2, <1>3, PTL DEF ClientSpec

(* After stop() only a restart that was already due makes an attempt. *)
NoAttempt == /\ connector'.state = "connecting" => connector.state = "connecting"
             /\ client'.connection = 0 \/ client'.connection = client.connection

LEMMA StartNoAttempt ==
  ASSUME NEW k \in ConnectorRecord, NEW al, ~k.connect, StartInLoop(k, al) PROVE connector' = k
BY DEF StartInLoop

LEMMA StoppedStep ==
  ASSUME ClientInv, ClientNext, ~connector.connect, "connect" \in asked, ~restarting
  PROVE  NoAttempt
<1>1. client \in ClientRecord /\ connector \in ConnectorRecord
  BY DEF ClientInv, ClientTypeOK
<1>2. CASE ClientConnect
  BY <1>2 DEF ClientConnect
<1>3. CASE ClientStop
  BY <1>1, <1>3 DEF ClientStop, NoAttempt, ClientRecord, ConnectorRecord
<1>4. CASE ClientDisconnect
  BY <1>1, <1>4 DEF ClientDisconnect, NoAttempt, ClientRecord
<1>5. CASE DestroyClient
  <2>1. client'.connection = 0
    BY <1>1, <1>5 DEF DestroyClient, ClientRecord
  <2>2. connector'.state = connector.state
    BY <1>1, <1>5 DEF DestroyClient, ConnectorRecord
  <2> QED
    BY <2>1, <2>2 DEF NoAttempt
<1>6. CASE HandleWrite
  BY <1>1, <1>6 DEF HandleWrite, NewConnection, NoAttempt
<1>7. CASE HandleError
  BY <1>1, <1>7 DEF HandleError, NoAttempt
<1>8. CASE PeerCloses
  <2>1. client'.connection = 0 \/ client' = client
    BY <1>1, <1>8 DEF PeerCloses, CloseConnection, ClientRecord
  <2> QED
    BY <1>8, <2>1 DEF PeerCloses, NoAttempt
<1>9. CASE Restart
  BY <1>9 DEF Restart
<1>10. CASE AlarmExpires
  <2>1. client' = client /\ (connector' = connector \/ StartInLoop(connector, [alarms EXCEPT !.start = @ - 1]))
    BY <1>10 DEF AlarmExpires
  <2>2. connector' = connector
    BY <1>1, <2>1, StartNoAttempt
  <2> QED
    BY <2>1, <2>2 DEF NoAttempt
<1>11. CASE TakeFunctors
  BY <1>11 DEF TakeFunctors, NoAttempt
<1>12. CASE RunFunctor
  <2>1. \/ StartInLoop(connector, alarms) /\ client' = client
        \/ StopInLoop /\ client' = client
        \/ connector' = [connector EXCEPT !.channel = 0] /\ client' = client
        \/ connector' = connector /\ client' = client
        \/ connector' = connector /\ \E s \in Fds : CloseConnection(s)
    BY <1>12 DEF RunFunctor
  <2>2. CASE StartInLoop(connector, alarms) /\ client' = client
    BY <1>1, <2>2, StartNoAttempt DEF NoAttempt
  <2>3. CASE StopInLoop /\ client' = client
    BY <2>3 DEF StopInLoop, NoAttempt
  <2>4. CASE connector' = [connector EXCEPT !.channel = 0] /\ client' = client
    BY <1>1, <2>4 DEF NoAttempt, ConnectorRecord
  <2>5. CASE connector' = connector /\ \E s \in Fds : CloseConnection(s)
    <3>1. client'.connection = 0 \/ client' = client
      BY <1>1, <2>5 DEF CloseConnection, ClientRecord
    <3> QED
      BY <2>5, <3>1 DEF NoAttempt
  <2> QED
    BY <2>1, <2>2, <2>3, <2>4, <2>5 DEF NoAttempt
<1>13. CASE EndFunctors
  BY <1>13 DEF EndFunctors, NoAttempt
<1> QED
  BY <1>2, <1>3, <1>4, <1>5, <1>6, <1>7, <1>8, <1>9, <1>10, <1>11, <1>12, <1>13 DEF ClientNext

(* stop() holds: while connect_ of the connector is clear no connect() is  *)
(* made and no connection handed over, unless removeConnection() was       *)
(* already on its way to restart().                                        *)
THEOREM StopIsKept == ClientSpec => StopHolds
<1>1. ClientInit => ClientOrAborted
  BY ClientInitInv DEF ClientOrAborted
<1>2. ClientOrAborted /\ [ClientNext]_clientVars => ClientOrAborted'
  BY ClientOrAbortedKeeps
<1>3. ClientOrAborted /\ [ClientNext]_clientVars
        => [~connector.connect /\ "connect" \in asked /\ ~restarting
              => /\ connector'.state = "connecting" => connector.state = "connecting"
                 /\ client'.connection = 0 \/ client'.connection = client.connection]_clientVars
  <2>1. ClientOrAborted /\ ClientNext => ClientInv
    BY DEF ClientOrAborted, ClientNext
  <2> QED
    BY <2>1, StoppedStep DEF NoAttempt
<1> QED
  BY <1>1, <1>2, <1>3, PTL DEF ClientSpec, StopHolds
=============================================================================
