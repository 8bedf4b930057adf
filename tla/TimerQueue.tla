----------------------------- MODULE TimerQueue -----------------------------
(***************************************************************************)
(* muduo::net::TimerQueue in its loop: timers_ ordered by expiration,      *)
(* activeTimers_ ordered by address, one timerfd armed for the earliest.   *)
(* A TimerId is the address of a Timer with its sequence number; addresses *)
(* are used again after delete.                                            *)
(*                                                                         *)
(* addTimer() and cancel() in the loop thread are direct calls, from a     *)
(* timer's callback too; in another thread they become functors, so that a *)
(* TimerId is known before its timer is in the queue.  The loop dispatches *)
(* the timerfd and then runs the functors.                                 *)
(***************************************************************************)
EXTENDS Integers, Sequences, FiniteSets, SequencesExt

CONSTANTS Addrs,      \* bound: addresses of Timer objects, as numbers
          MaxTimers,  \* bound: timers ever created
          MaxCalls,   \* bound: functors waiting
          MaxNow      \* bound: the clock

ASSUME TimerAssumption == Addrs \subseteq Nat /\ MaxTimers \in Nat /\ MaxNow \in Nat

VARIABLES clock,     \* Timestamp::now()
          heap,      \* the Timer at each address, or NoTimer
          timers,    \* timers_: pairs of expiration and address
          active,    \* activeTimers_: pairs of address and sequence
          calling,   \* callingExpiredTimers_
          canceling, \* cancelingTimers_
          expired,   \* the local vector of handleRead(), rest of it
          batch,     \* all of that vector
          readTime,  \* its `now`
          armed,     \* when the timerfd expires; Never when disarmed
          calls,     \* functors of other threads: addTimerInLoop, cancelInLoop
          ids,       \* history: the TimerIds handed out, pairs of address and sequence
          ran,       \* history: how often each timer ran
          canceled   \* history: cancelInLoop() came while it was queued or running

NoTimer == [seq |-> 0, expiration |-> 0, interval |-> 0]
Never == MaxNow + 2
Seqs == 1..MaxTimers

(* Timer::s_numCreated_, the sequence number of the latest Timer *)
NumCreated == Cardinality(ids)

queueVars == <<timers, active, heap, armed>>
readVars == <<calling, canceling, expired, batch, readTime>>
timerHistory == <<ran, canceled>>
timerVars == <<clock, queueVars, readVars, calls, ids, timerHistory>>

TimerInit == /\ clock = 1
             /\ heap = [a \in Addrs |-> NoTimer]
             /\ timers = {} /\ active = {}
             /\ calling = FALSE /\ canceling = {}
             /\ expired = <<>> /\ batch = <<>> /\ readTime = 0
             /\ armed = Never
             /\ calls = <<>>
             /\ ids = {}
             /\ ran = [s \in Seqs |-> 0]
             /\ canceled = {}

Earliest(list) == CHOOSE t \in list : \A u \in list : t[1] <= u[1]

(* resetTimerfd(): an expiration that has passed is armed 100us ahead, for *)
(* arming it with zero would disarm it.                                    *)
ArmFor(when) == IF when > clock THEN when ELSE clock

(* insert(): in both sets; tells whether the earliest changed. *)
EarliestChanged(list, when) == list = {} \/ when < Earliest(list)[1]

-----------------------------------------------------------------------------
(* The calls. *)

AddTimerInLoop(a, when, interval, seq) ==
  /\ heap' = [heap EXCEPT ![a] = [seq |-> seq, expiration |-> when, interval |-> interval]]
  /\ timers' = timers \cup {<<when, a>>}
  /\ active' = active \cup {<<a, seq>>}
  /\ armed' = IF EarliestChanged(timers, when) THEN ArmFor(when) ELSE armed

(* Mutant: a timer is found by its address alone. *)
CancelInLoopByAddress(a, seq) ==
  /\ IF \E t \in active : t[1] = a
     THEN /\ timers' = {t \in timers : t[2] # a}
          /\ active' = {t \in active : t[1] # a}
          /\ heap' = [heap EXCEPT ![a] = NoTimer]
          /\ UNCHANGED canceling
     ELSE /\ canceling' = IF calling THEN canceling \cup {<<a, seq>>} ELSE canceling
          /\ UNCHANGED <<timers, active, heap>>
  /\ canceled' = IF <<a, seq>> \in active \/ calling THEN canceled \cup {seq} ELSE canceled

(* Mutant: a timer that is running cannot be cancelled. *)
CancelInLoopNotRunning(a, seq) ==
  /\ IF <<a, seq>> \in active
     THEN /\ timers' = timers \ {<<heap[a].expiration, a>>}
          /\ active' = active \ {<<a, seq>>}
          /\ heap' = [heap EXCEPT ![a] = NoTimer]
     ELSE UNCHANGED <<timers, active, heap>>
  /\ canceled' = IF <<a, seq>> \in active \/ calling THEN canceled \cup {seq} ELSE canceled
  /\ UNCHANGED canceling

(* cancelInLoop(): a queued timer is deleted, a running one is remembered. *)
(* The timerfd stays as it is.                                             *)
CancelInLoop(a, seq) ==
  /\ IF <<a, seq>> \in active
     THEN /\ timers' = timers \ {<<heap[a].expiration, a>>}
          /\ active' = active \ {<<a, seq>>}
          /\ heap' = [heap EXCEPT ![a] = NoTimer]
          /\ UNCHANGED canceling
     ELSE /\ canceling' = IF calling THEN canceling \cup {<<a, seq>>} ELSE canceling
          /\ UNCHANGED <<timers, active, heap>>
  /\ canceled' = IF <<a, seq>> \in active \/ (calling /\ heap[a].seq = seq)
                 THEN canceled \cup {seq} ELSE canceled

(* A Timer is allocated at a free address, not one a functor still holds. *)
Allocatable(a) == heap[a] = NoTimer /\ \A i \in 1..Len(calls) : calls[i].op = "add" => calls[i].addr # a

(* addTimer() in the loop thread: runAt(), runAfter(), runEvery(). *)
AddTimer(a, when, interval) ==
  /\ NumCreated < MaxTimers
  /\ Allocatable(a)
  /\ ids' = ids \cup {<<a, NumCreated + 1>>}
  /\ AddTimerInLoop(a, when, interval, NumCreated + 1)
  /\ UNCHANGED <<clock, readVars, calls, timerHistory>>

(* addTimer() in another thread. *)
AddTimerFromThread(a, when, interval) ==
  /\ NumCreated < MaxTimers /\ Len(calls) < MaxCalls
  /\ Allocatable(a)
  /\ ids' = ids \cup {<<a, NumCreated + 1>>}
  /\ calls' = Append(calls, [op |-> "add", addr |-> a, seq |-> NumCreated + 1,
                             when |-> when, interval |-> interval])
  /\ UNCHANGED <<clock, timers, active, heap, armed, readVars, timerHistory>>

Cancel(a, seq) ==
  /\ <<a, seq>> \in ids
  /\ CancelInLoop(a, seq)
  /\ UNCHANGED <<clock, armed, ids, calling, expired, batch, readTime, calls, ran>>

CancelFromThread(a, seq) ==
  /\ <<a, seq>> \in ids /\ Len(calls) < MaxCalls
  /\ calls' = Append(calls, [op |-> "cancel", addr |-> a, seq |-> seq, when |-> 0, interval |-> 0])
  /\ UNCHANGED <<clock, queueVars, readVars, ids, timerHistory>>

(* doPendingFunctors() *)
RunCall ==
  /\ ~calling
  /\ calls # <<>>
  /\ LET c == Head(calls)
     IN  \/ /\ c.op = "add"
            /\ AddTimerInLoop(c.addr, c.when, c.interval, c.seq)
            /\ UNCHANGED <<canceling, canceled>>
         \/ /\ c.op = "cancel"
            /\ CancelInLoop(c.addr, c.seq)
            /\ UNCHANGED armed
  /\ calls' = Tail(calls)
  /\ UNCHANGED <<clock, ids, calling, expired, batch, readTime, ran>>

-----------------------------------------------------------------------------
(* handleRead() *)

(* The order of a set of Entry: by expiration, then by address *)
Before(t, u) == t[1] < u[1] \/ (t[1] = u[1] /\ t[2] < u[2])
Ordered(list, s) == /\ ToSet(s) = list
                    /\ \A i, j \in DOMAIN s : i < j => Before(s[i], s[j])

(* lower_bound of <<now, the largest address>> *)
Due(now) == {t \in timers : t[1] <= now}

(* The timerfd is readable: getExpired() takes everything that is due. *)
HandleTimerfd ==
  /\ ~calling
  /\ armed <= clock
  /\ armed' = Never
  /\ readTime' = clock
  /\ \E s \in [1..Cardinality(Due(clock)) -> Due(clock)] :
       Ordered(Due(clock), s) /\ expired' = s /\ batch' = s
  /\ timers' = timers \ Due(clock)
  /\ active' = {t \in active : \A d \in Due(clock) : t[1] # d[2]}
  /\ calling' = TRUE
  /\ canceling' = {}
  /\ UNCHANGED <<clock, heap, ids, calls, timerHistory>>

(* it.second->run(): the callback; calls made in it come after this step. *)
RunTimer ==
  /\ calling
  /\ expired # <<>>
  /\ ran' = [ran EXCEPT ![heap[Head(expired)[2]].seq] = @ + 1]
  /\ expired' = Tail(expired)
  /\ UNCHANGED <<clock, queueVars, ids, calling, canceling, batch, readTime, calls, canceled>>

Again(t) == heap[t[2]].interval > 0 /\ <<t[2], heap[t[2]].seq>> \notin canceling
Restarted == {t \in ToSet(batch) : Again(t)}

(* reset(): repeating timers that were not cancelled go back, the others   *)
(* are deleted, and the timerfd is armed for the earliest of all.          *)
Reset ==
  /\ calling /\ expired = <<>>
  /\ heap' = [a \in Addrs |->
                IF \E t \in Restarted : t[2] = a THEN [heap[a] EXCEPT !.expiration = readTime + heap[a].interval]
                ELSE IF \E t \in ToSet(batch) : t[2] = a THEN NoTimer ELSE heap[a]]
  /\ timers' = timers \cup {<<heap'[t[2]].expiration, t[2]>> : t \in Restarted}
  /\ active' = active \cup {<<t[2], heap[t[2]].seq>> : t \in Restarted}
  /\ armed' = IF timers' = {} THEN armed ELSE ArmFor(Earliest(timers')[1])
  /\ calling' = FALSE
  /\ batch' = <<>>
  /\ UNCHANGED <<clock, ids, canceling, expired, readTime, calls, timerHistory>>

TimerTick == /\ clock < MaxNow
             /\ clock' = clock + 1
             /\ UNCHANGED <<queueVars, readVars, calls, ids, timerHistory>>

TimerNext ==
  \/ RunCall \/ HandleTimerfd \/ RunTimer \/ Reset \/ TimerTick
  \/ \E a \in Addrs, when \in clock..MaxNow, interval \in {0, 1} :
       AddTimer(a, when, interval) \/ AddTimerFromThread(a, when, interval)
  \/ \E a \in Addrs, seq \in Seqs : Cancel(a, seq) \/ CancelFromThread(a, seq)

TimerSpec == TimerInit /\ [][TimerNext]_timerVars

-----------------------------------------------------------------------------
(* The two sets hold the same timers, all of them alive: what the          *)
(* assertions on their sizes stand for, across deletes and reused          *)
(* addresses.                                                              *)
SetsAgree ==
  /\ active = {<<t[2], heap[t[2]].seq>> : t \in timers}
  /\ \A t \in timers : heap[t[2]] # NoTimer /\ heap[t[2]].expiration = t[1]
  /\ \A i \in 1..Len(batch) : heap[batch[i][2]] # NoTimer

(* The timerfd never sleeps past a timer: outside handleRead() it expires  *)
(* no later than the earliest timer does, or at once when that time has    *)
(* passed already.                                                         *)
TimerfdCovers == ~calling /\ timers # {} => armed <= Earliest(timers)[1] \/ armed <= clock

(* A cancelled timer is not in the queue again.  It may still run once     *)
(* when it is in the batch that is being run.                              *)
CanceledStaysOut == \A s \in canceled : \A t \in active : t[2] # s

(* timers_ and activeTimers_ hold the same live timers, the timerfd never  *)
(* sleeps past the earliest, and a timer cancelled from any callback or    *)
(* thread does not come back, while addresses are used again.              *)
TimersSound == SetsAgree /\ TimerfdCovers /\ CanceledStaysOut

(* cancel() of one timer never removes another, whatever addresses are     *)
(* used again: a timer leaves the queue only by expiring, or by a cancel   *)
(* of its own sequence number.                                             *)
CancelIsExact ==
  [][\A t \in active : t \notin active' => t[2] \in canceled' \/ (calling' /\ readTime' >= heap[t[1]].expiration)]_timerVars

(* No timer runs before its time, and one that does not repeat runs once.  *)
RunsOnTime ==
  [][\A s \in Seqs : ran'[s] > ran[s] =>
       \E a \in Addrs : /\ heap[a].seq = s
                        /\ heap[a].expiration <= clock
                        /\ heap[a].interval = 0 => ran[s] = 0]_timerVars

(* cancel() hits the timer it names and no other at the same address, and  *)
(* none runs early or, without an interval, twice.                         *)
TimersExact == CancelIsExact /\ RunsOnTime

(* A timer in the queue runs or is cancelled, when its time comes. *)
TimersRun == \A s \in Seqs : (\E t \in active : t[2] = s /\ heap[t[1]].expiration <= MaxNow /\ ran[s] = 0)
                              ~> ran[s] > 0 \/ s \in canceled
=============================================================================
