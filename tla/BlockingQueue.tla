--------------------------- MODULE BlockingQueue ---------------------------
(***************************************************************************)
(* muduo::BlockingQueue and muduo::BoundedBlockingQueue: a deque under one *)
(* mutex with the condition notEmpty_ and, when bounded, notFull_.         *)
(*                                                                         *)
(* A critical section without a wait is one step.  A thread that finds the *)
(* condition false goes to sleep, which releases the mutex; a notify moves *)
(* one sleeper, any of them, back to the mutex, and so may nothing at all  *)
(* (a spurious wakeup).  A capacity of 0 is the unbounded queue.           *)
(***************************************************************************)
EXTENDS Integers, Sequences, FiniteSets, Condition

CONSTANTS Producers, Consumers,
          Capacities,  \* bound: sizes of circular_buffer; 0: BlockingQueue
          Puts         \* bound: how many values each producer puts

ASSUME CapacityAssumption == Capacities \subseteq Nat
ASSUME ThreadsAssumption == IsFiniteSet(Producers) /\ IsFiniteSet(Consumers)

VARIABLES capacity,  \* fixed by the constructor
          ppc,    \* producers: idle, lock (inside put, awake), notFull
          cpc,    \* consumers: idle, lock (inside take, awake), notEmpty
          items,  \* queue_
          made,   \* history: values each producer has put
          taken   \* history: the values taken, in the order of the takes

queueVars == <<capacity, ppc, cpc, items, made, taken>>

QueueInit == /\ capacity \in Capacities
             /\ ppc = [p \in Producers |-> "idle"]
             /\ cpc = [c \in Consumers |-> "idle"]
             /\ items = <<>>
             /\ made = [p \in Producers |-> 0]
             /\ taken = <<>>

Full == capacity > 0 /\ Len(items) >= capacity

ProducerCalls(p) == /\ ppc[p] = "idle"
                    /\ made[p] < Puts
                    /\ ppc' = [ppc EXCEPT ![p] = "lock"]
                    /\ UNCHANGED <<capacity, cpc, items, made, taken>>

ProducerWaits(p) == /\ ppc[p] = "lock"
                    /\ Full
                    /\ ppc' = [ppc EXCEPT ![p] = "notFull"]
                    /\ UNCHANGED <<capacity, cpc, items, made, taken>>

ProducerPuts(p) == /\ ppc[p] = "lock"
                   /\ ~Full
                   /\ items' = Append(items, <<p, made[p]>>)
                   /\ made' = [made EXCEPT ![p] = @ + 1]
                   /\ ppc' = [ppc EXCEPT ![p] = "idle"]
                   /\ cpc' \in Notify(cpc, "notEmpty", "lock")
                   /\ UNCHANGED <<capacity, taken>>

ConsumerCalls(c) == /\ cpc[c] = "idle"
                    /\ cpc' = [cpc EXCEPT ![c] = "lock"]
                    /\ UNCHANGED <<capacity, ppc, items, made, taken>>

ConsumerWaits(c) == /\ cpc[c] = "lock"
                    /\ items = <<>>
                    /\ cpc' = [cpc EXCEPT ![c] = "notEmpty"]
                    /\ UNCHANGED <<capacity, ppc, items, made, taken>>

(* Mutant: take() does not tell the producers that a place is free. *)
ConsumerTakesNoNotify(c) == /\ cpc[c] = "lock"
                            /\ items # <<>>
                            /\ taken' = Append(taken, Head(items))
                            /\ items' = Tail(items)
                            /\ cpc' = [cpc EXCEPT ![c] = "idle"]
                            /\ UNCHANGED <<capacity, ppc, made>>

(* BlockingQueue has no notFull_: nobody sleeps on it. *)
ConsumerTakes(c) == /\ cpc[c] = "lock"
                    /\ items # <<>>
                    /\ taken' = Append(taken, Head(items))
                    /\ items' = Tail(items)
                    /\ cpc' = [cpc EXCEPT ![c] = "idle"]
                    /\ ppc' \in Notify(ppc, "notFull", "lock")
                    /\ UNCHANGED <<capacity, made>>

(* drain() of BlockingQueue: everything at once. *)
Drain(c) == /\ capacity = 0
            /\ cpc[c] = "idle"
            /\ items # <<>>
            /\ taken' = taken \o items
            /\ items' = <<>>
            /\ UNCHANGED <<capacity, ppc, cpc, made>>

SpuriousQueueWakeup == /\ \/ cpc' \in Spurious(cpc, "notEmpty", "lock") /\ UNCHANGED ppc
                          \/ ppc' \in Spurious(ppc, "notFull", "lock") /\ UNCHANGED cpc
                       /\ UNCHANGED <<capacity, items, made, taken>>

ProducerStep(p) == ProducerWaits(p) \/ ProducerPuts(p)
ConsumerStep(c) == ConsumerWaits(c) \/ ConsumerTakes(c)

QueueNext == \/ \E p \in Producers : ProducerCalls(p) \/ ProducerStep(p)
             \/ \E c \in Consumers : ConsumerCalls(c) \/ ConsumerStep(c) \/ Drain(c)
             \/ SpuriousQueueWakeup

QueueSpec == QueueInit /\ [][QueueNext]_queueVars

-----------------------------------------------------------------------------
(* One notify per put is enough: while a consumer sleeps, every value in   *)
(* queue_ has a consumer of its own that is awake and about to take.       *)
ValuesHaveTakers ==
  At(cpc, "notEmpty") # {} => Len(items) <= Cardinality(At(cpc, "lock"))

(* One notify per take is enough: while a producer sleeps in put(), every  *)
(* free place has a producer of its own that is awake and about to put.    *)
PlacesHavePutters ==
  At(ppc, "notFull") # {} => capacity - Len(items) <= Cardinality(At(ppc, "lock"))

Passed == taken \o items

(* What the consumers have taken and what is queued is everything that was *)
(* put, once each, and in the order of each producer.                      *)
NothingLostOrReordered ==
  /\ \A p \in Producers : \A n \in 0..made[p] - 1 :
       \E i \in 1..Len(Passed) : Passed[i] = <<p, n>>
  /\ \A i \in 1..Len(Passed) : /\ Passed[i][1] \in Producers
                               /\ Passed[i][2] \in 0..made[Passed[i][1]] - 1
  /\ \A i, j \in 1..Len(Passed) :
       i < j /\ Passed[i][1] = Passed[j][1] => Passed[i][2] < Passed[j][2]

(* One notify per put and per take is enough on both conditions, with      *)
(* spurious wakeups and threads that overtake the one notified, and values *)
(* pass once and in order.                                                 *)
QueueSound == ValuesHaveTakers /\ PlacesHavePutters /\ NothingLostOrReordered
=============================================================================
