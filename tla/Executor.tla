------------------------------ MODULE Executor ------------------------------
(***************************************************************************)
(* What muduo::net::EventLoop promises the callers of queueInLoop(): a     *)
(* single FIFO of functors, each of which is run by the loop, one at a     *)
(* time, in the order in which it was queued, and exactly once.  There is  *)
(* no mutex, no batch and no eventfd here; EventLoop implements this       *)
(* module with all three.                                                  *)
(***************************************************************************)
EXTENDS Sequences

CONSTANTS Functors,     \* the callables that may be queued
          None          \* "no functor is running"

VARIABLES queue,        \* functors queued and not yet begun
          running       \* the functor the loop is inside, or None

vars == <<queue, running>>

Init == queue = <<>> /\ running = None

(* Some thread queues f behind everything queued before it. *)
Post(f) == /\ queue' = Append(queue, f)
           /\ UNCHANGED running

(* The loop begins the oldest functor, and only when it is inside no other. *)
Begin == /\ running = None
         /\ queue # <<>>
         /\ running' = Head(queue)
         /\ queue' = Tail(queue)

Finish == /\ running # None
          /\ running' = None
          /\ UNCHANGED queue

Next == \/ \E f \in Functors : Post(f)
        \/ Begin
        \/ Finish

Spec == Init /\ [][Next]_vars
=============================================================================
