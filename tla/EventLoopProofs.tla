-------------------------- MODULE EventLoopProofs --------------------------
(***************************************************************************)
(* Proofs about EventLoop, for any set of threads, functors and channels,  *)
(* any eventfd limit and any bound on the queue: types, no lost wakeup, no *)
(* lost quit, and the refinement of Executor.                              *)
(***************************************************************************)
EXTENDS EventLoop, SequenceTheorems, TLAPS

(* NoLostWakeup is about poll() only and is not inductive: what makes it   *)
(* true on the way there is that a functor left in pendingFunctors_        *)
(* outside the stretch from poll() to the swap always has a wakeup coming. *)
Covered == /\ pendingFunctors # <<>>
           /\ ~silent
           /\ lpc \notin {"dispatch", "callback", "drain"}
           => WakeupComing

IInv == TypeOK /\ Covered /\ NoLostQuit

(* A write makes the eventfd readable, at its limit too. *)
LEMMA WrittenReadable ==
  ASSUME NEW n \in 0..EventfdMax
  PROVE  Written(n) \in 1..EventfdMax
BY EventfdMaxAssumption DEF Written

LEMMA InitIInv == Init => IInv
<1> SUFFICES ASSUME Init PROVE IInv
  OBVIOUS
<1>1. TypeOK
  <2>1. /\ functors \in Seq(Functors) /\ functors = <<>>
        /\ pendingFunctors \in Seq(Functors)
    BY EmptySeq DEF Init
  <2>2. wakeupFd \in 0..EventfdMax
    BY EventfdMaxAssumption DEF Init
  <2>3. /\ quit \in BOOLEAN /\ silent \in BOOLEAN
        /\ callingPendingFunctors \in BOOLEAN /\ ~callingPendingFunctors
    BY DEF Init
  <2> QED
    BY <2>1, <2>2, <2>3 DEF Init, TypeOK, LoopPoints
<1>2. Covered
  BY DEF Init, Covered
<1>3. NoLostQuit
  BY DEF Init, NoLostQuit
<1> QED
  BY <1>1, <1>2, <1>3 DEF IInv

(* Every step keeps the types. *)
LEMMA NextTypeOK == TypeOK /\ [Next]_vars => TypeOK'
<1> SUFFICES ASSUME TypeOK, [Next]_vars PROVE TypeOK'
  OBVIOUS
<1> USE DEF TypeOK, LoopPoints, threadVars, mailVars, drainVars, ioVars
<1>1. CASE EnterLoop
  BY <1>1 DEF EnterLoop
<1>2. CASE TestQuit
  BY <1>2 DEF TestQuit
<1>3. CASE PollEvents
  BY <1>3 DEF PollEvents, Polled
<1>4. CASE HandleRead
  BY <1>4, EventfdMaxAssumption DEF HandleRead
<1>5. ASSUME NEW c \in Channels, HandleEvent(c) PROVE TypeOK'
  BY <1>5 DEF HandleEvent
<1>6. CASE CallbackReturns
  BY <1>6 DEF CallbackReturns
<1>7. CASE DispatchDone
  BY <1>7 DEF DispatchDone
<1>8. CASE Swap
  BY <1>8 DEF Swap
<1>9. CASE CallFunctor
  BY <1>9, NamesAssumption, HeadTailProperties DEF CallFunctor
<1>10. CASE FunctorReturns
  BY <1>10 DEF FunctorReturns
<1>11. CASE DrainDone
  BY <1>11 DEF DrainDone
<1>12. CASE PollTimeout
  BY <1>12 DEF PollTimeout
<1>13. ASSUME NEW f \in Functors, QueueInLoop(f) PROVE TypeOK'
  <2>1. wakeupFd' \in 0..EventfdMax
    BY <1>13, WrittenReadable, EventfdMaxAssumption DEF QueueInLoop
  <2>2. pendingFunctors' \in Seq(Functors)
    BY <1>13, AppendProperties DEF QueueInLoop
  <2>3. silent' \in BOOLEAN
    BY <1>13 DEF QueueInLoop
  <2> QED
    BY <1>13, <2>1, <2>2, <2>3 DEF QueueInLoop
<1>14. CASE Quit
  BY <1>14 DEF Quit
<1>15. ASSUME NEW t \in Threads, NEW f \in Functors, QueueFromThread(t, f)
       PROVE  TypeOK'
  <2>1. pendingFunctors' \in Seq(Functors)
    BY <1>15, AppendProperties DEF QueueFromThread
  <2>2. tpc' \in [Threads -> {"idle", "wakeup"}]
    BY <1>15 DEF QueueFromThread
  <2> QED
    BY <1>15, <2>1, <2>2 DEF QueueFromThread
<1>16. ASSUME NEW t \in Threads, QuitFromThread(t) PROVE TypeOK'
  BY <1>16 DEF QuitFromThread
<1>17. ASSUME NEW t \in Threads, Wakeup(t) PROVE TypeOK'
  <2>1. wakeupFd' \in 0..EventfdMax
    BY <1>17, WrittenReadable, EventfdMaxAssumption DEF Wakeup
  <2> QED
    BY <1>17, <2>1 DEF Wakeup
<1>18. ASSUME NEW c \in Channels, IoArrives(c) PROVE TypeOK'
  BY <1>18 DEF IoArrives
<1>19. CASE UNCHANGED vars
  BY <1>19 DEF vars
<1> QED
  BY <1>1, <1>2, <1>3, <1>4, <1>5, <1>6, <1>7, <1>8, <1>9, <1>10, <1>11,
     <1>12, <1>13, <1>14, <1>15, <1>16, <1>17, <1>18, <1>19
     DEF Next, LoopStep, CallFromLoopThread, ThreadStep

(* Types of EventLoop: the flags, the batch and the control point of the   *)
(* loop agree in every reachable state, whatever the threads do.           *)
THEOREM TypeCorrect == Spec => []TypeOK
<1>1. Init => TypeOK
  BY InitIInv DEF IInv
<1> QED
  BY <1>1, NextTypeOK, PTL DEF Spec

-----------------------------------------------------------------------------
(* A step that leaves the eventfd and the threads alone keeps whatever     *)
(* wakeup was coming.                                                      *)
LEMMA WakeupKept ==
  WakeupComing /\ UNCHANGED <<tpc, wakeupFd>> => WakeupComing'
BY DEF WakeupComing

(* wakeup() of a thread does not take the wakeup away: it is in the fd.    *)
LEMMA WakeupWrites ==
  ASSUME TypeOK, NEW t \in Threads, Wakeup(t)
  PROVE  WakeupComing'
<1>1. wakeupFd' \in 1..EventfdMax
  BY WrittenReadable DEF TypeOK, Wakeup
<1> QED
  BY <1>1, EventfdMaxAssumption DEF WakeupComing

(* A thread that has pushed or stored is about to write.                   *)
LEMMA ThreadWillWrite ==
  ASSUME TypeOK, NEW t \in Threads,
         tpc' = [tpc EXCEPT ![t] = "wakeup"]
  PROVE  WakeupComing'
BY DEF TypeOK, WakeupComing

LEMMA NextCovered == TypeOK /\ Covered /\ [Next]_vars => Covered'
<1> SUFFICES ASSUME TypeOK, Covered, [Next]_vars PROVE Covered'
  OBVIOUS
<1> USE DEF threadVars, mailVars, drainVars, ioVars
<1>1. CASE EnterLoop \/ TestQuit
  BY <1>1, WakeupKept DEF EnterLoop, TestQuit, Covered
<1>2. CASE PollEvents \/ PollTimeout
  BY <1>2 DEF PollEvents, PollTimeout, Covered
<1>3. CASE HandleRead \/ CallbackReturns \/ DispatchDone
  BY <1>3 DEF HandleRead, CallbackReturns, DispatchDone, Covered
<1>4. ASSUME NEW c \in Channels, HandleEvent(c) PROVE Covered'
  BY <1>4 DEF HandleEvent, Covered
<1>5. CASE Swap
  BY <1>5 DEF Swap, Covered
<1>6. CASE CallFunctor \/ FunctorReturns \/ DrainDone \/ Quit
  BY <1>6, WakeupKept DEF CallFunctor, FunctorReturns, DrainDone, Quit, Covered
<1>7. ASSUME NEW f \in Functors, QueueInLoop(f) PROVE Covered'
  <2>1. CASE lpc = "callback"
    BY <1>7, <2>1 DEF QueueInLoop, Covered
  <2>2. CASE lpc = "functor"
    <3>1. wakeupFd' \in 1..EventfdMax
      BY <1>7, <2>2, WrittenReadable DEF QueueInLoop, TypeOK
    <3> QED
      BY <3>1, EventfdMaxAssumption DEF Covered, WakeupComing
  <2>3. CASE OutsideLoop
    <3>1. silent'
      BY <1>7, <2>3 DEF QueueInLoop
    <3> QED
      BY <3>1 DEF Covered
  <2> QED
    BY <1>7, <2>1, <2>2, <2>3 DEF QueueInLoop, LoopThreadCalls, OutsideLoop
<1>8. ASSUME NEW t \in Threads, ThreadStep(t) PROVE Covered'
  <2>1. ASSUME NEW f \in Functors, QueueFromThread(t, f) PROVE WakeupComing'
    BY <2>1, ThreadWillWrite DEF QueueFromThread
  <2>2. CASE QuitFromThread(t)
    BY <2>2, ThreadWillWrite DEF QuitFromThread, Covered
  <2>3. CASE Wakeup(t)
    BY <2>3, WakeupWrites DEF Covered
  <2> QED
    BY <1>8, <2>1, <2>2, <2>3 DEF ThreadStep, Covered
<1>9. ASSUME NEW c \in Channels, IoArrives(c) PROVE Covered'
  BY <1>9, WakeupKept DEF IoArrives, Covered
<1>10. CASE UNCHANGED vars
  BY <1>10, WakeupKept DEF vars, Covered
<1> QED
  BY <1>1, <1>2, <1>3, <1>4, <1>5, <1>6, <1>7, <1>8, <1>9, <1>10
     DEF Next, LoopStep, CallFromLoopThread

LEMMA NextNoLostQuit == TypeOK /\ NoLostQuit /\ [Next]_vars => NoLostQuit'
<1> SUFFICES ASSUME TypeOK, NoLostQuit, [Next]_vars PROVE NoLostQuit'
  OBVIOUS
<1> USE DEF threadVars, mailVars, drainVars, ioVars, NoLostQuit
<1>1. CASE LoopStep \/ PollTimeout
  BY <1>1 DEF LoopStep, EnterLoop, TestQuit, PollEvents, HandleRead,
     HandleEvent, CallbackReturns, DispatchDone, Swap, CallFunctor,
     FunctorReturns, DrainDone, PollTimeout
<1>2. CASE CallFromLoopThread
  BY <1>2 DEF CallFromLoopThread, QueueInLoop, Quit, LoopThreadCalls
<1>3. ASSUME NEW t \in Threads, ThreadStep(t) PROVE NoLostQuit'
  <2>1. ASSUME NEW f \in Functors, QueueFromThread(t, f) PROVE WakeupComing'
    BY <2>1, ThreadWillWrite DEF QueueFromThread
  <2>2. CASE QuitFromThread(t)
    BY <2>2, ThreadWillWrite DEF QuitFromThread
  <2>3. CASE Wakeup(t)
    BY <2>3, WakeupWrites
  <2> QED
    BY <1>3, <2>1, <2>2, <2>3 DEF ThreadStep
<1>4. ASSUME NEW c \in Channels, IoArrives(c) PROVE NoLostQuit'
  BY <1>4, WakeupKept DEF IoArrives
<1>5. CASE UNCHANGED vars
  BY <1>5, WakeupKept DEF vars
<1> QED
  BY <1>1, <1>2, <1>3, <1>4, <1>5 DEF Next

LEMMA IInvInvariant == Spec => []IInv
<1>1. IInv /\ [Next]_vars => IInv'
  BY NextTypeOK, NextCovered, NextNoLostQuit DEF IInv
<1> QED
  BY <1>1, InitIInv, PTL DEF Spec

(* loop() never sleeps in poll() on a functor queued by another thread or  *)
(* from inside the loop: the eventfd is readable or about to be written.   *)
THEOREM WakeupNeverLost == Spec => []NoLostWakeup
<1>1. IInv => NoLostWakeup
  BY DEF IInv, Covered, NoLostWakeup
<1> QED
  BY <1>1, IInvInvariant, PTL

(* loop() never sleeps in poll() once quit_ is set.                        *)
THEOREM QuitNeverLost == Spec => []NoLostQuit
<1>1. IInv => NoLostQuit
  BY DEF IInv
<1> QED
  BY <1>1, IInvInvariant, PTL

-----------------------------------------------------------------------------
(* Sequences: taking from the front of the batch, and pushing behind       *)
(* pendingFunctors_, are what they are on the concatenation of the two.    *)
LEMMA PushBehind ==
  ASSUME NEW S, NEW b \in Seq(S), NEW p \in Seq(S), NEW x \in S
  PROVE  b \o Append(p, x) = Append(b \o p, x)
<1>1. /\ b \o Append(p, x) \in Seq(S)
      /\ Append(b \o p, x) \in Seq(S)
      /\ Len(b \o Append(p, x)) = Len(b) + Len(p) + 1
      /\ Len(Append(b \o p, x)) = Len(b) + Len(p) + 1
  BY ConcatProperties, AppendProperties, LenProperties
<1>2. ASSUME NEW i \in 1..Len(b) + Len(p) + 1
      PROVE  (b \o Append(p, x))[i] = Append(b \o p, x)[i]
  <2>1. CASE i <= Len(b)
    BY <1>2, <2>1, ConcatProperties, AppendProperties, LenProperties
  <2>2. CASE i > Len(b) /\ i <= Len(b) + Len(p)
    BY <1>2, <2>2, ConcatProperties, AppendProperties, LenProperties
  <2>3. CASE i = Len(b) + Len(p) + 1
    BY <1>2, <2>3, ConcatProperties, AppendProperties, LenProperties
  <2> QED
    BY <1>2, <2>1, <2>2, <2>3, LenProperties
<1> QED
  BY <1>1, <1>2, SeqEqual

LEMMA TakeFront ==
  ASSUME NEW S, NEW b \in Seq(S), NEW p \in Seq(S), b # <<>>
  PROVE  /\ b \o p # <<>>
         /\ Head(b \o p) = Head(b)
         /\ Tail(b \o p) = Tail(b) \o p
<1>1. /\ b \o p \in Seq(S)
      /\ Len(b \o p) = Len(b) + Len(p)
      /\ Len(b) \in Nat \ {0} /\ Len(p) \in Nat
  BY ConcatProperties, LenProperties, EmptySeq
<1>2. b \o p # <<>>
  BY <1>1
<1>3. Head(b \o p) = Head(b)
  BY <1>1, <1>2, ConcatProperties
<1>4. /\ Tail(b \o p) \in Seq(S)
      /\ Len(Tail(b \o p)) = Len(b) + Len(p) - 1
      /\ \A i \in 1..Len(b) + Len(p) - 1 : Tail(b \o p)[i] = (b \o p)[i + 1]
  BY <1>1, <1>2, HeadTailProperties
<1>5. /\ Tail(b) \in Seq(S)
      /\ Len(Tail(b)) = Len(b) - 1
      /\ \A i \in 1..Len(b) - 1 : Tail(b)[i] = b[i + 1]
  BY HeadTailProperties
<1>6. /\ Tail(b) \o p \in Seq(S)
      /\ Len(Tail(b) \o p) = Len(b) + Len(p) - 1
  BY <1>1, <1>5, ConcatProperties
<1>7. ASSUME NEW i \in 1..Len(b) + Len(p) - 1
      PROVE  Tail(b \o p)[i] = (Tail(b) \o p)[i]
  <2>1. Tail(b \o p)[i] = IF i + 1 <= Len(b) THEN b[i + 1] ELSE p[i + 1 - Len(b)]
    BY <1>1, <1>4, <1>7, ConcatProperties
  <2>2. (Tail(b) \o p)[i] = IF i <= Len(b) - 1 THEN Tail(b)[i]
                                              ELSE p[i - (Len(b) - 1)]
    BY <1>1, <1>5, <1>7, ConcatProperties
  <2> QED
    BY <1>1, <1>5, <1>7, <2>1, <2>2
<1>8. Tail(b \o p) = Tail(b) \o p
  BY <1>1, <1>4, <1>6, <1>7, SeqEqual
<1> QED
  BY <1>2, <1>3, <1>8

(* Every step of the loop and of the threads is a step of Executor or      *)
(* leaves its queue and its running functor as they are.                   *)
LEMMA StepRefines == TypeOK /\ [Next]_vars => [Abstract!Next]_(Abstract!vars)
<1> SUFFICES ASSUME TypeOK, [Next]_vars
             PROVE  [Abstract!Next]_(Abstract!vars)
  OBVIOUS
<1> USE DEF threadVars, mailVars, drainVars, ioVars
<1>1. functors \in Seq(Functors) /\ pendingFunctors \in Seq(Functors)
  BY DEF TypeOK
<1>2. CASE UNCHANGED <<functors, pendingFunctors, current>>
  BY <1>2 DEF Abstract!vars, Queue
<1>3. CASE Swap
  <2>1. functors = <<>>
    BY <1>3 DEF Swap, TypeOK
  <2>2. Queue' = Queue
    BY <1>1, <1>3, <2>1, ConcatEmptySeq DEF Queue, Swap
  <2> QED
    BY <1>3, <2>2 DEF Swap, Abstract!vars
<1>4. CASE CallFunctor
  <2>1. current = None
    BY <1>4 DEF CallFunctor, TypeOK
  <2>2. Queue # <<>> /\ current' = Head(Queue) /\ Queue' = Tail(Queue)
    BY <1>1, <1>4, TakeFront DEF CallFunctor, Queue
  <2> QED
    BY <2>1, <2>2 DEF Abstract!Next, Abstract!Begin
<1>5. CASE FunctorReturns
  <2>1. current # None
    BY <1>5 DEF FunctorReturns, TypeOK
  <2> QED
    BY <1>5, <2>1 DEF FunctorReturns, Abstract!Next, Abstract!Finish, Queue
<1>6. ASSUME NEW f \in Functors,
             pendingFunctors' = Append(pendingFunctors, f),
             UNCHANGED <<functors, current>>
      PROVE  Abstract!Next
  <2>1. Queue' = Append(Queue, f)
    BY <1>1, <1>6, PushBehind DEF Queue
  <2> QED
    BY <1>6, <2>1 DEF Abstract!Next, Abstract!Post
<1>7. CASE CallFromLoopThread
  BY <1>2, <1>6, <1>7 DEF CallFromLoopThread, QueueInLoop, Quit
<1>8. ASSUME NEW t \in Threads, ThreadStep(t)
      PROVE  [Abstract!Next]_(Abstract!vars)
  BY <1>2, <1>6, <1>8 DEF ThreadStep, QueueFromThread, QuitFromThread, Wakeup
<1>9. ASSUME NEW c \in Channels, HandleEvent(c) \/ IoArrives(c)
      PROVE  UNCHANGED <<functors, pendingFunctors, current>>
  BY <1>9 DEF HandleEvent, IoArrives
<1>10. CASE \/ EnterLoop \/ TestQuit \/ PollEvents \/ PollTimeout \/ HandleRead
            \/ CallbackReturns \/ DispatchDone \/ DrainDone \/ UNCHANGED vars
  BY <1>2, <1>10 DEF EnterLoop, TestQuit, PollEvents, PollTimeout, HandleRead,
     CallbackReturns, DispatchDone, DrainDone, vars
<1> QED
  BY <1>2, <1>3, <1>4, <1>5, <1>7, <1>8, <1>9, <1>10 DEF Next, LoopStep

(* The loop with its mutex, batches and eventfd implements the FIFO        *)
(* executor: every functor passed to queueInLoop() is begun once, in the   *)
(* order of the pushes, and never while another functor is running.        *)
THEOREM EventLoopImplementsExecutor == Spec => ImplementsExecutor
<1>1. Init => Abstract!Init
  <2>1. <<>> \o <<>> = <<>>
    BY EmptySeq, ConcatEmptySeq
  <2> QED
    BY <2>1 DEF Init, Abstract!Init, Queue
<1> QED
  BY <1>1, StepRefines, TypeCorrect, PTL DEF Spec, ImplementsExecutor, Abstract!Spec
=============================================================================
