----------------------------- MODULE EventLoop -----------------------------
(***************************************************************************)
(* muduo::net::EventLoop: one loop thread that polls, dispatches the       *)
(* active channels and drains the pending functors, and any number of      *)
(* other threads that queue functors or ask the loop to quit.              *)
(*                                                                         *)
(* queueInLoop() is two steps for another thread: the push under mutex_,   *)
(* and the write to the eventfd after the unlock.  The same holds for      *)
(* quit(): the store, then the write.  Everything between may interleave.  *)
(*                                                                         *)
(* Critical sections hold one statement each and are one step.  A callback *)
(* or functor is the control point "callback" or "functor": while the loop *)
(* thread is there it may call back into the loop any number of times.     *)
(***************************************************************************)
EXTENDS Naturals, Sequences

CONSTANTS Threads,       \* threads other than the loop thread
          Functors,      \* callables passed to queueInLoop()
          Channels,      \* I/O channels registered with the poller
          WakeupChannel, \* wakeupChannel_
          None,          \* "no functor is running"
          EventfdMax,    \* largest counter of an eventfd (2^64 - 2)
          MaxPending     \* bound: length of pendingFunctors_

ASSUME EventfdMaxAssumption == EventfdMax \in Nat \ {0}
ASSUME NamesAssumption == None \notin Functors /\ WakeupChannel \notin Channels

VARIABLES
  lpc,                    \* where the loop thread is
  tpc,                    \* where each other thread is
  quit,                   \* quit_
  pendingFunctors,        \* pendingFunctors_, guarded by mutex_
  functors,               \* the local vector of doPendingFunctors(), rest of it
  callingPendingFunctors, \* callingPendingFunctors_
  current,                \* the functor doPendingFunctors() is inside
  wakeupFd,               \* counter of the eventfd
  active,                 \* activeChannels_ not yet dispatched
  ready,                  \* I/O channels with an event the kernel holds
  silent                  \* history: the loop thread queued outside loop()
                          \* since the last drain

threadVars == <<tpc, quit>>
mailVars == <<pendingFunctors, silent>>
drainVars == <<functors, callingPendingFunctors, current>>
ioVars == <<active, ready>>
vars == <<lpc, threadVars, mailVars, drainVars, wakeupFd, ioVars>>

LoopPoints == {"created", "test", "poll", "dispatch", "callback",
               "drain", "run", "functor", "exited"}

Init == /\ lpc = "created"
        /\ tpc = [t \in Threads |-> "idle"]
        /\ quit = FALSE
        /\ pendingFunctors = <<>>
        /\ functors = <<>>
        /\ callingPendingFunctors = FALSE
        /\ current = None
        /\ wakeupFd = 0
        /\ active = {}
        /\ ready = {}
        /\ silent = FALSE

-----------------------------------------------------------------------------
(* The eventfd.  A write adds one; at the limit the descriptor, which is   *)
(* non-blocking, fails with EAGAIN and wakeup() only logs.                 *)

Written(n) == IF n < EventfdMax THEN n + 1 ELSE n

-----------------------------------------------------------------------------
(* The loop thread. *)

(* loop(): looping_ becomes true and quit_ false. *)
EnterLoop == /\ lpc = "created"
             /\ lpc' = "test"
             /\ quit' = FALSE
             /\ UNCHANGED <<tpc, mailVars, drainVars, wakeupFd, ioVars>>

(* while (!quit_) *)
TestQuit == /\ lpc = "test"
            /\ lpc' = IF quit THEN "exited" ELSE "poll"
            /\ UNCHANGED <<threadVars, mailVars, drainVars, wakeupFd, ioVars>>

(* What the poller reports: it is level-triggered. *)
Polled == ready \cup (IF wakeupFd > 0 THEN {WakeupChannel} ELSE {})

(* Poller::poll returns because something is ready. *)
PollEvents == /\ lpc = "poll"
              /\ Polled # {}
              /\ active' = Polled
              /\ lpc' = "dispatch"
              /\ UNCHANGED <<threadVars, mailVars, drainVars, wakeupFd, ready>>

(* Poller::poll returns with nothing after kPollTimeMs. *)
PollTimeout == /\ lpc = "poll"
               /\ Polled = {}
               /\ active' = {}
               /\ lpc' = "dispatch"
               /\ UNCHANGED <<threadVars, mailVars, drainVars, wakeupFd, ready>>

(* handleRead() of the wakeup channel: the read resets the counter. *)
HandleRead == /\ lpc = "dispatch"
              /\ WakeupChannel \in active
              /\ active' = active \ {WakeupChannel}
              /\ wakeupFd' = 0
              /\ UNCHANGED <<lpc, threadVars, mailVars, drainVars, ready>>

(* handleEvent() of an I/O channel consumes its event in a user callback. *)
HandleEvent(c) == /\ lpc = "dispatch"
                  /\ c \in active
                  /\ active' = active \ {c}
                  /\ ready' = ready \ {c}
                  /\ lpc' = "callback"
                  /\ UNCHANGED <<threadVars, mailVars, drainVars, wakeupFd>>

CallbackReturns == /\ lpc = "callback"
                   /\ lpc' = "dispatch"
                   /\ UNCHANGED <<threadVars, mailVars, drainVars, wakeupFd, ioVars>>

(* The for loop ends and doPendingFunctors() is entered. *)
DispatchDone == /\ lpc = "dispatch"
                /\ active = {}
                /\ lpc' = "drain"
                /\ callingPendingFunctors' = TRUE
                /\ UNCHANGED <<threadVars, mailVars, functors, current, wakeupFd, ioVars>>

(* Mutant: the batch is copied out of pendingFunctors_ and not taken. *)
SwapCopies == /\ lpc = "drain"
              /\ functors' = pendingFunctors
              /\ silent' = FALSE
              /\ lpc' = "run"
              /\ UNCHANGED <<threadVars, pendingFunctors, callingPendingFunctors, current, wakeupFd, ioVars>>

(* functors.swap(pendingFunctors_) under mutex_; functors was empty. *)
Swap == /\ lpc = "drain"
        /\ functors' = pendingFunctors
        /\ pendingFunctors' = <<>>
        /\ silent' = FALSE
        /\ lpc' = "run"
        /\ UNCHANGED <<threadVars, callingPendingFunctors, current, wakeupFd, ioVars>>

CallFunctor == /\ lpc = "run"
               /\ functors # <<>>
               /\ current' = Head(functors)
               /\ functors' = Tail(functors)
               /\ lpc' = "functor"
               /\ UNCHANGED <<threadVars, mailVars, callingPendingFunctors, wakeupFd, ioVars>>

FunctorReturns == /\ lpc = "functor"
                  /\ current' = None
                  /\ lpc' = "run"
                  /\ UNCHANGED <<threadVars, mailVars, functors, callingPendingFunctors, wakeupFd, ioVars>>

(* Mutant: the drain repeats until pendingFunctors_ is empty. *)
DrainUntilEmpty == /\ lpc = "run"
                   /\ functors = <<>>
                   /\ lpc' = IF pendingFunctors = <<>> THEN "test" ELSE "drain"
                   /\ callingPendingFunctors' = (pendingFunctors # <<>>)
                   /\ UNCHANGED <<threadVars, mailVars, functors, current, wakeupFd, ioVars>>

(* doPendingFunctors() returns to the while test. *)
DrainDone == /\ lpc = "run"
             /\ functors = <<>>
             /\ lpc' = "test"
             /\ callingPendingFunctors' = FALSE
             /\ UNCHANGED <<threadVars, mailVars, functors, current, wakeupFd, ioVars>>

-----------------------------------------------------------------------------
(* Calls into the loop.  The loop thread calls from a callback, from a     *)
(* functor, or before loop() is entered and after it has returned.         *)

OutsideLoop == lpc \in {"created", "exited"}
LoopThreadCalls == lpc \in {"created", "callback", "functor", "exited"}

(* Mutant: a functor queued from a functor does not wake the loop. *)
QueueInLoopNoWakeup(f) ==
  /\ LoopThreadCalls
  /\ Len(pendingFunctors) < MaxPending
  /\ pendingFunctors' = Append(pendingFunctors, f)
  /\ silent' = (silent \/ OutsideLoop)
  /\ UNCHANGED <<lpc, threadVars, drainVars, wakeupFd, ioVars>>

(* queueInLoop() in the loop thread wakes the loop only from a functor. *)
QueueInLoop(f) ==
  /\ LoopThreadCalls
  /\ Len(pendingFunctors) < MaxPending
  /\ pendingFunctors' = Append(pendingFunctors, f)
  /\ wakeupFd' = IF callingPendingFunctors THEN Written(wakeupFd) ELSE wakeupFd
  /\ silent' = (silent \/ OutsideLoop)
  /\ UNCHANGED <<lpc, threadVars, drainVars, ioVars>>

(* quit() in the loop thread: no wakeup. *)
Quit == /\ LoopThreadCalls
        /\ quit' = TRUE
        /\ UNCHANGED <<lpc, tpc, mailVars, drainVars, wakeupFd, ioVars>>

(* queueInLoop() in another thread, up to the unlock. *)
QueueFromThread(t, f) ==
  /\ tpc[t] = "idle"
  /\ Len(pendingFunctors) < MaxPending
  /\ pendingFunctors' = Append(pendingFunctors, f)
  /\ tpc' = [tpc EXCEPT ![t] = "wakeup"]
  /\ UNCHANGED <<lpc, quit, silent, drainVars, wakeupFd, ioVars>>

(* Mutant: quit() stores the flag and leaves the loop asleep. *)
QuitFromThreadNoWakeup(t) ==
  /\ tpc[t] = "idle"
  /\ quit' = TRUE
  /\ UNCHANGED <<lpc, tpc, mailVars, drainVars, wakeupFd, ioVars>>

(* quit() in another thread, up to the store. *)
QuitFromThread(t) ==
  /\ tpc[t] = "idle"
  /\ quit' = TRUE
  /\ tpc' = [tpc EXCEPT ![t] = "wakeup"]
  /\ UNCHANGED <<lpc, mailVars, drainVars, wakeupFd, ioVars>>

(* wakeup(), the last call of both. *)
Wakeup(t) == /\ tpc[t] = "wakeup"
             /\ wakeupFd' = Written(wakeupFd)
             /\ tpc' = [tpc EXCEPT ![t] = "idle"]
             /\ UNCHANGED <<lpc, quit, mailVars, drainVars, ioVars>>

(* The kernel marks an I/O channel ready. *)
IoArrives(c) == /\ c \notin ready
                /\ ready' = ready \cup {c}
                /\ UNCHANGED <<lpc, threadVars, mailVars, drainVars, wakeupFd, active>>

-----------------------------------------------------------------------------
(* The loop's own steps, all but the return of poll() at its timeout. *)
LoopStep == \/ EnterLoop \/ TestQuit \/ PollEvents \/ HandleRead
            \/ \E c \in Channels : HandleEvent(c)
            \/ CallbackReturns \/ DispatchDone \/ Swap \/ CallFunctor
            \/ FunctorReturns \/ DrainDone

CallFromLoopThread == (\E f \in Functors : QueueInLoop(f)) \/ Quit

ThreadStep(t) == \/ \E f \in Functors : QueueFromThread(t, f)
                 \/ QuitFromThread(t)
                 \/ Wakeup(t)

Next == \/ LoopStep
        \/ PollTimeout
        \/ CallFromLoopThread
        \/ \E t \in Threads : ThreadStep(t)
        \/ \E c \in Channels : IoArrives(c)

Spec == Init /\ [][Next]_vars

(* The loop thread and a thread inside queueInLoop() or quit() are         *)
(* scheduled; callbacks and functors return.  Nothing is assumed of the    *)
(* poll timeout: what holds under LiveSpec holds without waiting for it.   *)
LiveSpec == /\ Spec
            /\ WF_vars(LoopStep)
            /\ \A t \in Threads : WF_vars(Wakeup(t))

-----------------------------------------------------------------------------
(* Properties. *)

(* Types, and what each control point of loop() and doPendingFunctors()     *)
(* says of the locals and flags: a batch exists only while it is drained,   *)
(* callingPendingFunctors_ is true exactly inside doPendingFunctors().      *)
TypeOK == /\ lpc \in LoopPoints
          /\ tpc \in [Threads -> {"idle", "wakeup"}]
          /\ quit \in BOOLEAN
          /\ silent \in BOOLEAN
          /\ pendingFunctors \in Seq(Functors)
          /\ functors \in Seq(Functors)
          /\ functors # <<>> => lpc \in {"run", "functor"}
          /\ callingPendingFunctors \in BOOLEAN
          /\ callingPendingFunctors <=> lpc \in {"drain", "run", "functor"}
          /\ current \in Functors \cup {None}
          /\ current # None <=> lpc = "functor"
          /\ wakeupFd \in 0..EventfdMax
          /\ active \subseteq Channels \cup {WakeupChannel}
          /\ ready \subseteq Channels

(* The loop is awake or about to be woken. *)
WakeupComing == wakeupFd > 0 \/ \E t \in Threads : tpc[t] = "wakeup"

(* The loop never goes to sleep on a functor: when it is in poll() and     *)
(* pendingFunctors_ is not empty, the eventfd is readable or a thread is   *)
(* between its push and its write.  The one exception is a functor that    *)
(* the loop thread queued outside loop(), for which queueInLoop() writes   *)
(* nothing and which waits for the next event or the poll timeout.         *)
NoLostWakeup == lpc = "poll" /\ pendingFunctors # <<>> /\ ~silent
                  => WakeupComing

(* The loop never goes to sleep on a quit(): when it is in poll() and      *)
(* quit_ is set, the eventfd is readable or quit() is about to write it.   *)
NoLostQuit == lpc = "poll" /\ quit => WakeupComing

(* The functors of the current batch and then those of pendingFunctors_,   *)
(* with the functor being run, are a FIFO that runs each functor once:     *)
(* the batch, the swap and the wakeups are invisible to callers.           *)
Queue == functors \o pendingFunctors
Abstract == INSTANCE Executor WITH queue <- Queue, running <- current
ImplementsExecutor == Abstract!Spec

(* A functor queued by another thread, or by the loop thread inside        *)
(* loop(), is eventually run unless the loop exits first; no step waits    *)
(* for the poll timeout.                                                   *)
IsQueued(f) == \E i \in 1..Len(Queue) : Queue[i] = f
QueuedRuns == \A f \in Functors :
                IsQueued(f) /\ ~silent ~> current = f \/ lpc = "exited"

(* quit() called once loop() is under way makes loop() return, from        *)
(* whatever thread and at whatever moment it is called.                    *)
QuitExits == quit /\ lpc # "created" ~> lpc = "exited"

(* Functors that keep queueing functors do not starve the I/O channels:    *)
(* doPendingFunctors() runs one batch and returns to poll().               *)
IoServed == \A c \in Channels : c \in ready ~> c \notin ready \/ lpc = "exited"

(* Without waiting for the timeout of poll(), functors that were queued    *)
(* run, quit() ends loop(), and functors that queue functors do not starve *)
(* the I/O channels.                                                       *)
LoopServes == QueuedRuns /\ QuitExits /\ IoServed
=============================================================================
