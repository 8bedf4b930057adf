------------------------ MODULE EventLoopThreadPool ------------------------
(***************************************************************************)
(* EventLoopThreadPool, its EventLoopThreads, and the muduo::Thread and    *)
(* CountDownLatch that start them: the owner starts the threads one after  *)
(* the other, hands out their loops and destroys the pool; each thread     *)
(* keeps its EventLoop on its stack.                                       *)
(*                                                                         *)
(* Of an EventLoop only what its life needs is here: quit_, the eventfd,   *)
(* and the points of loop() between which quit() can fall.  A callback in  *)
(* the loop may call quit() itself (SelfQuit).                             *)
(***************************************************************************)
EXTENDS Integers

CONSTANTS MaxThreads,  \* bound: argument of setThreadNum()
          MaxGets      \* bound: calls of getNextLoop()

ASSUME BoundsAssumption == MaxThreads \in Nat /\ MaxGets \in Nat

VARIABLES numThreads, \* numThreads_
          opc,        \* where the owner is
          which,      \* the thread the owner starts or destroys
          tpc,        \* where each thread is
          tid,        \* Thread::tid_ has been written
          latch,      \* Thread::latch_
          loop,       \* loop_ is not NULL
          alive,      \* the EventLoop on the thread's stack exists
          quit,       \* its quit_
          wakeupFd,   \* its eventfd is readable
          nextLoop,   \* next_
          gets,       \* history: getNextLoop() calls answered with each loop
          selfQuit,   \* history: a callback of the loop called quit()
          early,      \* history: quit() stored before loop() cleared quit_
          raced,      \* history: ~EventLoop() ran inside another thread's quit()
          dangling    \* history: uses of an object that no longer exists

threadVars == <<tpc, tid, latch, loop, alive>>
flagVars == <<quit, wakeupFd>>
history == <<selfQuit, early, raced, dangling>>
loopsVars == <<numThreads, opc, which, threadVars, flagVars, nextLoop, gets, history>>

Ids == 1..MaxThreads
BaseLoop == 0

LoopsInit == /\ numThreads \in 0..MaxThreads
             /\ opc = "start"
             /\ which = 1
             /\ tpc = [i \in Ids |-> "none"]
             /\ tid = [i \in Ids |-> FALSE]
             /\ latch = [i \in Ids |-> 1]
             /\ loop = [i \in Ids |-> FALSE]
             /\ alive = [i \in Ids |-> FALSE]
             /\ quit = [i \in Ids |-> FALSE]
             /\ wakeupFd = [i \in Ids |-> FALSE]
             /\ nextLoop = 0
             /\ gets = [i \in 0..MaxThreads |-> 0]
             /\ selfQuit = [i \in Ids |-> FALSE]
             /\ early = [i \in Ids |-> FALSE]
             /\ raced = [i \in Ids |-> FALSE]
             /\ dangling = [i \in Ids |-> {}]

Uses(what) == dangling' = [dangling EXCEPT ![which] = @ \cup {what}]

-----------------------------------------------------------------------------
(* The owner. *)

(* start(): Thread::start() of the next EventLoopThread, up to its latch. *)
CreateThread == /\ opc = "start"
                /\ which <= numThreads
                /\ opc' = "latch"
                /\ tpc' = [tpc EXCEPT ![which] = "born"]
                /\ UNCHANGED <<numThreads, which, tid, latch, loop, alive, flagVars, nextLoop, gets, history>>

(* latch_.wait() returns; assert(tid_ > 0). *)
LatchOpen == /\ opc = "latch"
             /\ latch[which] = 0
             /\ opc' = "cond"
             /\ UNCHANGED <<numThreads, which, threadVars, flagVars, nextLoop, gets, history>>

(* startLoop() waits in cond_ while loop_ is NULL; notify() follows every  *)
(* assignment of loop_, under the mutex, so waiting is a guard.            *)
LoopStarted == /\ opc = "cond"
               /\ loop[which]
               /\ opc' = "start"
               /\ which' = which + 1
               /\ UNCHANGED <<numThreads, threadVars, flagVars, nextLoop, gets, history>>

PoolStarted == /\ opc = "start"
               /\ which > numThreads
               /\ opc' = "up"
               /\ which' = 1
               /\ UNCHANGED <<numThreads, threadVars, flagVars, nextLoop, gets, history>>

(* getNextLoop(): loops_[next_], then next_ moves on. *)
GetNextLoop == /\ opc = "up"
               /\ gets[IF numThreads = 0 THEN BaseLoop ELSE nextLoop + 1] < MaxGets
               /\ gets' = [gets EXCEPT ![IF numThreads = 0 THEN BaseLoop ELSE nextLoop + 1] = @ + 1]
               /\ nextLoop' = IF numThreads = 0 \/ nextLoop + 1 >= numThreads THEN 0 ELSE nextLoop + 1
               /\ UNCHANGED <<numThreads, opc, which, threadVars, flagVars, history>>

(* The pool goes away: threads_ destroys each EventLoopThread in turn. *)
DestroyPool == /\ opc = "up"
               /\ opc' = "dtor"
               /\ UNCHANGED <<numThreads, which, threadVars, flagVars, nextLoop, gets, history>>

(* ~EventLoopThread(): exiting_ = true; if (loop_ != NULL).  When it is    *)
(* NULL the thread is detached, and may still hold mutex_, a member.       *)
TestLoop == /\ opc = "dtor"
            /\ which <= numThreads
            /\ IF loop[which]
               THEN opc' = "quit" /\ UNCHANGED <<which, dangling>>
               ELSE /\ which' = which + 1
                    /\ opc' = opc
                    /\ IF tpc[which] = "unlock" THEN Uses("mutex") ELSE UNCHANGED dangling
            /\ UNCHANGED <<numThreads, threadVars, flagVars, nextLoop, gets, selfQuit, early, raced>>

(* quit(): the store ... *)
StoreQuit == /\ opc = "quit"
             /\ opc' = "wakeup"
             /\ quit' = [quit EXCEPT ![which] = TRUE]
             /\ early' = [early EXCEPT ![which] = tpc[which] = "enter"]
             /\ IF alive[which] THEN UNCHANGED dangling ELSE Uses("store")
             /\ UNCHANGED <<numThreads, which, threadVars, wakeupFd, nextLoop, gets, selfQuit, raced>>

(* ... and wakeup(), a member function of a loop that may have gone. *)
WakeupLoop == /\ opc = "wakeup"
              /\ opc' = "join"
              /\ wakeupFd' = [wakeupFd EXCEPT ![which] = TRUE]
              /\ IF alive[which] THEN UNCHANGED dangling ELSE Uses("wakeup")
              /\ UNCHANGED <<numThreads, which, threadVars, quit, nextLoop, gets, selfQuit, early, raced>>

Join == /\ opc = "join"
        /\ tpc[which] = "finished"
        /\ opc' = "dtor"
        /\ which' = which + 1
        /\ UNCHANGED <<numThreads, threadVars, flagVars, nextLoop, gets, history>>

PoolDestroyed == /\ opc = "dtor"
                 /\ which > numThreads
                 /\ opc' = "gone"
                 /\ UNCHANGED <<numThreads, which, threadVars, flagVars, nextLoop, gets, history>>

-----------------------------------------------------------------------------
(* A thread: ThreadData::runInThread(), then EventLoopThread::threadFunc(). *)

Moves(i, from, to) == tpc[i] = from /\ tpc' = [tpc EXCEPT ![i] = to]

(* *tid_ = CurrentThread::tid() comes before the latch is opened. *)
SetTid(i) == /\ Moves(i, "born", "countDown")
             /\ tid' = [tid EXCEPT ![i] = TRUE]
             /\ UNCHANGED <<numThreads, opc, which, latch, loop, alive, flagVars, nextLoop, gets, history>>

CountDown(i) == /\ Moves(i, "countDown", "func")
                /\ latch' = [latch EXCEPT ![i] = @ - 1]
                /\ UNCHANGED <<numThreads, opc, which, tid, loop, alive, flagVars, nextLoop, gets, history>>

(* EventLoop loop; and the thread's init callback. *)
ConstructLoop(i) == /\ Moves(i, "func", "publish")
                    /\ alive' = [alive EXCEPT ![i] = TRUE]
                    /\ UNCHANGED <<numThreads, opc, which, tid, latch, loop, flagVars, nextLoop, gets, history>>

(* Mutant: loop_ is published before the EventLoop is constructed. *)
PublishEarly(i) == /\ Moves(i, "func", "publish")
                   /\ loop' = [loop EXCEPT ![i] = TRUE]
                   /\ UNCHANGED <<numThreads, opc, which, tid, latch, alive, flagVars, nextLoop, gets, history>>

(* loop_ = &loop; cond_.notify(), under mutex_. *)
PublishLoop(i) == /\ Moves(i, "publish", "enter")
                  /\ loop' = [loop EXCEPT ![i] = TRUE]
                  /\ UNCHANGED <<numThreads, opc, which, tid, latch, alive, flagVars, nextLoop, gets, history>>

(* loop() is entered: quit_ = false. *)
EnterLoop(i) == /\ Moves(i, "enter", "test")
                /\ quit' = [quit EXCEPT ![i] = FALSE]
                /\ UNCHANGED <<numThreads, opc, which, tid, latch, loop, alive, wakeupFd, nextLoop, gets, history>>

TestQuit(i) == /\ Moves(i, "test", IF quit[i] THEN "clear" ELSE "poll")
               /\ UNCHANGED <<numThreads, opc, which, tid, latch, loop, alive, flagVars, nextLoop, gets, history>>

Poll(i) == /\ Moves(i, "poll", "test")
           /\ wakeupFd[i]
           /\ wakeupFd' = [wakeupFd EXCEPT ![i] = FALSE]
           /\ UNCHANGED <<numThreads, opc, which, tid, latch, loop, alive, quit, nextLoop, gets, history>>

(* poll() returns for another channel, or after kPollTimeMs. *)
PollReturns(i) == /\ Moves(i, "poll", "test")
                  /\ UNCHANGED <<numThreads, opc, which, tid, latch, loop, alive, flagVars, nextLoop, gets, history>>

(* A callback in the loop calls quit(). *)
SelfQuit(i) == /\ Moves(i, "poll", "test")
               /\ quit' = [quit EXCEPT ![i] = TRUE]
               /\ selfQuit' = [selfQuit EXCEPT ![i] = TRUE]
               /\ UNCHANGED <<numThreads, opc, which, tid, latch, loop, alive, wakeupFd, nextLoop, gets, early, raced, dangling>>

(* loop() has returned: loop_ = NULL under mutex_, still held. *)
ClearLoop(i) == /\ Moves(i, "clear", "unlock")
                /\ loop' = [loop EXCEPT ![i] = FALSE]
                /\ UNCHANGED <<numThreads, opc, which, tid, latch, alive, flagVars, nextLoop, gets, history>>

(* The guard is released and then ~EventLoop() runs. *)
DestroyLoop(i) == /\ Moves(i, "unlock", "finished")
                  /\ alive' = [alive EXCEPT ![i] = FALSE]
                  /\ raced' = [raced EXCEPT ![i] = opc = "wakeup" /\ which = i]
                  /\ UNCHANGED <<numThreads, opc, which, tid, latch, loop, flagVars, nextLoop, gets, selfQuit, early, dangling>>

OwnerStep == \/ CreateThread \/ LatchOpen \/ LoopStarted \/ PoolStarted
             \/ TestLoop \/ StoreQuit \/ WakeupLoop \/ Join \/ PoolDestroyed
LoopThreadStep(i) == \/ SetTid(i) \/ CountDown(i) \/ ConstructLoop(i) \/ PublishLoop(i)
                     \/ EnterLoop(i) \/ TestQuit(i) \/ Poll(i) \/ ClearLoop(i) \/ DestroyLoop(i)

LoopsNext == \/ OwnerStep \/ GetNextLoop \/ DestroyPool
             \/ \E i \in Ids : LoopThreadStep(i) \/ PollReturns(i) \/ SelfQuit(i)

LoopsSpec == LoopsInit /\ [][LoopsNext]_loopsVars

-----------------------------------------------------------------------------
(* Thread::start() returns with tid_ written (its assertion), whenever the *)
(* new thread is scheduled.                                                *)
TidKnown == opc = "cond" => tid[which]

(* A loop that the pool hands out exists, unless a callback of that loop   *)
(* has called quit().  The destructor of a loop whose callbacks do not     *)
(* uses an object that is gone in one case only, the one of the comment in *)
(* EventLoop::quit(): the thread saw quit_, left loop() and destroyed the  *)
(* EventLoop between the store of quit_ and the call of wakeup().          *)
HandedOutIsAlive ==
  /\ opc = "up" => \A i \in 1..numThreads : alive[i] \/ selfQuit[i]
  /\ \A i \in Ids : dangling[i] # {} =>
       selfQuit[i] \/ (dangling[i] = {"wakeup"} /\ raced[i])

(* Connections are spread evenly: the loops differ by at most one in how   *)
(* often they were handed out, the first ones first.                       *)
RoundRobin == \A i, j \in 1..numThreads : i < j => gets[i] - gets[j] \in {0, 1}

(* The handshakes of Thread and EventLoopThread: tid_ and loop_ are known  *)
(* when start() returns, a loop that is handed out or told to quit exists, *)
(* but for the window inside quit(), and connections are spread evenly.    *)
LoopsSound == TidKnown /\ HandedOutIsAlive /\ RoundRobin

(* start() returns with every loop in loop_, unless a loop has ended by    *)
(* itself before the owner saw it.                                         *)
PoolStarts == opc = "latch" ~> opc = "up" \/ \E i \in Ids : selfQuit[i]

(* The destructor returns: quit() reaches every loop and join() ends, with *)
(* the one exception of a quit() that fell between the publication of      *)
(* loop_ and the entry of loop(), which forgets it.                        *)
PoolEnds == opc = "dtor" ~> opc = "gone" \/ \E i \in Ids : early[i]
=============================================================================
