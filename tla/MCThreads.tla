----------------------------- MODULE MCThreads -----------------------------
(***************************************************************************)
(* The thread machinery of muduo for TLC.  The four components do not call *)
(* each other: `part` says which of them a behaviour runs, and the others  *)
(* stay as they were constructed.                                          *)
(***************************************************************************)
EXTENDS BlockingQueue, ThreadPool, EventLoopThreadPool, AsyncLogging

VARIABLE part

vars == <<part, queueVars, poolVars, loopsVars, logVars>>

Init == /\ part \in {"queue", "pool", "loops", "log"}
        /\ QueueInit /\ PoolInit /\ LoopsInit /\ LogInit
        /\ part # "queue" => capacity = 0
        /\ part # "pool" => maxQueueSize = 0
        /\ part # "loops" => numThreads = 0

OnlyQueue == part = "queue" /\ UNCHANGED <<part, poolVars, loopsVars, logVars>>
OnlyPool == part = "pool" /\ UNCHANGED <<part, queueVars, loopsVars, logVars>>
OnlyLoops == part = "loops" /\ UNCHANGED <<part, queueVars, poolVars, logVars>>
OnlyLog == part = "log" /\ UNCHANGED <<part, queueVars, poolVars, loopsVars>>

Next == \/ OnlyQueue /\ QueueNext
        \/ OnlyPool /\ PoolNext
        \/ OnlyLoops /\ LoopsNext
        \/ OnlyLog /\ LogNext

(* Every thread that can run is scheduled, tasks return, and the timed     *)
(* wait of the logging thread times out.  Spurious wakeups and the timeout *)
(* of poll() are not relied on; nobody need submit, append or stop.        *)
LiveSpec ==
  /\ Init /\ [][Next]_vars
  /\ \A c \in Callers : WF_vars(OnlyPool /\ RunStep(c))
  /\ \A w \in Workers : WF_vars(OnlyPool /\ WorkerStep(w))
  /\ WF_vars(OnlyPool /\ PoolJoined)
  /\ WF_vars(OnlyLoops /\ OwnerStep)
  /\ \A i \in Ids : WF_vars(OnlyLoops /\ LoopThreadStep(i))
  /\ WF_vars(OnlyLog /\ LoggerStep)
  /\ WF_vars(OnlyLog /\ LogJoined)

-----------------------------------------------------------------------------
(* Every wait of the thread machinery ends: stop() of the pool and of the  *)
(* log, start() and the destructor of the loop threads, and queued tasks   *)
(* and appended lines get done, but for the waits that each part names.    *)
ThreadsLive == /\ PoolStopReturns /\ QueuedTaskRuns
               /\ PoolStarts /\ PoolEnds
               /\ LinesReachDisk /\ LogStopReturns
=============================================================================
