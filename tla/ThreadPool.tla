----------------------------- MODULE ThreadPool -----------------------------
(***************************************************************************)
(* muduo::ThreadPool: worker threads that take tasks from a queue, clients *)
(* that run() tasks, a bounded queue that blocks them, and stop().         *)
(*                                                                         *)
(* As in BlockingQueue a critical section is one step and a wait is a      *)
(* control point.  A task may itself call run(), from the worker that      *)
(* executes it: with a full queue that worker waits inside its task.       *)
(***************************************************************************)
EXTENDS Integers, Sequences, FiniteSets, Condition

CONSTANTS Workers,       \* threads that start() may make
          Clients,       \* threads that call run()
          QueueSizes,    \* bound: arguments of setMaxQueueSize(); 0 is no limit
          Tasks,         \* bound: the tasks that are ever submitted
          Nested,        \* tasks that submit another task
          NoTask

ASSUME SizeAssumption == QueueSizes \subseteq Nat
ASSUME NamesAssumption == Clients \cap Workers = {} /\ NoTask \notin Tasks
ASSUME PoolAssumption == IsFiniteSet(Workers) /\ IsFiniteSet(Clients)

VARIABLES maxQueueSize,  \* maxQueueSize_, set before start()
          threads,  \* threads_; when empty run() calls the task itself
          wpc,      \* workers: new, test, take, notEmpty, task, done
          rpc,      \* callers of run(): idle, lock, notFull
          spc,      \* the owner: new, up, join, stopped
          running,  \* running_
          queue,    \* queue_
          arg,      \* the task each caller of run() holds
          task,     \* the task each worker executes
          ran,      \* history: tasks executed, in order
          refused   \* history: tasks that run() returned without

config == <<maxQueueSize, threads>>
poolVars == <<config, wpc, rpc, spc, running, queue, arg, task, ran, refused>>
Callers == Workers \cup Clients

PoolInit == /\ maxQueueSize \in QueueSizes
            /\ threads = {}
            /\ wpc = [w \in Workers |-> "new"]
            /\ rpc = [c \in Callers |-> "idle"]
            /\ spc = "new"
            /\ running = FALSE
            /\ queue = <<>>
            /\ arg = [c \in Callers |-> NoTask]
            /\ task = [w \in Workers |-> NoTask]
            /\ ran = <<>>
            /\ refused = {}

IsFull == maxQueueSize > 0 /\ Len(queue) >= maxQueueSize

(* start(): running_ is set before the first thread exists.  Thread::start *)
(* returns only when the new thread is under way.                          *)
StartPool(made) ==
  /\ spc = "new"
  /\ spc' = "up"
  /\ running' = TRUE
  /\ threads' = made
  /\ wpc' = [w \in Workers |-> IF w \in made THEN "test" ELSE "new"]
  /\ UNCHANGED <<maxQueueSize, rpc, queue, arg, task, ran, refused>>

(* Mutant: stop() signals one worker only. *)
StopPoolNotifiesOne == /\ spc = "up"
                       /\ spc' = "join"
                       /\ running' = FALSE
                       /\ wpc' \in Notify(wpc, "notEmpty", "take")
                       /\ rpc' = NotifyAll(rpc, "notFull", "lock")
                       /\ UNCHANGED <<config, queue, arg, task, ran, refused>>

(* stop(): the flag and both broadcasts under mutex_. *)
StopPool == /\ spc = "up"
            /\ spc' = "join"
            /\ running' = FALSE
            /\ wpc' = NotifyAll(wpc, "notEmpty", "take")
            /\ rpc' = NotifyAll(rpc, "notFull", "lock")
            /\ UNCHANGED <<config, queue, arg, task, ran, refused>>

(* ... then join() of each thread; ~ThreadPool() calls stop() likewise. *)
PoolJoined == /\ spc = "join"
              /\ \A w \in threads : wpc[w] = "done"
              /\ spc' = "stopped"
              /\ UNCHANGED <<config, wpc, rpc, running, queue, arg, task, ran, refused>>

(* A task is submitted once. *)
Fresh(t) == /\ t \notin {arg[c] : c \in Callers} \cup {task[w] : w \in Workers} \cup refused
            /\ \A i \in 1..Len(queue) : queue[i] # t
            /\ \A i \in 1..Len(ran) : ran[i] # t

(* run(): a client, or a worker inside a task that submits tasks. *)
MayCall(c) == /\ spc # "new"
              /\ rpc[c] = "idle"
              /\ c \in Workers => wpc[c] = "task" /\ task[c] \in Nested
Run(c, t) == /\ MayCall(c)
             /\ Fresh(t)
             /\ IF threads = {}
                THEN ran' = Append(ran, t) /\ UNCHANGED <<rpc, arg>>
                ELSE /\ rpc' = [rpc EXCEPT ![c] = "lock"]
                     /\ arg' = [arg EXCEPT ![c] = t]
                     /\ UNCHANGED ran
             /\ UNCHANGED <<config, wpc, spc, running, queue, task, refused>>

RunWaits(c) == /\ rpc[c] = "lock"
               /\ IsFull /\ running
               /\ rpc' = [rpc EXCEPT ![c] = "notFull"]
               /\ UNCHANGED <<config, wpc, spc, running, queue, arg, task, ran, refused>>

RunRefused(c) == /\ rpc[c] = "lock"
                 /\ ~running
                 /\ refused' = refused \cup {arg[c]}
                 /\ rpc' = [rpc EXCEPT ![c] = "idle"]
                 /\ arg' = [arg EXCEPT ![c] = NoTask]
                 /\ UNCHANGED <<config, wpc, spc, running, queue, task, ran>>

(* Mutant: run() signals only when the queue was empty. *)
RunQueuesIfEmpty(c) ==
  /\ rpc[c] = "lock"
  /\ running /\ ~IsFull
  /\ queue' = Append(queue, arg[c])
  /\ wpc' \in IF queue = <<>> THEN Notify(wpc, "notEmpty", "take") ELSE {wpc}
  /\ rpc' = [rpc EXCEPT ![c] = "idle"]
  /\ arg' = [arg EXCEPT ![c] = NoTask]
  /\ UNCHANGED <<config, spc, running, task, ran, refused>>

RunQueues(c) == /\ rpc[c] = "lock"
                /\ running /\ ~IsFull
                /\ queue' = Append(queue, arg[c])
                /\ wpc' \in Notify(wpc, "notEmpty", "take")
                /\ rpc' = [rpc EXCEPT ![c] = "idle"]
                /\ arg' = [arg EXCEPT ![c] = NoTask]
                /\ UNCHANGED <<config, spc, running, task, ran, refused>>

(* runInThread(): while (running_), read without the mutex. *)
WorkerTest(w) == /\ wpc[w] = "test"
                 /\ wpc' = [wpc EXCEPT ![w] = IF running THEN "take" ELSE "done"]
                 /\ UNCHANGED <<config, rpc, spc, running, queue, arg, task, ran, refused>>

TakeWaits(w) == /\ wpc[w] = "take"
                /\ queue = <<>> /\ running
                /\ wpc' = [wpc EXCEPT ![w] = "notEmpty"]
                /\ UNCHANGED <<config, rpc, spc, running, queue, arg, task, ran, refused>>

(* take() finds a task, stopped or not, and the worker enters it. *)
TakeTask(w) == /\ wpc[w] = "take"
               /\ queue # <<>>
               /\ task' = [task EXCEPT ![w] = Head(queue)]
               /\ ran' = Append(ran, Head(queue))
               /\ queue' = Tail(queue)
               /\ rpc' \in IF maxQueueSize > 0 THEN Notify(rpc, "notFull", "lock") ELSE {rpc}
               /\ wpc' = [wpc EXCEPT ![w] = "task"]
               /\ UNCHANGED <<config, spc, running, arg, refused>>

(* take() returns an empty task when the pool was stopped. *)
TakeNothing(w) == /\ wpc[w] = "take"
                  /\ queue = <<>> /\ ~running
                  /\ wpc' = [wpc EXCEPT ![w] = "test"]
                  /\ UNCHANGED <<config, rpc, spc, running, queue, arg, task, ran, refused>>

TaskReturns(w) == /\ wpc[w] = "task"
                  /\ rpc[w] = "idle"
                  /\ wpc' = [wpc EXCEPT ![w] = "test"]
                  /\ task' = [task EXCEPT ![w] = NoTask]
                  /\ UNCHANGED <<config, rpc, spc, running, queue, arg, ran, refused>>

SpuriousWakeup == /\ \/ wpc' \in Spurious(wpc, "notEmpty", "take") /\ UNCHANGED rpc
                     \/ rpc' \in Spurious(rpc, "notFull", "lock") /\ UNCHANGED wpc
                  /\ UNCHANGED <<config, spc, running, queue, arg, task, ran, refused>>

RunStep(c) == RunWaits(c) \/ RunRefused(c) \/ RunQueues(c)
WorkerStep(w) == WorkerTest(w) \/ TakeWaits(w) \/ TakeTask(w) \/ TakeNothing(w) \/ TaskReturns(w)

PoolNext == \/ \E made \in SUBSET Workers : StartPool(made)
            \/ StopPool \/ PoolJoined \/ SpuriousWakeup
            \/ \E c \in Callers : RunStep(c) \/ \E t \in Tasks : Run(c, t)
            \/ \E w \in Workers : WorkerStep(w)

PoolSpec == PoolInit /\ [][PoolNext]_poolVars

-----------------------------------------------------------------------------
(* Lost wakeups of the workers: while the pool runs and a worker sleeps,   *)
(* every queued task has a worker of its own at take(), awake.             *)
TasksHaveWorkers ==
  running /\ At(wpc, "notEmpty") # {} => Len(queue) <= Cardinality(At(wpc, "take"))

(* Lost wakeups of the callers: while the pool runs and a caller sleeps in *)
(* run(), every free place of the queue has a caller awake at the mutex;   *)
(* once stop() was called nobody sleeps on.                                *)
PlacesHaveCallers ==
  At(rpc, "notFull") # {} =>
    running /\ maxQueueSize - Len(queue) <= Cardinality(At(rpc, "lock"))

(* A task that was submitted is executed, held, queued or refused, and     *)
(* only in one of these ways: nothing is executed twice or after run()     *)
(* gave it back.                                                           *)
TaskFateUnique ==
  /\ \A i, j \in 1..Len(ran) : ran[i] = ran[j] => i = j
  /\ \A i \in 1..Len(ran) : /\ ran[i] \notin refused
                            /\ \A j \in 1..Len(queue) : queue[j] # ran[i]
  /\ \A j \in 1..Len(queue) : queue[j] \notin refused

(* The notifies of run(), take() and stop() leave nobody asleep with       *)
(* something to do, and a task has one fate, also when tasks submit tasks  *)
(* to a full queue.                                                        *)
PoolSound == TasksHaveWorkers /\ PlacesHaveCallers /\ TaskFateUnique

(* stop() returns, whatever the workers and callers wait for, also when    *)
(* every worker sits in a run() called by its own task on a full queue.    *)
PoolStopReturns == spc = "join" ~> spc = "stopped"

AllWorkersWait == \A w \in threads : wpc[w] = "task" /\ rpc[w] = "notFull"

(* A queued task is executed, unless the pool is stopped, or every worker  *)
(* waits inside a task for the queue to have a place, which then never     *)
(* comes.                                                                  *)
QueuedTaskRuns ==
  \A t \in Tasks : (\E i \in 1..Len(queue) : queue[i] = t)
                     ~> (\E i \in 1..Len(ran) : ran[i] = t) \/ ~running \/ AllWorkersWait
=============================================================================
