----------------------------- MODULE WorkerPool -----------------------------
(***************************************************************************)
(* The worker pool of cluster/worker_pool.go: one queue and one worker     *)
(* goroutine per key, created on demand by the goroutines that submit      *)
(* tasks, and removed by a cleaner when it has not been used for a time.   *)
(* A queue's mutex is held across other steps by the cleaner only; the     *)
(* short sections of the others are single steps that wait for it.         *)
(* WorkerPool.Stop is left out: no code but the tests calls it.            *)
(***************************************************************************)
EXTENDS Naturals, Sequences, FiniteSets

CONSTANTS
  Uids,        \* share IDs of the tasks
  KeyOf,       \* the key getQueue computes: the ID itself or its hash bucket
  Submitters,  \* goroutines that call Submit
  QueueSize,   \* capacity of taskChan
  Cleaning,    \* clearInterval and clearTimePass are positive
  Quick,       \* no task and no call of Submit lasts longer than clearTimePass
  MaxTasks     \* bound: tasks submitted

ASSUME PoolAssumption ==
  /\ IsFiniteSet(Submitters) /\ QueueSize \in Nat \ {0} /\ MaxTasks \in Nat \ {0}
  /\ Uids # {}
  /\ Cleaning \in BOOLEAN /\ Quick \in BOOLEAN
  /\ KeyOf = [u \in Uids |-> KeyOf[u]]

Keys == {KeyOf[u] : u \in Uids}
Queues == 1..MaxTasks   \* every queue is made for a task
NoQueue == 0
Task == [uid : Uids, n : 1..MaxTasks]

VARIABLES
  queues,    \* the map from keys to queues
  key,       \* the key each queue was made for, in the order they were made
  taskChan,  \* per queue
  closed,    \* its channel is closed
  wg,        \* its WaitGroup's counter
  mu,        \* the cleaner holds its mutex
  stale,     \* now - lastActive > clearTimePass
  worker,    \* where its worker goroutine is
  task,      \* the tasks the worker is executing: none or one
  sub, arg, queue, \* a submitter's place, the task it submits, its queue
  sent,      \* number of tasks so far
  cleaner, todo, victim, doomed, \* the cleaner's place, keys to visit, the key
                                 \* and the queue it is removing
  crashed    \* a goroutine has panicked: the process is gone

mapVars == <<queues, key>>
queueVars == <<taskChan, closed, wg, mu, stale>>
workerVars == <<worker, task>>
subVars == <<sub, arg, queue, sent>>
cleanVars == <<cleaner, todo, victim, doomed>>
vars == <<mapVars, queueVars, workerVars, subVars, cleanVars, crashed>>

Made == 1..Len(key)

-----------------------------------------------------------------------------
(* Submit *)

StartSubmit(s, u) ==
  /\ sub[s] = "idle" /\ sent < MaxTasks
  /\ sub' = [sub EXCEPT ![s] = "load"]
  /\ sent' = sent + 1
  /\ arg' = [arg EXCEPT ![s] = [uid |-> u, n |-> sent']]
  /\ UNCHANGED <<mapVars, queueVars, workerVars, queue, cleanVars, crashed>>

\* Load; on a miss a queue is made and its worker started, but not stored yet.
getQueue(s) ==
  /\ sub[s] = "load"
  /\ LET k == KeyOf[arg[s].uid] IN
       IF queues[k] # NoQueue
         THEN /\ queue' = [queue EXCEPT ![s] = queues[k]]
              /\ sub' = [sub EXCEPT ![s] = "lock"]
              /\ UNCHANGED <<key, worker>>
         ELSE /\ key' = Append(key, k)
              /\ worker' = [worker EXCEPT ![Len(key')] = "receive"]
              /\ queue' = [queue EXCEPT ![s] = Len(key')]
              /\ sub' = [sub EXCEPT ![s] = "store"]
  /\ UNCHANGED <<queues, queueVars, task, arg, sent, cleanVars, crashed>>

StoreQueue(s) ==
  /\ sub[s] = "store"
  /\ queues' = [queues EXCEPT ![KeyOf[arg[s].uid]] = queue[s]]
  /\ sub' = [sub EXCEPT ![s] = "lock"]
  /\ UNCHANGED <<key, queueVars, workerVars, arg, queue, sent, cleanVars, crashed>>

TouchQueue(s) ==
  /\ sub[s] = "lock" /\ ~mu[queue[s]]
  /\ stale' = [stale EXCEPT ![queue[s]] = FALSE]
  /\ sub' = [sub EXCEPT ![s] = "add"]
  /\ UNCHANGED <<mapVars, taskChan, closed, wg, mu, workerVars, arg, queue, sent,
                 cleanVars, crashed>>

\* Mutant: Submit does not count its task.
AddTaskForgotten(s) ==
  /\ sub[s] = "add"
  /\ sub' = [sub EXCEPT ![s] = "send"]
  /\ UNCHANGED <<mapVars, queueVars, workerVars, arg, queue, sent, cleanVars,
                 crashed>>

AddTask(s) ==
  /\ sub[s] = "add"
  /\ wg' = [wg EXCEPT ![queue[s]] = @ + 1]
  /\ sub' = [sub EXCEPT ![s] = "send"]
  /\ UNCHANGED <<mapVars, taskChan, closed, mu, stale, workerVars, arg, queue, sent,
                 cleanVars, crashed>>

\* A send on a closed channel panics, also one that was waiting for room: nothing
\* recovers it, and every goroutine is gone.
SendTask(s) ==
  /\ sub[s] = "send"
  /\ IF closed[queue[s]]
       THEN /\ crashed' = TRUE
            /\ sub' = [x \in Submitters |-> "dead"]
            /\ worker' = [q \in Queues |-> "dead"]
            /\ cleaner' = "dead"
            /\ UNCHANGED <<taskChan, queue>>
       ELSE /\ Len(taskChan[queue[s]]) < QueueSize
            /\ taskChan' = [taskChan EXCEPT ![queue[s]] = Append(@, arg[s])]
            /\ sub' = [sub EXCEPT ![s] = "idle"]
            /\ queue' = [queue EXCEPT ![s] = NoQueue]
            /\ UNCHANGED <<crashed, worker, cleaner>>
  /\ UNCHANGED <<mapVars, closed, wg, mu, stale, task, arg, sent, todo, victim,
                 doomed>>

-----------------------------------------------------------------------------
(* The worker of queue q *)

\* Mutant: every task gets a goroutine of its own (go task()).
RunTaskInBackground(q) ==
  /\ worker[q] = "receive" /\ taskChan[q] # <<>>
  /\ task' = [task EXCEPT ![q] = @ \cup {Head(taskChan[q])}]
  /\ taskChan' = [taskChan EXCEPT ![q] = Tail(@)]
  /\ UNCHANGED <<mapVars, closed, wg, mu, stale, worker, subVars, cleanVars, crashed>>

RunTask(q) ==
  /\ worker[q] = "receive" /\ taskChan[q] # <<>>
  /\ task' = [task EXCEPT ![q] = {Head(taskChan[q])}]
  /\ taskChan' = [taskChan EXCEPT ![q] = Tail(@)]
  /\ worker' = [worker EXCEPT ![q] = "run"]
  /\ UNCHANGED <<mapVars, closed, wg, mu, stale, subVars, cleanVars, crashed>>

TaskReturns(q) ==
  /\ worker[q] = "run"
  /\ task' = [task EXCEPT ![q] = {}]
  /\ worker' = [worker EXCEPT ![q] = "lock"]
  /\ UNCHANGED <<mapVars, queueVars, subVars, cleanVars, crashed>>

TaskTouches(q) ==
  /\ worker[q] = "lock" /\ ~mu[q]
  /\ stale' = [stale EXCEPT ![q] = FALSE]
  /\ worker' = [worker EXCEPT ![q] = "done"]
  /\ UNCHANGED <<mapVars, taskChan, closed, wg, mu, task, subVars, cleanVars, crashed>>

\* Mutant: the worker goes to its next task without wg.Done().
TaskNotDone(q) ==
  /\ worker[q] = "done"
  /\ worker' = [worker EXCEPT ![q] = "receive"]
  /\ UNCHANGED <<mapVars, queueVars, task, subVars, cleanVars, crashed>>

TaskDone(q) ==
  /\ worker[q] = "done"
  /\ wg' = [wg EXCEPT ![q] = @ - 1]
  /\ worker' = [worker EXCEPT ![q] = "receive"]
  /\ UNCHANGED <<mapVars, taskChan, closed, mu, stale, task, subVars, cleanVars, crashed>>

\* The range over taskChan ends when the channel is closed and empty.
WorkerExits(q) ==
  /\ worker[q] = "receive" /\ closed[q] /\ taskChan[q] = <<>>
  /\ worker' = [worker EXCEPT ![q] = "exit"]
  /\ UNCHANGED <<mapVars, queueVars, task, subVars, cleanVars, crashed>>

-----------------------------------------------------------------------------
(* cleanupOldQueues *)

\* clearTimePass goes by without a use of q, a queue the cleaner can visit.
Age(q) ==
  /\ Cleaning /\ ~stale[q] /\ ~crashed
  /\ \E k \in Keys : queues[k] = q
  /\ Quick => /\ wg[q] = 0 /\ \A s \in Submitters : sub[s] \in {"idle", "load"}
                                                    \/ queue[s] # q
  /\ stale' = [stale EXCEPT ![q] = TRUE]
  /\ UNCHANGED <<mapVars, taskChan, closed, wg, mu, workerVars, subVars, cleanVars,
                 crashed>>

\* now is read once per tick: a queue that is not stale by then is passed over.
CleanerTicks ==
  /\ Cleaning /\ cleaner = "select"
  /\ todo' = {k \in Keys : queues[k] # NoQueue /\ stale[queues[k]]}
  /\ cleaner' = "range"
  /\ UNCHANGED <<mapVars, queueVars, workerVars, subVars, victim, doomed, crashed>>

\* Range visits k and locks its queue; the mutex is kept when Stop is called.
VisitQueue(k) ==
  /\ cleaner = "range" /\ k \in todo
  /\ todo' = todo \ {k}
  /\ IF stale[queues[k]]
       THEN /\ mu' = [mu EXCEPT ![queues[k]] = TRUE]
            /\ victim' = k /\ doomed' = queues[k]
            /\ cleaner' = "stop"
       ELSE UNCHANGED <<mu, victim, doomed, cleaner>>
  /\ UNCHANGED <<mapVars, taskChan, closed, wg, stale, workerVars, subVars, crashed>>

RangeEnds ==
  /\ cleaner = "range" /\ todo = {}
  /\ cleaner' = "select"
  /\ UNCHANGED <<mapVars, queueVars, workerVars, subVars, todo, victim, doomed, crashed>>

\* wg.Wait() of Stop returns.
StopQueue ==
  /\ cleaner = "stop" /\ wg[doomed] = 0
  /\ cleaner' = "close"
  /\ UNCHANGED <<mapVars, queueVars, workerVars, subVars, todo, victim, doomed, crashed>>

CloseQueue ==
  /\ cleaner = "close"
  /\ closed' = [closed EXCEPT ![doomed] = TRUE]
  /\ cleaner' = "delete"
  /\ UNCHANGED <<mapVars, taskChan, wg, mu, stale, workerVars, subVars, todo, victim,
                 doomed, crashed>>

\* Delete the key, then unlock.
DeleteQueue ==
  /\ cleaner = "delete"
  /\ mu' = [mu EXCEPT ![doomed] = FALSE]
  /\ queues' = [queues EXCEPT ![victim] = NoQueue]
  /\ cleaner' = "range" /\ doomed' = NoQueue
  /\ UNCHANGED <<key, taskChan, closed, wg, stale, workerVars, subVars, todo, victim,
                 crashed>>

-----------------------------------------------------------------------------
Init ==
  /\ queues = [k \in Keys |-> NoQueue] /\ key = <<>>
  /\ taskChan = [q \in Queues |-> <<>>]
  /\ closed = [q \in Queues |-> FALSE]
  /\ wg = [q \in Queues |-> 0]
  /\ mu = [q \in Queues |-> FALSE]
  /\ stale = [q \in Queues |-> FALSE]
  /\ worker = [q \in Queues |-> "none"] /\ task = [q \in Queues |-> {}]
  /\ sub = [s \in Submitters |-> "idle"] /\ arg = [s \in Submitters |-> CHOOSE t \in Task : TRUE]
  /\ queue = [s \in Submitters |-> NoQueue] /\ sent = 0
  /\ cleaner = "select" /\ todo = {} /\ victim = (CHOOSE k \in Keys : TRUE)
  /\ doomed = NoQueue
  /\ crashed = FALSE

SubmitStep(s) ==
  getQueue(s) \/ StoreQueue(s) \/ TouchQueue(s) \/ AddTask(s) \/ SendTask(s)
WorkerStep(q) ==
  RunTask(q) \/ TaskReturns(q) \/ TaskTouches(q) \/ TaskDone(q) \/ WorkerExits(q)
CleanerStep ==
  \/ CleanerTicks
  \/ \E k \in Keys : VisitQueue(k)
  \/ RangeEnds \/ StopQueue \/ CloseQueue \/ DeleteQueue

Next ==
  \/ \E s \in Submitters : SubmitStep(s) \/ \E u \in Uids : StartSubmit(s, u)
  \/ \E q \in Made : WorkerStep(q) \/ Age(q)
  \/ CleanerStep

Spec == Init /\ [][Next]_vars

\* Goroutines are scheduled and tasks return.
Fairness ==
  /\ \A s \in Submitters : WF_vars(SubmitStep(s))
  /\ \A q \in Queues : WF_vars(WorkerStep(q))
  /\ WF_vars(CleanerStep)

FairSpec == Spec /\ Fairness

-----------------------------------------------------------------------------
(* Properties *)

Senders(q) == {s \in Submitters : sub[s] = "send" /\ queue[s] = q}
Busy(q) == worker[q] \in {"run", "lock", "done"}

\* The counter that Stop waits for is, in every interleaving of the submitters,
\* the worker and the cleaner, the number of tasks submitted to the queue and not
\* finished: those in the channel, the one being executed and those of callers
\* between wg.Add(1) and the end of the send.  It is never negative, so wg.Done
\* never panics.
WaitGroupCounts ==
  ~crashed => \A q \in Queues :
    wg[q] = Len(taskChan[q]) + (IF Busy(q) THEN 1 ELSE 0) + Cardinality(Senders(q))

\* Every task submitted is executed: a queue with unfinished tasks drains, unless
\* the process crashes.
QueuesDrain == \A q \in Queues : wg[q] > 0 ~> (wg[q] = 0 \/ crashed)

\* "Stop stops the queue and waits for its tasks": when tasks return, Stop returns.
StopReturns == cleaner = "stop" ~> cleaner # "stop"
=============================================================================
