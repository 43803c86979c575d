--------------------------- MODULE WorkerPoolProofs --------------------------
(***************************************************************************)
(* Proofs about the worker pool: what its WaitGroup counts, for any number  *)
(* of submitters (WaitGroupCounts), and that with one submitter it is a     *)
(* SerialExecutor (RunsSerially).  With any number of submitters each queue *)
(* by itself is one (QueuesRunSerially).  And why a cleaner that waits for  *)
(* the task of a worker at its end waits for ever (Wedged).                 *)
(***************************************************************************)
EXTENDS WorkerPoolExecutor, Integers, FiniteSetTheorems, TLAPS

WorkerPlaces == {"none", "receive", "run", "lock", "done", "exit", "dead"}
SubPlaces == {"idle", "load", "store", "lock", "add", "send", "dead"}

PoolType ==
  /\ queues \in [Keys -> Nat] /\ key \in Seq(Keys)
  /\ taskChan \in [Queues -> Seq(Task)] /\ wg \in [Queues -> Int]
  /\ closed \in [Queues -> BOOLEAN] /\ mu \in [Queues -> BOOLEAN] /\ stale \in [Queues -> BOOLEAN]
  /\ worker \in [Queues -> WorkerPlaces] /\ task \in [Queues -> SUBSET Task]
  /\ sub \in [Submitters -> SubPlaces] /\ arg \in [Submitters -> Task]
  /\ queue \in [Submitters -> Nat] /\ sent \in 0..MaxTasks
  /\ cleaner \in {"select", "range", "stop", "close", "delete", "dead"}
  /\ todo \subseteq Keys /\ victim \in Keys /\ doomed \in Nat
  /\ crashed \in BOOLEAN

\* The facts about the constants that the proofs use.
LEMMA PoolFacts ==
  /\ IsFiniteSet(Submitters) /\ MaxTasks \in Nat \ {0} /\ QueueSize \in Nat \ {0}
  /\ Queues \subseteq Nat \ {0}
  /\ \A t \in Task : t.uid \in Uids /\ KeyOf[t.uid] \in Keys
BY PoolAssumption DEF Queues, Task, Keys

\* Every step of a submitter keeps the types.
LEMMA SubmitTyped ==
  ASSUME PoolType, NEW s \in Submitters, SubmitStep(s) \/ \E u \in Uids : StartSubmit(s, u)
  PROVE  PoolType'
<1>0. arg[s] \in Task /\ KeyOf[arg[s].uid] \in Keys /\ queue[s] \in Nat
  BY PoolFacts DEF PoolType
<1>1. ASSUME NEW u \in Uids, StartSubmit(s, u) PROVE PoolType'
  <2>1. sent' \in 1..MaxTasks
    BY <1>1, PoolFacts DEF StartSubmit, PoolType
  <2>2. [uid |-> u, n |-> sent'] \in Task
    BY <2>1 DEF Task
  <2>3. sub' \in [Submitters -> SubPlaces] /\ arg' \in [Submitters -> Task] /\ sent' \in 0..MaxTasks
    <3>1. sub' \in [Submitters -> SubPlaces]
      BY <1>1 DEF StartSubmit, PoolType, SubPlaces
    <3>2. arg' \in [Submitters -> Task]
      BY <1>1, <2>2 DEF StartSubmit, PoolType
    <3> QED BY <2>1, <3>1, <3>2
  <2> QED BY <1>1, <2>3 DEF StartSubmit, PoolType, mapVars, queueVars, workerVars, cleanVars
<1>2. CASE getQueue(s)
  <2>1. key' \in Seq(Keys) /\ Len(key') \in Nat
    <3>1. key \in Seq(Keys) /\ key' \in {key, Append(key, KeyOf[arg[s].uid])}
      BY <1>2 DEF getQueue, PoolType
    <3> QED BY <1>0, <3>1
  <2>2. queue' \in [Submitters -> Nat]
    BY Zenon, <1>0, <1>2, <2>1 DEF getQueue, PoolType
  <2>3. worker' \in [Queues -> WorkerPlaces]
    BY Zenon, <1>2 DEF getQueue, PoolType, WorkerPlaces
  <2>4. sub' \in [Submitters -> SubPlaces]
    <3>1. sub' \in {[sub EXCEPT ![s] = "lock"], [sub EXCEPT ![s] = "store"]}
      BY Zenon, <1>2 DEF getQueue
    <3>2. sub \in [Submitters -> SubPlaces] /\ "lock" \in SubPlaces /\ "store" \in SubPlaces
      BY Zenon DEF PoolType, SubPlaces
    <3> QED BY <3>1, <3>2
  <2> QED BY <1>2, <2>1, <2>2, <2>3, <2>4 DEF getQueue, PoolType, queueVars, cleanVars
<1>3. CASE StoreQueue(s)
  <2>1. queues' \in [Keys -> Nat]
    BY <1>0, <1>3 DEF StoreQueue, PoolType
  <2>2. sub' \in [Submitters -> SubPlaces]
    BY <1>3 DEF StoreQueue, PoolType, SubPlaces
  <2> QED BY <1>3, <2>1, <2>2 DEF StoreQueue, PoolType, queueVars, workerVars, cleanVars
<1>4. CASE TouchQueue(s)
  BY Zenon, <1>4 DEF TouchQueue, PoolType, SubPlaces, mapVars, workerVars, cleanVars
<1>5. CASE AddTask(s)
  <2>1. wg' \in [Queues -> Int]
    <3>1. wg \in [Queues -> Int] /\ wg' = [wg EXCEPT ![queue[s]] = @ + 1]
      BY <1>5 DEF AddTask, PoolType
    <3>2. \A q \in Queues : wg[q] + 1 \in Int
      BY <3>1
    <3> QED BY Zenon, <3>1, <3>2
  <2>2. sub' \in [Submitters -> SubPlaces]
    BY <1>5 DEF AddTask, PoolType, SubPlaces
  <2> QED BY <1>5, <2>1, <2>2 DEF AddTask, PoolType, mapVars, workerVars, cleanVars
<1>6. CASE SendTask(s)
  <2>1. taskChan' \in [Queues -> Seq(Task)]
    <3>1. CASE queue[s] \in Queues
      <4>1. taskChan[queue[s]] \in Seq(Task)
        BY <3>1 DEF PoolType
      <4>2. Append(taskChan[queue[s]], arg[s]) \in Seq(Task)
        BY <1>0, <4>1
      <4> QED BY Zenon, <1>6, <3>1, <4>2 DEF SendTask, PoolType
    <3>2. CASE queue[s] \notin Queues
      BY <1>6, <3>2 DEF SendTask, PoolType
    <3> QED BY <3>1, <3>2
  <2>2. sub' \in [Submitters -> SubPlaces]
    BY Zenon, <1>6 DEF SendTask, PoolType, SubPlaces
  <2>3. queue' \in [Submitters -> Nat]
    <3>1. queue' = queue \/ queue' = [queue EXCEPT ![s] = 0]
      BY <1>6 DEF SendTask, NoQueue
    <3> QED BY <3>1 DEF PoolType
  <2>4. worker' \in [Queues -> WorkerPlaces] /\ cleaner' \in {cleaner, "dead"} /\ crashed' \in BOOLEAN
    BY Zenon, <1>6 DEF SendTask, PoolType, WorkerPlaces
  <2> QED BY <1>6, <2>1, <2>2, <2>3, <2>4 DEF SendTask, PoolType, mapVars
<1> QED BY <1>1, <1>2, <1>3, <1>4, <1>5, <1>6 DEF SubmitStep

\* Every step of a worker, and the passing of time, keep the types.
LEMMA WorkerTyped ==
  ASSUME PoolType, NEW q \in Queues, WorkerStep(q) \/ Age(q)
  PROVE  PoolType'
<1>1. CASE RunTask(q)
  <2>1. taskChan[q] \in Seq(Task) /\ taskChan[q] # <<>>
    BY <1>1 DEF RunTask, PoolType
  <2>2. Tail(taskChan[q]) \in Seq(Task) /\ {Head(taskChan[q])} \subseteq Task
    BY <2>1
  <2>3. taskChan' \in [Queues -> Seq(Task)]
    BY <1>1, <2>2 DEF RunTask, PoolType
  <2>4. task' \in [Queues -> SUBSET Task]
    BY <1>1, <2>2 DEF RunTask, PoolType
  <2>5. worker' \in [Queues -> WorkerPlaces]
    BY <1>1 DEF RunTask, PoolType, WorkerPlaces
  <2> QED BY <1>1, <2>3, <2>4, <2>5 DEF RunTask, PoolType, mapVars, subVars, cleanVars
<1>2. CASE TaskReturns(q)
  <2>1. task' \in [Queues -> SUBSET Task] /\ worker' \in [Queues -> WorkerPlaces]
    BY <1>2 DEF TaskReturns, PoolType, WorkerPlaces
  <2> QED BY <1>2, <2>1 DEF TaskReturns, PoolType, mapVars, queueVars, subVars, cleanVars
<1>3. CASE TaskTouches(q)
  BY <1>3 DEF TaskTouches, PoolType, WorkerPlaces, mapVars, subVars, cleanVars
<1>4. CASE TaskDone(q)
  BY <1>4 DEF TaskDone, PoolType, WorkerPlaces, mapVars, subVars, cleanVars
<1>5. CASE WorkerExits(q)
  BY <1>5 DEF WorkerExits, PoolType, WorkerPlaces, mapVars, queueVars, subVars, cleanVars
<1>6. CASE Age(q)
  BY <1>6 DEF Age, PoolType, mapVars, workerVars, subVars, cleanVars
<1> QED BY <1>1, <1>2, <1>3, <1>4, <1>5, <1>6 DEF WorkerStep

\* Every step of the cleaner keeps the types.
LEMMA CleanerTyped ==
  ASSUME PoolType, CleanerStep
  PROVE  PoolType'
<1> USE DEF PoolType, mapVars, workerVars, subVars
<1>1. CASE CleanerTicks
  BY <1>1 DEF CleanerTicks, queueVars
<1>2. ASSUME NEW k \in Keys, VisitQueue(k) PROVE PoolType'
  <2>1. mu' \in [Queues -> BOOLEAN]
    BY Zenon, <1>2 DEF VisitQueue
  <2>2. /\ todo' \subseteq Keys /\ victim' \in Keys /\ doomed' \in Nat
        /\ cleaner' \in {"select", "range", "stop", "close", "delete", "dead"}
    BY <1>2 DEF VisitQueue
  <2> QED BY <1>2, <2>1, <2>2 DEF VisitQueue
<1>3. CASE RangeEnds \/ StopQueue
  BY <1>3 DEF RangeEnds, StopQueue, queueVars
<1>4. CASE CloseQueue
  BY Zenon, <1>4 DEF CloseQueue
<1>5. CASE DeleteQueue
  BY Zenon, <1>5 DEF DeleteQueue, NoQueue
<1> QED BY Zenon, <1>1, <1>2, <1>3, <1>4, <1>5 DEF CleanerStep

\* The types hold at the start.
LEMMA InitTyped == Init => PoolType
<1> SUFFICES ASSUME Init PROVE PoolType
  OBVIOUS
<1>1. Uids # {} /\ 1 \in 1..MaxTasks
  BY PoolAssumption
<1>2. \E t \in Task : TRUE
  <2>1. PICK u \in Uids : TRUE
    BY <1>1
  <2>2. [uid |-> u, n |-> 1] \in Task
    BY <1>1 DEF Task
  <2> QED BY <2>2
<1>3. \E k \in Keys : TRUE
  BY <1>1 DEF Keys
<1>4. <<>> \in Seq(Keys) /\ <<>> \in Seq(Task)
  OBVIOUS
<1>5. arg \in [Submitters -> Task] /\ victim \in Keys
  <2>1. (CHOOSE t \in Task : TRUE) \in Task /\ (CHOOSE k \in Keys : TRUE) \in Keys
    BY <1>2, <1>3
  <2> QED BY <2>1 DEF Init
<1>6. taskChan \in [Queues -> Seq(Task)]
  BY <1>4, Zenon DEF Init
<1>7. sent \in 0..MaxTasks
  BY PoolFacts DEF Init
<1>8. sub \in [Submitters -> SubPlaces]
  BY DEF Init, SubPlaces
<1>9. worker \in [Queues -> WorkerPlaces] /\ wg \in [Queues -> Int]
  BY DEF Init, WorkerPlaces
<1>10. queues \in [Keys -> Nat] /\ queue \in [Submitters -> Nat]
  BY DEF Init, NoQueue
<1>11. closed \in [Queues -> BOOLEAN] /\ mu \in [Queues -> BOOLEAN] /\ stale \in [Queues -> BOOLEAN]
  BY DEF Init
<1>12. task \in [Queues -> SUBSET Task]
  BY DEF Init
<1> QED BY Zenon, <1>4, <1>5, <1>6, <1>7, <1>8, <1>9, <1>10, <1>11, <1>12 DEF Init, PoolType, NoQueue

-----------------------------------------------------------------------------
(* The counter of the WaitGroup *)

\* The number of unfinished tasks of a queue.
Unfinished(q) == Len(taskChan[q]) + (IF Busy(q) THEN 1 ELSE 0) + Cardinality(Senders(q))

\* The submitters that may have to make a queue.
Loading == {s \in Submitters : sub[s] = "load"}

\* The counter is right, a queue that has not been made has no worker, and every queue was
\* made for a task.
CountInv ==
  /\ PoolType
  /\ Len(key) + Cardinality(Loading) <= sent
  /\ ~crashed => \A q \in Queues : q > Len(key) => worker[q] = "none"
  /\ WaitGroupCounts

\* Submitters that are not between wg.Add(1) and the end of their send do not matter.
LEMMA SendersKept ==
  ASSUME NEW q,
         \A s \in Submitters : (sub[s] = "send" /\ queue[s] = q) <=> (sub'[s] = "send" /\ queue'[s] = q)
  PROVE  Senders(q)' = Senders(q)
BY DEF Senders

\* The senders are finitely many; one more, or one less, changes their number by one.
LEMMA SendersChange ==
  ASSUME NEW q, NEW s \in Submitters
  PROVE  /\ Cardinality(Senders(q)) \in Nat
         /\ s \notin Senders(q) => Cardinality(Senders(q) \cup {s}) = Cardinality(Senders(q)) + 1
         /\ s \in Senders(q) => Cardinality(Senders(q) \ {s}) = Cardinality(Senders(q)) - 1
<1>1. IsFiniteSet(Senders(q))
  BY PoolFacts, FS_Subset DEF Senders
<1> QED BY <1>1, FS_CardinalityType, FS_AddElement, FS_RemoveElement

\* The same for those that may have to make a queue.
LEMMA LoadingChange ==
  ASSUME NEW s \in Submitters
  PROVE  /\ Cardinality(Loading) \in Nat
         /\ s \notin Loading => Cardinality(Loading \cup {s}) = Cardinality(Loading) + 1
         /\ s \in Loading => Cardinality(Loading \ {s}) = Cardinality(Loading) - 1
<1>1. IsFiniteSet(Loading)
  BY PoolFacts, FS_Subset DEF Loading
<1> QED BY <1>1, FS_CardinalityType, FS_AddElement, FS_RemoveElement

\* Every queue was made for a task: it has a number in Queues.
LEMMA MadeInQueues ==
  ASSUME CountInv
  PROVE  Len(key) \in Nat /\ Len(key) <= MaxTasks /\ Made \subseteq Queues
<1>1. key \in Seq(Keys) /\ sent \in 0..MaxTasks /\ MaxTasks \in Nat
  BY PoolFacts DEF CountInv, PoolType
<1>2. Len(key) \in Nat
  BY <1>1
<1>3. Cardinality(Loading) \in Nat
  BY PoolFacts, FS_Subset, FS_CardinalityType DEF Loading
<1>4. Len(key) <= MaxTasks
  BY <1>1, <1>2, <1>3 DEF CountInv
<1> QED BY <1>1, <1>2, <1>4 DEF Made, Queues

\* A step that changes neither the tasks of the queues nor the counters keeps the invariant.
LEMMA CountKept ==
  ASSUME CountInv, PoolType', crashed' = crashed, wg' = wg, taskChan' = taskChan, key' = key,
         Len(key') + Cardinality(Loading') <= sent',
         \A q \in Queues : (Busy(q)' <=> Busy(q)) /\ (worker[q] = "none" => worker'[q] = "none"),
         \A s \in Submitters : (sub[s] = "send" <=> sub'[s] = "send") /\ (sub[s] = "send" => queue'[s] = queue[s])
  PROVE  CountInv'
<1>1. ASSUME ~crashed, NEW q \in Queues PROVE wg'[q] = Unfinished(q)'
  <2>1. Senders(q)' = Senders(q)
    BY SendersKept
  <2>2. wg[q] = Unfinished(q)
    BY Zenon, <1>1 DEF CountInv, WaitGroupCounts, Unfinished
  <2> QED BY Zenon, <2>1, <2>2 DEF Unfinished
<1> QED BY Zenon, <1>1 DEF CountInv, WaitGroupCounts, Unfinished

\* The steps of a submitter keep the counter right.
LEMMA SubmitCounts ==
  ASSUME CountInv, NEW s \in Submitters, SubmitStep(s) \/ \E u \in Uids : StartSubmit(s, u)
  PROVE  CountInv'
<1>0. PoolType /\ PoolType' /\ sub[s] \in SubPlaces /\ DOMAIN sub = Submitters /\ DOMAIN queue = Submitters
      /\ queue[s] \in Nat
  BY Zenon, SubmitTyped DEF CountInv, PoolType
<1>a. /\ Len(key) \in Nat /\ sent \in Nat /\ Cardinality(Loading) \in Nat
      /\ Len(key) + Cardinality(Loading) <= sent
  <2>1. sent \in 0..MaxTasks /\ MaxTasks \in Nat
    BY <1>0, PoolFacts DEF PoolType
  <2>2. Len(key) \in Nat /\ Cardinality(Loading) \in Nat
    BY Zenon, MadeInQueues, LoadingChange
  <2> QED BY <2>1, <2>2 DEF CountInv
<1>1. ASSUME NEW u \in Uids, StartSubmit(s, u) PROVE CountInv'
  <2>1. /\ sub[s] = "idle" /\ sub' = [sub EXCEPT ![s] = "load"] /\ sent' = sent + 1
        /\ UNCHANGED <<key, taskChan, wg, worker, queue, crashed>>
    BY <1>1 DEF StartSubmit, mapVars, queueVars, workerVars
  <2>2. s \notin Loading /\ Loading' = Loading \cup {s}
    BY <1>0, <2>1 DEF Loading
  <2>3. Cardinality(Loading') = Cardinality(Loading) + 1
    BY <2>2, LoadingChange
  <2>4. Len(key') + Cardinality(Loading') <= sent'
    BY <1>a, <2>1, <2>3
  <2> QED BY <1>0, <2>1, <2>4, CountKept DEF Busy
<1>2. CASE getQueue(s)
  <2>0. Cardinality(Loading') = Cardinality(Loading) - 1 /\ sent' = sent
    <3>1. s \in Loading /\ Loading' = Loading \ {s} /\ sent' = sent
      BY <1>0, <1>2 DEF Loading, getQueue
    <3> QED BY <3>1, LoadingChange
  <2>1. CASE queues[KeyOf[arg[s].uid]] # NoQueue
    <3>1. /\ sub[s] = "load" /\ sub' = [sub EXCEPT ![s] = "lock"] /\ \E q : queue' = [queue EXCEPT ![s] = q]
          /\ UNCHANGED <<key, taskChan, wg, worker, crashed>>
      BY <1>2, <2>1 DEF getQueue, queueVars
    <3>2. Len(key') + Cardinality(Loading') <= sent'
      BY <1>a, <2>0, <3>1
    <3> QED BY <1>0, <3>1, <3>2, CountKept DEF Busy
  <2>2. CASE queues[KeyOf[arg[s].uid]] = NoQueue
    <3>1. /\ sub[s] = "load" /\ sub' = [sub EXCEPT ![s] = "store"] /\ \E q : queue' = [queue EXCEPT ![s] = q]
          /\ key' = Append(key, KeyOf[arg[s].uid])
          /\ worker' = [worker EXCEPT ![Len(key')] = "receive"]
          /\ UNCHANGED <<taskChan, wg, crashed>>
      BY Zenon, <1>2, <2>2 DEF getQueue, queueVars
    <3>2. key \in Seq(Keys)
      BY <1>0 DEF PoolType
    <3>3. Len(key) \in Nat /\ Len(key') = Len(key) + 1
      BY <3>1, <3>2
    <3>a. Len(key') + Cardinality(Loading') <= sent'
      BY <1>a, <2>0, <3>3
    <3> SUFFICES ASSUME ~crashed PROVE CountInv'
      BY Zenon, <1>0, <3>1, <3>a DEF CountInv, WaitGroupCounts
    <3>4. \A q \in Queues : q > Len(key') => worker'[q] = "none"
      <4>1. \A q \in Queues : q \in Nat /\ (q > Len(key) => worker[q] = "none")
        BY PoolFacts DEF CountInv
      <4>2. \A q \in Queues : q # Len(key') => worker'[q] = worker[q]
        BY <1>0, <3>1 DEF PoolType
      <4> QED BY <3>3, <4>1, <4>2
    <3>5. ASSUME NEW q \in Queues PROVE Busy(q)' <=> Busy(q)
      <4>1. CASE q = Len(key')
        <5>1. worker[q] = "none" /\ worker'[q] = "receive"
          BY <1>0, <3>1, <3>3, <4>1 DEF CountInv, PoolType
        <5> QED BY <5>1 DEF Busy
      <4>2. CASE q # Len(key')
        BY <1>0, <3>1, <4>2 DEF PoolType, Busy
      <4> QED BY <4>1, <4>2
    <3>6. ASSUME NEW q \in Queues PROVE wg'[q] = Unfinished(q)'
      <4>1. Senders(q)' = Senders(q)
        BY <1>0, <3>1, SendersKept
      <4> QED BY Zenon, <3>1, <3>5, <4>1 DEF CountInv, WaitGroupCounts, Unfinished
    <3> QED BY Zenon, <1>0, <3>1, <3>a, <3>4, <3>6 DEF CountInv, WaitGroupCounts, Unfinished
  <2> QED BY <2>1, <2>2
<1>3. CASE StoreQueue(s) \/ TouchQueue(s)
  <2>1. /\ sub[s] \in {"store", "lock"} /\ sub' \in {[sub EXCEPT ![s] = "lock"], [sub EXCEPT ![s] = "add"]}
        /\ UNCHANGED <<key, taskChan, wg, worker, queue, sent, crashed>>
    BY <1>3 DEF StoreQueue, TouchQueue, mapVars, queueVars, workerVars
  <2>2. Loading' = Loading
    BY <1>0, <2>1 DEF Loading
  <2> QED BY <1>0, <1>a, <2>1, <2>2, CountKept DEF Busy
<1>4. CASE AddTask(s)
  <2>1. /\ sub[s] = "add" /\ sub' = [sub EXCEPT ![s] = "send"] /\ wg' = [wg EXCEPT ![queue[s]] = @ + 1]
        /\ UNCHANGED <<key, taskChan, worker, queue, sent, crashed>>
    BY <1>4 DEF AddTask, mapVars, workerVars
  <2>a. Loading' = Loading
    BY <1>0, <2>1 DEF Loading
  <2>2. ASSUME ~crashed, NEW q \in Queues PROVE wg'[q] = Unfinished(q)'
    <3>1. wg[q] = Unfinished(q) /\ wg[q] \in Int /\ Busy(q)' = Busy(q)
      BY Zenon, <1>0, <2>1, <2>2 DEF CountInv, WaitGroupCounts, Unfinished, PoolType, Busy
    <3>2. CASE queue[s] = q
      <4>1. s \notin Senders(q) /\ Senders(q)' = Senders(q) \cup {s}
        BY <1>0, <2>1, <3>2 DEF Senders
      <4>2. Cardinality(Senders(q)') = Cardinality(Senders(q)) + 1
        BY <4>1, SendersChange
      <4>3. wg'[q] = wg[q] + 1
        BY <1>0, <2>1, <3>2 DEF PoolType
      <4>4. taskChan[q] \in Seq(Task)
        BY <1>0 DEF PoolType
      <4>5. Len(taskChan[q]) \in Nat /\ Cardinality(Senders(q)) \in Nat
        <5>1. Len(taskChan[q]) \in Nat
          BY <4>4
        <5>2. Cardinality(Senders(q)) \in Nat
          BY Zenon, SendersChange
        <5> QED BY <5>1, <5>2
      <4>6. PICK b \in {0, 1} : b = (IF Busy(q) THEN 1 ELSE 0)
        OBVIOUS
      <4>7. wg[q] = Len(taskChan[q]) + b + Cardinality(Senders(q))
        BY <3>1, <4>6 DEF Unfinished
      <4>8. Unfinished(q)' = Len(taskChan[q]) + b + (Cardinality(Senders(q)) + 1)
        <5>1. /\ taskChan'[q] = taskChan[q] /\ (Busy(q)' <=> Busy(q))
              /\ Cardinality(Senders(q)') = Cardinality(Senders(q)) + 1
          BY <2>1, <3>1, <4>2
        <5> QED BY Zenon, <4>6, <5>1 DEF Unfinished
      <4> QED BY <4>3, <4>5, <4>7, <4>8
    <3>3. CASE queue[s] # q
      <4>1. Senders(q)' = Senders(q)
        BY <1>0, <2>1, <3>3, SendersKept
      <4>2. wg'[q] = wg[q]
        BY <1>0, <2>1, <3>3 DEF PoolType
      <4> QED BY Zenon, <2>1, <3>1, <4>1, <4>2 DEF Unfinished
    <3> QED BY <3>2, <3>3
  <2> QED BY Zenon, <1>0, <1>a, <2>1, <2>a, <2>2 DEF CountInv, WaitGroupCounts, Unfinished
<1>5. CASE SendTask(s)
  <2>1. CASE closed[queue[s]]
    <3>1. crashed' = TRUE /\ key' = key /\ sent' = sent /\ Loading' = {}
      BY <1>5, <2>1 DEF SendTask, mapVars, Loading
    <3>2. Cardinality({}) = 0
      BY FS_EmptySet
    <3> QED BY <1>0, <1>a, <3>1, <3>2 DEF CountInv, WaitGroupCounts
  <2>2. CASE ~closed[queue[s]]
    <3>1. /\ sub[s] = "send" /\ sub' = [sub EXCEPT ![s] = "idle"] /\ queue' = [queue EXCEPT ![s] = NoQueue]
          /\ taskChan' = [taskChan EXCEPT ![queue[s]] = Append(@, arg[s])]
          /\ UNCHANGED <<key, wg, worker, sent, crashed>>
      BY Zenon, <1>5, <2>2 DEF SendTask, mapVars
    <3>a. Loading' = Loading
      BY <1>0, <3>1 DEF Loading
    <3>2. ASSUME ~crashed, NEW q \in Queues PROVE wg'[q] = Unfinished(q)'
      <4>1. wg[q] = Unfinished(q) /\ Busy(q)' = Busy(q)
        BY Zenon, <3>1, <3>2 DEF CountInv, WaitGroupCounts, Unfinished, Busy
      <4>2. CASE queue[s] = q
        <5>1. s \in Senders(q) /\ Senders(q)' = Senders(q) \ {s}
          BY <1>0, <3>1, <4>2 DEF Senders
        <5>2. Cardinality(Senders(q)') = Cardinality(Senders(q)) - 1
          BY <5>1, SendersChange
        <5>3. taskChan[q] \in Seq(Task) /\ taskChan'[q] = Append(taskChan[q], arg[s])
          BY Zenon, <1>0, <3>1, <4>2 DEF PoolType
        <5>4. Len(taskChan[q]) \in Nat /\ Len(taskChan'[q]) = Len(taskChan[q]) + 1
          BY <5>3
        <5>5. Cardinality(Senders(q)) \in Nat
          BY Zenon, SendersChange
        <5>6. PICK b \in {0, 1} : b = (IF Busy(q) THEN 1 ELSE 0)
          OBVIOUS
        <5>7. wg[q] = Len(taskChan[q]) + b + Cardinality(Senders(q))
          BY <4>1, <5>6 DEF Unfinished
        <5>8. Unfinished(q)' = (Len(taskChan[q]) + 1) + b + (Cardinality(Senders(q)) - 1)
          BY <4>1, <5>2, <5>4, <5>6 DEF Unfinished
        <5>9. wg'[q] = wg[q]
          BY <3>1
        <5> QED BY <5>4, <5>5, <5>7, <5>8, <5>9
      <4>3. CASE queue[s] # q
        <5>1. Senders(q)' = Senders(q)
          BY <1>0, <3>1, <4>3, SendersKept, PoolFacts DEF NoQueue
        <5>2. taskChan'[q] = taskChan[q]
          BY Zenon, <1>0, <3>1, <4>3 DEF PoolType
        <5> QED BY Zenon, <3>1, <4>1, <5>1, <5>2 DEF Unfinished
      <4> QED BY <4>2, <4>3
    <3> QED BY Zenon, <1>0, <1>a, <3>1, <3>a, <3>2 DEF CountInv, WaitGroupCounts, Unfinished
  <2> QED BY <2>1, <2>2
<1> QED BY <1>1, <1>2, <1>3, <1>4, <1>5 DEF SubmitStep

\* The steps of a worker keep the counter right.
LEMMA WorkerCounts ==
  ASSUME CountInv, NEW q \in Queues, q <= Len(key), WorkerStep(q)
  PROVE  CountInv'
<1>0. /\ PoolType /\ PoolType' /\ DOMAIN worker = Queues /\ taskChan[q] \in Seq(Task) /\ wg[q] \in Int
      /\ Len(key) \in Nat /\ q \in Nat
  <2>1. PoolType /\ PoolType' /\ q \in Nat
    BY WorkerTyped, PoolFacts DEF CountInv
  <2>2. key \in Seq(Keys) /\ taskChan[q] \in Seq(Task) /\ wg[q] \in Int /\ DOMAIN worker = Queues
    BY <2>1 DEF PoolType
  <2>3. Len(key) \in Nat
    BY <2>2
  <2> QED BY <2>1, <2>2, <2>3
<1>1. /\ UNCHANGED <<key, crashed, sub, queue, sent>>
      /\ \E p : worker' = [worker EXCEPT ![q] = p]
  BY DEF WorkerStep, RunTask, TaskReturns, TaskTouches, TaskDone, WorkerExits, mapVars, subVars
<1>2. \A r \in Queues : Senders(r)' = Senders(r)
  BY <1>1 DEF Senders
<1>3. \A r \in Queues \ {q} : worker'[r] = worker[r]
  BY <1>0, <1>1
<1>4. /\ ~crashed => \A r \in Queues : r > Len(key') => worker'[r] = "none"
      /\ Len(key') + Cardinality(Loading') <= sent'
  <2>1. Loading' = Loading
    BY <1>1 DEF Loading
  <2> QED BY <1>0, <1>1, <1>3, <2>1 DEF CountInv
<1> SUFFICES ASSUME ~crashed, NEW r \in Queues PROVE wg'[r] = Unfinished(r)'
  BY Zenon, <1>0, <1>1, <1>4 DEF CountInv, WaitGroupCounts, Unfinished
<1>5. wg[r] = Unfinished(r)
  BY Zenon DEF CountInv, WaitGroupCounts, Unfinished
<1>6. CASE r # q
  <2>1. taskChan'[r] = taskChan[r] /\ wg'[r] = wg[r]
    BY Zenon, <1>0, <1>6 DEF WorkerStep, RunTask, TaskReturns, TaskTouches, TaskDone, WorkerExits, queueVars, PoolType
  <2> QED BY Zenon, <1>2, <1>3, <1>5, <1>6, <2>1 DEF Unfinished, Busy
<1>7. CASE r = q
  <2> DEFINE c == Cardinality(Senders(q))
  <2>1. c \in Nat /\ Cardinality(Senders(q)') = c
    <3>1. c \in Nat
      BY Zenon, SendersChange, FS_Subset, FS_CardinalityType, PoolFacts DEF Senders
    <3> QED BY <1>2, <3>1
  <2>2. Len(taskChan[q]) \in Nat
    BY <1>0
  <2>3. CASE RunTask(q)
    <3>1. /\ worker[q] = "receive" /\ worker'[q] = "run" /\ taskChan[q] # <<>>
          /\ taskChan'[q] = Tail(taskChan[q]) /\ wg'[q] = wg[q]
      BY <1>0, <2>3 DEF RunTask, PoolType
    <3>2. Len(taskChan'[q]) = Len(taskChan[q]) - 1
      BY <1>0, <3>1
    <3>3. ~Busy(q) /\ Busy(q)'
      BY <3>1 DEF Busy
    <3>4. wg[q] = Len(taskChan[q]) + 0 + c /\ Unfinished(q)' = (Len(taskChan[q]) - 1) + 1 + c
      BY <1>5, <1>7, <2>1, <3>2, <3>3 DEF Unfinished
    <3> QED BY <1>7, <2>1, <2>2, <3>1, <3>4
  <2>4. CASE TaskDone(q)
    <3>1. worker[q] = "done" /\ worker'[q] = "receive" /\ taskChan'[q] = taskChan[q] /\ wg'[q] = wg[q] - 1
      BY <1>0, <2>4 DEF TaskDone, PoolType
    <3>2. Busy(q) /\ ~Busy(q)'
      BY <3>1 DEF Busy
    <3>3. wg[q] = Len(taskChan[q]) + 1 + c /\ Unfinished(q)' = Len(taskChan[q]) + 0 + c
      BY <1>5, <1>7, <2>1, <3>1, <3>2 DEF Unfinished
    <3> QED BY <1>7, <2>1, <2>2, <3>1, <3>3
  <2>5. CASE TaskReturns(q) \/ TaskTouches(q) \/ WorkerExits(q)
    <3>1. (Busy(q)' <=> Busy(q)) /\ taskChan' = taskChan /\ wg' = wg
      BY <1>0, <2>5 DEF TaskReturns, TaskTouches, WorkerExits, Busy, queueVars
    <3> QED BY Zenon, <1>5, <1>7, <2>1, <3>1 DEF Unfinished
  <2> QED BY <2>3, <2>4, <2>5 DEF WorkerStep
<1> QED BY <1>6, <1>7

\* The counters of the first state.
LEMMA InitCounts == Init => CountInv
<1> SUFFICES ASSUME Init PROVE CountInv
  OBVIOUS
<1>1. \A q \in Queues : Senders(q) = {} /\ ~Busy(q)
  BY DEF Init, Senders, Busy
<1>2. \A q \in Queues : wg[q] = 0 /\ taskChan[q] = <<>> /\ worker[q] = "none"
  BY DEF Init
<1>3. Len(<<>>) = 0 /\ Cardinality({}) = 0 /\ Loading = {} /\ key = <<>> /\ sent = 0
  BY FS_EmptySet DEF Loading, Init
<1>4. WaitGroupCounts
  <2>1. ASSUME NEW q \in Queues
        PROVE  wg[q] = Len(taskChan[q]) + (IF Busy(q) THEN 1 ELSE 0) + Cardinality(Senders(q))
    <3>1. wg[q] = 0 /\ Len(taskChan[q]) = 0 /\ ~Busy(q) /\ Cardinality(Senders(q)) = 0
      BY Zenon, <1>1, <1>2, <1>3
    <3> QED BY <3>1
  <2> QED BY Zenon, <2>1 DEF WaitGroupCounts
<1> QED BY <1>2, <1>3, <1>4, InitTyped DEF CountInv

\* In every state the counter that Stop waits for is the number of unfinished tasks.
THEOREM CountInvariant == Spec => []CountInv
<1>1. Init => CountInv
  BY InitCounts
<1>2. CountInv /\ [Next]_vars => CountInv'
  <2> SUFFICES ASSUME CountInv, [Next]_vars PROVE CountInv'
    OBVIOUS
  <2>0. PoolType
    BY DEF CountInv
  <2>1. ASSUME NEW s \in Submitters, SubmitStep(s) \/ \E u \in Uids : StartSubmit(s, u) PROVE CountInv'
    BY <2>1, SubmitCounts
  <2>2. ASSUME NEW q \in Made, WorkerStep(q) \/ Age(q) PROVE CountInv'
    <3>1. q \in Queues /\ q <= Len(key)
      BY MadeInQueues DEF Made
    <3>2. CASE WorkerStep(q)
      BY <3>1, <3>2, WorkerCounts
    <3>3. CASE Age(q)
      <4>1. UNCHANGED <<key, taskChan, wg, worker, sub, queue, sent, crashed>>
        BY <3>3 DEF Age, mapVars, workerVars, subVars
      <4>2. Loading' = Loading
        BY <4>1 DEF Loading
      <4> QED BY <2>0, <3>1, <3>3, <4>1, <4>2, WorkerTyped, CountKept DEF Busy, CountInv
    <3> QED BY <2>2, <3>2, <3>3
  <2>3. CASE CleanerStep
    <3>1. UNCHANGED <<key, taskChan, wg, worker, sub, queue, sent, crashed>>
      BY Zenon, <2>3 DEF CleanerStep, CleanerTicks, VisitQueue, RangeEnds, StopQueue, CloseQueue, DeleteQueue,
                  mapVars, queueVars, workerVars, subVars
    <3>2. Loading' = Loading
      BY <3>1 DEF Loading
    <3> QED BY <2>0, <2>3, <3>1, <3>2, CleanerTyped, CountKept DEF Busy, CountInv
  <2>4. CASE UNCHANGED vars
    <3>1. PoolType'
      BY <2>0, <2>4 DEF PoolType, vars, mapVars, queueVars, workerVars, subVars, cleanVars
    <3>2. Loading' = Loading /\ sent' = sent
      BY <2>4 DEF Loading, vars, subVars
    <3> QED BY <2>4, <3>1, <3>2, CountKept DEF vars, mapVars, queueVars, workerVars, subVars, Busy, CountInv
  <2> QED BY <2>1, <2>2, <2>3, <2>4 DEF Next
<1> QED BY <1>1, <1>2, PTL DEF Spec

\* wg.Done never makes the counter negative, and Stop's wg.Wait returns when the last
\* task of the queue has been executed and not before.
THEOREM CounterIsRight == Spec => []WaitGroupCounts
BY CountInvariant, PTL DEF CountInv

-----------------------------------------------------------------------------
(* One goroutine submits, and no task outlasts clearTimePass *)

OneSubmitter == \A s, t \in Submitters : s = t

\* Nothing of the queue is left to execute.
Idle(q) == taskChan[q] = <<>> /\ task[q] = {} /\ ~Busy(q)

\* A submitter has touched the queue and not finished its send, or has made it and not
\* stored it.
Using(q) == \E s \in Submitters : sub[s] \in {"add", "send"} /\ queue[s] = q
Making(q) == \E s \in Submitters : sub[s] = "store" /\ queue[s] = q

\* A submitter uses a queue of its task's key, and makes one only for a key without.
SubOK ==
  \A s \in Submitters :
    /\ sub[s] \in {"store", "lock", "add", "send"} =>
         queue[s] \in Made /\ key[queue[s]] = KeyOf[arg[s].uid]
    /\ sub[s] = "store" => queues[KeyOf[arg[s].uid]] = NoQueue

MapOK == \A k \in Keys : queues[k] # NoQueue => queues[k] \in Made /\ key[queues[k]] = k

\* A queue that is not in the map is idle, and stays so because it is closed or is not
\* yet used.  A queue that may be removed is not being used.
QueueOK(q) ==
  /\ q \notin Made => Idle(q)
  /\ q \in Made /\ queues[key[q]] # q => Idle(q) /\ (closed[q] \/ Making(q))
  /\ closed[q] => Idle(q)
  /\ (task[q] # {}) <=> (worker[q] = "run")
  /\ stale[q] => ~Using(q)

\* The cleaner removes the queue the map has for the key; from the return of wg.Wait on
\* the queue is idle, because nobody can touch it.
CleanOK ==
  /\ \A k \in todo : queues[k] # NoQueue
  /\ cleaner \in {"stop", "close", "delete"} =>
       /\ victim \notin todo /\ queues[victim] = doomed /\ doomed \in Made
       /\ mu[doomed] /\ ~Using(doomed)
  /\ cleaner \in {"close", "delete"} => wg[doomed] = 0
  /\ cleaner = "delete" => closed[doomed]

OrderOK == SubOK /\ MapOK /\ (\A q \in Queues : QueueOK(q)) /\ CleanOK

\* The inductive invariant of RunsSerially: at most one queue of a key is not idle.
OrderInv == CountInv /\ (~crashed => OrderOK)

\* What the counter says of a queue that Stop has waited for.
LEMMA CounterTells ==
  ASSUME CountInv, ~crashed, NEW q \in Queues
  PROVE  wg[q] = 0 => taskChan[q] = <<>> /\ ~Busy(q)
<1>1. taskChan[q] \in Seq(Task)
  BY DEF CountInv, PoolType
<1>2. Len(taskChan[q]) \in Nat /\ (Len(taskChan[q]) = 0 => taskChan[q] = <<>>)
  BY <1>1
<1>3. Cardinality(Senders(q)) \in Nat
  BY PoolFacts, FS_Subset, FS_CardinalityType DEF Senders
<1>4. PICK b \in {0, 1} : b = (IF Busy(q) THEN 1 ELSE 0)
  OBVIOUS
<1>5. wg[q] = Len(taskChan[q]) + b + Cardinality(Senders(q))
  BY Zenon, <1>4 DEF CountInv, WaitGroupCounts
<1>6. wg[q] = 0 => Len(taskChan[q]) = 0 /\ b = 0
  BY <1>2, <1>3, <1>5
<1> QED BY <1>2, <1>4, <1>6

\* A queue stays in order as long as nothing of it changes.
LEMMA QueueAlone ==
  ASSUME NEW q, QueueOK(q), taskChan'[q] = taskChan[q], task'[q] = task[q], worker'[q] = worker[q],
         closed'[q] = closed[q], stale'[q] => stale[q], key' = key,
         q \in Made => queues'[key[q]] = queues[key[q]],
         Using(q)' => Using(q), Making(q) => Making(q)'
  PROVE  QueueOK(q)'
<1>1. Idle(q)' <=> Idle(q)
  BY Zenon DEF Idle, Busy
<1>2. Made' = Made
  BY Zenon DEF Made
<1> QED BY Zenon, <1>1, <1>2 DEF QueueOK

\* A crash is final.
LEMMA CrashStays == Next /\ crashed => crashed'
<1> SUFFICES ASSUME Next, crashed PROVE crashed'
  OBVIOUS
<1>1. ASSUME NEW s \in Submitters, SubmitStep(s) \/ \E u \in Uids : StartSubmit(s, u) PROVE crashed'
  BY Zenon, <1>1 DEF SubmitStep, StartSubmit, getQueue, StoreQueue, TouchQueue, AddTask, SendTask
<1>2. ASSUME NEW q \in Made, WorkerStep(q) \/ Age(q) PROVE crashed'
  BY Zenon, <1>2 DEF WorkerStep, RunTask, TaskReturns, TaskTouches, TaskDone, WorkerExits, Age
<1>3. ASSUME CleanerStep PROVE crashed'
  BY Zenon, <1>3 DEF CleanerStep, CleanerTicks, VisitQueue, RangeEnds, StopQueue, CloseQueue, DeleteQueue
<1> QED BY <1>1, <1>2, <1>3 DEF Next

\* What append does to the list of keys.
LEMMA Appended ==
  ASSUME NEW S, NEW q \in Seq(S), NEW x \in S
  PROVE  /\ Len(q) \in Nat /\ Len(Append(q, x)) = Len(q) + 1 /\ Append(q, x)[Len(q) + 1] = x
         /\ \A i \in 1..Len(q) : Append(q, x)[i] = q[i]
OBVIOUS

\* Making a queue adds an idle one that its submitter is about to store.
LEMMA GetKeepsOrder ==
  ASSUME CountInv, CountInv', OrderOK, NEW s \in Submitters, getQueue(s)
  PROVE  OrderOK'
<1> DEFINE k == KeyOf[arg[s].uid]
<1>0. /\ SubOK /\ MapOK /\ CleanOK /\ \A q \in Queues : QueueOK(q)
      /\ arg[s] \in Task /\ k \in Keys /\ DOMAIN sub = Submitters /\ DOMAIN queue = Submitters
      /\ DOMAIN worker = Queues /\ key \in Seq(Keys)
  BY Zenon, PoolFacts DEF OrderOK, CountInv, PoolType
<1>1. /\ sub[s] = "load" /\ UNCHANGED <<queues, taskChan, closed, wg, mu, stale, task, arg, cleaner, todo, victim, doomed>>
  BY Zenon DEF getQueue, queueVars, cleanVars
<1>2. CASE queues[k] # NoQueue
  <2>1. sub' = [sub EXCEPT ![s] = "lock"] /\ queue' = [queue EXCEPT ![s] = queues[k]] /\ UNCHANGED <<key, worker>>
    BY Zenon, <1>2 DEF getQueue
  <2>2. \A q : (Using(q)' <=> Using(q)) /\ (Making(q)' <=> Making(q))
    BY Zenon, <1>0, <1>1, <2>1 DEF Using, Making
  <2>3. \A q \in Queues : QueueOK(q)'
    BY Zenon, <1>0, <1>1, <2>1, <2>2, QueueAlone
  <2>4. SubOK'
    BY Zenon, <1>0, <1>1, <1>2, <2>1 DEF SubOK, MapOK, Made
  <2>5. MapOK' /\ CleanOK'
    BY Zenon, <1>0, <1>1, <2>1, <2>2 DEF MapOK, CleanOK, Made
  <2> QED BY <2>3, <2>4, <2>5 DEF OrderOK
<1>3. CASE queues[k] = NoQueue
  <2> PICK n : n = Len(key) + 1
    OBVIOUS
  <2>1. /\ key' = Append(key, k) /\ worker' = [worker EXCEPT ![Len(key')] = "receive"]
        /\ sub' = [sub EXCEPT ![s] = "store"] /\ queue' = [queue EXCEPT ![s] = Len(key')]
    BY Zenon, <1>3 DEF getQueue
  <2>2. /\ Len(key) \in Nat /\ Len(key') = n /\ key'[n] = k /\ \A q \in 1..Len(key) : key'[q] = key[q]
    BY <1>0, <2>1, Appended
  <2>3. /\ Made' = Made \cup {n} /\ n \notin Made /\ Made' \subseteq Queues /\ \A q \in Made : key'[q] = key[q]
    <3>1. Made' \subseteq Queues
      <4>1. Loading' \subseteq Submitters
        BY DEF Loading
      <4>2. Cardinality(Loading') \in Nat
        BY <4>1, PoolFacts, FS_Subset, FS_CardinalityType
      <4>3. sent' \in 0..MaxTasks /\ MaxTasks \in Nat /\ Len(key') + Cardinality(Loading') <= sent'
        BY Zenon, PoolFacts DEF CountInv, PoolType
      <4>4. Len(key') \in Nat /\ Len(key') <= MaxTasks
        BY <2>2, <4>2, <4>3
      <4> QED BY <4>3, <4>4 DEF Made, Queues
    <3> QED BY <2>2, <3>1 DEF Made
  <2>4. \A q : (Using(q)' <=> Using(q)) /\ (Making(q) => Making(q)')
    BY Zenon, <1>0, <1>1, <2>1 DEF Using, Making
  <2>5. ASSUME NEW q \in Queues, q # n PROVE QueueOK(q)'
    <3>1. worker'[q] = worker[q] /\ QueueOK(q)
      BY Zenon, <1>0, <2>1, <2>2, <2>5
    <3>2. Idle(q)' <=> Idle(q)
      BY <1>1, <3>1 DEF Idle, Busy
    <3> QED BY <1>1, <2>3, <2>4, <2>5, <3>1, <3>2, Zenon DEF QueueOK
  <2>6. QueueOK(n)'
    <3>1. n \in Queues /\ Idle(n) /\ QueueOK(n) /\ worker'[n] = "receive"
      BY Zenon, <1>0, <2>1, <2>2, <2>3 DEF QueueOK
    <3>2. Idle(n)' /\ Making(n)'
      BY Zenon, <1>0, <1>1, <2>1, <2>2, <3>1 DEF Idle, Busy, Making
    <3>3. task'[n] = {} /\ worker'[n] # "run" /\ (stale'[n] => ~Using(n)')
      BY Zenon, <1>1, <2>4, <3>1 DEF Idle, QueueOK
    <3> QED BY <2>2, <3>2, <3>3, Zenon DEF QueueOK
  <2>7. SubOK'
    <3>1. ASSUME NEW t \in Submitters PROVE /\ sub'[t] \in {"store", "lock", "add", "send"} =>
                                                 queue'[t] \in Made' /\ key'[queue'[t]] = KeyOf[arg'[t].uid]
                                            /\ sub'[t] = "store" => queues'[KeyOf[arg'[t].uid]] = NoQueue
      <4>1. CASE t = s
        BY Zenon, <1>0, <1>1, <1>3, <2>1, <2>2, <2>3, <4>1
      <4>2. CASE t # s
        <5>1. sub'[t] = sub[t] /\ queue'[t] = queue[t] /\ arg'[t] = arg[t]
          BY Zenon, <1>0, <1>1, <2>1, <4>2
        <5> QED BY Zenon, <1>0, <1>1, <2>3, <5>1 DEF SubOK
      <4> QED BY <4>1, <4>2
    <3> QED BY Zenon, <3>1 DEF SubOK
  <2>8. MapOK'
    BY Zenon, <1>0, <1>1, <2>3 DEF MapOK
  <2>9. CleanOK'
    BY Zenon, <1>0, <1>1, <2>3, <2>4 DEF CleanOK
  <2> QED BY <2>5, <2>6, <2>7, <2>8, <2>9 DEF OrderOK
<1> QED BY <1>2, <1>3

\* Storing the new queue: the key had none, so that its other queues are closed.
LEMMA StoreKeepsOrder ==
  ASSUME OneSubmitter, CountInv, OrderOK, NEW s \in Submitters, StoreQueue(s)
  PROVE  OrderOK'
<1> DEFINE k == KeyOf[arg[s].uid]
<1>0. /\ SubOK /\ MapOK /\ CleanOK /\ \A q \in Queues : QueueOK(q)
      /\ k \in Keys /\ DOMAIN sub = Submitters /\ DOMAIN queues = Keys /\ victim \in Keys /\ todo \subseteq Keys
  BY Zenon, PoolFacts DEF OrderOK, CountInv, PoolType
<1>1. /\ sub[s] = "store" /\ sub' = [sub EXCEPT ![s] = "lock"] /\ queues' = [queues EXCEPT ![k] = queue[s]]
      /\ UNCHANGED <<key, taskChan, closed, wg, mu, stale, worker, task, arg, queue, cleaner, todo, victim, doomed>>
  BY Zenon DEF StoreQueue, queueVars, workerVars, cleanVars
<1>2. queue[s] \in Made /\ key[queue[s]] = k /\ queues[k] = NoQueue /\ queue[s] # NoQueue
  BY Zenon, <1>0, <1>1, MadeInQueues, PoolFacts DEF SubOK, NoQueue
<1>3. /\ Made' = Made /\ queues'[k] = queue[s] /\ \A x \in Keys \ {k} : queues'[x] = queues[x]
      /\ \A q : (Using(q)' <=> Using(q)) /\ ~Making(q)' /\ (Making(q) => q = queue[s])
  BY Zenon, <1>0, <1>1 DEF Made, Using, Making, OneSubmitter
<1>4. ASSUME NEW q \in Queues PROVE QueueOK(q)'
  <2>1. QueueOK(q) /\ (Idle(q)' <=> Idle(q)) /\ (q \in Made => key[q] \in Keys)
    <3>1. key \in Seq(Keys) /\ (q \in Made => key[q] \in Keys)
      BY DEF CountInv, PoolType, Made
    <3>2. Idle(q)' <=> Idle(q)
      BY Zenon, <1>1 DEF Idle, Busy
    <3> QED BY Zenon, <1>0, <3>1, <3>2
  <2>2. CASE q = queue[s]
    BY <1>1, <1>2, <1>3, <2>1, <2>2, Zenon DEF QueueOK
  <2>3. CASE q # queue[s]
    <3>1. q \in Made /\ queues'[key[q]] # q => queues[key[q]] # q
      BY Zenon, <1>2, <1>3, <2>1, MadeInQueues, PoolFacts DEF NoQueue
    <3> QED BY <1>1, <1>3, <2>1, <2>3, <3>1, Zenon DEF QueueOK
  <2> QED BY <2>2, <2>3
<1>5. SubOK'
  BY Zenon, <1>0, <1>1, <1>2, <1>3 DEF SubOK, OneSubmitter
<1>6. MapOK'
  BY Zenon, <1>0, <1>1, <1>2, <1>3 DEF MapOK
<1>7. CleanOK'
  <2>1. \A x \in todo : queues'[x] # NoQueue
    BY Zenon, <1>0, <1>2, <1>3 DEF CleanOK
  <2>2. cleaner \in {"stop", "close", "delete"} => victim # k
    BY Zenon, <1>0, <1>2, MadeInQueues, PoolFacts DEF CleanOK, NoQueue
  <2> QED BY <1>0, <1>1, <1>3, <2>1, <2>2, Zenon DEF CleanOK
<1> QED BY <1>4, <1>5, <1>6, <1>7 DEF OrderOK

\* Beginning to submit, touching the queue and counting the task: a queue that is being
\* removed has its mutex held and is not touched.
LEMMA TouchKeepsOrder ==
  ASSUME OneSubmitter, CountInv, OrderOK, NEW s \in Submitters,
         (\E u \in Uids : StartSubmit(s, u)) \/ TouchQueue(s) \/ AddTask(s)
  PROVE  OrderOK'
<1>0. /\ SubOK /\ MapOK /\ CleanOK /\ \A q \in Queues : QueueOK(q)
      /\ DOMAIN sub = Submitters /\ DOMAIN arg = Submitters /\ DOMAIN stale = Queues /\ DOMAIN wg = Queues
  BY DEF OrderOK, CountInv, PoolType
<1>1. /\ UNCHANGED <<queues, key, taskChan, closed, mu, worker, task, queue, cleaner, todo, victim, doomed>>
      /\ Made' = Made
  BY Zenon DEF StartSubmit, TouchQueue, AddTask, mapVars, queueVars, workerVars, cleanVars, Made
<1>2. \A q \in Queues : Idle(q)' <=> Idle(q)
  BY <1>1 DEF Idle, Busy
<1>3. \A q : Making(q)' <=> Making(q)
  BY Zenon, <1>0, <1>1 DEF Making, StartSubmit, TouchQueue, AddTask
<1>4. MapOK'
  BY Zenon, <1>0, <1>1 DEF MapOK
<1>5. ASSUME NEW u \in Uids, StartSubmit(s, u) PROVE OrderOK'
  <2>1. /\ sub[s] = "idle" /\ sub' = [sub EXCEPT ![s] = "load"] /\ stale' = stale /\ wg' = wg
        /\ \A t \in Submitters \ {s} : arg'[t] = arg[t]
    BY Zenon, <1>0, <1>5 DEF StartSubmit, queueVars
  <2>2. \A q : Using(q)' <=> Using(q)
    BY Zenon, <1>0, <1>1, <2>1 DEF Using
  <2>3. \A q \in Queues : QueueOK(q)'
    BY Zenon, <1>0, <1>1, <1>3, <2>1, <2>2, QueueAlone
  <2>4. SubOK'
    BY Zenon, <1>0, <1>1, <2>1 DEF SubOK
  <2>5. CleanOK'
    BY Zenon, <1>0, <1>1, <2>1, <2>2 DEF CleanOK
  <2> QED BY <1>4, <2>3, <2>4, <2>5 DEF OrderOK
<1>6. CASE TouchQueue(s)
  <2>1. /\ sub[s] = "lock" /\ ~mu[queue[s]] /\ sub' = [sub EXCEPT ![s] = "add"] /\ arg' = arg /\ wg' = wg
        /\ stale' = [stale EXCEPT ![queue[s]] = FALSE]
    BY Zenon, <1>6 DEF TouchQueue
  <2>2. \A q : Using(q)' => Using(q) \/ q = queue[s]
    BY <1>0, <1>1, <2>1 DEF Using
  <2>3. ASSUME NEW q \in Queues PROVE QueueOK(q)'
    <3>1. QueueOK(q)
      BY <1>0
    <3>2. stale'[q] => ~Using(q)'
      <4>1. CASE q = queue[s]
        BY Zenon, <1>0, <2>1, <4>1
      <4>2. CASE q # queue[s]
        BY Zenon, <1>0, <2>1, <2>2, <3>1, <4>2 DEF QueueOK
      <4> QED BY <4>1, <4>2
    <3> QED BY <1>1, <1>2, <1>3, <3>1, <3>2, Zenon DEF QueueOK
  <2>4. SubOK'
    BY Zenon, <1>0, <1>1, <2>1 DEF SubOK
  <2>5. CleanOK'
    <3>1. cleaner \in {"stop", "close", "delete"} => ~Using(doomed)'
      BY Zenon, <1>0, <1>1, <2>1, <2>2 DEF CleanOK
    <3> QED BY <1>0, <1>1, <2>1, <3>1, Zenon DEF CleanOK
  <2> QED BY <1>4, <2>3, <2>4, <2>5 DEF OrderOK
<1>7. CASE AddTask(s)
  <2>1. /\ sub[s] = "add" /\ sub' = [sub EXCEPT ![s] = "send"] /\ arg' = arg /\ stale' = stale
        /\ wg' = [wg EXCEPT ![queue[s]] = @ + 1]
    BY <1>7 DEF AddTask
  <2>2. \A q : Using(q)' <=> Using(q)
    BY Zenon, <1>0, <1>1, <2>1 DEF Using
  <2>3. \A q \in Queues : QueueOK(q)'
    BY Zenon, <1>0, <1>1, <1>3, <2>1, <2>2, QueueAlone
  <2>4. SubOK'
    BY Zenon, <1>0, <1>1, <2>1 DEF SubOK
  <2>5. CleanOK'
    <3>1. cleaner \in {"stop", "close", "delete"} => doomed # queue[s]
      BY Zenon, <1>0, <2>1 DEF CleanOK, Using
    <3>2. cleaner \in {"close", "delete"} => wg'[doomed] = 0
      BY Zenon, <1>0, <2>1, <3>1, MadeInQueues DEF CleanOK
    <3> QED BY <1>0, <1>1, <2>2, <3>2, Zenon DEF CleanOK
  <2> QED BY <1>4, <2>3, <2>4, <2>5 DEF OrderOK
<1> QED BY <1>5, <1>6, <1>7

\* A task is sent to the queue the map has for its key: the submitter is not making a
\* queue, and the send to a closed one would have crashed.
LEMMA SendsToStored ==
  ASSUME OneSubmitter, CountInv, OrderOK, NEW s \in Submitters, sub[s] = "send", ~closed[queue[s]]
  PROVE  /\ queue[s] \in Made /\ queue[s] \in Queues /\ key[queue[s]] = KeyOf[arg[s].uid]
         /\ queues[key[queue[s]]] = queue[s]
<1>1. queue[s] \in Made /\ queue[s] \in Queues /\ key[queue[s]] = KeyOf[arg[s].uid]
  BY Zenon, MadeInQueues DEF OrderOK, SubOK
<1>2. ~Making(queue[s])
  BY DEF Making, OneSubmitter
<1> QED BY Zenon, <1>1, <1>2 DEF OrderOK, QueueOK

\* The end of a send keeps the order.
LEMMA SendKeepsOrder ==
  ASSUME OneSubmitter, CountInv, OrderOK, NEW s \in Submitters, SendTask(s), ~closed[queue[s]]
  PROVE  OrderOK'
<1>0. /\ SubOK /\ MapOK /\ CleanOK /\ \A q \in Queues : QueueOK(q)
      /\ DOMAIN sub = Submitters /\ DOMAIN queue = Submitters /\ DOMAIN taskChan = Queues
  BY DEF OrderOK, CountInv, PoolType
<1>1. /\ sub[s] = "send" /\ sub' = [sub EXCEPT ![s] = "idle"] /\ queue' = [queue EXCEPT ![s] = NoQueue]
      /\ taskChan' = [taskChan EXCEPT ![queue[s]] = Append(@, arg[s])]
      /\ UNCHANGED <<queues, key, closed, wg, mu, stale, worker, task, arg, cleaner, todo, victim, doomed>>
      /\ Made' = Made
  BY Zenon DEF SendTask, mapVars, Made
<1>2. queue[s] \in Made /\ queue[s] \in Queues /\ queues[key[queue[s]]] = queue[s]
  BY Zenon, <1>1, SendsToStored
<1>3. \A q : (Using(q)' => Using(q)) /\ (Making(q)' <=> Making(q))
  BY <1>0, <1>1 DEF Using, Making
<1>4. ASSUME NEW q \in Queues PROVE QueueOK(q)'
  <2>1. CASE q = queue[s]
    BY <1>0, <1>1, <1>2, <1>3, <2>1, Zenon DEF QueueOK
  <2>2. CASE q # queue[s]
    BY Zenon, <1>0, <1>1, <1>3, <2>2, QueueAlone
  <2> QED BY <2>1, <2>2
<1>5. SubOK'
  BY Zenon, <1>0, <1>1 DEF SubOK
<1>6. MapOK' /\ CleanOK'
  BY Zenon, <1>0, <1>1, <1>3 DEF MapOK, CleanOK
<1> QED BY <1>4, <1>5, <1>6 DEF OrderOK

\* The steps of a worker keep the order.
LEMMA WorkerKeepsOrder ==
  ASSUME CountInv, ~crashed, OrderOK, NEW q \in Made, WorkerStep(q)
  PROVE  OrderOK'
<1>0. /\ SubOK /\ MapOK /\ CleanOK /\ \A r \in Queues : QueueOK(r)
      /\ DOMAIN worker = Queues /\ DOMAIN task = Queues /\ DOMAIN taskChan = Queues /\ DOMAIN wg = Queues
      /\ DOMAIN stale = Queues /\ q \in Queues
  BY MadeInQueues DEF OrderOK, CountInv, PoolType
<1>1. /\ UNCHANGED <<queues, key, closed, mu, sub, queue, arg, cleaner, todo, victim, doomed>>
      /\ Made' = Made
  BY Zenon DEF WorkerStep, RunTask, TaskReturns, TaskTouches, TaskDone, WorkerExits, mapVars, queueVars, subVars,
         cleanVars, Made
<1>2. \A r : (Using(r)' <=> Using(r)) /\ (Making(r)' <=> Making(r))
  BY <1>1 DEF Using, Making
<1>3. SubOK' /\ MapOK'
  BY Zenon, <1>0, <1>1 DEF SubOK, MapOK
<1>4. CleanOK'
  <2>1. cleaner \in {"close", "delete"} => wg'[doomed] = 0
    <3>1. CASE TaskDone(q)
      <4>1. wg[q] # 0 /\ wg' = [wg EXCEPT ![q] = @ - 1]
        BY Zenon, <1>0, <3>1, CounterTells DEF TaskDone, Busy
      <4>2. \A r \in Queues \ {q} : wg'[r] = wg[r]
        BY <1>0, <4>1
      <4>3. cleaner \in {"close", "delete"} => doomed \in Queues /\ wg[doomed] = 0
        BY <1>0, MadeInQueues DEF CleanOK
      <4> QED BY <4>1, <4>2, <4>3
    <3>2. CASE ~TaskDone(q)
      BY Zenon, <1>0, <3>2 DEF CleanOK, WorkerStep, RunTask, TaskReturns, TaskTouches, WorkerExits, queueVars
    <3> QED BY <3>1, <3>2
  <2> QED BY <1>0, <1>1, <1>2, <2>1, Zenon DEF CleanOK
<1>5. ASSUME NEW r \in Queues, r # q PROVE QueueOK(r)'
  <2>1. taskChan'[r] = taskChan[r] /\ task'[r] = task[r] /\ worker'[r] = worker[r] /\ stale'[r] = stale[r]
    BY Zenon, <1>0, <1>5 DEF WorkerStep, RunTask, TaskReturns, TaskTouches, TaskDone, WorkerExits, queueVars
  <2> QED BY Zenon, <1>0, <1>1, <1>2, <2>1, QueueAlone
<1>6. QueueOK(q)'
  <2>1. CASE WorkerExits(q)
    <3>1. worker'[q] = "exit" /\ worker[q] = "receive" /\ UNCHANGED <<taskChan, task, stale>>
      BY Zenon, <1>0, <2>1 DEF WorkerExits, queueVars
    <3>2. Idle(q) => Idle(q)'
      BY Zenon, <3>1 DEF Idle, Busy
    <3>3. task'[q] = {} /\ worker'[q] # "run"
      BY Zenon, <1>0, <3>1 DEF QueueOK
    <3> QED BY <1>0, <1>1, <1>2, <3>1, <3>2, <3>3, Zenon DEF QueueOK
  <2>2. CASE ~WorkerExits(q)
    <3>1. ~Idle(q) /\ (stale'[q] => stale[q])
      BY Zenon, <1>0, <2>2 DEF WorkerStep, RunTask, TaskReturns, TaskTouches, TaskDone, queueVars, Idle, Busy
    <3>2. (task'[q] # {}) <=> (worker'[q] = "run")
      <4>1. CASE RunTask(q)
        BY Zenon, <1>0, <4>1 DEF RunTask
      <4>2. CASE TaskReturns(q)
        BY <1>0, <4>2 DEF TaskReturns
      <4>3. CASE TaskTouches(q) \/ TaskDone(q)
        <5>1. task' = task /\ worker[q] \in {"lock", "done"} /\ worker'[q] \in {"done", "receive"}
          BY Zenon, <1>0, <4>3 DEF TaskTouches, TaskDone
        <5> QED BY <1>0, <5>1 DEF QueueOK
      <4> QED BY Zenon, <2>2, <4>1, <4>2, <4>3 DEF WorkerStep
    <3> QED BY <1>0, <1>1, <1>2, <3>1, <3>2, Zenon DEF QueueOK
  <2> QED BY <2>1, <2>2
<1> QED BY <1>3, <1>4, <1>5, <1>6 DEF OrderOK

\* The cleaner, and time, keep the order: only a queue that is not used becomes stale,
\* only a stale one is removed, and it is closed when it is idle.
LEMMA CleanerKeepsOrder ==
  ASSUME Quick, CountInv, ~crashed, OrderOK, CleanerStep \/ \E q \in Made : Age(q)
  PROVE  OrderOK'
<1>0. /\ SubOK /\ MapOK /\ CleanOK /\ \A r \in Queues : QueueOK(r)
      /\ DOMAIN closed = Queues /\ DOMAIN mu = Queues /\ DOMAIN stale = Queues /\ DOMAIN queues = Keys
      /\ todo \subseteq Keys /\ victim \in Keys
  BY DEF OrderOK, CountInv, PoolType
<1>1. /\ UNCHANGED <<key, taskChan, wg, worker, task, sub, queue, arg>> /\ Made' = Made
  BY Zenon DEF CleanerStep, CleanerTicks, VisitQueue, RangeEnds, StopQueue, CloseQueue, DeleteQueue, Age,
         mapVars, queueVars, workerVars, subVars, Made
<1>2. \A r : (Using(r)' <=> Using(r)) /\ (Making(r)' <=> Making(r)) /\ (Idle(r)' <=> Idle(r))
  BY Zenon, <1>1 DEF Using, Making, Idle, Busy
<1>3. ASSUME UNCHANGED <<queues, closed, stale>> PROVE SubOK' /\ MapOK' /\ \A r \in Queues : QueueOK(r)'
  <2>1. SubOK' /\ MapOK'
    BY Zenon, <1>0, <1>1, <1>3 DEF SubOK, MapOK
  <2> QED BY Zenon, <1>0, <1>1, <1>2, <1>3, <2>1, QueueAlone
<1>4. ASSUME NEW q \in Made, Age(q) PROVE OrderOK'
  <2>1. /\ stale' = [stale EXCEPT ![q] = TRUE] /\ UNCHANGED <<queues, closed, mu, cleaner, todo, victim, doomed>>
        /\ \A s \in Submitters : sub[s] \in {"idle", "load"} \/ queue[s] # q
    BY <1>4 DEF Age, mapVars, cleanVars
  <2>2. ~Using(q)
    BY <2>1 DEF Using
  <2>3. ASSUME NEW r \in Queues PROVE QueueOK(r)'
    <3>1. stale'[r] => ~Using(r)'
      BY Zenon, <1>0, <1>2, <2>1, <2>2 DEF QueueOK
    <3> QED BY <1>0, <1>1, <1>2, <2>1, <3>1, Zenon DEF QueueOK
  <2>4. SubOK' /\ MapOK'
    BY Zenon, <1>0, <1>1, <2>1 DEF SubOK, MapOK
  <2>5. CleanOK'
    BY <1>0, <1>1, <1>2, <2>1, Zenon DEF CleanOK
  <2> QED BY <2>3, <2>4, <2>5 DEF OrderOK
<1>5. CASE CleanerTicks
  <2>1. /\ cleaner' = "range" /\ UNCHANGED <<queues, closed, stale>> /\ \A k \in todo' : queues[k] # NoQueue
    BY <1>5 DEF CleanerTicks, mapVars, queueVars
  <2> QED BY Zenon, <1>3, <2>1 DEF CleanOK, OrderOK
<1>6. ASSUME NEW k \in Keys, VisitQueue(k) PROVE OrderOK'
  <2>1. /\ cleaner = "range" /\ k \in todo /\ todo' = todo \ {k} /\ UNCHANGED <<queues, closed, stale>>
    BY <1>6 DEF VisitQueue, mapVars
  <2>2. queues[k] \in Made /\ queues[k] \in Queues
    BY <1>0, <2>1, MadeInQueues DEF CleanOK, MapOK
  <2>3. CASE stale[queues[k]]
    <3>1. mu' = [mu EXCEPT ![queues[k]] = TRUE] /\ victim' = k /\ doomed' = queues[k] /\ cleaner' = "stop"
      BY <1>6, <2>3 DEF VisitQueue
    <3>2. mu'[doomed'] /\ ~Using(doomed)'
      BY <1>0, <1>1, <2>2, <2>3, <3>1 DEF QueueOK, Using
    <3>3. CleanOK'
      BY Zenon, <1>0, <1>1, <2>1, <2>2, <3>1, <3>2 DEF CleanOK
    <3> QED BY <1>3, <2>1, <3>3 DEF OrderOK
  <2>4. CASE ~stale[queues[k]]
    <3>1. cleaner' = cleaner
      BY Zenon, <1>6, <2>4 DEF VisitQueue
    <3>2. CleanOK'
      BY Zenon, <1>0, <2>1, <3>1 DEF CleanOK
    <3> QED BY <1>3, <2>1, <3>2 DEF OrderOK
  <2> QED BY <2>3, <2>4
<1>7. CASE RangeEnds
  <2>1. cleaner' = "select" /\ UNCHANGED <<queues, closed, stale, todo>>
    BY <1>7 DEF RangeEnds, mapVars, queueVars
  <2>2. CleanOK'
    BY Zenon, <1>0, <2>1 DEF CleanOK
  <2> QED BY <1>3, <2>1, <2>2 DEF OrderOK
<1>8. CASE StopQueue
  <2>1. /\ cleaner = "stop" /\ wg[doomed] = 0 /\ cleaner' = "close"
        /\ UNCHANGED <<queues, closed, mu, stale, todo, victim, doomed>>
    BY <1>8 DEF StopQueue, mapVars, queueVars
  <2>2. CleanOK'
    BY Zenon, <1>0, <1>1, <1>2, <2>1 DEF CleanOK
  <2> QED BY <1>3, <2>1, <2>2 DEF OrderOK
<1>9. CASE CloseQueue
  <2>1. /\ cleaner = "close" /\ closed' = [closed EXCEPT ![doomed] = TRUE] /\ cleaner' = "delete"
        /\ UNCHANGED <<queues, mu, stale, todo, victim, doomed>>
    BY <1>9 DEF CloseQueue, mapVars
  <2>2. doomed \in Queues /\ wg[doomed] = 0
    BY <1>0, <2>1, MadeInQueues DEF CleanOK
  <2>3. Idle(doomed)
    BY <1>0, <2>2, CounterTells DEF Idle, QueueOK, Busy
  <2>4. ASSUME NEW r \in Queues PROVE QueueOK(r)'
    <3>1. (closed'[r] => closed[r] \/ r = doomed) /\ (closed[r] => closed'[r])
      BY <1>0, <2>1
    <3> QED BY <1>0, <1>1, <1>2, <2>1, <2>3, <3>1, Zenon DEF QueueOK
  <2>5. SubOK' /\ MapOK'
    BY Zenon, <1>0, <1>1, <2>1 DEF SubOK, MapOK
  <2>6. CleanOK'
    BY Zenon, <1>0, <1>1, <1>2, <2>1, <2>2 DEF CleanOK
  <2> QED BY <2>4, <2>5, <2>6 DEF OrderOK
<1>10. CASE DeleteQueue
  <2>1. /\ cleaner = "delete" /\ queues' = [queues EXCEPT ![victim] = NoQueue] /\ cleaner' = "range"
        /\ UNCHANGED <<closed, stale, todo>>
    BY <1>10 DEF DeleteQueue
  <2>2. victim \notin todo /\ queues[victim] = doomed /\ doomed \in Queues /\ closed[doomed]
    BY Zenon, <1>0, <2>1, MadeInQueues DEF CleanOK
  <2>3. queues'[victim] = NoQueue /\ \A k \in Keys \ {victim} : queues'[k] = queues[k]
    BY <1>0, <2>1
  <2>4. ASSUME NEW r \in Queues PROVE QueueOK(r)'
    <3>1. QueueOK(r)
      BY <1>0
    <3>2. r \in Made => key[r] \in Keys
      BY DEF CountInv, PoolType, Made
    <3>3. r \in Made /\ queues'[key[r]] # r => queues[key[r]] # r \/ r = doomed
      BY <2>2, <2>3, <3>2
    <3> QED BY <1>1, <1>2, <2>1, <2>2, <3>1, <3>3, Zenon DEF QueueOK
  <2>5. SubOK'
    <3>1. \A s \in Submitters : KeyOf[arg[s].uid] \in Keys
      BY PoolFacts DEF CountInv, PoolType
    <3> QED BY Zenon, <1>0, <1>1, <2>3, <3>1 DEF SubOK
  <2>6. MapOK' /\ CleanOK'
    BY Zenon, <1>0, <1>1, <2>1, <2>2, <2>3 DEF MapOK, CleanOK
  <2> QED BY <2>4, <2>5, <2>6 DEF OrderOK
<1> QED BY <1>4, <1>5, <1>6, <1>7, <1>8, <1>9, <1>10 DEF CleanerStep

\* The order is kept by every step of a pool that one goroutine submits to.
LEMMA OrderKept ==
  ASSUME OneSubmitter, Quick, OrderInv, CountInv', Next
  PROVE  OrderInv'
<1> SUFFICES ASSUME ~crashed' PROVE OrderOK'
  BY DEF OrderInv
<1>0. ~crashed /\ OrderOK /\ CountInv
  BY CrashStays DEF OrderInv
<1>1. ASSUME NEW s \in Submitters, SendTask(s) PROVE OrderOK'
  <2>1. ~closed[queue[s]]
    BY <1>1 DEF SendTask
  <2> QED BY Zenon, <1>0, <1>1, <2>1, SendKeepsOrder
<1>2. ASSUME NEW s \in Submitters, SubmitStep(s) \/ \E u \in Uids : StartSubmit(s, u) PROVE OrderOK'
  BY <1>0, <1>1, <1>2, GetKeepsOrder, StoreKeepsOrder, TouchKeepsOrder DEF SubmitStep
<1>3. ASSUME NEW q \in Made, WorkerStep(q) PROVE OrderOK'
  BY <1>0, <1>3, WorkerKeepsOrder
<1>4. ASSUME CleanerStep \/ \E q \in Made : Age(q) PROVE OrderOK'
  BY <1>0, <1>4, CleanerKeepsOrder
<1> QED BY <1>2, <1>3, <1>4 DEF Next

-----------------------------------------------------------------------------
(* The pool is a SerialExecutor per key *)

\* What the queue in the map holds for a key, and what its worker executes.
Stored(k) == IF queues[k] = NoQueue THEN <<>> ELSE taskChan[queues[k]]
Executed(k) == IF queues[k] = NoQueue THEN {} ELSE task[queues[k]]

\* Nothing waits for a key, or is executed, in a queue that is not in the map.
Held == ~crashed => \A k \in Keys : Pending(k) = Stored(k) /\ Running(k) = Executed(k)

\* The choice of the only queue with tasks.
LEMMA ChooseOnly ==
  ASSUME NEW M, NEW W, NEW q \in M, W = {q}
  PROVE  (\E x \in M : W = {x}) /\ (CHOOSE x \in M : W = {x}) = q
OBVIOUS

\* If a key has one queue that is not idle, Pending and Running are that queue's.
LEMMA OneQueue ==
  ASSUME NEW k, NEW q \in Made, key[q] = k,
         \A r \in Made : key[r] = k /\ r # q => taskChan[r] = <<>> /\ task[r] = {}
  PROVE  Pending(k) = taskChan[q] /\ Running(k) = task[q]
<1>1. Pending(k) = taskChan[q]
  <2>1. CASE taskChan[q] = <<>>
    <3>1. Waiting(k) = {}
      BY <2>1 DEF Waiting
    <3> QED BY <2>1, <3>1 DEF Pending
  <2>2. CASE taskChan[q] # <<>>
    <3>1. Waiting(k) = {q}
      BY <2>2 DEF Waiting
    <3>2. (\E x \in Made : Waiting(k) = {x}) /\ (CHOOSE x \in Made : Waiting(k) = {x}) = q
      BY <3>1, ChooseOnly, Zenon
    <3> QED BY <3>2, Zenon DEF Pending
  <2> QED BY <2>1, <2>2
<1>2. Running(k) = task[q]
  BY DEF Running
<1> QED BY <1>1, <1>2

\* If a key has none, there is nothing.
LEMMA NoneQueue ==
  ASSUME NEW k, \A r \in Made : key[r] = k => taskChan[r] = <<>> /\ task[r] = {}
  PROVE  Pending(k) = <<>> /\ Running(k) = {}
<1>1. Waiting(k) = {}
  BY DEF Waiting
<1>2. Pending(k) = <<>>
  BY <1>1 DEF Pending
<1>3. Running(k) = {}
  BY DEF Running
<1> QED BY <1>2, <1>3

\* The queues in order, the executor's queue of a key is the one in the map.
LEMMA OrderHolds == OrderInv => Held
<1> SUFFICES ASSUME OrderInv, ~crashed, NEW k \in Keys
             PROVE  Pending(k) = Stored(k) /\ Running(k) = Executed(k)
  BY DEF Held
<1>1. MapOK /\ \A q \in Queues : QueueOK(q)
  BY DEF OrderInv, OrderOK
<1>2. Made \subseteq Queues
  BY MadeInQueues DEF OrderInv
<1>3. \A r \in Made : key[r] = k /\ r # queues[k] => taskChan[r] = <<>> /\ task[r] = {}
  BY Zenon, <1>1, <1>2 DEF QueueOK, Idle
<1>4. CASE queues[k] = NoQueue
  <2>1. \A r \in Made : r # queues[k]
    BY <1>2, <1>4, PoolFacts DEF NoQueue
  <2> QED BY <1>3, <1>4, <2>1, NoneQueue DEF Stored, Executed
<1>5. CASE queues[k] # NoQueue
  <2>1. queues[k] \in Made /\ key[queues[k]] = k
    BY <1>1, <1>5 DEF MapOK
  <2> QED BY <1>3, <1>5, <2>1, OneQueue DEF Stored, Executed
<1> QED BY <1>4, <1>5

\* The end of a send is the executor's Submit.
LEMMA SendSubmits ==
  ASSUME OneSubmitter, OrderInv, Held, Held', ~crashed, NEW s \in Submitters, SendTask(s), ~closed[queue[s]]
  PROVE  \E k \in Keys : \E t \in Task : Executor!Submit(k, t)
<1>0. CountInv /\ OrderOK /\ DOMAIN taskChan = Queues /\ arg[s] \in Task /\ queues \in [Keys -> Nat]
  BY DEF OrderInv, CountInv, PoolType
<1>1. /\ sub[s] = "send" /\ taskChan' = [taskChan EXCEPT ![queue[s]] = Append(@, arg[s])]
      /\ queues' = queues /\ task' = task /\ crashed' = crashed
  BY Zenon DEF SendTask, mapVars
<1>2. PICK q \in Queues : q = queue[s]
  BY Zenon, <1>0, <1>1, SendsToStored
<1>3. PICK k \in Keys : k = KeyOf[arg[s].uid]
  BY Zenon, <1>0, PoolFacts
<1>4. queues[k] = q /\ q # NoQueue /\ \A j \in Keys \ {k} : queues[j] # q
  <2>1. q # NoQueue
    BY Zenon, PoolFacts DEF NoQueue
  <2>2. key[q] = k /\ queues[k] = q
    BY Zenon, <1>0, <1>1, <1>2, <1>3, SendsToStored
  <2>3. \A j \in Keys : queues[j] = q => key[q] = j
    BY Zenon, <1>0, <2>1 DEF OrderOK, MapOK
  <2> QED BY Zenon, <2>1, <2>2, <2>3
<1>5. taskChan'[q] = Append(taskChan[q], arg[s]) /\ \A r \in Queues \ {q} : taskChan'[r] = taskChan[r]
  BY Zenon, <1>0, <1>1, <1>2
<1>6. \A j \in Keys : queues[j] # NoQueue => queues[j] \in Queues
  BY Zenon, <1>0, MadeInQueues DEF OrderOK, MapOK
<1>7. /\ \A j \in Keys : Pending(j) = Stored(j) /\ Running(j) = Executed(j)
      /\ \A j \in Keys : Pending(j)' = Stored(j)' /\ Running(j)' = Executed(j)'
  BY Zenon, <1>1 DEF Held
<1>8. Pending(k)' = Append(Pending(k), arg[s])
  BY Zenon, <1>1, <1>4, <1>5, <1>7 DEF Stored
<1>9. ASSUME NEW j \in Keys \ {k} PROVE Pending(j)' = Pending(j)
  <2>1. queues[j] # NoQueue => queues[j] \in Queues \ {q}
    BY <1>4, <1>6
  <2>2. Stored(j)' = Stored(j)
    BY <1>1, <1>5, <2>1 DEF Stored
  <2> QED BY Zenon, <1>7, <2>2
<1>10. \A j \in Keys : Running(j)' = Running(j)
  BY Zenon, <1>1, <1>7 DEF Executed
<1>11. [j \in Keys |-> IF crashed THEN <<>> ELSE Pending(j)]' =
       [[j \in Keys |-> IF crashed THEN <<>> ELSE Pending(j)] EXCEPT ![k] = Append(@, arg[s])]
  BY Zenon, <1>1, <1>8, <1>9
<1>12. UNCHANGED <<[j \in Keys |-> IF crashed THEN {} ELSE Running(j)], ~crashed>>
  BY Zenon, <1>1, <1>10
<1>13. Executor!Submit(k, arg[s])
  BY Zenon, <1>11, <1>12 DEF Executor!Submit
<1> QED BY <1>0, <1>13

\* A worker that has something to do has the queue in the map.
LEMMA WorkerStored ==
  ASSUME OrderInv, ~crashed, NEW q \in Made, taskChan[q] # <<>> \/ task[q] # {}
  PROVE  /\ q \in Queues /\ q # NoQueue /\ key[q] \in Keys /\ queues[key[q]] = q
         /\ \A j \in Keys \ {key[q]} : queues[j] # q
<1>1. CountInv /\ OrderOK /\ key \in Seq(Keys)
  BY DEF OrderInv, CountInv, PoolType
<1>2. q \in Queues /\ q # NoQueue
  BY Zenon, <1>1, MadeInQueues, PoolFacts DEF NoQueue
<1>3. key[q] \in Keys
  BY <1>1 DEF Made
<1>4. queues[key[q]] = q
  BY Zenon, <1>1, <1>2 DEF OrderOK, QueueOK, Idle
<1>5. \A j \in Keys \ {key[q]} : queues[j] # q
  BY <1>1, <1>2 DEF OrderOK, MapOK
<1> QED BY <1>2, <1>3, <1>4, <1>5

\* A worker that receives a task begins the first one of its key.
LEMMA RunBegins ==
  ASSUME OrderInv, Held, Held', ~crashed, NEW q \in Made, RunTask(q)
  PROVE  \E k \in Keys : Executor!Begin(k)
<1>0. /\ CountInv /\ OrderOK /\ DOMAIN taskChan = Queues /\ DOMAIN task = Queues
      /\ worker[q] = "receive" /\ taskChan[q] # <<>>
  BY Zenon DEF OrderInv, CountInv, PoolType, RunTask
<1>1. /\ taskChan' = [taskChan EXCEPT ![q] = Tail(@)] /\ task' = [task EXCEPT ![q] = {Head(taskChan[q])}]
      /\ queues' = queues /\ crashed' = crashed
  BY DEF RunTask, mapVars
<1>2. q \in Queues /\ q # NoQueue
  BY Zenon, <1>0, WorkerStored
<1>3. PICK k \in Keys : queues[k] = q /\ \A j \in Keys \ {k} : queues[j] # q
  BY Zenon, <1>0, WorkerStored
<1>4. task[q] = {}
  BY Zenon, <1>0, <1>2 DEF OrderOK, QueueOK
<1>5. /\ taskChan'[q] = Tail(taskChan[q]) /\ \A r \in Queues \ {q} : taskChan'[r] = taskChan[r]
      /\ task'[q] = {Head(taskChan[q])} /\ \A r \in Queues \ {q} : task'[r] = task[r]
  BY <1>0, <1>1, <1>2
<1>6. \A j \in Keys : queues[j] # NoQueue => queues[j] \in Queues
  BY <1>0, MadeInQueues DEF OrderOK, MapOK
<1>7. /\ \A j \in Keys : Pending(j) = Stored(j) /\ Running(j) = Executed(j)
      /\ \A j \in Keys : Pending(j)' = Stored(j)' /\ Running(j)' = Executed(j)'
  BY <1>1 DEF Held
<1>8. Pending(k) # <<>> /\ Pending(k)' = Tail(Pending(k)) /\ Running(k) = {} /\ Running(k)' = {Head(Pending(k))}
  BY Zenon, <1>0, <1>1, <1>2, <1>3, <1>4, <1>5, <1>7 DEF Stored, Executed
<1>9. ASSUME NEW j \in Keys \ {k} PROVE Pending(j)' = Pending(j) /\ Running(j)' = Running(j)
  <2>1. queues[j] # NoQueue => queues[j] \in Queues \ {q}
    BY <1>3, <1>6
  <2>2. Stored(j)' = Stored(j)
    BY <1>1, <1>5, <2>1 DEF Stored
  <2>3. Executed(j)' = Executed(j)
    BY <1>1, <1>5, <2>1 DEF Executed
  <2> QED BY <1>7, <2>2, <2>3
<1>10. [j \in Keys |-> IF crashed THEN <<>> ELSE Pending(j)]' =
       [[j \in Keys |-> IF crashed THEN <<>> ELSE Pending(j)] EXCEPT ![k] = Tail(@)]
  BY Zenon, <1>1, <1>8, <1>9
<1>11. [j \in Keys |-> IF crashed THEN {} ELSE Running(j)]' =
       [[j \in Keys |-> IF crashed THEN {} ELSE Running(j)] EXCEPT ![k] = {Head(Pending(k))}]
  BY Zenon, <1>1, <1>8, <1>9
<1>12. /\ [j \in Keys |-> IF crashed THEN <<>> ELSE Pending(j)][k] = Pending(k)
       /\ [j \in Keys |-> IF crashed THEN {} ELSE Running(j)][k] = Running(k)
  OBVIOUS
<1>13. Executor!Begin(k)
  BY Zenon, <1>1, <1>8, <1>10, <1>11, <1>12 DEF Executor!Begin
<1> QED BY <1>13

\* The return of a task is its end.
LEMMA ReturnEnds ==
  ASSUME OrderInv, Held, Held', ~crashed, NEW q \in Made, TaskReturns(q)
  PROVE  \E k \in Keys : Executor!End(k)
<1>0. CountInv /\ OrderOK /\ DOMAIN task = Queues /\ q \in Queues
  BY Zenon, MadeInQueues DEF OrderInv, CountInv, PoolType
<1>1. /\ worker[q] = "run" /\ task' = [task EXCEPT ![q] = {}]
      /\ taskChan' = taskChan /\ queues' = queues /\ crashed' = crashed
  BY DEF TaskReturns, mapVars, queueVars
<1>2. task[q] # {}
  BY Zenon, <1>0, <1>1 DEF OrderOK, QueueOK
<1>3. PICK k \in Keys : queues[k] = q /\ q # NoQueue /\ \A j \in Keys \ {k} : queues[j] # q
  BY <1>2, WorkerStored
<1>4. task'[q] = {} /\ \A r \in Queues \ {q} : task'[r] = task[r]
  BY <1>0, <1>1
<1>5. \A j \in Keys : queues[j] # NoQueue => queues[j] \in Queues
  BY Zenon, <1>0, MadeInQueues DEF OrderOK, MapOK
<1>6. /\ \A j \in Keys : Pending(j) = Stored(j) /\ Running(j) = Executed(j)
      /\ \A j \in Keys : Pending(j)' = Stored(j)' /\ Running(j)' = Executed(j)'
  BY <1>1 DEF Held
<1>7. Running(k) # {} /\ Running(k)' = {}
  BY Zenon, <1>1, <1>2, <1>3, <1>4, <1>6 DEF Executed
<1>8. ASSUME NEW j \in Keys \ {k} PROVE Running(j)' = Running(j)
  <2>1. queues[j] # NoQueue => queues[j] \in Queues \ {q}
    BY <1>3, <1>5
  <2>2. Executed(j)' = Executed(j)
    BY <1>1, <1>4, <2>1 DEF Executed
  <2> QED BY Zenon, <1>6, <2>2
<1>9. \A j \in Keys : Pending(j)' = Pending(j)
  BY Zenon, <1>1, <1>6 DEF Stored
<1>10. [j \in Keys |-> IF crashed THEN {} ELSE Running(j)]' =
       [[j \in Keys |-> IF crashed THEN {} ELSE Running(j)] EXCEPT ![k] = {}]
  BY Zenon, <1>1, <1>7, <1>8
<1>11. UNCHANGED <<[j \in Keys |-> IF crashed THEN <<>> ELSE Pending(j)], ~crashed>>
  BY <1>1, <1>9
<1>12. Executor!End(k)
  BY <1>1, <1>7, <1>10, <1>11 DEF Executor!End
<1> QED BY <1>12

\* A send on a closed channel ends all tasks.
LEMMA SendCrashes ==
  ASSUME ~crashed, NEW s \in Submitters, SendTask(s), closed[queue[s]]
  PROVE  Executor!Crash
<1>1. crashed' = TRUE
  BY DEF SendTask
<1>2. /\ [j \in Keys |-> IF crashed THEN <<>> ELSE Pending(j)]' = [j \in Keys |-> <<>>]
      /\ [j \in Keys |-> IF crashed THEN {} ELSE Running(j)]' = [j \in Keys |-> {}]
  BY <1>1
<1> QED BY <1>1, <1>2 DEF Executor!Crash

\* The executor's variables.
View == <<[k \in Keys |-> IF crashed THEN <<>> ELSE Pending(k)],
          [k \in Keys |-> IF crashed THEN {} ELSE Running(k)], ~crashed>>

\* The executor does not see a step that leaves channels, tasks and keys alone, nor one
\* that only makes a queue.
LEMMA Unseen ==
  ASSUME crashed' = crashed, taskChan' = taskChan, task' = task,
         key' = key \/ (Held /\ Held' /\ ~crashed /\ queues' = queues)
  PROVE  UNCHANGED View
<1>1. ~crashed => \A k \in Keys : Pending(k)' = Pending(k) /\ Running(k)' = Running(k)
  <2>1. CASE key' = key
    BY Zenon, <2>1 DEF Pending, Running, Waiting, Made
  <2>2. CASE Held /\ Held' /\ ~crashed /\ queues' = queues
    BY <2>2 DEF Held, Stored, Executed
  <2> QED BY <2>1, <2>2
<1> QED BY <1>1 DEF View

\* Every step of the pool is a step of the executor or one it does not see.
LEMMA ExecutorStep ==
  ASSUME OneSubmitter, OrderInv, Held, Held', [Next]_vars
  PROVE  Executor!Next \/ UNCHANGED View
<1>1. CASE crashed
  <2>1. crashed' = TRUE
    BY Zenon, <1>1, CrashStays DEF vars
  <2>2. crashed = TRUE
    BY <1>1 DEF OrderInv, CountInv, PoolType
  <2> QED BY <2>1, <2>2 DEF View
<1>2. CASE ~crashed
  <2>1. ASSUME NEW s \in Submitters, SubmitStep(s) \/ \E u \in Uids : StartSubmit(s, u)
        PROVE  Executor!Next \/ UNCHANGED View
    <3>1. CASE SendTask(s)
      BY Zenon, <1>2, <3>1, SendSubmits, SendCrashes DEF Executor!Next
    <3>2. CASE getQueue(s)
      BY <1>2, <3>2, Unseen DEF getQueue, queueVars
    <3>3. CASE StoreQueue(s) \/ TouchQueue(s) \/ AddTask(s) \/ \E u \in Uids : StartSubmit(s, u)
      BY Zenon, <3>3, Unseen DEF StoreQueue, TouchQueue, AddTask, StartSubmit, mapVars, queueVars, workerVars
    <3> QED BY <2>1, <3>1, <3>2, <3>3 DEF SubmitStep
  <2>2. ASSUME NEW q \in Made, WorkerStep(q) \/ Age(q) PROVE Executor!Next \/ UNCHANGED View
    <3>1. CASE RunTask(q)
      BY Zenon, <1>2, <3>1, RunBegins DEF Executor!Next
    <3>2. CASE TaskReturns(q)
      BY Zenon, <1>2, <3>2, ReturnEnds DEF Executor!Next
    <3>3. CASE TaskTouches(q) \/ TaskDone(q) \/ WorkerExits(q) \/ Age(q)
      BY Zenon, <3>3, Unseen DEF TaskTouches, TaskDone, WorkerExits, Age, mapVars, queueVars, workerVars
    <3> QED BY <2>2, <3>1, <3>2, <3>3 DEF WorkerStep
  <2>3. CASE CleanerStep
    BY Zenon, <2>3, Unseen DEF CleanerStep, CleanerTicks, VisitQueue, RangeEnds, StopQueue, CloseQueue, DeleteQueue,
                        mapVars, queueVars, workerVars
  <2>4. CASE UNCHANGED vars
    BY <2>4, Unseen DEF vars, mapVars, queueVars, workerVars
  <2> QED BY <2>1, <2>2, <2>3, <2>4 DEF Next
<1> QED BY <1>1, <1>2

\* With one submitting goroutine, and tasks that do not outlast clearTimePass, at most
\* one queue of a key holds tasks, through every removal of a queue and its making anew.
THEOREM OrderInvariant ==
  ASSUME OneSubmitter, Quick
  PROVE  Spec => []OrderInv
<1>1. Init => OrderInv
  <2> SUFFICES ASSUME Init PROVE OrderInv
    OBVIOUS
  <2>1. CountInv
    BY InitCounts
  <2>2. Made = {}
    BY DEF Init, Made
  <2>3. SubOK /\ MapOK /\ CleanOK
    BY Zenon DEF Init, SubOK, MapOK, CleanOK
  <2>4. ASSUME NEW q \in Queues PROVE QueueOK(q)
    BY <2>2 DEF Init, QueueOK, Idle, Busy
  <2> QED BY <2>1, <2>3, <2>4 DEF OrderInv, OrderOK
<1>2. CountInv /\ CountInv' /\ OrderInv /\ [Next]_vars => OrderInv'
  <2> SUFFICES ASSUME CountInv', OrderInv, [Next]_vars PROVE OrderInv'
    OBVIOUS
  <2>1. CASE Next
    BY <2>1, OrderKept
  <2>2. CASE UNCHANGED vars
    BY ZenonT(40), <2>2 DEF OrderInv, OrderOK, SubOK, MapOK, QueueOK, CleanOK, Idle, Busy, Using, Making, Made,
                vars, mapVars, queueVars, workerVars, subVars, cleanVars
  <2> QED BY <2>1, <2>2
<1> QED BY <1>1, <1>2, CountInvariant, PTL DEF Spec

\* The pool executes the tasks of a key one at a time and in the order of their sends.
THEOREM ExecutesSerially ==
  ASSUME OneSubmitter, Quick
  PROVE  Spec => RunsSerially
<1>1. Init => Executor!Init
  <2> SUFFICES ASSUME Init PROVE Executor!Init
    OBVIOUS
  <2>1. Made = {} /\ crashed = FALSE
    BY DEF Init, Made
  <2>2. \A k \in Keys : Pending(k) = <<>> /\ Running(k) = {}
    BY Zenon, <2>1, NoneQueue
  <2> QED BY <2>1, <2>2 DEF Executor!Init
<1>2. OrderInv /\ Held /\ Held' /\ [Next]_vars => [Executor!Next]_View
  BY ExecutorStep
<1>3. Spec => []OrderInv
  BY OrderInvariant
<1> QED BY <1>1, <1>2, <1>3, OrderHolds, PTL DEF Spec, RunsSerially, Executor!Spec, View

-----------------------------------------------------------------------------
(* Every queue by itself *)

\* A queue as a SerialExecutor: its channel and the task of its worker.
QueueExecutor == INSTANCE SerialExecutor WITH
  Uids <- Queues, Tasks <- Task,
  pending <- [q \in Queues |-> IF crashed THEN <<>> ELSE taskChan[q]],
  running <- [q \in Queues |-> IF crashed THEN {} ELSE task[q]],
  alive <- ~crashed

\* Every queue executes the tasks sent to it one at a time in the order of their sends,
\* and loses none of them when the cleaner closes it.
QueuesRunSerially == QueueExecutor!Spec

QueueView == <<[q \in Queues |-> IF crashed THEN <<>> ELSE taskChan[q]],
               [q \in Queues |-> IF crashed THEN {} ELSE task[q]], ~crashed>>

\* A worker has a task just while it runs one.
TaskOK == ~crashed => \A q \in Queues : task[q] # {} <=> worker[q] = "run"

\* A new queue gets a worker that has no task.
LEMMA GetKeepsTask ==
  ASSUME CountInv, CountInv', TaskOK, ~crashed, NEW s \in Submitters, getQueue(s)
  PROVE  TaskOK'
<1>1. task' = task /\ crashed' = crashed
  BY DEF getQueue
<1>2. CASE worker' = worker
  BY <1>1, <1>2 DEF TaskOK
<1>3. CASE worker' # worker
  <2>1. key' = Append(key, KeyOf[arg[s].uid]) /\ worker' = [worker EXCEPT ![Len(key')] = "receive"]
    BY Zenon, <1>3 DEF getQueue
  <2>2. key \in Seq(Keys) /\ KeyOf[arg[s].uid] \in Keys
    BY PoolFacts DEF CountInv, PoolType
  <2>3. Len(key') = Len(key) + 1 /\ Len(key) \in Nat
    BY <2>1, <2>2
  <2>4. ASSUME NEW q \in Queues PROVE task'[q] # {} <=> worker'[q] = "run"
    <3>1. CASE q = Len(key')
      <4>1. worker[q] = "none"
        BY <2>3, <3>1, PoolFacts DEF CountInv
      <4>2. worker'[q] = "receive"
        BY Zenon, <2>1, <3>1 DEF CountInv, PoolType
      <4> QED BY Zenon, <1>1, <4>1, <4>2 DEF TaskOK
    <3>2. CASE q # Len(key')
      BY Zenon, <1>1, <2>1, <3>2 DEF TaskOK, CountInv, PoolType
    <3> QED BY <3>1, <3>2
  <2> QED BY <2>4 DEF TaskOK
<1> QED BY <1>2, <1>3

\* A worker takes a task and gives it back in the steps that begin and end its run.
LEMMA WorkerKeepsTask ==
  ASSUME CountInv, TaskOK, ~crashed, NEW q \in Queues, WorkerStep(q)
  PROVE  TaskOK'
<1>1. /\ crashed' = crashed /\ DOMAIN task = Queues /\ DOMAIN worker = Queues
      /\ \A r \in Queues : task[r] # {} <=> worker[r] = "run"
  BY Zenon DEF WorkerStep, RunTask, TaskReturns, TaskTouches, TaskDone, WorkerExits, TaskOK, CountInv, PoolType
<1>2. CASE RunTask(q)
  BY Zenon, <1>1, <1>2 DEF RunTask, TaskOK
<1>3. CASE TaskReturns(q)
  BY Zenon, <1>1, <1>3 DEF TaskReturns, TaskOK
<1>4. CASE TaskTouches(q) \/ TaskDone(q) \/ WorkerExits(q)
  BY Zenon, <1>1, <1>4 DEF TaskTouches, TaskDone, WorkerExits, TaskOK
<1> QED BY <1>2, <1>3, <1>4 DEF WorkerStep

\* TaskOK holds in every state.
LEMMA TaskInvariance == Spec => []TaskOK
<1>1. Init => TaskOK
  BY Zenon DEF Init, TaskOK
<1>2. CountInv /\ CountInv' /\ TaskOK /\ [Next]_vars => TaskOK'
  <2> SUFFICES ASSUME CountInv, CountInv', TaskOK, [Next]_vars PROVE TaskOK'
    OBVIOUS
  <2>1. ASSUME worker' = worker, task' = task, crashed' = crashed PROVE TaskOK'
    BY Zenon, <2>1 DEF TaskOK
  <2>2. CASE Next /\ crashed
    BY Zenon, <2>2, CrashStays DEF TaskOK
  <2>3. CASE Next /\ ~crashed
    <3>1. ASSUME NEW s \in Submitters, SubmitStep(s) \/ \E u \in Uids : StartSubmit(s, u)
          PROVE  TaskOK'
      <4>1. CASE getQueue(s)
        BY Zenon, <2>3, <4>1, GetKeepsTask
      <4>2. CASE SendTask(s)
        BY Zenon, <2>1, <4>2 DEF SendTask, TaskOK
      <4>3. CASE StoreQueue(s) \/ TouchQueue(s) \/ AddTask(s) \/ \E u \in Uids : StartSubmit(s, u)
        BY Zenon, <2>1, <4>3 DEF StoreQueue, TouchQueue, AddTask, StartSubmit, workerVars
      <4> QED BY <3>1, <4>1, <4>2, <4>3 DEF SubmitStep
    <3>2. ASSUME NEW q \in Made, WorkerStep(q) \/ Age(q) PROVE TaskOK'
      <4>1. q \in Queues
        BY Zenon, MadeInQueues
      <4>2. CASE WorkerStep(q)
        BY Zenon, <2>3, <4>1, <4>2, WorkerKeepsTask
      <4>3. CASE Age(q)
        BY Zenon, <2>1, <4>3 DEF Age, workerVars
      <4> QED BY <3>2, <4>2, <4>3
    <3>3. CASE CleanerStep
      BY Zenon, <2>1, <3>3 DEF CleanerStep, CleanerTicks, VisitQueue, RangeEnds, StopQueue,
        CloseQueue, DeleteQueue, workerVars
    <3> QED BY <2>3, <3>1, <3>2, <3>3 DEF Next
  <2>4. CASE UNCHANGED vars
    BY Zenon, <2>1, <2>4 DEF vars, workerVars
  <2> QED BY <2>2, <2>3, <2>4
<1> QED BY <1>1, <1>2, CountInvariant, PTL DEF Spec

\* The end of a send is Submit of its queue, or the crash.
LEMMA SendToQueue ==
  ASSUME CountInv, ~crashed, NEW s \in Submitters, SendTask(s)
  PROVE  QueueExecutor!Next \/ UNCHANGED QueueView
<1>0. DOMAIN taskChan = Queues /\ arg[s] \in Task
  BY Zenon DEF CountInv, PoolType
<1>1. CASE crashed' = TRUE
  <2>1. QueueExecutor!Crash
    BY <1>1 DEF QueueExecutor!Crash
  <2> QED BY <2>1 DEF QueueExecutor!Next
<1>2. CASE /\ taskChan' = [taskChan EXCEPT ![queue[s]] = Append(@, arg[s])]
           /\ crashed' = crashed /\ task' = task
  <2>1. CASE queue[s] \in Queues
    <3>1. PICK q \in Queues : q = queue[s]
      BY <2>1
    <3>2. PICK t \in Task : t = arg[s]
      BY <1>0
    <3>3. QueueExecutor!Submit(q, t)
      BY Zenon, <1>0, <1>2, <3>1, <3>2 DEF QueueExecutor!Submit
    <3> QED BY Zenon, <3>3 DEF QueueExecutor!Next
  <2>2. CASE queue[s] \notin Queues
    BY Zenon, <1>0, <1>2, <2>2 DEF QueueView
  <2> QED BY <2>1, <2>2
<1> QED BY Zenon, <1>1, <1>2 DEF SendTask

\* Every step of the pool is a step of one queue's executor or one it does not see.
LEMMA QueueStep ==
  ASSUME CountInv, TaskOK, [Next]_vars
  PROVE  QueueExecutor!Next \/ UNCHANGED QueueView
<1>0. DOMAIN taskChan = Queues /\ DOMAIN task = Queues /\ crashed \in BOOLEAN
  BY Zenon DEF CountInv, PoolType
<1>1. ASSUME taskChan' = taskChan, task' = task, crashed' = crashed PROVE UNCHANGED QueueView
  BY Zenon, <1>1 DEF QueueView
<1>2. CASE Next /\ crashed
  <2>1. crashed = TRUE /\ crashed' = TRUE
    BY Zenon, <1>0, <1>2, CrashStays
  <2> QED BY <2>1 DEF QueueView
<1>3. CASE Next /\ ~crashed
  <2>1. ASSUME NEW s \in Submitters, SubmitStep(s) \/ \E u \in Uids : StartSubmit(s, u)
        PROVE  QueueExecutor!Next \/ UNCHANGED QueueView
    <3>1. CASE SendTask(s)
      BY Zenon, <1>3, <3>1, SendToQueue
    <3>2. CASE getQueue(s) \/ StoreQueue(s) \/ TouchQueue(s) \/ AddTask(s) \/ \E u \in Uids : StartSubmit(s, u)
      BY Zenon, <1>1, <3>2 DEF getQueue, StoreQueue, TouchQueue, AddTask, StartSubmit, queueVars, workerVars
    <3> QED BY <2>1, <3>1, <3>2 DEF SubmitStep
  <2>2. ASSUME NEW q \in Made, WorkerStep(q) \/ Age(q)
        PROVE  QueueExecutor!Next \/ UNCHANGED QueueView
    <3>0. q \in Queues
      BY Zenon, MadeInQueues
    <3>1. CASE RunTask(q)
      <4>1. task[q] = {} /\ taskChan[q] # <<>>
        BY Zenon, <1>3, <3>0, <3>1 DEF RunTask, TaskOK
      <4>2. QueueExecutor!Begin(q)
        BY Zenon, <1>0, <1>3, <3>0, <3>1, <4>1 DEF RunTask, QueueExecutor!Begin
      <4> QED BY Zenon, <3>0, <4>2 DEF QueueExecutor!Next
    <3>2. CASE TaskReturns(q)
      <4>1. task[q] # {}
        BY Zenon, <1>3, <3>0, <3>2 DEF TaskReturns, TaskOK
      <4>2. QueueExecutor!End(q)
        BY Zenon, <1>0, <1>3, <3>0, <3>2, <4>1 DEF TaskReturns, QueueExecutor!End, queueVars
      <4> QED BY Zenon, <3>0, <4>2 DEF QueueExecutor!Next
    <3>3. CASE TaskTouches(q) \/ TaskDone(q) \/ WorkerExits(q) \/ Age(q)
      BY Zenon, <1>1, <3>3 DEF TaskTouches, TaskDone, WorkerExits, Age, queueVars, workerVars
    <3> QED BY <2>2, <3>1, <3>2, <3>3 DEF WorkerStep
  <2>3. CASE CleanerStep
    BY Zenon, <1>1, <2>3 DEF CleanerStep, CleanerTicks, VisitQueue, RangeEnds, StopQueue,
      CloseQueue, DeleteQueue, queueVars, workerVars
  <2> QED BY <1>3, <2>1, <2>2, <2>3 DEF Next
<1>4. CASE UNCHANGED vars
  BY Zenon, <1>1, <1>4 DEF vars, queueVars, workerVars
<1> QED BY <1>2, <1>3, <1>4

\* For any number of submitting goroutines, slow or quick, every queue is a serial
\* executor of its own until a send on a closed channel ends the process: it is a second
\* queue for the same key that can break the order of a player's tasks, not what a queue
\* does.
THEOREM QueuesExecuteSerially == Spec => QueuesRunSerially
<1>1. Init => QueueExecutor!Init
  BY Zenon DEF Init, QueueExecutor!Init
<1>2. CountInv /\ TaskOK /\ [Next]_vars => [QueueExecutor!Next]_QueueView
  BY QueueStep
<1> QED
  BY <1>1, <1>2, CountInvariant, TaskInvariance, PTL
  DEF Spec, QueuesRunSerially, QueueExecutor!Spec, QueueView

-----------------------------------------------------------------------------
(* The cleaner and a worker that wait for one another *)

\* Stop waits for a task whose worker waits for the mutex that the cleaner holds.
Wedged ==
  /\ ~crashed /\ cleaner = "stop" /\ doomed \in Queues
  /\ mu[doomed] /\ worker[doomed] = "lock"

\* Nothing but the end of the process lets either of them go on.
LEMMA WedgedStep ==
  ASSUME CountInv, Wedged, [Next]_vars
  PROVE  Wedged' \/ crashed'
<1>0. /\ ~crashed /\ cleaner = "stop" /\ doomed \in Queues /\ mu[doomed] /\ worker[doomed] = "lock"
      /\ PoolType
  BY Zenon DEF Wedged, CountInv
<1>1. wg[doomed] # 0
  <2>1. IsFiniteSet(Senders(doomed))
    BY PoolFacts, FS_Subset DEF Senders
  <2>2. Cardinality(Senders(doomed)) \in Nat
    BY <2>1, FS_CardinalityType
  <2>3. wg[doomed] = Len(taskChan[doomed]) + 1 + Cardinality(Senders(doomed))
    BY Zenon, <1>0 DEF CountInv, WaitGroupCounts, Busy
  <2>4. taskChan[doomed] \in Seq(Task)
    BY Zenon, <1>0 DEF PoolType
  <2>5. Len(taskChan[doomed]) \in Nat
    BY <2>4
  <2> QED BY <2>2, <2>3, <2>5
<1>2. ASSUME UNCHANGED <<crashed, cleaner, doomed, mu>>, worker'[doomed] = "lock" PROVE Wedged'
  BY Zenon, <1>0, <1>2 DEF Wedged
<1>3. ASSUME NEW s \in Submitters, SubmitStep(s) \/ \E u \in Uids : StartSubmit(s, u)
      PROVE  Wedged' \/ crashed'
  <2>1. CASE getQueue(s)
    <3>1. worker' = worker \/ (worker' = [worker EXCEPT ![Len(key')] = "receive"] /\ Len(key') > Len(key))
      <4>1. CASE worker' = worker
        BY <4>1
      <4>2. CASE worker' # worker
        <5>1. key' = Append(key, KeyOf[arg[s].uid]) /\ worker' = [worker EXCEPT ![Len(key')] = "receive"]
          BY Zenon, <2>1, <4>2 DEF getQueue
        <5>2. key \in Seq(Keys) /\ KeyOf[arg[s].uid] \in Keys
          BY <1>0, PoolFacts DEF PoolType
        <5>3. Len(key') > Len(key)
          BY <5>1, <5>2
        <5> QED BY <5>1, <5>3
      <4> QED BY <4>1, <4>2
    <3>2. ~(doomed > Len(key))
      BY <1>0 DEF CountInv
    <3>3. worker'[doomed] = "lock"
      <4>1. CASE worker' = worker
        BY <1>0, <4>1
      <4>2. CASE worker' # worker
        <5>1. doomed # Len(key')
          BY <3>1, <3>2, <4>2
        <5> QED BY <1>0, <3>1, <4>2, <5>1 DEF PoolType
      <4> QED BY <4>1, <4>2
    <3> QED BY Zenon, <1>2, <2>1, <3>3 DEF getQueue, queueVars, cleanVars
  <2>2. CASE SendTask(s)
    BY Zenon, <1>0, <1>2, <2>2 DEF SendTask
  <2>3. CASE StoreQueue(s) \/ TouchQueue(s) \/ AddTask(s) \/ \E u \in Uids : StartSubmit(s, u)
    BY Zenon, <1>0, <1>2, <2>3 DEF StoreQueue, TouchQueue, AddTask, StartSubmit, queueVars, workerVars, cleanVars
  <2> QED BY <1>3, <2>1, <2>2, <2>3 DEF SubmitStep
<1>4. ASSUME NEW q \in Made, WorkerStep(q) \/ Age(q) PROVE Wedged'
  <2>1. CASE q = doomed
    <3>1. Age(q)
      BY Zenon, <1>0, <1>4, <2>1 DEF WorkerStep, RunTask, TaskReturns, TaskTouches, TaskDone, WorkerExits
    <3> QED BY Zenon, <1>0, <1>2, <3>1 DEF Age, workerVars, cleanVars
  <2>2. CASE q # doomed
    <3>1. worker'[doomed] = worker[doomed]
      BY Zenon, <1>0, <1>4, <2>2 DEF WorkerStep, RunTask, TaskReturns, TaskTouches, TaskDone,
           WorkerExits, Age, workerVars, PoolType
    <3> QED BY Zenon, <1>0, <1>2, <1>4, <3>1 DEF WorkerStep, RunTask, TaskReturns, TaskTouches,
           TaskDone, WorkerExits, Age, queueVars, cleanVars
  <2> QED BY <2>1, <2>2
<1>5. CASE CleanerStep
  BY <1>0, <1>1, <1>5 DEF CleanerStep, CleanerTicks, VisitQueue, RangeEnds, StopQueue,
    CloseQueue, DeleteQueue
<1>6. CASE UNCHANGED vars
  BY Zenon, <1>0, <1>2, <1>6 DEF vars, queueVars, workerVars, cleanVars
<1> QED BY <1>3, <1>4, <1>5, <1>6 DEF Next

\* The Stop that meets a task at its end never returns, in whatever way the pool is used
\* and however many queues and submitters there are: the cleaner holds the queue's mutex
\* while it waits for the task, and the worker takes that mutex before it calls Done.
THEOREM WedgedForGood == Spec => [](Wedged => [](Wedged \/ crashed))
<1>1. CountInv /\ (Wedged \/ crashed) /\ [Next]_vars => (Wedged \/ crashed)'
  <2>1. crashed /\ [Next]_vars => crashed'
    BY Zenon, CrashStays DEF vars
  <2> QED BY <2>1, WedgedStep
<1> QED BY <1>1, CountInvariant, PTL DEF Spec
=============================================================================
