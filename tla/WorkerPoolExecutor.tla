-------------------------- MODULE WorkerPoolExecutor -------------------------
(***************************************************************************)
(* The worker pool as its callers see it: a SerialExecutor per key.  A      *)
(* player's tasks all have the key getQueue computes from the share ID.     *)
(***************************************************************************)
EXTENDS WorkerPool

\* The queues made for key k that hold tasks.
Waiting(k) == {q \in Made : key[q] = k /\ taskChan[q] # <<>>}

\* What waits for key k is the channel of its queue.  (If two queues of one key ever held
\* tasks at once the tasks would vanish here, which no step of the SerialExecutor allows.)
Pending(k) ==
  IF \E q \in Made : Waiting(k) = {q}
    THEN taskChan[CHOOSE q \in Made : Waiting(k) = {q}] ELSE <<>>

Running(k) == UNION {task[q] : q \in {q \in Made : key[q] = k}}

Executor == INSTANCE SerialExecutor WITH
  Uids <- Keys, Tasks <- Task,
  pending <- [k \in Keys |-> IF crashed THEN <<>> ELSE Pending(k)],
  running <- [k \in Keys |-> IF crashed THEN {} ELSE Running(k)],
  alive <- ~crashed

\* The pool executes the tasks of a key, and so those of a player, one at a time in the
\* order in which their sends complete, whether the player has a queue of their own or
\* shares one, also when the queue is removed and made again.
RunsSerially == Executor!Spec
=============================================================================
