---------------------------- MODULE MCWorkerPool ----------------------------
(* Instances of the worker pool. *)
EXTENDS WorkerPoolExecutor

CONSTANTS anna, bob, carl, main

\* queueNum = 0: one queue per player.  queueNum = 2: anna and bob share one.
KeyPerUid == [u \in Uids |-> u]
TwoKeys == [u \in Uids |-> IF u \in {anna, bob} THEN "0" ELSE "1"]
=============================================================================
