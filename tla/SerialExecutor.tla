--------------------------- MODULE SerialExecutor ---------------------------
(***************************************************************************)
(* What the worker pool promises its callers: the tasks submitted for one  *)
(* player (a share ID) run one at a time and in the order of submission.   *)
(* None is lost but by a crash of the process, which ends all of them.     *)
(***************************************************************************)
EXTENDS Sequences

CONSTANTS Uids, Tasks

VARIABLES pending, running, alive

Submit(u, t) ==
  /\ alive
  /\ pending' = [pending EXCEPT ![u] = Append(@, t)]
  /\ UNCHANGED <<running, alive>>

Begin(u) ==
  /\ alive /\ running[u] = {} /\ pending[u] # <<>>
  /\ running' = [running EXCEPT ![u] = {Head(pending[u])}]
  /\ pending' = [pending EXCEPT ![u] = Tail(@)]
  /\ UNCHANGED alive

End(u) ==
  /\ alive /\ running[u] # {}
  /\ running' = [running EXCEPT ![u] = {}]
  /\ UNCHANGED <<pending, alive>>

Crash ==
  /\ alive /\ alive' = FALSE
  /\ pending' = [u \in Uids |-> <<>>]
  /\ running' = [u \in Uids |-> {}]

Init ==
  /\ pending = [u \in Uids |-> <<>>]
  /\ running = [u \in Uids |-> {}]
  /\ alive = TRUE

Next ==
  \/ \E u \in Uids : (\E t \in Tasks : Submit(u, t)) \/ Begin(u) \/ End(u)
  \/ Crash

Spec == Init /\ [][Next]_<<pending, running, alive>>
=============================================================================
