------------------------ MODULE NatsRPCServerPool --------------------------
(***************************************************************************)
(* The RPC server as its share IDs see it: from a thread's call of Submit  *)
(* to the response it is a SerialExecutor, the promise of the worker pool. *)
(***************************************************************************)
EXTENDS NatsRPCServer

\* The requests of a share ID between the start of their task and their response.
Handling(u) ==
  {r \in Pooled : Share[r] = u /\ place[r] \in {"process", "handler", "respond"}}

Pool == INSTANCE SerialExecutor WITH
  Uids <- Shares, Tasks <- Pooled, pending <- queue,
  running <- [u \in Shares |-> Handling(u)], alive <- ~crashed

\* From the threads' calls of Submit to the responses the server is a SerialExecutor:
\* the requests of one share ID are checked, handled and answered one at a time, in
\* the order in which they were submitted, however many threads there are, and none is
\* lost but by a crash.
HandledSerially == Pool!Spec
=============================================================================
