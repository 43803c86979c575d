--------------------------- MODULE NatsRPCServer ----------------------------
(***************************************************************************)
(* The RPC server over NATS of cluster/nats_rpc_server.go with the callers *)
(* of cluster/nats_rpc_client.go: a receiver goroutine (handleMessages)    *)
(* takes messages from a bounded channel and hands them to the service     *)
(* threads (processMessages), which start a goroutine per request, limited *)
(* by a semaphore, or submit the request to the worker pool (here as the   *)
(* SerialExecutor it implements, with bounded queues).                     *)
(*                                                                         *)
(* Time is kept per request: its age is 0 until half of its timeout has    *)
(* gone by since its start, then 1, and 2 when the timeout has expired.    *)
(* The clocks of caller and server agree.                                  *)
(***************************************************************************)
EXTENDS Naturals, Sequences, FiniteSets

CONSTANTS
  Reqs,         \* the messages sent to this server
  Notifies,     \* those of type Notify: published, not answered
  Malformed,    \* those whose bytes are not a protos.Request
  Contextless,  \* those whose metadata lacks a context, a start or a timeout
  Share,        \* the share ID in the context of each one, or NoShare
  NoShare,
  NoReq,        \* no request
  Threads,      \* Services: number of processMessages goroutines
  Buffer,       \* Buffer.Messages: capacity of subChan
  Semaphore,
  QueueSize,    \* capacity of a queue of the worker pool
  Stops         \* the application shuts the server down at some time

ASSUME ServerAssumption ==
  /\ IsFiniteSet(Reqs) /\ NoReq \notin Reqs /\ Notifies \subseteq Reqs
  /\ Malformed \subseteq Reqs /\ Contextless \subseteq Reqs
  /\ Share = [r \in Reqs |-> Share[r]]
  /\ Buffer \in Nat \ {0} /\ Semaphore \in Nat \ {0} /\ QueueSize \in Nat \ {0}
  /\ Stops \in BOOLEAN

Shares == {Share[r] : r \in Reqs} \ {NoShare}
Pooled == {r \in Reqs : Share[r] # NoShare}

\* How a request is answered: by its handler or with an error of the server.
Errors == {"internal", "too many requests", "timeout"}
Results == {"handled"} \cup Errors

VARIABLES
  client,    \* the caller: "new", "waiting", "sent" (Notify), "expired" or a result
  age,       \* time since the start of each request
  place,     \* where each request is
  response,  \* the response to a request, when it is made
  replies,   \* number of responses published to its reply subject
  ran,       \* the handler has been called for it
  subChan,   \* messages delivered by NATS
  arrived,   \* history: those with a share ID, in order
  receiver,  \* place of handleMessages
  current,   \* the request it is handing over
  thread,    \* place of each processMessages
  requests,  \* the request each of them is working on
  permits,   \* free units of the semaphore
  queue,     \* per share ID, the requests in the pool
  running,   \* per share ID, the request its worker executes
  conn,      \* the NATS connection
  stopping,  \* stopChan is closed
  crashed    \* NATS has sent to the closed subChan: the process has panicked

clientVars == <<client, age>>
answerVars == <<response, replies, ran>>
recvVars == <<subChan, arrived, receiver, current>>
threadVars == <<thread, requests>>
poolVars == <<queue, running>>
connVars == <<conn, stopping, crashed>>
vars == <<clientVars, place, answerVars, recvVars, threadVars, permits, poolVars,
          connVars>>

Move(r, p) == place' = [place EXCEPT ![r] = p]

\* processResponse: nothing for a Notify; Publish fails on a closed connection.
processResponse(r, res) ==
  /\ response' = [response EXCEPT ![r] = res]
  /\ replies' = IF r \in Notifies \/ conn = "closed"
                  THEN replies ELSE [replies EXCEPT ![r] = @ + 1]

-----------------------------------------------------------------------------
(* Callers, NATS and time *)

Call(r) ==
  /\ client[r] = "new"
  /\ client' = [client EXCEPT ![r] = IF r \in Notifies THEN "sent" ELSE "waiting"]
  /\ Move(r, "net")
  /\ UNCHANGED <<age, answerVars, recvVars, threadVars, permits, poolVars, connVars>>

\* The first response ends conn.Request.
ReceiveReply(r) ==
  /\ client[r] = "waiting" /\ replies[r] > 0
  /\ client' = [client EXCEPT ![r] = response[r]]
  /\ UNCHANGED <<age, place, answerVars, recvVars, threadVars, permits, poolVars,
                 connVars>>

CallTimeout(r) ==
  /\ client[r] = "waiting" /\ age[r] = 2
  /\ client' = [client EXCEPT ![r] = "expired"]
  /\ UNCHANGED <<age, place, answerVars, recvVars, threadVars, permits, poolVars,
                 connVars>>

TimePasses(r) ==
  /\ client[r] # "new" /\ age[r] < 2
  /\ place[r] \notin {"done", "dropped"} \/ client[r] = "waiting"
  /\ age' = [age EXCEPT ![r] = @ + 1]
  /\ UNCHANGED <<client, place, answerVars, recvVars, threadVars, permits, poolVars,
                 connVars>>

\* The connection delivers a message to subChan without blocking: it is dropped
\* when the channel is full.  Draining goes on in the background, so a message
\* may still come when handleMessages has closed the channel ...
Deliver(r) ==
  /\ place[r] = "net"
  /\ conn = "closed" \/ receiver # "stopped"
  /\ IF conn # "closed" /\ Len(subChan) < Buffer
       THEN /\ subChan' = Append(subChan, r)
            /\ arrived' = IF r \in Pooled THEN Append(arrived, r) ELSE arrived
            /\ Move(r, "subChan")
       ELSE Move(r, "dropped") /\ UNCHANGED <<subChan, arrived>>
  /\ UNCHANGED <<clientVars, answerVars, receiver, current, threadVars, permits,
                 poolVars, connVars>>

\* ... and the connection's goroutine then panics on it: the process is gone.
DeliverToClosed(r) ==
  /\ place[r] = "net" /\ conn = "draining" /\ receiver = "stopped"
  /\ crashed' = TRUE /\ conn' = "closed"
  /\ place' = [x \in Reqs |->
       IF x # r /\ place[x] \in {"none", "net", "done"} THEN place[x] ELSE "dropped"]
  /\ thread' = [t \in Threads |-> "exit"]
  /\ queue' = [u \in Shares |-> <<>>] /\ running' = [u \in Shares |-> NoReq]
  /\ permits' = Semaphore
  /\ UNCHANGED <<clientVars, answerVars, recvVars, requests, stopping>>

DrainEnds ==
  /\ conn = "draining"
  /\ conn' = "closed"
  /\ UNCHANGED <<clientVars, place, answerVars, recvVars, threadVars, permits,
                 poolVars, stopping, crashed>>

-----------------------------------------------------------------------------
(* handleMessages *)

Receive ==
  /\ receiver = "select" /\ subChan # <<>>
  /\ subChan' = Tail(subChan)
  /\ LET r == Head(subChan) IN
       IF r \in Malformed
         THEN Move(r, "dropped") /\ UNCHANGED <<receiver, current>>
         ELSE Move(r, "receiver") /\ receiver' = "send" /\ current' = r
  /\ UNCHANGED <<clientVars, arrived, answerVars, threadVars, permits, poolVars,
                 connVars>>

Shutdown ==
  /\ Stops /\ ~stopping
  /\ stopping' = TRUE
  /\ UNCHANGED <<clientVars, place, answerVars, recvVars, threadVars, permits,
                 poolVars, conn, crashed>>

\* The deferred function: Drain starts, then both channels are closed.
StopReceiver ==
  /\ receiver = "select" /\ stopping
  /\ conn' = "draining"
  /\ receiver' = "closing"
  /\ UNCHANGED <<clientVars, place, answerVars, subChan, arrived, current, threadVars, permits,
                 poolVars, stopping, crashed>>

\* Mutant: handleMessages returns without closing unhandledReqCh.
CloseChannelsForgotten ==
  /\ receiver = "closing"
  /\ receiver' = "returned"
  /\ UNCHANGED <<clientVars, place, answerVars, subChan, arrived, current, threadVars,
                 permits, poolVars, connVars>>

CloseChannels ==
  /\ receiver = "closing"
  /\ receiver' = "stopped"
  /\ UNCHANGED <<clientVars, place, answerVars, subChan, arrived, current, threadVars, permits,
                 poolVars, connVars>>

-----------------------------------------------------------------------------
(* processMessages *)

\* The receiver's send on unhandledReqCh meets the receive of a thread.
HandOver(t) ==
  /\ receiver = "send" /\ thread[t] = "range"
  /\ requests' = [requests EXCEPT ![t] = current]
  /\ thread' = [thread EXCEPT ![t] = "process"]
  /\ receiver' = "select" /\ current' = NoReq
  /\ Move(current, "thread")
  /\ UNCHANGED <<clientVars, answerVars, subChan, arrived, permits, poolVars, connVars>>

ThreadExits(t) ==
  /\ thread[t] = "range" /\ receiver = "stopped"
  /\ thread' = [thread EXCEPT ![t] = "exit"]
  /\ UNCHANGED <<clientVars, place, answerVars, recvVars, requests, permits, poolVars,
                 connVars>>

\* Mutant: the error is answered but the loop does not continue with the next one.
BadContextGoesOn(t) ==
  /\ thread[t] = "process" /\ requests[t] \in Contextless
  /\ processResponse(requests[t], "internal")
  /\ Move(requests[t], "acquire")
  /\ thread' = [thread EXCEPT ![t] = "range"]
  /\ UNCHANGED <<clientVars, ran, recvVars, requests, permits, poolVars, connVars>>

\* No context, start time or timeout: an error response.
BadContext(t) ==
  /\ thread[t] = "process" /\ requests[t] \in Contextless
  /\ processResponse(requests[t], "internal")
  /\ Move(requests[t], "done")
  /\ thread' = [thread EXCEPT ![t] = "range"]
  /\ UNCHANGED <<clientVars, ran, recvVars, requests, permits, poolVars, connVars>>

\* Mutant: the share ID is not looked at.
SubmitNowhere(t) ==
  /\ thread[t] = "process" /\ requests[t] \in Pooled \ Contextless
  /\ Move(requests[t], "acquire")
  /\ thread' = [thread EXCEPT ![t] = "range"]
  /\ UNCHANGED <<clientVars, answerVars, recvVars, requests, permits, poolVars, connVars>>

\* workerPool.Submit blocks while the queue of the share ID is full.
SubmitToPool(t) ==
  /\ thread[t] = "process" /\ requests[t] \in Pooled \ Contextless
  /\ LET u == Share[requests[t]] IN
       /\ Len(queue[u]) < QueueSize
       /\ queue' = [queue EXCEPT ![u] = Append(@, requests[t])]
  /\ Move(requests[t], "queue")
  /\ thread' = [thread EXCEPT ![t] = "range"]
  /\ UNCHANGED <<clientVars, answerVars, recvVars, requests, permits, running, connVars>>

StartGoroutine(t) ==
  /\ thread[t] = "process" /\ requests[t] \notin Pooled \cup Contextless
  /\ Move(requests[t], "acquire")
  /\ thread' = [thread EXCEPT ![t] = "range"]
  /\ UNCHANGED <<clientVars, answerVars, recvVars, requests, permits, poolVars, connVars>>

-----------------------------------------------------------------------------
(* A request: in a goroutine of its own, or with the worker of its share ID *)

Acquire(r) ==
  /\ place[r] = "acquire" /\ permits > 0 /\ age[r] < 2
  /\ permits' = permits - 1
  /\ Move(r, "process")
  /\ UNCHANGED <<clientVars, answerVars, recvVars, threadVars, poolVars, connVars>>

\* Mutant: the unit is released by a defer set up before Acquire.
AcquireFailsReleases(r) ==
  /\ place[r] = "acquire" /\ age[r] = 2
  /\ processResponse(r, "too many requests")
  /\ permits' = permits + 1
  /\ Move(r, "done")
  /\ UNCHANGED <<clientVars, ran, recvVars, threadVars, poolVars, connVars>>

\* Mutant: the failure is logged and not answered.
AcquireFailsSilent(r) ==
  /\ place[r] = "acquire" /\ age[r] = 2
  /\ Move(r, "done")
  /\ UNCHANGED <<clientVars, answerVars, recvVars, threadVars, permits, poolVars,
                 connVars>>

\* The context of Acquire expires with the request.
AcquireFails(r) ==
  /\ place[r] = "acquire" /\ age[r] = 2
  /\ processResponse(r, "too many requests")
  /\ Move(r, "done")
  /\ UNCHANGED <<clientVars, ran, recvVars, threadVars, permits, poolVars, connVars>>

\* Mutant: a worker does not wait for the end of its task.
PoolRunsAtOnce(u) ==
  /\ queue[u] # <<>>
  /\ running' = [running EXCEPT ![u] = Head(queue[u])]
  /\ queue' = [queue EXCEPT ![u] = Tail(@)]
  /\ Move(Head(queue[u]), "process")
  /\ UNCHANGED <<clientVars, answerVars, recvVars, threadVars, permits, connVars>>

PoolRuns(u) ==
  /\ running[u] = NoReq /\ queue[u] # <<>>
  /\ running' = [running EXCEPT ![u] = Head(queue[u])]
  /\ queue' = [queue EXCEPT ![u] = Tail(@)]
  /\ Move(Head(queue[u]), "process")
  /\ UNCHANGED <<clientVars, answerVars, recvVars, threadVars, permits, connVars>>

\* Mutant: the time already spent is not checked.
processRequestLate(r) ==
  /\ place[r] = "process"
  /\ ran' = ran \cup {r}
  /\ Move(r, "handler")
  /\ UNCHANGED <<clientVars, response, replies, recvVars, threadVars, permits, poolVars,
                 connVars>>

\* processRequest: refused when more than half of the timeout is over.
processRequest(r) ==
  /\ place[r] = "process"
  /\ IF age[r] > 0
       THEN /\ response' = [response EXCEPT ![r] = "timeout"]
            /\ Move(r, "respond") /\ UNCHANGED ran
       ELSE /\ ran' = ran \cup {r}
            /\ Move(r, "handler") /\ UNCHANGED response
  /\ UNCHANGED <<clientVars, replies, recvVars, threadVars, permits, poolVars, connVars>>

HandlerReturns(r) ==
  /\ place[r] = "handler"
  /\ response' = [response EXCEPT ![r] = "handled"]
  /\ Move(r, "respond")
  /\ UNCHANGED <<clientVars, replies, ran, recvVars, threadVars, permits, poolVars,
                 connVars>>

\* The response, after which the pool's worker is free; the goroutine of a request
\* without a share ID still has to release its unit.
Respond(r) ==
  /\ place[r] = "respond"
  /\ processResponse(r, response[r])
  /\ IF r \in Pooled
       THEN running' = [running EXCEPT ![Share[r]] = NoReq] /\ Move(r, "done")
       ELSE UNCHANGED running /\ Move(r, "release")
  /\ UNCHANGED <<clientVars, ran, recvVars, threadVars, permits, queue, connVars>>

Release(r) ==
  /\ place[r] = "release"
  /\ permits' = permits + 1
  /\ Move(r, "done")
  /\ UNCHANGED <<clientVars, answerVars, recvVars, threadVars, poolVars, connVars>>

-----------------------------------------------------------------------------
Init ==
  /\ client = [r \in Reqs |-> "new"] /\ age = [r \in Reqs |-> 0]
  /\ place = [r \in Reqs |-> "none"]
  /\ response = [r \in Reqs |-> "none"] /\ replies = [r \in Reqs |-> 0] /\ ran = {}
  /\ subChan = <<>> /\ arrived = <<>> /\ receiver = "select" /\ current = NoReq
  /\ thread = [t \in Threads |-> "range"] /\ requests = [t \in Threads |-> NoReq]
  /\ permits = Semaphore
  /\ queue = [u \in Shares |-> <<>>] /\ running = [u \in Shares |-> NoReq]
  /\ conn = "open" /\ stopping = FALSE /\ crashed = FALSE

ReceiverStep == Receive \/ StopReceiver \/ CloseChannels
ThreadStep(t) ==
  HandOver(t) \/ ThreadExits(t) \/ BadContext(t) \/ SubmitToPool(t) \/ StartGoroutine(t)
RequestStep(r) ==
  \/ Acquire(r) \/ AcquireFails(r) \/ processRequest(r)
  \/ HandlerReturns(r) \/ Respond(r) \/ Release(r)

Next ==
  \/ \E r \in Reqs : \/ Call(r) \/ ReceiveReply(r) \/ CallTimeout(r) \/ TimePasses(r)
                     \/ Deliver(r) \/ DeliverToClosed(r) \/ RequestStep(r)
  \/ DrainEnds \/ Shutdown \/ ReceiverStep
  \/ \E t \in Threads : ThreadStep(t)
  \/ \E u \in Shares : PoolRuns(u)

Spec == Init /\ [][Next]_vars

\* Goroutines are scheduled and handlers return.
Fairness ==
  /\ WF_vars(ReceiverStep)
  /\ \A t \in Threads : WF_vars(ThreadStep(t))
  /\ \A r \in Reqs : WF_vars(RequestStep(r))
  /\ \A u \in Shares : WF_vars(PoolRuns(u))

FairSpec == Spec /\ Fairness

-----------------------------------------------------------------------------
(* Properties *)

\* A request is answered at most once whatever path it takes through the threads,
\* the semaphore and the pool, a Notify never, and one that the server is done with
\* exactly once while the connection is up.
OneReply ==
  \A r \in Reqs :
    /\ replies[r] <= (IF r \in Notifies THEN 0 ELSE 1)
    /\ place[r] = "done" /\ r \notin Notifies /\ conn = "open" => replies[r] = 1

Holders == {r \in Reqs \ Pooled : place[r] \in {"process", "handler", "respond", "release"}}

\* No unit of the semaphore is lost or made: at every moment the requests between
\* Acquire and Release and the free units are Semaphore together, so no more than
\* Semaphore handlers of requests without a share ID run at once.
PermitsConserved == permits + Cardinality(Holders) = Semaphore

\* A caller that is told "too many requests", "timeout" or "internal error" by the
\* server may retry: the handler was not called for its request and never will be.
RejectedNeverRan ==
  \A r \in Reqs : replies[r] > 0 /\ response[r] \in Errors => r \notin ran

\* A handler is never called for a request whose caller has already given up: the
\* check of processRequest leaves it half of the timeout at least.
NoHandlerAfterTimeout ==
  [][\A r \in ran' \ ran : client[r] # "expired"]_vars

Before(s, r) ==
  \E i, j \in 1..Len(arrived) : i < j /\ arrived[i] = s /\ arrived[j] = r

\* With one thread the requests of one share ID are processed in the order in which
\* NATS delivered them: none overtakes another on its way through the channel, the
\* thread and the pool.
SharedInOrder ==
  [][\A r, s \in Pooled :
       /\ place'[r] = "process" /\ place[r] # "process"
       /\ Share[r] = Share[s] /\ Before(s, r)
       => place[s] \notin {"subChan", "receiver", "thread", "queue", "acquire"}]_vars

\* Every request that NATS put in the channel is answered, unless it is a Notify or
\* malformed or the server is shut down meanwhile.
EveryRequestAnswered ==
  \A r \in Reqs \ (Notifies \cup Malformed) :
    place[r] = "subChan" ~> (replies[r] = 1 \/ stopping)

\* Shutdown completes: the receiver sees the closed stopChan even if it is blocked
\* handing over a request when it is closed, and then all threads exit.
ShutdownCompletes == stopping ~> \A t \in Threads : thread[t] = "exit"
=============================================================================
