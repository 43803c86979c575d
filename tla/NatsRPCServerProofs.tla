------------------------- MODULE NatsRPCServerProofs ------------------------
(***************************************************************************)
(* What the RPC server promises its callers, for any requests, threads,     *)
(* buffers and semaphore: OneReply, RejectedNeverRan, PermitsConserved and  *)
(* NoHandlerAfterTimeout; with one thread, SharedInOrder; and that it is a  *)
(* SerialExecutor, HandledSerially.  The base of it all is that a request   *)
(* is in one place: the channels, the threads and the queues of the pool    *)
(* hold a request just while its place says so.                             *)
(***************************************************************************)
EXTENDS NatsRPCServerPool, FiniteSetTheorems, TLAPS

\* The places of a request, in the order in which it gets there; "dropped" ends it.
Coming == {"none", "net", "subChan", "receiver", "thread", "queue", "acquire", "process"}
Answered == {"release", "done"}
Places == Coming \cup {"handler", "respond"} \cup Answered \cup {"dropped"}

PlaceType ==
  /\ place \in [Reqs -> Places]
  /\ subChan \in Seq(Reqs) /\ receiver \in {"select", "send", "closing", "stopped"}
  /\ thread \in [Threads -> {"range", "process", "exit"}]
  /\ requests \in [Threads -> Reqs \cup {NoReq}] /\ queue \in [Shares -> Seq(Reqs)]

\* The channel holds a request once, until handleMessages has stopped.
ChanOK ==
  /\ receiver # "stopped" => \A k \in 1..Len(subChan) : place[subChan[k]] = "subChan"
  /\ \A j, k \in 1..Len(subChan) : subChan[j] = subChan[k] => j = k

RecvOK == receiver = "send" => current \in Reqs /\ place[current] = "receiver"

ThreadOK ==
  /\ \A t \in Threads :
       thread[t] = "process" => requests[t] \in Reqs /\ place[requests[t]] = "thread"
  /\ \A t, u \in Threads :
       thread[t] = "process" /\ thread[u] = "process" /\ requests[t] = requests[u] => t = u

QueueOK ==
  \A u \in Shares :
    /\ \A k \in 1..Len(queue[u]) : place[queue[u][k]] = "queue" /\ Share[queue[u][k]] = u
    /\ \A j, k \in 1..Len(queue[u]) : queue[u][j] = queue[u][k] => j = k

\* Only requests without a share ID need a unit of the semaphore.
PathOK == \A r \in Reqs : place[r] \in {"acquire", "release"} => r \notin Pooled

PlaceInv == PlaceType /\ ChanOK /\ RecvOK /\ ThreadOK /\ QueueOK /\ PathOK

AnswerType ==
  /\ client \in [Reqs -> {"new", "waiting", "sent", "expired", "none"} \cup Results]
  /\ age \in [Reqs -> 0..2] /\ response \in [Reqs -> Results \cup {"none"}]
  /\ replies \in [Reqs -> Nat] /\ ran \subseteq Reqs

\* A request is answered on its way from "respond" on and after errors, and its handler
\* called on the way to "handler".
Answer(r) ==
  /\ place[r] \in Coming \cup {"handler", "respond"} => replies[r] = 0
  /\ place[r] \in Coming => response[r] = "none"
  /\ replies[r] <= (IF r \in Notifies THEN 0 ELSE 1)
  /\ place[r] \in Answered /\ r \notin Notifies /\ conn = "open" => replies[r] = 1
  /\ r \in ran => place[r] \notin Coming /\ response[r] \notin Errors
  /\ client[r] = "new" => place[r] = "none"
  /\ client[r] = "expired" => age[r] = 2

AnswerOK == \A r \in Reqs : Answer(r)

ServerInv == PlaceInv /\ AnswerType /\ AnswerOK

-----------------------------------------------------------------------------
(* A request is in one place *)

\* A request that moves from elsewhere leaves the channel, handleMessages, the threads
\* and the queues as they are.
LEMMA ChanKept ==
  ASSUME PlaceType, ChanOK, NEW r \in Reqs, NEW q, Move(r, q), place[r] # "subChan",
         subChan' = subChan, receiver' = "stopped" \/ receiver # "stopped"
  PROVE  ChanOK'
<1>1. \A k \in 1..Len(subChan) : subChan[k] \in Reqs
  BY DEF PlaceType
<1>2. ASSUME receiver # "stopped", NEW k \in 1..Len(subChan) PROVE place'[subChan[k]] = "subChan"
  BY <1>1, <1>2 DEF PlaceType, ChanOK, Move
<1> QED BY <1>2 DEF ChanOK

\* One that handleMessages does not hold.
LEMMA RecvKept ==
  ASSUME PlaceType, RecvOK, NEW r \in Reqs, NEW q, Move(r, q), place[r] # "receiver",
         receiver' = "send" => receiver = "send" /\ current' = current
  PROVE  RecvOK'
  BY DEF PlaceType, RecvOK, Move

\* One that no thread holds.
LEMMA ThreadKept ==
  ASSUME PlaceType, ThreadOK, NEW r \in Reqs, NEW q, Move(r, q), place[r] # "thread",
         thread' = thread, requests' = requests
  PROVE  ThreadOK'
  BY DEF PlaceType, ThreadOK, Move

\* One that is not in the pool.
LEMMA QueueKept ==
  ASSUME PlaceType, QueueOK, NEW r \in Reqs, NEW q, Move(r, q), place[r] # "queue", queue' = queue
  PROVE  QueueOK'
<1>1. \A u \in Shares : \A k \in 1..Len(queue[u]) : queue[u][k] \in Reqs
  BY DEF PlaceType
<1>2. ASSUME NEW u \in Shares, NEW k \in 1..Len(queue[u])
      PROVE  place'[queue[u][k]] = "queue" /\ Share[queue[u][k]] = u
  BY <1>1, <1>2 DEF PlaceType, QueueOK, Move
<1> QED BY <1>2 DEF QueueOK

\* A move to or from the semaphore is of a request without share ID.
LEMMA PathKept ==
  ASSUME PlaceType, PathOK, NEW r \in Reqs, NEW q, Move(r, q),
         q \in {"acquire", "release"} => r \notin Pooled
  PROVE  PathOK'
  BY DEF PlaceType, PathOK, Move

\* Move changes the place of one request.
LEMMA MoveType ==
  ASSUME PlaceType, NEW r \in Reqs, NEW q \in Places, Move(r, q)
  PROVE  place' \in [Reqs -> Places] /\ place'[r] = q /\ \A x \in Reqs \ {r} : place'[x] = place[x]
  BY DEF PlaceType, Move

\* The steps of a request outside of them.
LEMMA MovedOutside ==
  ASSUME PlaceInv, NEW r \in Reqs, NEW q \in Places, Move(r, q),
         place[r] \notin {"subChan", "receiver", "thread", "queue"},
         q \in {"acquire", "release"} => r \notin Pooled,
         subChan' = subChan, receiver' = receiver, current' = current, thread' = thread,
         requests' = requests, queue' = queue
  PROVE  PlaceInv'
<1>1. PlaceType /\ ChanOK /\ RecvOK /\ ThreadOK /\ QueueOK /\ PathOK
  BY DEF PlaceInv
<1>2. PlaceType'
  BY <1>1, MoveType DEF PlaceType
<1>3. ChanOK' /\ RecvOK'
  BY <1>1, ChanKept, RecvKept
<1>4. ThreadOK' /\ QueueOK' /\ PathOK'
  BY <1>1, ThreadKept, QueueKept, PathKept
<1> QED BY <1>2, <1>3, <1>4 DEF PlaceInv

\* NATS puts a request in the channel.
LEMMA DeliverStep ==
  ASSUME PlaceInv, NEW r \in Reqs, Deliver(r)
  PROVE  PlaceInv'
<1>1. PlaceType /\ ChanOK /\ RecvOK /\ ThreadOK /\ QueueOK /\ PathOK
  BY DEF PlaceInv
<1>2. /\ place[r] = "net" /\ receiver' = receiver /\ current' = current /\ thread' = thread
      /\ requests' = requests /\ queue' = queue
  BY DEF Deliver, threadVars, poolVars
<1>3. CASE Move(r, "dropped") /\ subChan' = subChan
  BY <1>2, <1>3, MovedOutside DEF Places
<1>4. CASE Move(r, "subChan") /\ subChan' = Append(subChan, r)
  <2>1. /\ place' \in [Reqs -> Places] /\ place'[r] = "subChan"
        /\ \A x \in Reqs \ {r} : place'[x] = place[x]
    BY <1>1, <1>4, MoveType DEF Places, Coming
  <2>2. /\ subChan' \in Seq(Reqs) /\ Len(subChan) \in Nat /\ Len(subChan') = Len(subChan) + 1
        /\ subChan'[Len(subChan) + 1] = r
        /\ \A k \in 1..Len(subChan) : subChan'[k] = subChan[k] /\ subChan[k] \in Reqs
    BY <1>1, <1>4 DEF PlaceType
  <2>3. PlaceType'
    BY <1>1, <1>2, <2>1, <2>2 DEF PlaceType
  <2>4. ASSUME receiver # "stopped" PROVE ChanOK'
    <3>1. \A k \in 1..Len(subChan) : subChan[k] # r /\ place'[subChan[k]] = "subChan"
      BY <1>1, <1>2, <2>1, <2>2, <2>4 DEF ChanOK
    <3>2. \A k \in 1..Len(subChan') : place'[subChan'[k]] = "subChan"
      BY <2>1, <2>2, <3>1
    <3>3. \A j, k \in 1..Len(subChan') : subChan'[j] = subChan'[k] => j = k
      BY <1>1, <2>2, <3>1 DEF ChanOK
    <3> QED BY <3>2, <3>3 DEF ChanOK
  <2>5. receiver # "stopped"
    BY <1>4, <2>2 DEF Deliver
  <2>6. RecvOK' /\ ThreadOK' /\ QueueOK' /\ PathOK'
    BY <1>1, <1>2, <1>4, RecvKept, ThreadKept, QueueKept, PathKept
  <2> QED BY <2>3, <2>4, <2>5, <2>6 DEF PlaceInv
<1> QED BY <1>3, <1>4 DEF Deliver

\* handleMessages takes the first one.
LEMMA ReceiveStep ==
  ASSUME PlaceInv, Receive
  PROVE  PlaceInv' /\ Head(subChan) \in Reqs /\ place[Head(subChan)] = "subChan"
<1> DEFINE r == Head(subChan)
<1>1. PlaceType /\ ChanOK /\ RecvOK /\ ThreadOK /\ QueueOK /\ PathOK
  BY DEF PlaceInv
<1>2. /\ receiver = "select" /\ subChan # <<>> /\ subChan' = Tail(subChan)
      /\ thread' = thread /\ requests' = requests /\ queue' = queue
  BY DEF Receive, threadVars, poolVars
<1>3. /\ r \in Reqs /\ r = subChan[1] /\ Len(subChan) \in Nat \ {0}
      /\ subChan' \in Seq(Reqs) /\ Len(subChan') = Len(subChan) - 1
      /\ \A k \in 1..Len(subChan') : subChan'[k] = subChan[k + 1] /\ k + 1 \in 1..Len(subChan)
  BY <1>1, <1>2 DEF PlaceType
<1>4. place[r] = "subChan"
  BY <1>1, <1>2, <1>3 DEF ChanOK
<1>5. PICK q \in {"dropped", "receiver"} : Move(r, q)
  BY DEF Receive
<1>6. /\ place' \in [Reqs -> Places] /\ place'[r] = q
      /\ \A x \in Reqs \ {r} : place'[x] = place[x]
  BY <1>1, <1>3, <1>5, MoveType DEF Places, Coming
<1>7. \A k \in 1..Len(subChan') : subChan'[k] # r /\ subChan'[k] \in Reqs
  <2> SUFFICES ASSUME NEW k \in 1..Len(subChan') PROVE subChan'[k] # r /\ subChan'[k] \in Reqs
    OBVIOUS
  <2>1. subChan'[k] = subChan[k + 1] /\ k + 1 \in 1..Len(subChan) /\ k + 1 # 1 /\ 1 \in 1..Len(subChan)
    BY <1>3
  <2>2. subChan[k + 1] # subChan[1]
    BY <1>1, <2>1 DEF ChanOK
  <2> QED BY <1>1, <1>3, <2>1, <2>2 DEF PlaceType
<1>8. ChanOK'
  <2>1. \A k \in 1..Len(subChan') : place'[subChan'[k]] = "subChan"
    BY <1>1, <1>2, <1>3, <1>6, <1>7 DEF ChanOK
  <2>2. ASSUME NEW j \in 1..Len(subChan'), NEW k \in 1..Len(subChan'), subChan'[j] = subChan'[k]
        PROVE  j = k
    <3>1. j + 1 = k + 1
      BY <1>1, <1>3, <2>2 DEF ChanOK
    <3> QED BY <3>1
  <2> QED BY <2>1, <2>2 DEF ChanOK
<1>9. RecvOK' /\ receiver' \in {"select", "send"}
  BY <1>2, <1>3, <1>6 DEF Receive, RecvOK, Move
<1>10. ThreadOK' /\ QueueOK' /\ PathOK'
  BY <1>1, <1>2, <1>3, <1>4, <1>5, ThreadKept, QueueKept, PathKept
<1> QED BY <1>1, <1>2, <1>3, <1>4, <1>6, <1>8, <1>9, <1>10 DEF PlaceInv, PlaceType

\* A thread takes it over.
LEMMA HandOverStep ==
  ASSUME PlaceInv, NEW t \in Threads, HandOver(t)
  PROVE  PlaceInv'
<1>1. PlaceType /\ ChanOK /\ RecvOK /\ ThreadOK /\ QueueOK /\ PathOK
  BY DEF PlaceInv
<1>2. /\ receiver = "send" /\ receiver' = "select" /\ thread[t] = "range"
      /\ requests' = [requests EXCEPT ![t] = current]
      /\ thread' = [thread EXCEPT ![t] = "process"]
      /\ Move(current, "thread") /\ subChan' = subChan /\ queue' = queue
  BY DEF HandOver, poolVars
<1>3. current \in Reqs /\ place[current] = "receiver"
  BY <1>1, <1>2 DEF RecvOK
<1>4. /\ place' \in [Reqs -> Places] /\ place'[current] = "thread"
      /\ \A x \in Reqs \ {current} : place'[x] = place[x]
  BY <1>1, <1>2, <1>3, MoveType DEF Places, Coming
<1>5. ChanOK' /\ RecvOK' /\ QueueOK' /\ PathOK'
  <2>1. ChanOK'
    BY <1>1, <1>2, <1>3, ChanKept
  <2>2. RecvOK'
    BY <1>2 DEF RecvOK
  <2>3. QueueOK' /\ PathOK'
    BY <1>1, <1>2, <1>3, QueueKept, PathKept
  <2> QED BY <2>1, <2>2, <2>3
<1>6. /\ thread' \in [Threads -> {"range", "process", "exit"}]
      /\ requests' \in [Threads -> Reqs \cup {NoReq}]
      /\ thread'[t] = "process" /\ requests'[t] = current
      /\ \A v \in Threads \ {t} : thread'[v] = thread[v] /\ requests'[v] = requests[v]
  BY <1>1, <1>2, <1>3 DEF PlaceType
<1>7. \A v \in Threads \ {t} : thread[v] = "process" => requests[v] # current
  BY <1>1, <1>3 DEF ThreadOK
<1>8. ThreadOK'
  BY <1>1, <1>3, <1>4, <1>6, <1>7 DEF ThreadOK
<1> QED BY <1>1, <1>2, <1>4, <1>5, <1>6, <1>8 DEF PlaceInv, PlaceType

\* A thread passes its request on or is done with it.
LEMMA ThreadDone ==
  ASSUME PlaceInv, NEW t \in Threads, thread[t] = "process", NEW q \in Places,
         Move(requests[t], q), thread' = [thread EXCEPT ![t] = "range"], requests' = requests
  PROVE  /\ requests[t] \in Reqs /\ place[requests[t]] = "thread" /\ place'[requests[t]] = q
         /\ place' \in [Reqs -> Places]
         /\ thread' \in [Threads -> {"range", "process", "exit"}] /\ ThreadOK'
<1>1. PlaceType /\ ThreadOK
  BY DEF PlaceInv
<1>2. requests[t] \in Reqs /\ place[requests[t]] = "thread"
  BY <1>1 DEF ThreadOK
<1>3. /\ place' \in [Reqs -> Places] /\ place'[requests[t]] = q
      /\ \A x \in Reqs \ {requests[t]} : place'[x] = place[x]
  BY <1>1, <1>2, MoveType
<1>4. /\ thread' \in [Threads -> {"range", "process", "exit"}] /\ thread'[t] = "range"
      /\ \A v \in Threads \ {t} : thread'[v] = thread[v]
  BY <1>1 DEF PlaceType
<1>5. \A v \in Threads \ {t} : thread[v] = "process" => requests[v] # requests[t]
  BY <1>1 DEF ThreadOK
<1>6. ThreadOK'
  BY <1>1, <1>3, <1>4, <1>5 DEF ThreadOK
<1> QED BY <1>2, <1>3, <1>4, <1>6

\* A thread answers it with an error or starts a goroutine for it.
LEMMA ThreadStepPlace ==
  ASSUME PlaceInv, NEW t \in Threads, BadContext(t) \/ StartGoroutine(t)
  PROVE  PlaceInv'
<1>1. PlaceType /\ ChanOK /\ RecvOK /\ ThreadOK /\ QueueOK /\ PathOK
  BY DEF PlaceInv
<1>2. PICK q \in {"done", "acquire"} :
        Move(requests[t], q) /\ (q = "acquire" => requests[t] \notin Pooled)
  BY DEF BadContext, StartGoroutine
<1>3. /\ thread[t] = "process" /\ thread' = [thread EXCEPT ![t] = "range"] /\ requests' = requests
      /\ subChan' = subChan /\ receiver' = receiver /\ current' = current /\ queue' = queue
  BY DEF BadContext, StartGoroutine, recvVars, poolVars
<1>4. q \in Places
  BY DEF Places, Coming, Answered
<1>5. /\ requests[t] \in Reqs /\ place[requests[t]] = "thread" /\ place' \in [Reqs -> Places]
      /\ thread' \in [Threads -> {"range", "process", "exit"}] /\ ThreadOK'
  BY Zenon, <1>2, <1>3, <1>4, ThreadDone
<1>6. ChanOK' /\ RecvOK' /\ QueueOK' /\ PathOK'
  BY <1>1, <1>2, <1>3, <1>5, ChanKept, RecvKept, QueueKept, PathKept
<1> QED BY <1>1, <1>3, <1>5, <1>6 DEF PlaceInv, PlaceType

\* What Append does to a queue ...
LEMMA Submitted ==
  ASSUME NEW q \in Seq(Reqs), NEW x \in Reqs, NEW p, p = Append(q, x)
  PROVE  /\ Len(q) \in Nat /\ Len(p) = Len(q) + 1 /\ p[Len(q) + 1] = x
         /\ \A k \in 1..Len(q) : p[k] = q[k]
  OBVIOUS

\* ... and to its indices.
LEMMA OneMore ==
  ASSUME NEW n \in Nat
  PROVE  /\ n + 1 \in 1..(n + 1) /\ \A k \in 1..n : k \in 1..(n + 1) /\ k < n + 1
         /\ \A k \in 1..(n + 1) : k \in 1..n \/ k = n + 1
  OBVIOUS

\* What taking its first element does to a queue.
LEMMA Taken ==
  ASSUME NEW S, NEW q \in Seq(S), q # <<>>
  PROVE  /\ Head(q) = q[1] /\ Head(q) \in S /\ Len(q) \in Nat \ {0} /\ 1 \in 1..Len(q)
         /\ Tail(q) \in Seq(S) /\ Len(Tail(q)) = Len(q) - 1
         /\ \A k \in 1..Len(Tail(q)) : Tail(q)[k] = q[k + 1] /\ k + 1 \in 1..Len(q)
  OBVIOUS

\* A thread submits it to the pool.
LEMMA SubmitStep ==
  ASSUME PlaceInv, NEW t \in Threads, SubmitToPool(t)
  PROVE  PlaceInv'
<1> DEFINE r == requests[t]
           w == Share[r]
<1>1. PlaceType /\ ChanOK /\ RecvOK /\ ThreadOK /\ QueueOK /\ PathOK
  BY DEF PlaceInv
<1>2. /\ thread[t] = "process" /\ r \in Pooled /\ Move(r, "queue")
      /\ thread' = [thread EXCEPT ![t] = "range"] /\ requests' = requests
      /\ subChan' = subChan /\ receiver' = receiver /\ current' = current
      /\ queue' = [queue EXCEPT ![w] = Append(@, r)]
  BY DEF SubmitToPool, recvVars
<1>3. "queue" \in Places
  BY DEF Places, Coming
<1>4. /\ r \in Reqs /\ place[r] = "thread" /\ place'[r] = "queue" /\ place' \in [Reqs -> Places]
      /\ thread' \in [Threads -> {"range", "process", "exit"}] /\ ThreadOK'
  BY Zenon, <1>2, <1>3, ThreadDone
<1>5. ChanOK' /\ RecvOK' /\ PathOK'
  BY <1>1, <1>2, <1>4, ChanKept, RecvKept, PathKept
<1>6. w \in Shares
  BY <1>2, <1>4 DEF Shares, Pooled
<1>7. /\ queue' \in [Shares -> Seq(Reqs)] /\ queue'[w] = Append(queue[w], r)
      /\ \A u \in Shares \ {w} : queue'[u] = queue[u]
  BY <1>1, <1>2, <1>4, <1>6 DEF PlaceType
<1>8. \A x \in Reqs \ {r} : place'[x] = place[x]
  BY <1>1, <1>2, <1>3, <1>4, MoveType
<1>9. ASSUME NEW u \in Shares
      PROVE  /\ \A k \in 1..Len(queue[u]) : queue[u][k] \in Reqs \ {r}
             /\ Len(queue[u]) \in Nat
  BY <1>1, <1>4, <1>9 DEF PlaceType, QueueOK
<1>10. /\ Len(queue'[w]) = Len(queue[w]) + 1 /\ queue'[w][Len(queue[w]) + 1] = r
       /\ \A k \in 1..Len(queue[w]) : queue'[w][k] = queue[w][k]
  <2> DEFINE q == queue[w]
             p == queue'[w]
  <2>1. q \in Seq(Reqs)
    BY <1>1, <1>6 DEF PlaceType
  <2>2. r \in Reqs /\ p = Append(q, r)
    BY Zenon, <1>4, <1>7
  <2> HIDE DEF q, p
  <2>3. Len(p) = Len(q) + 1 /\ p[Len(q) + 1] = r /\ \A k \in 1..Len(q) : p[k] = q[k]
    BY <2>1, <2>2, Submitted
  <2> QED BY Zenon, <2>3 DEF q, p
<1>11. ASSUME NEW u \in Shares
       PROVE  /\ \A k \in 1..Len(queue'[u]) : place'[queue'[u][k]] = "queue" /\ Share[queue'[u][k]] = u
              /\ \A j, k \in 1..Len(queue'[u]) : queue'[u][j] = queue'[u][k] => j = k
  <2>1. /\ \A k \in 1..Len(queue[u]) : place[queue[u][k]] = "queue" /\ Share[queue[u][k]] = u
        /\ \A j, k \in 1..Len(queue[u]) : queue[u][j] = queue[u][k] => j = k
        /\ \A k \in 1..Len(queue[u]) : queue[u][k] \in Reqs \ {r}
        /\ Len(queue[u]) \in Nat
    BY <1>1, <1>9 DEF QueueOK
  <2>2. \A k \in 1..Len(queue'[w]) : k \in 1..Len(queue[w]) \/ k = Len(queue[w]) + 1
    <3>1. Len(queue[w]) \in Nat /\ Len(queue'[w]) = Len(queue[w]) + 1
      BY <1>6, <1>9, <1>10
    <3> QED BY <3>1
  <2>3. \A k \in 1..Len(queue[u]) : place'[queue[u][k]] = "queue"
    BY <1>8, <2>1
  <2>4. CASE u # w
    <3>1. queue'[u] = queue[u]
      BY <1>7, <2>4
    <3> QED BY <2>1, <2>3, <3>1
  <2>5. CASE u = w
    <3>1. ASSUME NEW k \in 1..Len(queue'[w])
          PROVE  place'[queue'[w][k]] = "queue" /\ Share[queue'[w][k]] = w
      <4>1. CASE k = Len(queue[w]) + 1
        BY Zenon, <1>4, <1>10, <4>1
      <4>2. CASE k \in 1..Len(queue[w])
        BY Zenon, <1>10, <2>1, <2>3, <2>5, <4>2
      <4>3. k \in 1..Len(queue[w]) \/ k = Len(queue[w]) + 1
        BY <2>2
      <4> QED BY Zenon, <4>1, <4>2, <4>3
    <3>2. ASSUME NEW j \in 1..Len(queue'[w]), NEW k \in 1..Len(queue'[w]), queue'[w][j] = queue'[w][k]
          PROVE  j = k
      <4>1. j \in 1..Len(queue[w]) \/ j = Len(queue[w]) + 1
        BY <2>2
      <4>2. k \in 1..Len(queue[w]) \/ k = Len(queue[w]) + 1
        BY <2>2
      <4>3. \A i \in 1..Len(queue[w]) : queue'[w][i] = queue[w][i] /\ queue'[w][i] # r
        BY Zenon, <1>10, <2>1, <2>5
      <4>4. CASE j \in 1..Len(queue[w]) /\ k \in 1..Len(queue[w])
        <5>1. queue[w][j] = queue[w][k]
          BY <3>2, <4>3, <4>4
        <5> QED BY Zenon, <2>1, <2>5, <4>4, <5>1
      <4>5. CASE j = Len(queue[w]) + 1 \/ k = Len(queue[w]) + 1
        BY Zenon, <1>10, <3>2, <4>1, <4>2, <4>3, <4>5
      <4> QED BY <4>1, <4>2, <4>4, <4>5
    <3> QED BY <2>5, <3>1, <3>2
  <2> QED BY <2>4, <2>5
<1>12. QueueOK'
  BY <1>11 DEF QueueOK
<1> QED BY <1>1, <1>2, <1>4, <1>5, <1>7, <1>12 DEF PlaceInv, PlaceType

\* The pool runs the first one of a queue.
LEMMA PoolStep ==
  ASSUME PlaceInv, NEW w \in Shares, PoolRuns(w)
  PROVE  PlaceInv' /\ Head(queue[w]) \in Pooled /\ place[Head(queue[w])] = "queue"
<1> DEFINE r == Head(queue[w])
<1>1. PlaceType /\ ChanOK /\ RecvOK /\ ThreadOK /\ QueueOK /\ PathOK
  BY DEF PlaceInv
<1>2. /\ queue[w] # <<>> /\ queue' = [queue EXCEPT ![w] = Tail(@)] /\ Move(r, "process")
      /\ subChan' = subChan /\ receiver' = receiver /\ current' = current
      /\ thread' = thread /\ requests' = requests
  BY DEF PoolRuns, recvVars, threadVars
<1>3. queue[w] \in Seq(Reqs)
  BY <1>1 DEF PlaceType
<1>4. /\ r \in Reqs /\ r = queue[w][1] /\ 1 \in 1..Len(queue[w]) /\ Len(queue[w]) \in Nat
      /\ Tail(queue[w]) \in Seq(Reqs) /\ Len(Tail(queue[w])) = Len(queue[w]) - 1
      /\ \A k \in 1..Len(Tail(queue[w])) :
           Tail(queue[w])[k] = queue[w][k + 1] /\ k + 1 \in 1..Len(queue[w])
  BY Zenon, <1>2, <1>3, Taken
<1>5. place[r] = "queue" /\ Share[r] = w
  BY <1>1, <1>4 DEF QueueOK
<1>6. r \in Pooled
  BY <1>4, <1>5 DEF Pooled, Shares
<1>7. /\ place' \in [Reqs -> Places] /\ place'[r] = "process"
      /\ \A x \in Reqs \ {r} : place'[x] = place[x]
  BY <1>1, <1>2, <1>4, MoveType DEF Places, Coming
<1>8. ChanOK' /\ RecvOK' /\ ThreadOK' /\ PathOK'
  BY <1>1, <1>2, <1>4, <1>5, ChanKept, RecvKept, ThreadKept, PathKept
<1>9. /\ queue' \in [Shares -> Seq(Reqs)] /\ queue'[w] = Tail(queue[w])
      /\ \A u \in Shares \ {w} : queue'[u] = queue[u]
  BY <1>1, <1>2, <1>4 DEF PlaceType
<1>10. ASSUME NEW u \in Shares
       PROVE  /\ \A k \in 1..Len(queue'[u]) : place'[queue'[u][k]] = "queue" /\ Share[queue'[u][k]] = u
              /\ \A j, k \in 1..Len(queue'[u]) : queue'[u][j] = queue'[u][k] => j = k
  <2>0. /\ \A k \in 1..Len(queue[u]) : place[queue[u][k]] = "queue" /\ Share[queue[u][k]] = u
        /\ \A j, k \in 1..Len(queue[u]) : queue[u][j] = queue[u][k] => j = k
    BY <1>1 DEF QueueOK
  <2>1. \A k \in 1..Len(queue[u]) : queue[u][k] \in Reqs
    BY <1>1 DEF PlaceType
  <2>2. CASE u # w
    <3>1. queue'[u] = queue[u]
      BY <1>9, <2>2
    <3>2. \A k \in 1..Len(queue[u]) : queue[u][k] # r
      BY <1>5, <2>0, <2>2
    <3> QED BY <1>7, <2>0, <2>1, <3>1, <3>2
  <2>3. CASE u = w
    <3>1. ASSUME NEW k \in 1..Len(Tail(queue[w]))
          PROVE  place'[Tail(queue[w])[k]] = "queue" /\ Share[Tail(queue[w])[k]] = w
      <4>1. Tail(queue[w])[k] = queue[w][k + 1] /\ k + 1 \in 1..Len(queue[w]) /\ k + 1 # 1
        BY <1>4
      <4>2. queue[w][k + 1] # r /\ queue[w][k + 1] \in Reqs
        BY <1>4, <2>0, <2>1, <2>3, <4>1
      <4> QED BY <1>7, <2>0, <2>3, <4>1, <4>2
    <3>2. ASSUME NEW j \in 1..Len(Tail(queue[w])), NEW k \in 1..Len(Tail(queue[w])),
                 Tail(queue[w])[j] = Tail(queue[w])[k]
          PROVE  j = k
      <4>1. j + 1 = k + 1
        BY <1>4, <2>0, <2>3, <3>2
      <4> QED BY <4>1
    <3> QED BY Zenon, <1>9, <2>3, <3>1, <3>2
  <2> QED BY <2>2, <2>3
<1>11. QueueOK'
  BY <1>10 DEF QueueOK
<1> QED BY <1>1, <1>2, <1>5, <1>6, <1>7, <1>8, <1>9, <1>11 DEF PlaceInv, PlaceType

\* The process dies of a message that NATS sends to the closed channel.
LEMMA CrashStep ==
  ASSUME PlaceInv, NEW r \in Reqs, DeliverToClosed(r)
  PROVE  /\ PlaceInv'
         /\ \A x \in Reqs : \/ place'[x] \in {"none", "net", "done"} /\ place'[x] = place[x]
                            \/ place'[x] = "dropped"
<1>1. /\ receiver = "stopped" /\ receiver' = receiver /\ subChan' = subChan /\ requests' = requests
      /\ thread' = [t \in Threads |-> "exit"] /\ queue' = [u \in Shares |-> <<>>]
      /\ place' = [x \in Reqs |->
           IF x # r /\ place[x] \in {"none", "net", "done"} THEN place[x] ELSE "dropped"]
  BY DEF DeliverToClosed, recvVars
<1>2. \A x \in Reqs : \/ place'[x] \in {"none", "net", "done"} /\ place'[x] = place[x]
                      \/ place'[x] = "dropped"
  BY <1>1
<1>3. place' \in [Reqs -> Places]
  BY <1>1 DEF Places, Coming, Answered
<1>4. queue' \in [Shares -> Seq(Reqs)] /\ \A u \in Shares : Len(queue'[u]) = 0
  BY <1>1
<1>5. PlaceType'
  BY <1>1, <1>3, <1>4 DEF PlaceInv, PlaceType
<1>6. ChanOK' /\ RecvOK' /\ ThreadOK'
  BY <1>1 DEF PlaceInv, ChanOK, RecvOK, ThreadOK
<1>7. QueueOK'
  BY <1>4 DEF QueueOK
<1>8. PathOK'
  BY <1>2 DEF PathOK
<1> QED BY <1>2, <1>5, <1>6, <1>7, <1>8 DEF PlaceInv

\* The steps that move no request.
LEMMA StaysStep ==
  ASSUME PlaceInv, place' = place, subChan' = subChan, current' = current, requests' = requests,
         queue' = queue,
         \/ receiver' = receiver /\ thread' = thread
         \/ receiver # "stopped" /\ receiver' \in {"closing", "stopped"} /\ thread' = thread
         \/ receiver' = receiver /\ \E t \in Threads : thread' = [thread EXCEPT ![t] = "exit"]
  PROVE  PlaceInv'
<1>1. PlaceType'
  BY DEF PlaceInv, PlaceType
<1>2. ChanOK' /\ RecvOK' /\ QueueOK' /\ PathOK'
  BY DEF PlaceInv, ChanOK, RecvOK, QueueOK, PathOK
<1>3. ThreadOK'
  <2>1. \A v \in Threads : thread'[v] = "process" => thread[v] = "process"
    BY DEF PlaceInv, PlaceType
  <2> QED BY <2>1 DEF PlaceInv, ThreadOK
<1> QED BY <1>1, <1>2, <1>3 DEF PlaceInv

\* Every step keeps requests in their places.
LEMMA PlaceStep ==
  ASSUME PlaceInv, AnswerOK, [Next]_vars
  PROVE  PlaceInv'
<1> USE DEF clientVars, answerVars, recvVars, threadVars, poolVars, connVars
<1>1. ASSUME NEW r \in Reqs, Call(r) PROVE PlaceInv'
  <2>1. place[r] \notin {"subChan", "receiver", "thread", "queue"}
    BY <1>1 DEF Call, AnswerOK, Answer
  <2> QED BY <1>1, <2>1, MovedOutside DEF Call, Places, Coming
<1>2. ASSUME NEW r \in Reqs, ReceiveReply(r) \/ CallTimeout(r) \/ TimePasses(r) PROVE PlaceInv'
  BY Zenon, <1>2, StaysStep DEF ReceiveReply, CallTimeout, TimePasses
<1>3. ASSUME NEW r \in Reqs, Deliver(r) \/ DeliverToClosed(r) PROVE PlaceInv'
  BY <1>3, DeliverStep, CrashStep
<1>4. ASSUME NEW r \in Reqs, Acquire(r) \/ AcquireFails(r) PROVE PlaceInv'
  BY Zenon, <1>4, MovedOutside DEF Acquire, AcquireFails, Places, Coming, Answered
<1>5. ASSUME NEW r \in Reqs, processRequest(r) PROVE PlaceInv'
  BY <1>5, MovedOutside DEF processRequest, Places
<1>6. ASSUME NEW r \in Reqs, HandlerReturns(r) PROVE PlaceInv'
  BY <1>6, MovedOutside DEF HandlerReturns, Places
<1>7. ASSUME NEW r \in Reqs, Respond(r) PROVE PlaceInv'
  BY <1>7, MovedOutside DEF Respond, Places, Answered
<1>8. ASSUME NEW r \in Reqs, Release(r) PROVE PlaceInv'
  BY <1>8, MovedOutside DEF Release, Places, Answered
<1>9. CASE DrainEnds \/ Shutdown \/ StopReceiver \/ CloseChannels
  BY <1>9, StaysStep DEF DrainEnds, Shutdown, StopReceiver, CloseChannels
<1>10. CASE Receive
  BY <1>10, ReceiveStep
<1>11. ASSUME NEW t \in Threads, HandOver(t) PROVE PlaceInv'
  BY <1>11, HandOverStep
<1>12. ASSUME NEW t \in Threads, ThreadExits(t) PROVE PlaceInv'
  BY Zenon, <1>12, StaysStep DEF ThreadExits
<1>13. ASSUME NEW t \in Threads, BadContext(t) \/ StartGoroutine(t) \/ SubmitToPool(t) PROVE PlaceInv'
  BY <1>13, ThreadStepPlace, SubmitStep
<1>14. ASSUME NEW u \in Shares, PoolRuns(u) PROVE PlaceInv'
  BY <1>14, PoolStep
<1>15. CASE UNCHANGED vars
  BY <1>15, StaysStep DEF vars
<1> QED
  BY <1>1, <1>2, <1>3, <1>4, <1>5, <1>6, <1>7, <1>8, <1>9, <1>10, <1>11, <1>12, <1>13, <1>14, <1>15
  DEF Next, RequestStep, ReceiverStep, ThreadStep

-----------------------------------------------------------------------------
(* Answers *)

\* A request that a step does not touch.
LEMMA AnswerKept ==
  ASSUME NEW x \in Reqs, Answer(x), place'[x] = place[x], replies'[x] = replies[x],
         response'[x] = response[x], x \in ran' => x \in ran, client'[x] = client[x],
         age'[x] = age[x], conn' = conn \/ conn' # "open"
  PROVE  Answer(x)'
  BY DEF Answer

\* processResponse answers a request that was not, but for a Notify.
LEMMA ResponseStep ==
  ASSUME PlaceType, AnswerType, AnswerOK, NEW r \in Reqs, NEW res \in Results \cup {"none"},
         processResponse(r, res), place[r] \in {"thread", "acquire", "respond"},
         r \in ran => res \notin Errors, NEW q \in Answered, Move(r, q),
         UNCHANGED <<client, age, ran, conn>>
  PROVE  AnswerType' /\ AnswerOK'
<1>1. /\ response'[r] = res
      /\ \A x \in Reqs \ {r} : replies'[x] = replies[x] /\ response'[x] = response[x]
  BY DEF AnswerType, processResponse
<1>2. AnswerType'
  BY DEF AnswerType, processResponse
<1>3. replies[r] = 0 /\ client[r] # "new" /\ (client[r] = "expired" => age[r] = 2)
  BY DEF AnswerOK, Answer, Coming
<1>4. replies'[r] = (IF r \in Notifies \/ conn = "closed" THEN 0 ELSE 1)
  BY <1>3 DEF AnswerType, processResponse
<1>5. place'[r] = q /\ \A x \in Reqs \ {r} : place'[x] = place[x]
  BY DEF PlaceType, Move
<1>6. Answer(r)'
  <2>1. place'[r] \notin Coming \cup {"handler", "respond"} /\ place'[r] \in Answered
    BY <1>5 DEF Coming, Answered
  <2>2. /\ replies'[r] <= (IF r \in Notifies THEN 0 ELSE 1)
        /\ r \notin Notifies /\ conn' = "open" => replies'[r] = 1
    BY <1>4
  <2>3. r \in ran' => response'[r] \notin Errors
    BY <1>1
  <2>4. client'[r] # "new" /\ (client'[r] = "expired" => age'[r] = 2)
    BY <1>3
  <2> QED BY Zenon, <2>1, <2>2, <2>3, <2>4 DEF Answer
<1>7. ASSUME NEW x \in Reqs \ {r} PROVE Answer(x)'
  BY Zenon, <1>1, <1>5, AnswerKept DEF AnswerOK
<1> QED BY <1>2, <1>6, <1>7 DEF AnswerOK

\* A request that is passed on without an answer.
LEMMA PassedOn ==
  ASSUME PlaceType, AnswerType, AnswerOK, NEW r \in Reqs, NEW q, Move(r, q),
         \/ q \in Coming \cup {"dropped"} /\ place[r] \in Coming \ {"none"}
         \/ q \in Answered /\ place[r] \in Answered,
         UNCHANGED <<client, age, response, replies, ran, conn>>
  PROVE  AnswerType' /\ AnswerOK'
<1>1. place'[r] = q /\ \A x \in Reqs \ {r} : place'[x] = place[x]
  BY DEF PlaceType, Move
<1>2. AnswerType'
  BY DEF AnswerType
<1>3. Answer(r)'
  BY <1>1 DEF AnswerOK, Answer, Coming, Answered
<1>4. ASSUME NEW x \in Reqs \ {r} PROVE Answer(x)'
  BY <1>1, AnswerKept DEF AnswerOK
<1> QED BY <1>2, <1>3, <1>4 DEF AnswerOK

\* What a caller and its clock do.
LEMMA CallerStep ==
  ASSUME PlaceType, AnswerType, AnswerOK, NEW r \in Reqs,
         Call(r) \/ ReceiveReply(r) \/ CallTimeout(r) \/ TimePasses(r)
  PROVE  AnswerType' /\ AnswerOK'
<1>1. UNCHANGED <<response, replies, ran, conn>>
  BY DEF Call, ReceiveReply, CallTimeout, TimePasses, answerVars, connVars
<1>2. /\ client' \in [Reqs -> {"new", "waiting", "sent", "expired", "none"} \cup Results]
      /\ age' \in [Reqs -> 0..2]
  BY DEF Call, ReceiveReply, CallTimeout, TimePasses, AnswerType
<1>3. AnswerType'
  BY <1>1, <1>2 DEF AnswerType
<1>4. \A x \in Reqs \ {r} : place'[x] = place[x] /\ client'[x] = client[x] /\ age'[x] = age[x]
  BY DEF Call, ReceiveReply, CallTimeout, TimePasses, Move, PlaceType, AnswerType
<1>5. Answer(r)
  BY DEF AnswerOK
<1>6. ASSUME Call(r) PROVE Answer(r)'
  <2>1. place'[r] = "net" /\ client'[r] \in {"sent", "waiting"} /\ place[r] = "none"
    BY <1>5, <1>6 DEF Call, Move, PlaceType, AnswerType, Answer
  <2> QED BY Zenon, <1>1, <1>5, <2>1 DEF Answer, Coming, Answered
<1>7. ASSUME ReceiveReply(r) PROVE Answer(r)'
  <2>1. place' = place /\ age' = age /\ client'[r] = response[r] /\ response[r] \in Results \cup {"none"}
    BY <1>7 DEF ReceiveReply, AnswerType
  <2>2. client'[r] \notin {"new", "expired"}
    BY Zenon, <2>1 DEF Results, Errors
  <2> QED BY Zenon, <1>1, <1>5, <2>1, <2>2 DEF Answer
<1>8. ASSUME CallTimeout(r) PROVE Answer(r)'
  <2>1. place' = place /\ age' = age /\ client'[r] = "expired" /\ age[r] = 2
    BY <1>8 DEF CallTimeout, AnswerType
  <2> QED BY Zenon, <1>1, <1>5, <2>1 DEF Answer
<1>9. ASSUME TimePasses(r) PROVE Answer(r)'
  <2>1. place' = place /\ client' = client /\ age[r] < 2
    BY Zenon, <1>9 DEF TimePasses
  <2>2. client[r] = "expired" => age[r] = 2
    BY Zenon, <1>5 DEF Answer
  <2>3. ~(2 < 2)
    OBVIOUS
  <2>4. client[r] # "expired"
    BY Zenon, <2>1, <2>2, <2>3
  <2> QED BY Zenon, <1>1, <1>5, <2>1, <2>4 DEF Answer
<1>10. Answer(r)'
  BY <1>6, <1>7, <1>8, <1>9
<1>11. ASSUME NEW x \in Reqs \ {r} PROVE Answer(x)'
  BY Zenon, <1>1, <1>4, AnswerKept DEF AnswerOK
<1> QED BY <1>3, <1>10, <1>11 DEF AnswerOK

\* The handler is called, or the request refused; and the handler returns.
LEMMA HandlerStep ==
  ASSUME PlaceType, AnswerType, AnswerOK, NEW r \in Reqs, processRequest(r) \/ HandlerReturns(r)
  PROVE  AnswerType' /\ AnswerOK'
<1>1. UNCHANGED <<client, age, replies, conn>>
  BY Zenon DEF processRequest, HandlerReturns, clientVars, connVars
<1>2. AnswerType'
  BY Zenon, <1>1 DEF processRequest, HandlerReturns, AnswerType, Results, Errors
<1>3. /\ \A x \in Reqs \ {r} : place'[x] = place[x] /\ response'[x] = response[x]
      /\ ran' \subseteq ran \cup {r}
  BY DEF processRequest, HandlerReturns, Move, PlaceType, AnswerType
<1>4. Answer(r)
  BY DEF AnswerOK
<1>5. place[r] \in {"process", "handler"} /\ place'[r] \in {"handler", "respond"}
  BY DEF processRequest, HandlerReturns, Move, PlaceType
<1>6. replies[r] = 0 /\ client[r] # "new"
  BY Zenon, <1>4, <1>5 DEF Answer, Coming
<1>7. r \in ran' => response'[r] \notin Errors
  <2>1. CASE HandlerReturns(r)
    BY <2>1 DEF HandlerReturns, AnswerType, Errors
  <2>2. CASE processRequest(r)
    <3>1. r \notin ran /\ response[r] = "none"
      BY Zenon, <1>4, <2>2 DEF processRequest, Answer, Coming
    <3> QED BY Zenon, <2>2, <3>1 DEF processRequest, AnswerType, Errors
  <2> QED BY <2>1, <2>2
<1>8. Answer(r)'
  BY Zenon, <1>1, <1>4, <1>5, <1>6, <1>7 DEF Answer, Coming, Answered
<1>9. ASSUME NEW x \in Reqs \ {r} PROVE Answer(x)'
  BY Zenon, <1>1, <1>3, AnswerKept DEF AnswerOK
<1> QED BY <1>2, <1>8, <1>9 DEF AnswerOK

\* Every step answers and calls handlers as it should.
LEMMA AnswerStep ==
  ASSUME PlaceInv, AnswerType, AnswerOK, [Next]_vars
  PROVE  AnswerType' /\ AnswerOK'
<1> USE DEF clientVars, answerVars, recvVars, threadVars, poolVars, connVars
<1>0. PlaceType
  BY DEF PlaceInv
<1>1. ASSUME NEW r \in Reqs, Call(r) \/ ReceiveReply(r) \/ CallTimeout(r) \/ TimePasses(r)
      PROVE  AnswerType' /\ AnswerOK'
  BY <1>0, <1>1, CallerStep
<1>2. ASSUME NEW r \in Reqs, Deliver(r) PROVE AnswerType' /\ AnswerOK'
  <2>1. PICK q \in {"subChan", "dropped"} : Move(r, q)
    BY <1>2 DEF Deliver
  <2> QED BY <1>0, <1>2, <2>1, PassedOn DEF Deliver, Coming
<1>3. ASSUME NEW r \in Reqs, DeliverToClosed(r) PROVE AnswerType' /\ AnswerOK'
  <2>1. /\ UNCHANGED <<client, age, response, replies, ran>> /\ conn' = "closed"
        /\ place[r] = "net"
    BY <1>3 DEF DeliverToClosed
  <2>2. AnswerType'
    BY <2>1 DEF AnswerType
  <2>3. ASSUME NEW x \in Reqs PROVE Answer(x)'
    <3>1. \/ place'[x] \in {"none", "net", "done"} /\ place'[x] = place[x]
          \/ place'[x] = "dropped" /\ (place[x] = "none" => x = r)
      BY <1>3 DEF DeliverToClosed
    <3> QED BY <2>1, <3>1 DEF AnswerOK, Answer, Coming, Answered
  <2> QED BY <2>2, <2>3 DEF AnswerOK
<1>4. ASSUME NEW r \in Reqs, Acquire(r) PROVE AnswerType' /\ AnswerOK'
  BY <1>0, <1>4, PassedOn DEF Acquire, Coming
<1>5. ASSUME NEW r \in Reqs, AcquireFails(r) PROVE AnswerType' /\ AnswerOK'
  <2>1. r \notin ran
    BY Zenon, <1>5 DEF AcquireFails, AnswerOK, Answer, Coming
  <2> QED BY Zenon, <1>0, <1>5, <2>1, ResponseStep DEF AcquireFails, Results, Errors, Answered
<1>6. ASSUME NEW r \in Reqs, processRequest(r) \/ HandlerReturns(r) PROVE AnswerType' /\ AnswerOK'
  BY <1>0, <1>6, HandlerStep
<1>7. ASSUME NEW r \in Reqs, Respond(r) PROVE AnswerType' /\ AnswerOK'
  <2>1. response[r] \in Results \cup {"none"} /\ (r \in ran => response[r] \notin Errors)
    BY DEF AnswerType, AnswerOK, Answer
  <2>2. PICK q \in Answered : Move(r, q)
    BY <1>7 DEF Respond, Answered
  <2> QED BY Zenon, <1>0, <1>7, <2>1, <2>2, ResponseStep DEF Respond
<1>8. ASSUME NEW r \in Reqs, Release(r) PROVE AnswerType' /\ AnswerOK'
  BY <1>0, <1>8, PassedOn DEF Release, Answered
<1>9. CASE DrainEnds \/ Shutdown \/ StopReceiver \/ CloseChannels \/ UNCHANGED vars
  <2>1. UNCHANGED <<client, age, place, response, replies, ran>> /\ (conn' = conn \/ conn' # "open")
    BY <1>9 DEF DrainEnds, Shutdown, StopReceiver, CloseChannels, vars
  <2>2. ASSUME NEW x \in Reqs PROVE Answer(x)'
    BY Zenon, <2>1, AnswerKept DEF AnswerOK
  <2> QED BY <2>1, <2>2 DEF AnswerOK, AnswerType
<1>10. CASE Receive
  <2>1. Head(subChan) \in Reqs /\ place[Head(subChan)] = "subChan"
    BY <1>10, ReceiveStep
  <2>2. PICK q \in {"receiver", "dropped"} : Move(Head(subChan), q)
    BY <1>10 DEF Receive
  <2>3. UNCHANGED <<client, age, response, replies, ran, conn>>
    BY <1>10 DEF Receive
  <2> QED BY <1>0, <2>1, <2>2, <2>3, PassedOn DEF Coming
<1>11. ASSUME NEW t \in Threads, HandOver(t) PROVE AnswerType' /\ AnswerOK'
  <2>1. current \in Reqs /\ place[current] = "receiver"
    BY <1>11 DEF HandOver, PlaceInv, RecvOK
  <2> QED BY <1>0, <1>11, <2>1, PassedOn DEF HandOver, Coming
<1>12. ASSUME NEW t \in Threads, ThreadExits(t) PROVE AnswerType' /\ AnswerOK'
  <2>1. UNCHANGED <<client, age, place, response, replies, ran, conn>>
    BY <1>12 DEF ThreadExits
  <2>2. ASSUME NEW x \in Reqs PROVE Answer(x)'
    BY Zenon, <2>1, AnswerKept DEF AnswerOK
  <2> QED BY <2>1, <2>2 DEF AnswerOK, AnswerType
<1>13. ASSUME NEW t \in Threads, BadContext(t) \/ StartGoroutine(t) \/ SubmitToPool(t)
       PROVE  AnswerType' /\ AnswerOK'
  <2>1. requests[t] \in Reqs /\ place[requests[t]] = "thread"
    BY Zenon, <1>13 DEF BadContext, StartGoroutine, SubmitToPool, PlaceInv, ThreadOK
  <2>2. CASE BadContext(t)
    <3>1. requests[t] \notin ran
      BY Zenon, <2>1 DEF AnswerOK, Answer, Coming
    <3> QED BY Zenon, <1>0, <2>1, <2>2, <3>1, ResponseStep DEF BadContext, Results, Errors, Answered
  <2>3. CASE StartGoroutine(t) \/ SubmitToPool(t)
    BY Zenon, <1>0, <2>1, <2>3, PassedOn DEF StartGoroutine, SubmitToPool, Coming
  <2> QED BY <1>13, <2>2, <2>3
<1>14. ASSUME NEW u \in Shares, PoolRuns(u) PROVE AnswerType' /\ AnswerOK'
  <2>1. Head(queue[u]) \in Reqs /\ place[Head(queue[u])] = "queue"
    BY <1>14, PoolStep DEF Pooled
  <2> QED BY <1>0, <1>14, <2>1, PassedOn DEF PoolRuns, Coming
<1> QED
  BY <1>1, <1>2, <1>3, <1>4, <1>5, <1>6, <1>7, <1>8, <1>9, <1>10, <1>11, <1>12, <1>13, <1>14
  DEF Next, RequestStep, ReceiverStep, ThreadStep

-----------------------------------------------------------------------------
(* The semaphore *)

PermitsInv == permits \in Nat /\ PermitsConserved

\* The requests that hold a unit are finitely many.
LEMMA HoldersFinite == IsFiniteSet(Reqs) /\ IsFiniteSet(Holders) /\ Cardinality(Holders) \in Nat
<1>1. IsFiniteSet(Reqs) /\ Semaphore \in Nat
  BY ServerAssumption
<1>2. IsFiniteSet(Holders)
  BY <1>1, FS_Subset DEF Holders
<1> QED BY <1>1, <1>2, FS_CardinalityType

\* Acquire takes a unit for a request that has none.
LEMMA AcquireStep ==
  ASSUME PlaceInv, PermitsInv, NEW r \in Reqs, Acquire(r)
  PROVE  PermitsInv'
<1>1. place[r] = "acquire" /\ r \notin Pooled /\ place' = [place EXCEPT ![r] = "process"]
  BY DEF Acquire, Move, PlaceInv, PathOK
<1>2. place \in [Reqs -> Places]
  BY DEF PlaceInv, PlaceType
<1>3. Holders' = Holders \cup {r} /\ r \notin Holders
  BY <1>1, <1>2 DEF Holders
<1>4. Cardinality(Holders') = Cardinality(Holders) + 1
  BY Zenon, <1>3, HoldersFinite, FS_AddElement
<1> QED BY <1>4, HoldersFinite DEF Acquire, PermitsInv, PermitsConserved

\* Release gives it back.
LEMMA ReleaseStep ==
  ASSUME PlaceInv, PermitsInv, NEW r \in Reqs, Release(r)
  PROVE  PermitsInv'
<1>1. place[r] = "release" /\ r \notin Pooled /\ place' = [place EXCEPT ![r] = "done"]
  BY DEF Release, Move, PlaceInv, PathOK
<1>2. place \in [Reqs -> Places]
  BY DEF PlaceInv, PlaceType
<1>3. Holders' = Holders \ {r} /\ r \in Holders
  BY <1>1, <1>2 DEF Holders
<1>4. Cardinality(Holders') = Cardinality(Holders) - 1
  BY Zenon, <1>3, HoldersFinite, FS_RemoveElement
<1> QED BY <1>4, HoldersFinite DEF Release, PermitsInv, PermitsConserved

\* Moves outside of the part between them, and within it.
LEMMA HoldersKept ==
  ASSUME PlaceType, PermitsInv, permits' = permits, NEW r \in Reqs, NEW q, Move(r, q),
         \/ r \in Pooled
         \/ (place[r] \in {"process", "handler", "respond", "release"})
              <=> (q \in {"process", "handler", "respond", "release"})
  PROVE  PermitsInv'
<1>1. Holders' = Holders
  BY DEF Holders, PlaceType, Move
<1> QED BY <1>1 DEF PermitsInv, PermitsConserved

\* A crash frees everything.
LEMMA CrashFrees ==
  ASSUME PlaceInv, NEW r \in Reqs, DeliverToClosed(r)
  PROVE  PermitsInv'
<1>1. Holders' = {}
  BY CrashStep DEF Holders
<1>2. Semaphore \in Nat
  BY ServerAssumption
<1>3. permits' = Semaphore
  BY DEF DeliverToClosed
<1> QED BY <1>1, <1>2, <1>3, FS_EmptySet DEF PermitsInv, PermitsConserved

\* Every step conserves the units.
LEMMA PermitsStep ==
  ASSUME PlaceInv, AnswerOK, PermitsInv, [Next]_vars
  PROVE  PermitsInv'
<1> USE DEF clientVars, answerVars, recvVars, threadVars, poolVars, connVars
<1>0. PlaceType
  BY DEF PlaceInv
<1>1. ASSUME NEW r \in Reqs, Call(r) PROVE PermitsInv'
  <2>1. place[r] = "none"
    BY Zenon, <1>1 DEF Call, AnswerOK, Answer
  <2> QED BY <1>0, <1>1, <2>1, HoldersKept DEF Call
<1>2. ASSUME place' = place, permits' = permits PROVE PermitsInv'
  BY <1>2 DEF PermitsInv, PermitsConserved, Holders
<1>3. ASSUME NEW r \in Reqs, Deliver(r) PROVE PermitsInv'
  <2>1. PICK q \in {"subChan", "dropped"} : Move(r, q)
    BY <1>3 DEF Deliver
  <2> QED BY <1>0, <1>3, <2>1, HoldersKept DEF Deliver
<1>4. ASSUME NEW r \in Reqs, AcquireFails(r) PROVE PermitsInv'
  BY Zenon, <1>0, <1>4, HoldersKept DEF AcquireFails
<1>5. ASSUME NEW r \in Reqs, processRequest(r) \/ HandlerReturns(r) PROVE PermitsInv'
  <2>1. PICK q \in {"handler", "respond"} : Move(r, q)
    BY Zenon, <1>5 DEF processRequest, HandlerReturns
  <2>2. place[r] \in {"process", "handler"} /\ permits' = permits
    BY Zenon, <1>5 DEF processRequest, HandlerReturns
  <2> QED BY <1>0, <2>1, <2>2, HoldersKept
<1>6. ASSUME NEW r \in Reqs, Respond(r) PROVE PermitsInv'
  <2>1. PICK q : Move(r, q) /\ (r \in Pooled \/ q = "release")
    BY Zenon, <1>6 DEF Respond
  <2>2. place[r] = "respond" /\ permits' = permits
    BY Zenon, <1>6 DEF Respond
  <2> QED BY <1>0, <2>1, <2>2, HoldersKept
<1>7. CASE Receive
  <2>1. Head(subChan) \in Reqs /\ place[Head(subChan)] = "subChan"
    BY <1>7, ReceiveStep
  <2>2. PICK q \in {"receiver", "dropped"} : Move(Head(subChan), q)
    BY <1>7 DEF Receive
  <2>3. permits' = permits
    BY <1>7 DEF Receive
  <2> QED BY <1>0, <2>1, <2>2, <2>3, HoldersKept
<1>8. ASSUME NEW t \in Threads, HandOver(t) PROVE PermitsInv'
  <2>1. current \in Reqs /\ place[current] = "receiver"
    BY <1>8 DEF HandOver, PlaceInv, RecvOK
  <2> QED BY <1>0, <1>8, <2>1, HoldersKept DEF HandOver
<1>9. ASSUME NEW t \in Threads, BadContext(t) \/ StartGoroutine(t) \/ SubmitToPool(t) PROVE PermitsInv'
  <2>1. requests[t] \in Reqs /\ place[requests[t]] = "thread" /\ permits' = permits
    BY Zenon, <1>9 DEF BadContext, StartGoroutine, SubmitToPool, PlaceInv, ThreadOK
  <2>2. PICK q \in {"done", "acquire", "queue"} : Move(requests[t], q)
    BY Zenon, <1>9 DEF BadContext, StartGoroutine, SubmitToPool
  <2> QED BY <1>0, <2>1, <2>2, HoldersKept
<1>10. ASSUME NEW u \in Shares, PoolRuns(u) PROVE PermitsInv'
  <2>1. Head(queue[u]) \in Pooled /\ Head(queue[u]) \in Reqs
    BY <1>10, PoolStep DEF Pooled
  <2> QED BY <1>0, <1>10, <2>1, HoldersKept DEF PoolRuns
<1>11. ASSUME NEW r \in Reqs, ReceiveReply(r) \/ CallTimeout(r) \/ TimePasses(r) PROVE PermitsInv'
  BY Zenon, <1>2, <1>11 DEF ReceiveReply, CallTimeout, TimePasses
<1>12. CASE DrainEnds \/ Shutdown \/ StopReceiver \/ CloseChannels \/ UNCHANGED vars
  BY Zenon, <1>2, <1>12 DEF DrainEnds, Shutdown, StopReceiver, CloseChannels, vars
<1>13. ASSUME NEW t \in Threads, ThreadExits(t) PROVE PermitsInv'
  BY <1>2, <1>13 DEF ThreadExits
<1> QED
  BY <1>1, <1>3, <1>4, <1>5, <1>6, <1>7, <1>8, <1>9, <1>10, <1>11, <1>12, <1>13,
     AcquireStep, ReleaseStep, CrashFrees
  DEF Next, RequestStep, ReceiverStep, ThreadStep

-----------------------------------------------------------------------------
(* Theorems *)

\* The invariant holds at the start.
LEMMA ServerInit == Init => ServerInv /\ PermitsInv
<1> SUFFICES ASSUME Init PROVE ServerInv /\ PermitsInv
  OBVIOUS
<1>1. PlaceType
  BY DEF Init, PlaceType, Places, Coming
<1>2. ChanOK /\ RecvOK /\ ThreadOK /\ PathOK
  BY DEF Init, ChanOK, RecvOK, ThreadOK, PathOK
<1>3. QueueOK
  BY DEF Init, QueueOK
<1>4. AnswerType /\ AnswerOK
  BY DEF Init, AnswerType, AnswerOK, Answer, Results, Coming, Answered
<1>5. Holders = {}
  BY DEF Init, Holders
<1>6. Semaphore \in Nat
  BY ServerAssumption
<1>7. PermitsInv
  BY <1>5, <1>6, FS_EmptySet DEF Init, PermitsInv, PermitsConserved
<1> QED BY <1>1, <1>2, <1>3, <1>4, <1>7 DEF ServerInv, PlaceInv

\* It holds always, and with it the count of the semaphore.
THEOREM ServerInvariant == Spec => [](ServerInv /\ PermitsInv)
<1>1. ServerInv /\ PermitsInv /\ [Next]_vars => (ServerInv /\ PermitsInv)'
  BY PlaceStep, AnswerStep, PermitsStep DEF ServerInv
<1> QED BY <1>1, ServerInit, PTL DEF Spec

\* A request is answered at most once, a Notify never, and one the server is done with
\* exactly once while the connection is up, for any number of threads and requests.
THEOREM RepliesOnce == Spec => []OneReply
<1>1. ServerInv => OneReply
  BY DEF ServerInv, AnswerOK, Answer, Answered, OneReply
<1> QED BY <1>1, ServerInvariant, PTL

\* The handler of a request answered with an error of the server is never called.
THEOREM RejectedIsNotRun == Spec => []RejectedNeverRan
<1>1. ServerInv => RejectedNeverRan
  BY DEF ServerInv, AnswerOK, Answer, RejectedNeverRan
<1> QED BY <1>1, ServerInvariant, PTL

\* No unit of the semaphore is lost or made, whatever its size.
THEOREM PermitsStayConserved == Spec => []PermitsConserved
<1>1. PermitsInv => PermitsConserved
  BY DEF PermitsInv
<1> QED BY <1>1, ServerInvariant, PTL

\* processRequest never calls the handler of a request whose caller has given up.
THEOREM HandlersInTime == Spec => NoHandlerAfterTimeout
<1>1. ServerInv /\ [Next]_vars => [\A r \in ran' \ ran : client[r] # "expired"]_vars
  <2> SUFFICES ASSUME ServerInv, Next, NEW r \in ran' \ ran PROVE client[r] # "expired"
    OBVIOUS
  <2>1. PICK x \in Reqs : processRequest(x) /\ ran' = ran \cup {x} /\ age[x] = 0
    <3> USE DEF answerVars
    <3>1. ASSUME NEW x \in Reqs, processRequest(x) PROVE ran' = ran \cup {x} /\ age[x] = 0
      BY <3>1 DEF processRequest, ServerInv, AnswerType
    <3>2. ASSUME ~\E x \in Reqs : processRequest(x) PROVE ran' = ran
      BY Zenon, <3>2 DEF Next, RequestStep, ReceiverStep, ThreadStep, Call, ReceiveReply, CallTimeout,
         TimePasses, Deliver, DeliverToClosed, Acquire, AcquireFails, HandlerReturns, Respond,
         Release, DrainEnds, Shutdown, Receive, StopReceiver, CloseChannels, HandOver,
         ThreadExits, BadContext, SubmitToPool, StartGoroutine, PoolRuns
    <3> QED BY <3>1, <3>2
  <2> QED BY <2>1 DEF ServerInv, AnswerOK, Answer
<1> QED BY <1>1, ServerInvariant, PTL DEF Spec, NoHandlerAfterTimeout

-----------------------------------------------------------------------------
(* Order *)

\* A request that has arrived does not come again.
ArrivedOK ==
  /\ arrived \in Seq(Reqs)
  /\ \A k \in 1..Len(arrived) : place[arrived[k]] \notin {"none", "net"}

InChan(r) == \E k \in 1..Len(subChan) : subChan[k] = r
InThread(r) == \E t \in Threads : thread[t] = "process" /\ requests[t] = r
InQueue(r) == r \in Pooled /\ \E k \in 1..Len(queue[Share[r]]) : queue[Share[r]][k] = r

\* The channels, the threads and the queues hold the requests whose place they are.
Held(r) ==
  /\ place[r] = "subChan" => InChan(r)
  /\ place[r] = "receiver" => receiver = "send" /\ current = r
  /\ place[r] = "thread" => InThread(r)
  /\ place[r] = "queue" => InQueue(r)

FirstInChan(s, r) ==
  \A j, k \in 1..Len(subChan) : subChan[j] = s /\ subChan[k] = r => j < k
FirstInQueue(s, r) ==
  \A j, k \in 1..Len(queue[Share[r]]) :
    queue[Share[r]][j] = s /\ queue[Share[r]][k] = r => j < k

\* s is ahead of r.
Ahead(s, r) ==
  /\ place[s] = "subChan" => place[r] = "subChan" /\ FirstInChan(s, r)
  /\ place[s] = "receiver" => place[r] = "subChan"
  /\ place[s] = "thread" => place[r] \in {"subChan", "receiver", "dropped"}
  /\ place[s] = "queue" /\ place[r] = "queue" /\ Share[s] = Share[r] => FirstInQueue(s, r)

OrderInv ==
  /\ ArrivedOK
  /\ \A r \in Reqs : Held(r)
  /\ \A s, r \in Reqs : Before(s, r) => Ahead(s, r)

\* A step that keeps the history and sends no request back keeps the order of arrival.
LEMMA ArrivedKept ==
  ASSUME ArrivedOK, arrived' = arrived,
         \A x \in Reqs : place'[x] \in {"none", "net"} => place[x] \in {"none", "net"}
  PROVE  ArrivedOK' /\ \A s, r : Before(s, r)' <=> Before(s, r)
<1>1. \A k \in 1..Len(arrived) : arrived[k] \in Reqs
  BY DEF ArrivedOK
<1>2. ASSUME NEW k \in 1..Len(arrived) PROVE place'[arrived[k]] \notin {"none", "net"}
  <2>1. arrived[k] \in Reqs /\ place[arrived[k]] \notin {"none", "net"}
    BY <1>1 DEF ArrivedOK
  <2> QED BY Zenon, <2>1
<1>3. ArrivedOK'
  BY <1>2 DEF ArrivedOK
<1>4. \A s, r : Before(s, r)' <=> Before(s, r)
  BY DEF Before
<1> QED BY <1>3, <1>4

\* What a step does not touch.
LEMMA Untouched ==
  /\ subChan' = subChan =>
       \A s, r : (InChan(r)' <=> InChan(r)) /\ (FirstInChan(s, r)' <=> FirstInChan(s, r))
  /\ thread' = thread /\ requests' = requests => \A r : InThread(r)' <=> InThread(r)
  /\ queue' = queue =>
       \A s, r : (InQueue(r)' <=> InQueue(r)) /\ (FirstInQueue(s, r)' <=> FirstInQueue(s, r))
<1>1. ASSUME subChan' = subChan, NEW s, NEW r
      PROVE  (InChan(r)' <=> InChan(r)) /\ (FirstInChan(s, r)' <=> FirstInChan(s, r))
  BY <1>1 DEF InChan, FirstInChan
<1>2. ASSUME thread' = thread, requests' = requests, NEW r PROVE InThread(r)' <=> InThread(r)
  BY <1>2 DEF InThread
<1>3. ASSUME queue' = queue, NEW s, NEW r
      PROVE  (InQueue(r)' <=> InQueue(r)) /\ (FirstInQueue(s, r)' <=> FirstInQueue(s, r))
  BY <1>3 DEF InQueue, FirstInQueue
<1> QED BY Zenon, <1>1, <1>2, <1>3

\* The steps of a request outside of the channels, the threads and the queues.
LEMMA OrderOutside ==
  ASSUME PlaceType, OrderInv, NEW r \in Reqs, NEW q, Move(r, q),
         place[r] \notin {"subChan", "receiver", "thread", "queue", "dropped"},
         q \notin {"subChan", "receiver", "thread", "queue", "none"},
         q = "net" => place[r] = "none",
         UNCHANGED <<subChan, arrived, receiver, current, thread, requests, queue>>
  PROVE  OrderInv'
<1>1. place'[r] = q /\ \A x \in Reqs \ {r} : place'[x] = place[x]
  BY DEF PlaceType, Move
<1>2. ArrivedOK' /\ \A s, x : Before(s, x)' <=> Before(s, x)
  BY Zenon, <1>1, ArrivedKept DEF OrderInv
<1>3. ASSUME NEW x \in Reqs PROVE Held(x)'
  <2>1. Held(x)
    BY DEF OrderInv
  <2> QED BY Zenon, <1>1, <2>1, Untouched DEF Held
<1>4. ASSUME NEW s \in Reqs, NEW x \in Reqs, Before(s, x) PROVE Ahead(s, x)'
  <2>1. Ahead(s, x)
    BY <1>4 DEF OrderInv
  <2>2. CASE s = r
    BY Zenon, <1>1, <2>2 DEF Ahead
  <2>3. CASE s # r /\ x = r
    <3>1. place'[s] = place[s] /\ place[s] \notin {"subChan", "receiver", "thread"} /\ place'[x] # "queue"
      BY Zenon, <1>1, <2>1, <2>3 DEF Ahead
    <3> QED BY Zenon, <3>1 DEF Ahead
  <2>4. CASE s # r /\ x # r
    <3>1. place'[s] = place[s] /\ place'[x] = place[x]
      BY <1>1, <2>4
    <3> QED BY Zenon, <2>1, <3>1, Untouched DEF Ahead
  <2> QED BY <2>2, <2>3, <2>4
<1> QED BY <1>2, <1>3, <1>4 DEF OrderInv

\* The steps that move no request.
LEMMA OrderStays ==
  ASSUME PlaceType, OrderInv, UNCHANGED <<place, subChan, arrived, current, requests, queue>>,
         receiver' = receiver \/ receiver # "send",
         \/ thread' = thread
         \/ \E t \in Threads : thread[t] = "range" /\ thread' = [thread EXCEPT ![t] = "exit"]
  PROVE  OrderInv'
<1>1. \A t \in Threads : thread[t] = "process" => thread'[t] = "process"
  BY DEF PlaceType
<1>2. ArrivedOK' /\ \A s, x : Before(s, x)' <=> Before(s, x)
  BY ArrivedKept DEF OrderInv
<1>3. ASSUME NEW x \in Reqs PROVE Held(x)'
  <2>1. Held(x)
    BY DEF OrderInv
  <2>2. InThread(x) => InThread(x)'
    BY <1>1 DEF InThread
  <2> QED BY Zenon, <2>1, <2>2, Untouched DEF Held
<1>4. ASSUME NEW s \in Reqs, NEW x \in Reqs, Before(s, x) PROVE Ahead(s, x)'
  <2>1. Ahead(s, x)
    BY <1>4 DEF OrderInv
  <2> QED BY Zenon, <2>1, Untouched DEF Ahead
<1> QED BY <1>2, <1>3, <1>4 DEF OrderInv

\* A crash leaves no request waiting.
LEMMA OrderCrash ==
  ASSUME PlaceInv, OrderInv, NEW r \in Reqs, DeliverToClosed(r)
  PROVE  OrderInv'
<1>1. /\ arrived' = arrived
      /\ place' = [x \in Reqs |->
           IF x # r /\ place[x] \in {"none", "net", "done"} THEN place[x] ELSE "dropped"]
  BY DEF DeliverToClosed, recvVars
<1>2. \A x \in Reqs :
        /\ place'[x] \notin {"subChan", "receiver", "thread", "queue"}
        /\ place'[x] \in {"none", "net"} => place[x] \in {"none", "net"}
  BY <1>1
<1>3. ArrivedOK'
  BY <1>1, <1>2, ArrivedKept DEF OrderInv
<1>4. ASSUME NEW x \in Reqs PROVE Held(x)'
  BY Zenon, <1>2 DEF Held
<1>5. ASSUME NEW s \in Reqs, NEW x \in Reqs PROVE Ahead(s, x)'
  BY Zenon, <1>2 DEF Ahead
<1> QED BY <1>3, <1>4, <1>5 DEF OrderInv

\* NATS delivers a request: it is last in the channel and in the history.
LEMMA OrderDeliver ==
  ASSUME PlaceInv, OrderInv, NEW r \in Reqs, Deliver(r)
  PROVE  OrderInv'
<1>1. PlaceType /\ ChanOK
  BY DEF PlaceInv
<1>2. /\ place[r] = "net"
      /\ UNCHANGED <<receiver, current, thread, requests, queue>>
  BY DEF Deliver, threadVars, poolVars
<1>3. CASE Move(r, "dropped") /\ subChan' = subChan /\ arrived' = arrived
  BY <1>1, <1>2, <1>3, OrderOutside
<1>4. CASE /\ Move(r, "subChan") /\ subChan' = Append(subChan, r)
           /\ arrived' = IF r \in Pooled THEN Append(arrived, r) ELSE arrived
  <2>1. place'[r] = "subChan" /\ \A x \in Reqs \ {r} : place'[x] = place[x]
    BY <1>1, <1>4 DEF PlaceType, Move
  <2>2. /\ Len(subChan) \in Nat /\ Len(subChan') = Len(subChan) + 1
        /\ subChan'[Len(subChan) + 1] = r
        /\ \A k \in 1..Len(subChan) : subChan'[k] = subChan[k]
    BY <1>1, <1>4 DEF PlaceType
  <2>3. /\ arrived \in Seq(Reqs)
        /\ \A k \in 1..Len(arrived) : arrived[k] \in Reqs
        /\ \A k \in 1..Len(arrived) : place[arrived[k]] \notin {"none", "net"}
    BY DEF OrderInv, ArrivedOK
  <2>4. \A k \in 1..Len(arrived) : arrived[k] # r
    BY Zenon, <1>2, <2>3
  <2>5. /\ arrived' \in Seq(Reqs) /\ Len(arrived) \in Nat /\ Len(arrived') \in Nat
        /\ \A k \in 1..Len(arrived) : arrived'[k] = arrived[k]
        /\ \A k \in 1..Len(arrived') : k \in 1..Len(arrived) \/ (k = Len(arrived') /\ arrived'[k] = r)
    <3>1. CASE r \in Pooled
      <4>1. arrived' = Append(arrived, r)
        BY <1>4, <3>1
      <4> QED BY <2>3, <4>1
    <3>2. CASE r \notin Pooled
      <4>1. arrived' = arrived
        BY <1>4, <3>2
      <4> QED BY <2>3, <4>1
    <3> QED BY <3>1, <3>2
  <2>6. ASSUME NEW k \in 1..Len(arrived') PROVE place'[arrived'[k]] \notin {"none", "net"}
    <3>1. CASE arrived'[k] = r
      BY <2>1, <3>1
    <3>2. CASE k \in 1..Len(arrived)
      BY Zenon, <2>1, <2>3, <2>4, <2>5, <3>2
    <3> QED BY <2>5, <3>1, <3>2
  <2>7. ArrivedOK'
    BY <2>5, <2>6 DEF ArrivedOK
  <2>8. receiver # "stopped"
    BY <1>4, <2>2 DEF Deliver
  <2>9. \A k \in 1..Len(subChan) : subChan[k] # r
    BY <1>1, <1>2, <2>8 DEF ChanOK
  <2>10. \A k \in 1..Len(subChan') : k \in 1..Len(subChan) \/ k = Len(subChan) + 1
    BY <2>2
  <2>11. InChan(r)' /\ \A x : InChan(x) => InChan(x)'
    <3>1. Len(subChan) + 1 \in 1..Len(subChan') /\ \A k \in 1..Len(subChan) : k \in 1..Len(subChan')
      BY <2>2
    <3> QED BY <2>2, <3>1 DEF InChan
  <2>12. ASSUME NEW x \in Reqs PROVE Held(x)'
    <3>1. Held(x)
      BY DEF OrderInv
    <3> QED BY Zenon, <1>2, <2>1, <2>11, <3>1, Untouched DEF Held
  <2>13. ASSUME NEW s \in Reqs, NEW x \in Reqs, Before(s, x)'
         PROVE  s # r /\ (x = r \/ Before(s, x))
    <3>1. PICK a \in 1..Len(arrived'), b \in 1..Len(arrived') : a < b /\ arrived'[a] = s /\ arrived'[b] = x
      BY <2>13 DEF Before
    <3>2. a \in 1..Len(arrived)
      BY <2>5, <3>1
    <3>3. s # r /\ arrived[a] = s
      BY <2>4, <2>5, <3>1, <3>2
    <3>4. CASE b \in 1..Len(arrived)
      <4>1. arrived[b] = x
        BY <2>5, <3>1, <3>4
      <4> QED BY <3>1, <3>2, <3>3, <3>4, <4>1 DEF Before
    <3>5. CASE arrived'[b] = r
      BY <3>1, <3>3, <3>5
    <3> QED BY <2>5, <3>4, <3>5
  <2>14. ASSUME NEW s \in Reqs, NEW x \in Reqs, Before(s, x)' PROVE Ahead(s, x)'
    <3>1. s # r /\ place'[s] = place[s] /\ (x = r \/ Before(s, x))
      BY Zenon, <2>1, <2>13, <2>14
    <3>2. ASSUME NEW y, y # r, NEW j \in 1..Len(subChan'), subChan'[j] = y
          PROVE  j \in 1..Len(subChan) /\ subChan[j] = y
      BY <2>2, <2>10, <3>2
    <3>3. CASE x = r
      <4>1. ASSUME NEW j \in 1..Len(subChan'), NEW k \in 1..Len(subChan'), subChan'[j] = s, subChan'[k] = r
            PROVE  j < k
        <5>1. j \in 1..Len(subChan)
          BY Zenon, <3>1, <3>2, <4>1
        <5>2. k = Len(subChan) + 1
          BY <2>2, <2>9, <2>10, <4>1
        <5> QED BY <2>2, <5>1, <5>2
      <4>2. FirstInChan(s, x)'
        BY <3>3, <4>1 DEF FirstInChan
      <4> QED BY Zenon, <2>1, <3>1, <3>3, <4>2 DEF Ahead
    <3>4. CASE x # r
      <4>1. Ahead(s, x) /\ place'[x] = place[x]
        BY Zenon, <2>1, <3>1, <3>4 DEF OrderInv
      <4>2. FirstInChan(s, x) => FirstInChan(s, x)'
        BY Zenon, <3>1, <3>2, <3>4 DEF FirstInChan
      <4> QED BY Zenon, <1>2, <3>1, <4>1, <4>2, Untouched DEF Ahead
    <3> QED BY <3>3, <3>4
  <2> QED BY <2>7, <2>12, <2>14 DEF OrderInv
<1> QED BY <1>3, <1>4 DEF Deliver

\* handleMessages takes the first one, which no one in the channel is ahead of.
LEMMA OrderReceive ==
  ASSUME PlaceInv, OrderInv, Receive
  PROVE  OrderInv'
<1> DEFINE r == Head(subChan)
<1>1. PlaceType /\ ChanOK
  BY DEF PlaceInv
<1>2. /\ receiver = "select" /\ subChan # <<>> /\ subChan' = Tail(subChan)
      /\ UNCHANGED <<arrived, thread, requests, queue>>
  BY DEF Receive, threadVars, poolVars
<1>3. /\ r = subChan[1] /\ Len(subChan) \in Nat \ {0} /\ Len(subChan') = Len(subChan) - 1
      /\ \A k \in 1..Len(subChan') : subChan'[k] = subChan[k + 1]
  BY <1>1, <1>2 DEF PlaceType
<1>4. /\ 1 \in 1..Len(subChan)
      /\ \A k \in 1..Len(subChan') : k + 1 \in 1..Len(subChan)
      /\ \A k \in 1..Len(subChan) \ {1} : k - 1 \in 1..Len(subChan') /\ (k - 1) + 1 = k
  BY <1>3
<1>5. r \in Reqs /\ place[r] = "subChan"
  BY ReceiveStep
<1>6. PICK q \in {"dropped", "receiver"} :
        Move(r, q) /\ (q = "receiver" => receiver' = "send" /\ current' = r)
  BY DEF Receive
<1>7. place'[r] = q /\ \A x \in Reqs \ {r} : place'[x] = place[x]
  BY <1>1, <1>5, <1>6 DEF PlaceType, Move
<1>8. \A x \in Reqs : place[x] # "receiver"
  BY Zenon, <1>2 DEF OrderInv, Held
<1>9. ArrivedOK' /\ \A s, x : Before(s, x)' <=> Before(s, x)
  BY Zenon, <1>2, <1>7, ArrivedKept DEF OrderInv
<1>10. ASSUME NEW x \in Reqs PROVE Held(x)'
  <2>1. Held(x)
    BY DEF OrderInv
  <2>2. ASSUME InChan(x), x # r PROVE InChan(x)'
    <3>1. PICK k \in 1..Len(subChan) : subChan[k] = x
      BY <2>2 DEF InChan
    <3>2. k # 1
      BY <1>3, <2>2, <3>1
    <3>3. k - 1 \in 1..Len(subChan') /\ subChan'[k - 1] = x
      BY <1>3, <1>4, <3>1, <3>2
    <3> QED BY <3>3 DEF InChan
  <2> QED BY Zenon, <1>2, <1>6, <1>7, <1>8, <2>1, <2>2, Untouched DEF Held
<1>11. ASSUME NEW s \in Reqs, NEW x \in Reqs, Before(s, x) PROVE Ahead(s, x)'
  <2>1. Ahead(s, x)
    BY <1>11 DEF OrderInv
  <2>2. ASSUME FirstInChan(s, x) PROVE FirstInChan(s, x)' /\ (x = r => ~InChan(s))
    <3>1. ASSUME NEW j \in 1..Len(subChan'), NEW k \in 1..Len(subChan'), subChan'[j] = s, subChan'[k] = x
          PROVE  j < k
      <4>1. /\ j + 1 \in 1..Len(subChan) /\ subChan[j + 1] = s
            /\ k + 1 \in 1..Len(subChan) /\ subChan[k + 1] = x
        BY Zenon, <1>3, <1>4, <3>1
      <4>2. j + 1 < k + 1
        BY Zenon, <2>2, <4>1 DEF FirstInChan
      <4> QED BY <4>2
    <3>2. ASSUME x = r, InChan(s) PROVE FALSE
      <4>1. PICK k \in 1..Len(subChan) : subChan[k] = s
        BY <3>2 DEF InChan
      <4>2. k < 1
        BY Zenon, <1>3, <1>4, <2>2, <3>2, <4>1 DEF FirstInChan
      <4> QED BY <4>2
    <3> QED BY <3>1, <3>2 DEF FirstInChan
  <2>3. Held(s)
    BY DEF OrderInv
  <2>4. CASE s = r
    <3>1. place[x] = "subChan" /\ FirstInChan(s, x)
      BY Zenon, <1>5, <2>1, <2>4 DEF Ahead
    <3>2. InChan(s)
      BY Zenon, <1>5, <2>3, <2>4 DEF Held
    <3>3. x # r /\ place'[x] = "subChan"
      BY Zenon, <1>7, <2>2, <3>1, <3>2
    <3> QED BY Zenon, <1>7, <2>4, <3>3 DEF Ahead
  <2>5. CASE s # r /\ x = r
    <3>1. place[s] # "subChan" /\ place'[s] = place[s]
      BY Zenon, <1>7, <2>1, <2>2, <2>3, <2>5 DEF Ahead, Held
    <3>2. place'[x] \in {"dropped", "receiver"} /\ place[s] # "receiver"
      BY Zenon, <1>7, <1>8, <2>5
    <3> QED BY Zenon, <3>1, <3>2 DEF Ahead
  <2>6. CASE s # r /\ x # r
    <3>1. place'[s] = place[s] /\ place'[x] = place[x]
      BY <1>7, <2>6
    <3> QED BY Zenon, <1>2, <2>1, <2>2, <3>1, Untouched DEF Ahead
  <2> QED BY <2>4, <2>5, <2>6
<1> QED BY <1>9, <1>10, <1>11 DEF OrderInv

\* The only thread takes over the only request in between.
LEMMA OrderHandOver ==
  ASSUME PlaceInv, OrderInv, NEW T, Threads = {T}, HandOver(T)
  PROVE  OrderInv'
<1>1. PlaceType /\ RecvOK
  BY DEF PlaceInv
<1>2. /\ receiver = "send" /\ thread[T] = "range" /\ Move(current, "thread")
      /\ requests' = [requests EXCEPT ![T] = current] /\ thread' = [thread EXCEPT ![T] = "process"]
      /\ UNCHANGED <<subChan, arrived, queue>>
  BY DEF HandOver, poolVars
<1>3. current \in Reqs /\ place[current] = "receiver"
  BY <1>1, <1>2 DEF RecvOK
<1>4. place'[current] = "thread" /\ \A x \in Reqs \ {current} : place'[x] = place[x]
  BY <1>1, <1>2, <1>3 DEF PlaceType, Move
<1>5. \A x \in Reqs : place[x] # "thread" /\ (place[x] = "receiver" => x = current)
  BY <1>2 DEF OrderInv, Held, InThread
<1>6. T \in Threads /\ thread'[T] = "process" /\ requests'[T] = current
  BY <1>1, <1>2 DEF PlaceType
<1>7. ArrivedOK' /\ \A s, x : Before(s, x)' <=> Before(s, x)
  BY Zenon, <1>2, <1>4, ArrivedKept DEF OrderInv
<1>8. ASSUME NEW x \in Reqs PROVE Held(x)'
  <2>1. Held(x)
    BY DEF OrderInv
  <2>2. CASE x = current
    <3>1. InThread(x)'
      BY Zenon, <1>6, <2>2 DEF InThread
    <3> QED BY Zenon, <1>4, <2>2, <3>1 DEF Held
  <2>3. CASE x # current
    BY Zenon, <1>2, <1>4, <1>5, <2>1, <2>3, Untouched DEF Held
  <2> QED BY <2>2, <2>3
<1>9. ASSUME NEW s \in Reqs, NEW x \in Reqs, Before(s, x) PROVE Ahead(s, x)'
  <2>1. Ahead(s, x)
    BY <1>9 DEF OrderInv
  <2>2. CASE s = current
    <3>1. place[x] = "subChan" /\ place'[x] = "subChan" /\ place'[s] = "thread"
      BY Zenon, <1>3, <1>4, <2>1, <2>2 DEF Ahead
    <3> QED BY Zenon, <3>1 DEF Ahead
  <2>3. CASE s # current /\ x = current
    <3>1. place'[s] \notin {"subChan", "receiver", "thread"} /\ place'[x] = "thread"
      BY Zenon, <1>3, <1>4, <1>5, <2>1, <2>3 DEF Ahead
    <3> QED BY Zenon, <3>1 DEF Ahead
  <2>4. CASE s # current /\ x # current
    <3>1. place'[s] = place[s] /\ place'[x] = place[x]
      BY <1>4, <2>4
    <3> QED BY Zenon, <1>2, <2>1, <3>1, Untouched DEF Ahead
  <2> QED BY <2>2, <2>3, <2>4
<1> QED BY <1>7, <1>8, <1>9 DEF OrderInv

\* It is done with a request, or starts a goroutine for it.
LEMMA OrderThread ==
  ASSUME PlaceInv, OrderInv, NEW T, Threads = {T}, BadContext(T) \/ StartGoroutine(T)
  PROVE  OrderInv'
<1> DEFINE r == requests[T]
<1>1. PlaceType /\ ThreadOK
  BY DEF PlaceInv
<1>2. /\ thread[T] = "process" /\ T \in Threads
      /\ UNCHANGED <<subChan, arrived, receiver, current, queue>>
  BY Zenon DEF BadContext, StartGoroutine, recvVars, poolVars
<1>3. PICK q \in {"done", "acquire"} : Move(r, q)
  BY Zenon DEF BadContext, StartGoroutine
<1>4. r \in Reqs /\ place[r] = "thread"
  BY Zenon, <1>1, <1>2 DEF ThreadOK
<1>5. place'[r] = q /\ \A x \in Reqs \ {r} : place'[x] = place[x]
  BY <1>1, <1>3, <1>4 DEF PlaceType, Move
<1>6. \A x \in Reqs : place[x] = "thread" => x = r
  BY Zenon DEF OrderInv, Held, InThread
<1>7. ArrivedOK' /\ \A s, x : Before(s, x)' <=> Before(s, x)
  BY Zenon, <1>2, <1>5, ArrivedKept DEF OrderInv
<1>8. ASSUME NEW x \in Reqs PROVE Held(x)'
  <2>1. Held(x)
    BY DEF OrderInv
  <2> QED BY Zenon, <1>2, <1>5, <1>6, <2>1, Untouched DEF Held
<1>9. ASSUME NEW s \in Reqs, NEW x \in Reqs, Before(s, x) PROVE Ahead(s, x)'
  <2>1. Ahead(s, x)
    BY <1>9 DEF OrderInv
  <2>2. CASE s = r
    BY Zenon, <1>5, <2>2 DEF Ahead
  <2>3. CASE s # r /\ x = r
    <3>1. place'[s] \notin {"subChan", "receiver", "thread"} /\ place'[x] # "queue"
      BY Zenon, <1>4, <1>5, <1>6, <2>1, <2>3 DEF Ahead
    <3> QED BY Zenon, <3>1 DEF Ahead
  <2>4. CASE s # r /\ x # r
    <3>1. place'[s] = place[s] /\ place'[x] = place[x]
      BY <1>5, <2>4
    <3> QED BY Zenon, <1>2, <2>1, <3>1, Untouched DEF Ahead
  <2> QED BY <2>2, <2>3, <2>4
<1> QED BY <1>7, <1>8, <1>9 DEF OrderInv

\* It submits a request, which is then last in its queue.
LEMMA OrderSubmit ==
  ASSUME PlaceInv, OrderInv, NEW T, Threads = {T}, SubmitToPool(T)
  PROVE  OrderInv'
<1> DEFINE r == requests[T]
           w == Share[r]
<1>1. PlaceType /\ ThreadOK /\ QueueOK
  BY DEF PlaceInv
<1>2. /\ thread[T] = "process" /\ r \in Pooled /\ Move(r, "queue") /\ T \in Threads
      /\ queue' = [queue EXCEPT ![w] = Append(@, r)]
      /\ UNCHANGED <<subChan, arrived, receiver, current>>
  BY Zenon DEF SubmitToPool, recvVars
<1>3. r \in Reqs /\ place[r] = "thread" /\ w \in Shares
  BY Zenon, <1>1, <1>2 DEF ThreadOK, Shares, Pooled
<1>4. place'[r] = "queue" /\ \A x \in Reqs \ {r} : place'[x] = place[x]
  BY <1>1, <1>2, <1>3 DEF PlaceType, Move
<1>5. \A x \in Reqs : place[x] = "thread" => x = r
  BY Zenon DEF OrderInv, Held, InThread
<1>6. queue'[w] = Append(queue[w], r) /\ \A u \in Shares \ {w} : queue'[u] = queue[u]
  BY Zenon, <1>1, <1>2, <1>3 DEF PlaceType
<1>7. queue[w] \in Seq(Reqs)
  BY <1>1, <1>3 DEF PlaceType
<1>8. /\ Len(queue[w]) \in Nat /\ Len(queue'[w]) = Len(queue[w]) + 1
      /\ queue'[w][Len(queue[w]) + 1] = r
      /\ \A k \in 1..Len(queue[w]) : queue'[w][k] = queue[w][k]
  <2> DEFINE q == queue[w]
             p == queue'[w]
  <2>1. r \in Reqs /\ q \in Seq(Reqs) /\ p = Append(q, r)
    BY Zenon, <1>3, <1>6, <1>7
  <2> HIDE DEF q, p
  <2>2. Len(q) \in Nat /\ Len(p) = Len(q) + 1 /\ p[Len(q) + 1] = r /\ \A k \in 1..Len(q) : p[k] = q[k]
    BY <2>1, Submitted
  <2> QED BY Zenon, <2>2 DEF q, p
<1>9. \A k \in 1..Len(queue[w]) : queue[w][k] # r
  BY Zenon, <1>1, <1>3 DEF QueueOK
<1>10. /\ Len(queue[w]) + 1 \in 1..Len(queue'[w])
       /\ \A k \in 1..Len(queue[w]) : k \in 1..Len(queue'[w])
       /\ \A k \in 1..Len(queue'[w]) : k \in 1..Len(queue[w]) \/ k = Len(queue[w]) + 1
  BY Zenon, <1>8, OneMore
<1>11. ASSUME NEW u \in Shares, NEW k \in 1..Len(queue'[u]), queue'[u][k] # r
       PROVE  k \in 1..Len(queue[u]) /\ queue[u][k] = queue'[u][k]
  <2>1. CASE u # w
    BY Zenon, <1>6, <2>1
  <2>2. CASE u = w
    <3>1. k \in 1..Len(queue[w])
      BY Zenon, <1>8, <1>10, <1>11, <2>2
    <3> QED BY Zenon, <1>8, <2>2, <3>1
  <2> QED BY Zenon, <2>1, <2>2
<1>12. ArrivedOK' /\ \A s, x : Before(s, x)' <=> Before(s, x)
  BY Zenon, <1>2, <1>4, ArrivedKept DEF OrderInv
<1>13. ASSUME NEW x \in Reqs PROVE Held(x)'
  <2>1. Held(x)
    BY DEF OrderInv
  <2>2. ASSUME x = r PROVE InQueue(x)'
    <3>1. \E k \in 1..Len(queue'[w]) : queue'[w][k] = r
      BY Zenon, <1>8, <1>10
    <3> QED BY Zenon, <1>2, <2>2, <3>1 DEF InQueue
  <2>3. ASSUME InQueue(x) PROVE InQueue(x)'
    <3>1. x \in Pooled /\ Share[x] \in Shares
      BY <2>3 DEF InQueue, Shares, Pooled
    <3>2. PICK k \in 1..Len(queue[Share[x]]) : queue[Share[x]][k] = x
      BY <2>3 DEF InQueue
    <3>3. k \in 1..Len(queue'[Share[x]]) /\ queue'[Share[x]][k] = x
      BY Zenon, <1>6, <1>8, <1>10, <3>1, <3>2
    <3> QED BY Zenon, <3>1, <3>3 DEF InQueue
  <2>4. CASE x = r
    BY Zenon, <1>4, <2>2, <2>4 DEF Held
  <2>5. CASE x # r
    BY Zenon, <1>2, <1>4, <1>5, <2>1, <2>3, <2>5, Untouched DEF Held
  <2> QED BY <2>4, <2>5
<1>14. ASSUME NEW s \in Reqs, NEW x \in Reqs, Before(s, x) PROVE Ahead(s, x)'
  <2>1. Ahead(s, x)
    BY <1>14 DEF OrderInv
  <2>2. CASE s = r
    <3>1. place'[x] \in {"subChan", "receiver", "dropped"}
      BY Zenon, <1>3, <1>4, <2>1, <2>2 DEF Ahead
    <3> QED BY Zenon, <1>4, <2>2, <3>1 DEF Ahead
  <2>3. CASE s # r /\ x = r
    <3>1. place'[s] \notin {"subChan", "receiver", "thread"}
      BY Zenon, <1>3, <1>4, <1>5, <2>1, <2>3 DEF Ahead
    <3>2. ASSUME NEW j \in 1..Len(queue'[w]), NEW k \in 1..Len(queue'[w]),
                 queue'[w][j] = s, queue'[w][k] = r
          PROVE  j < k
      <4>1. k = Len(queue[w]) + 1
        BY Zenon, <1>8, <1>9, <1>10, <3>2
      <4>2. j \in 1..Len(queue[w])
        BY Zenon, <1>8, <1>10, <2>3, <3>2
      <4> QED BY Zenon, <1>8, <4>1, <4>2, OneMore
    <3>3. FirstInQueue(s, x)'
      BY Zenon, <2>3, <3>2 DEF FirstInQueue
    <3> QED BY Zenon, <3>1, <3>3 DEF Ahead
  <2>4. CASE s # r /\ x # r
    <3>1. place'[s] = place[s] /\ place'[x] = place[x]
      BY <1>4, <2>4
    <3>2. ASSUME place[x] = "queue", FirstInQueue(s, x) PROVE FirstInQueue(s, x)'
      <4>1. Share[x] \in Shares
        BY Zenon, <3>2 DEF OrderInv, Held, InQueue, Shares, Pooled
      <4>2. ASSUME NEW j \in 1..Len(queue'[Share[x]]), NEW k \in 1..Len(queue'[Share[x]]),
                   queue'[Share[x]][j] = s, queue'[Share[x]][k] = x
            PROVE  j < k
        <5>1. j \in 1..Len(queue[Share[x]]) /\ queue[Share[x]][j] = s
          BY Zenon, <1>11, <2>4, <4>1, <4>2
        <5>2. k \in 1..Len(queue[Share[x]]) /\ queue[Share[x]][k] = x
          BY Zenon, <1>11, <2>4, <4>1, <4>2
        <5> QED BY Zenon, <3>2, <5>1, <5>2 DEF FirstInQueue
      <4> QED BY Zenon, <4>2 DEF FirstInQueue
    <3> QED BY Zenon, <1>2, <2>1, <3>1, <3>2, Untouched DEF Ahead
  <2> QED BY <2>2, <2>3, <2>4
<1> QED BY <1>12, <1>13, <1>14 DEF OrderInv

\* The pool takes the first of a queue; no one that waits is ahead of it.
LEMMA OrderPool ==
  ASSUME PlaceInv, OrderInv, NEW w \in Shares, PoolRuns(w)
  PROVE  /\ OrderInv'
         /\ \A s \in Pooled : Share[s] = Share[Head(queue[w])] /\ Before(s, Head(queue[w])) =>
              place[s] \notin {"subChan", "receiver", "thread", "queue"}
<1> DEFINE r == Head(queue[w])
<1>1. PlaceType /\ QueueOK
  BY DEF PlaceInv
<1>2. /\ queue[w] # <<>> /\ Move(r, "process") /\ queue' = [queue EXCEPT ![w] = Tail(@)]
      /\ UNCHANGED <<subChan, arrived, receiver, current, thread, requests>>
  BY DEF PoolRuns, recvVars, threadVars
<1>3. r \in Pooled /\ r \in Reqs /\ place[r] = "queue"
  BY PoolStep DEF Pooled
<1>4. queue[w] \in Seq(Reqs)
  BY <1>1 DEF PlaceType
<1>5. queue'[w] = Tail(queue[w]) /\ \A u \in Shares \ {w} : queue'[u] = queue[u]
  BY <1>1, <1>2 DEF PlaceType
<1>6. /\ r = queue[w][1] /\ Len(queue[w]) \in Nat \ {0} /\ Len(queue'[w]) = Len(queue[w]) - 1
      /\ \A k \in 1..Len(queue'[w]) : queue'[w][k] = queue[w][k + 1]
  <2>1. /\ r = queue[w][1] /\ Len(queue[w]) \in Nat \ {0}
        /\ Len(Tail(queue[w])) = Len(queue[w]) - 1
        /\ \A k \in 1..Len(Tail(queue[w])) : Tail(queue[w])[k] = queue[w][k + 1]
    BY Zenon, <1>2, <1>4, Taken
  <2> QED BY Zenon, <1>5, <2>1
<1>7. /\ 1 \in 1..Len(queue[w])
      /\ \A k \in 1..Len(queue'[w]) : k + 1 \in 1..Len(queue[w])
      /\ \A k \in 1..Len(queue[w]) \ {1} : k - 1 \in 1..Len(queue'[w]) /\ (k - 1) + 1 = k
  BY <1>6
<1>8. Share[r] = w
  BY <1>1, <1>6, <1>7 DEF QueueOK
<1>9. place'[r] = "process" /\ \A x \in Reqs \ {r} : place'[x] = place[x]
  BY <1>1, <1>2, <1>3 DEF PlaceType, Move
<1>10. ArrivedOK' /\ \A s, x : Before(s, x)' <=> Before(s, x)
  BY Zenon, <1>2, <1>9, ArrivedKept DEF OrderInv
<1>11. ASSUME NEW x \in Reqs PROVE Held(x)'
  <2>1. Held(x)
    BY DEF OrderInv
  <2>2. ASSUME InQueue(x), x # r PROVE InQueue(x)'
    <3>1. x \in Pooled /\ Share[x] \in Shares
      BY <2>2 DEF InQueue, Shares, Pooled
    <3>2. PICK k \in 1..Len(queue[Share[x]]) : queue[Share[x]][k] = x
      BY <2>2 DEF InQueue
    <3>3. CASE Share[x] # w
      BY Zenon, <1>5, <3>1, <3>2, <3>3 DEF InQueue
    <3>4. CASE Share[x] = w
      <4>1. k \in 1..Len(queue[w]) \ {1}
        BY Zenon, <1>6, <2>2, <3>2, <3>4
      <4>2. k - 1 \in 1..Len(queue'[w]) /\ queue'[w][k - 1] = x
        BY Zenon, <1>6, <1>7, <3>2, <3>4, <4>1
      <4> QED BY Zenon, <3>1, <3>4, <4>2 DEF InQueue
    <3> QED BY <3>3, <3>4
  <2> QED BY Zenon, <1>2, <1>9, <2>1, <2>2, Untouched DEF Held
<1>12. ASSUME NEW s \in Reqs, Before(s, r) PROVE place[s] \notin {"subChan", "receiver", "thread"}
  <2>1. Ahead(s, r)
    BY <1>3, <1>12 DEF OrderInv
  <2> QED BY Zenon, <1>3, <2>1 DEF Ahead
<1>13. ASSUME NEW s \in Reqs, NEW x \in Reqs, Before(s, x) PROVE Ahead(s, x)'
  <2>1. Ahead(s, x)
    BY <1>13 DEF OrderInv
  <2>2. CASE s = r
    BY Zenon, <1>9, <2>2 DEF Ahead
  <2>3. CASE s # r /\ x = r
    <3>1. place'[s] \notin {"subChan", "receiver", "thread"} /\ place'[x] = "process"
      BY Zenon, <1>9, <1>12, <1>13, <2>3
    <3> QED BY Zenon, <3>1 DEF Ahead
  <2>4. CASE s # r /\ x # r
    <3>1. place'[s] = place[s] /\ place'[x] = place[x]
      BY <1>9, <2>4
    <3>2. ASSUME place[x] = "queue", FirstInQueue(s, x) PROVE FirstInQueue(s, x)'
      <4>1. Share[x] \in Shares
        BY Zenon, <3>2 DEF OrderInv, Held, InQueue, Shares, Pooled
      <4>2. CASE Share[x] # w
        BY Zenon, <1>5, <3>2, <4>1, <4>2 DEF FirstInQueue
      <4>3. CASE Share[x] = w
        <5>1. ASSUME NEW j \in 1..Len(queue'[w]), NEW k \in 1..Len(queue'[w]),
                     queue'[w][j] = s, queue'[w][k] = x
              PROVE  j < k
          <6>1. j + 1 < k + 1
            BY Zenon, <1>6, <1>7, <3>2, <4>3, <5>1 DEF FirstInQueue
          <6> QED BY <6>1
        <5> QED BY Zenon, <4>3, <5>1 DEF FirstInQueue
      <4> QED BY <4>2, <4>3
    <3> QED BY Zenon, <1>2, <2>1, <3>1, <3>2, Untouched DEF Ahead
  <2> QED BY <2>2, <2>3, <2>4
<1>14. ASSUME NEW s \in Pooled, Share[s] = Share[r], Before(s, r), place[s] = "queue" PROVE FALSE
  <2>1. s \in Reqs
    BY DEF Pooled
  <2>2. Ahead(s, r) /\ InQueue(s)
    BY Zenon, <1>3, <1>14, <2>1 DEF OrderInv, Held
  <2>3. PICK k \in 1..Len(queue[w]) : queue[w][k] = s
    BY Zenon, <1>8, <1>14, <2>2 DEF InQueue
  <2>4. FirstInQueue(s, r)
    BY Zenon, <1>3, <1>14, <2>2 DEF Ahead
  <2>5. k < 1
    BY Zenon, <1>6, <1>7, <1>8, <2>3, <2>4 DEF FirstInQueue
  <2> QED BY <2>5
<1>15. ASSUME NEW s \in Pooled, Share[s] = Share[r], Before(s, r)
       PROVE  place[s] \notin {"subChan", "receiver", "thread", "queue"}
  <2>1. s \in Reqs
    BY DEF Pooled
  <2> QED BY Zenon, <1>12, <1>14, <1>15, <2>1
<1> QED BY Zenon, <1>10, <1>11, <1>13, <1>15 DEF OrderInv

\* Every step of a server with one thread keeps the order.
LEMMA OrderStep ==
  ASSUME ServerInv, OrderInv, NEW T, Threads = {T}, [Next]_vars
  PROVE  OrderInv'
<1> USE DEF clientVars, answerVars, recvVars, threadVars, poolVars, connVars
<1>0. PlaceInv /\ PlaceType /\ AnswerOK
  BY DEF ServerInv, PlaceInv
<1>1. ASSUME NEW r \in Reqs, Call(r) PROVE OrderInv'
  <2>1. place[r] = "none"
    BY Zenon, <1>0, <1>1 DEF Call, AnswerOK, Answer
  <2> QED BY <1>0, <1>1, <2>1, OrderOutside DEF Call
<1>2. ASSUME NEW r \in Reqs, ReceiveReply(r) \/ CallTimeout(r) \/ TimePasses(r) PROVE OrderInv'
  BY Zenon, <1>0, <1>2, OrderStays DEF ReceiveReply, CallTimeout, TimePasses
<1>3. ASSUME NEW r \in Reqs, Deliver(r) \/ DeliverToClosed(r) PROVE OrderInv'
  BY <1>0, <1>3, OrderDeliver, OrderCrash
<1>4. ASSUME NEW r \in Reqs, Acquire(r) \/ AcquireFails(r) \/ Release(r) PROVE OrderInv'
  BY Zenon, <1>0, <1>4, OrderOutside DEF Acquire, AcquireFails, Release
<1>5. ASSUME NEW r \in Reqs, processRequest(r) PROVE OrderInv'
  <2>1. PICK q \in {"handler", "respond"} : Move(r, q)
    BY Zenon, <1>5 DEF processRequest
  <2> QED BY Zenon, <1>0, <1>5, <2>1, OrderOutside DEF processRequest
<1>6. ASSUME NEW r \in Reqs, HandlerReturns(r) PROVE OrderInv'
  BY <1>0, <1>6, OrderOutside DEF HandlerReturns
<1>7. ASSUME NEW r \in Reqs, Respond(r) PROVE OrderInv'
  <2>1. PICK q \in {"done", "release"} : Move(r, q)
    BY Zenon, <1>7 DEF Respond
  <2> QED BY Zenon, <1>0, <1>7, <2>1, OrderOutside DEF Respond
<1>8. CASE DrainEnds \/ Shutdown \/ StopReceiver \/ CloseChannels \/ UNCHANGED vars
  BY Zenon, <1>0, <1>8, OrderStays DEF DrainEnds, Shutdown, StopReceiver, CloseChannels, vars
<1>9. CASE Receive
  BY <1>0, <1>9, OrderReceive
<1>10. ASSUME NEW t \in Threads, HandOver(t) \/ BadContext(t) \/ StartGoroutine(t) \/ SubmitToPool(t)
       PROVE  OrderInv'
  <2>1. Threads = {t}
    OBVIOUS
  <2> QED BY <1>0, <1>10, <2>1, OrderHandOver, OrderThread, OrderSubmit
<1>11. ASSUME NEW t \in Threads, ThreadExits(t) PROVE OrderInv'
  BY <1>0, <1>11, OrderStays DEF ThreadExits
<1>12. ASSUME NEW u \in Shares, PoolRuns(u) PROVE OrderInv'
  BY <1>0, <1>12, OrderPool
<1> QED
  BY Zenon, <1>1, <1>2, <1>3, <1>4, <1>5, <1>6, <1>7, <1>8, <1>9, <1>10, <1>11, <1>12
  DEF Next, RequestStep, ReceiverStep, ThreadStep

\* A request with a share ID gets to "process" only from the head of its queue.
LEMMA OnlyThePoolRuns ==
  ASSUME ServerInv, NEW r \in Pooled, place'[r] = "process", place[r] # "process", Next
  PROVE  \E u \in Shares : PoolRuns(u) /\ r = Head(queue[u])
<1>0. PlaceInv /\ place \in [Reqs -> Places] /\ r \in Reqs
  BY Zenon DEF ServerInv, PlaceInv, PlaceType, Pooled
<1>1. ASSUME NEW x \in Reqs, NEW q, Move(x, q), q # "process" PROVE FALSE
  BY <1>0, <1>1 DEF Move
<1>2. ASSUME NEW x, x \notin Reqs, NEW q, Move(x, q) PROVE FALSE
  BY <1>0, <1>2 DEF Move
<1>3. ASSUME NEW x, NEW q, Move(x, q), q # "process" PROVE FALSE
  BY Zenon, <1>1, <1>2, <1>3
<1>4. ASSUME NEW x \in Reqs PROVE ~Acquire(x)
  <2>1. SUFFICES ASSUME Acquire(x) PROVE FALSE
    OBVIOUS
  <2>2. x = r /\ place[x] = "acquire"
    BY <1>0, <2>1 DEF Acquire, Move
  <2> QED BY <2>2 DEF ServerInv, PlaceInv, PathOK
<1>5. ASSUME NEW x \in Reqs PROVE ~DeliverToClosed(x)
  BY <1>0 DEF DeliverToClosed
<1>6. ASSUME place' = place PROVE FALSE
  BY <1>6
<1>7. ASSUME NEW x \in Reqs PROVE ~(Call(x) \/ AcquireFails(x) \/ HandlerReturns(x) \/ Release(x))
  BY Zenon, <1>3 DEF Call, AcquireFails, HandlerReturns, Release
<1>8. ASSUME NEW x \in Reqs PROVE ~(ReceiveReply(x) \/ CallTimeout(x) \/ TimePasses(x))
  BY Zenon, <1>6 DEF ReceiveReply, CallTimeout, TimePasses
<1>9. ASSUME NEW x \in Reqs PROVE ~(Deliver(x) \/ processRequest(x) \/ Respond(x))
  BY Zenon, <1>3 DEF Deliver, processRequest, Respond
<1>10. ~(DrainEnds \/ Shutdown \/ StopReceiver \/ CloseChannels)
  BY <1>6 DEF DrainEnds, Shutdown, StopReceiver, CloseChannels
<1>11. ~Receive
  BY Zenon, <1>3 DEF Receive
<1>12. ASSUME NEW t \in Threads
       PROVE  ~(HandOver(t) \/ ThreadExits(t) \/ BadContext(t) \/ SubmitToPool(t) \/ StartGoroutine(t))
  BY Zenon, <1>3, <1>6 DEF HandOver, ThreadExits, BadContext, SubmitToPool, StartGoroutine
<1>13. PICK u \in Shares : PoolRuns(u)
  BY Zenon, <1>4, <1>5, <1>7, <1>8, <1>9, <1>10, <1>11, <1>12
  DEF Next, RequestStep, ReceiverStep, ThreadStep
<1>14. Move(Head(queue[u]), "process")
  BY Zenon, <1>13 DEF PoolRuns
<1>15. Head(queue[u]) = r
  BY <1>0, <1>14 DEF Move
<1> QED BY <1>13, <1>15

\* With one thread the requests of a share ID are processed in the order of their
\* arrival, for any number of requests, share IDs and sizes of channel and queues.
THEOREM OneThreadKeepsOrder ==
  ASSUME NEW T, Threads = {T}
  PROVE  Spec => SharedInOrder
<1>1. Init => OrderInv
  BY DEF Init, OrderInv, ArrivedOK, Held, Before
<1>2. (ServerInv /\ PermitsInv) /\ OrderInv /\ [Next]_vars => OrderInv'
  BY Zenon, OrderStep
<1>3. (ServerInv /\ PermitsInv) /\ OrderInv /\ [Next]_vars =>
        [\A r, s \in Pooled :
           /\ place'[r] = "process" /\ place[r] # "process"
           /\ Share[r] = Share[s] /\ Before(s, r)
           => place[s] \notin {"subChan", "receiver", "thread", "queue", "acquire"}]_vars
  <2> SUFFICES ASSUME ServerInv, OrderInv, Next, NEW r \in Pooled, NEW s \in Pooled,
                      place'[r] = "process", place[r] # "process", Share[r] = Share[s], Before(s, r)
               PROVE  place[s] \notin {"subChan", "receiver", "thread", "queue", "acquire"}
    BY Zenon
  <2>1. PICK u \in Shares : PoolRuns(u) /\ r = Head(queue[u])
    BY Zenon, OnlyThePoolRuns
  <2>2. place[s] \notin {"subChan", "receiver", "thread", "queue"}
    BY Zenon, <2>1, OrderPool DEF ServerInv
  <2>3. place[s] # "acquire"
    BY Zenon DEF ServerInv, PlaceInv, PathOK, Pooled
  <2> QED BY Zenon, <2>2, <2>3
<1> QED BY <1>1, <1>2, <1>3, ServerInvariant, PTL DEF Spec, SharedInOrder

-----------------------------------------------------------------------------
(* The server is a SerialExecutor.  Beside ServerInv this needs that the worker of a *)
(* share ID is busy with the request that is handled, and what a crash leaves.       *)

Active == {"process", "handler", "respond"}

\* The worker of a share ID holds the request that is being handled ...
RunOK ==
  /\ running \in [Shares -> Reqs \cup {NoReq}]
  /\ \A r \in Pooled : place[r] \in Active => running[Share[r]] = r

\* ... and after a crash nobody handles one.
CrashOK ==
  /\ crashed \in BOOLEAN
  /\ crashed => /\ receiver = "stopped" /\ conn = "closed"
                /\ \A t \in Threads : thread[t] = "exit"
                /\ \A u \in Shares : queue[u] = <<>>
                /\ \A r \in Reqs : place[r] \in {"none", "net", "done", "dropped"}

SerialInv == RunOK /\ CrashOK

\* Moves that do not begin or end the handling of a request with a share ID.
LEMMA HandlingKept ==
  ASSUME PlaceType, RunOK, running' = running, NEW r \in Reqs, NEW q, Move(r, q),
         r \in Pooled => (place[r] \in Active <=> q \in Active)
  PROVE  RunOK' /\ \A u \in Shares : Handling(u)' = Handling(u)
<1>1. place'[r] = q /\ \A x \in Reqs \ {r} : place'[x] = place[x]
  BY DEF PlaceType, Move
<1>2. \A x \in Pooled : x \in Reqs /\ (place'[x] \in Active <=> place[x] \in Active)
  BY <1>1 DEF Pooled
<1>3. RunOK'
  BY <1>2 DEF RunOK
<1>4. ASSUME NEW u \in Shares PROVE Handling(u)' = Handling(u)
  BY <1>2 DEF Handling, Active
<1> QED BY <1>3, <1>4

\* Steps that move no request.
LEMMA HandlingStays ==
  ASSUME RunOK, running' = running, place' = place
  PROVE  RunOK' /\ \A u \in Shares : Handling(u)' = Handling(u)
  BY DEF RunOK, Handling

\* What the server does with a request, as the pool sees it.
PoolStutters == queue' = queue /\ crashed' = crashed /\ \A u \in Shares : Handling(u)' = Handling(u)

\* The worker of a share ID begins with the first request of its queue.
LEMMA PoolBegins ==
  ASSUME PlaceInv, SerialInv, NEW w \in Shares, PoolRuns(w)
  PROVE  RunOK' /\ ~crashed /\ Pool!Begin(w)
<1> DEFINE r == Head(queue[w])
<1>1. PlaceType /\ RunOK
  BY DEF PlaceInv, SerialInv
<1>2. /\ running[w] = NoReq /\ queue[w] # <<>> /\ running' = [running EXCEPT ![w] = r]
      /\ queue' = [queue EXCEPT ![w] = Tail(@)] /\ Move(r, "process") /\ crashed' = crashed
  BY DEF PoolRuns, connVars
<1>3. r \in Reqs /\ r \in Pooled /\ place[r] = "queue"
  BY PoolStep DEF Pooled
<1>4. Share[r] = w
  BY <1>1, <1>2 DEF PlaceInv, PlaceType, QueueOK
<1>5. place'[r] = "process" /\ \A x \in Reqs \ {r} : place'[x] = place[x]
  BY <1>1, <1>2, <1>3 DEF PlaceType, Move
<1>6. NoReq \notin Reqs
  BY ServerAssumption
<1>7. \A x \in Pooled : x \in Reqs /\ (Share[x] = w => place[x] \notin Active)
  BY Zenon, <1>1, <1>2, <1>6 DEF RunOK, Pooled
<1>8. running' \in [Shares -> Reqs \cup {NoReq}] /\ running'[w] = r
      /\ \A u \in Shares \ {w} : running'[u] = running[u]
  BY Zenon, <1>1, <1>2, <1>3 DEF RunOK
<1>9. ASSUME NEW x \in Pooled, place'[x] \in Active PROVE running'[Share[x]] = x
  <2>1. Share[x] \in Shares
    BY Zenon DEF Shares, Pooled
  <2>2. CASE x = r
    BY <1>4, <1>8, <2>2
  <2>3. CASE x # r
    <3>1. place[x] \in Active /\ Share[x] # w
      BY <1>5, <1>7, <1>9, <2>3
    <3> QED BY Zenon, <1>1, <1>8, <2>1, <3>1 DEF RunOK
  <2> QED BY Zenon, <2>2, <2>3
<1>10. RunOK'
  BY <1>8, <1>9 DEF RunOK
<1>11. ~crashed
  BY <1>2 DEF SerialInv, CrashOK
<1>12. Handling(w) = {}
  BY <1>7 DEF Handling, Active
<1>13. Handling(w)' = {r}
  BY <1>3, <1>4, <1>5, <1>7 DEF Handling, Active
<1>14. ASSUME NEW u \in Shares \ {w} PROVE Handling(u)' = Handling(u)
  BY <1>4, <1>5, <1>7 DEF Handling
<1>15. [u \in Shares |-> Handling(u)]' = [[u \in Shares |-> Handling(u)] EXCEPT ![w] = {Head(queue[w])}]
  BY Zenon, <1>13, <1>14
<1> QED BY <1>2, <1>10, <1>11, <1>12, <1>15 DEF Pool!Begin

\* The response to a request with a share ID ends its task.
LEMMA PoolEnds ==
  ASSUME PlaceInv, SerialInv, NEW r \in Pooled, Respond(r)
  PROVE  RunOK' /\ \E w \in Shares : Pool!End(w)
<1> DEFINE w == Share[r]
<1>1. PlaceType /\ RunOK /\ r \in Reqs /\ w \in Shares
  BY DEF PlaceInv, SerialInv, Pooled, Shares
<1>2. /\ place[r] = "respond" /\ running' = [running EXCEPT ![w] = NoReq]
      /\ Move(r, "done") /\ queue' = queue /\ crashed' = crashed
  BY Zenon DEF Respond, connVars
<1>3. place'[r] = "done" /\ \A x \in Reqs \ {r} : place'[x] = place[x]
  BY Zenon, <1>1, <1>2 DEF PlaceType, Move
<1>4. \A x \in Pooled : x \in Reqs /\ (place[x] \in Active /\ Share[x] = w => x = r)
  BY Zenon, <1>1, <1>2 DEF RunOK, Pooled, Active
<1>5. running' \in [Shares -> Reqs \cup {NoReq}] /\ \A u \in Shares \ {w} : running'[u] = running[u]
  BY Zenon, <1>1, <1>2 DEF RunOK
<1>6. ASSUME NEW x \in Pooled, place'[x] \in Active PROVE running'[Share[x]] = x
  <2>1. Share[x] \in Shares /\ x # r
    BY <1>3, <1>6 DEF Shares, Pooled, Active
  <2>2. place[x] \in Active /\ Share[x] # w
    BY <1>3, <1>4, <1>6, <2>1
  <2> QED BY Zenon, <1>1, <1>5, <2>1, <2>2 DEF RunOK
<1>7. RunOK'
  BY Zenon, <1>5, <1>6 DEF RunOK
<1>8. ~crashed
  BY Zenon, <1>1, <1>2 DEF SerialInv, CrashOK
<1>9. r \in Handling(w)
  BY Zenon, <1>2 DEF Handling
<1>10. Handling(w)' = {}
  BY <1>3, <1>4 DEF Handling, Active
<1>11. ASSUME NEW u \in Shares \ {w} PROVE Handling(u)' = Handling(u)
  BY <1>3, <1>4 DEF Handling
<1>12. [u \in Shares |-> Handling(u)]' = [[u \in Shares |-> Handling(u)] EXCEPT ![w] = {}]
  BY Zenon, <1>10, <1>11
<1>13. Pool!End(w)
  BY Zenon, <1>1, <1>2, <1>8, <1>9, <1>12 DEF Pool!End
<1> QED BY <1>1, <1>7, <1>13

\* A crash ends all tasks, waiting or running.
LEMMA PoolCrashes ==
  ASSUME PlaceInv, SerialInv, NEW r \in Reqs, DeliverToClosed(r)
  PROVE  SerialInv' /\ Pool!Crash
<1>1. /\ conn = "draining" /\ crashed' = TRUE /\ conn' = "closed" /\ receiver' = "stopped"
      /\ thread' = [t \in Threads |-> "exit"]
      /\ queue' = [u \in Shares |-> <<>>] /\ running' = [u \in Shares |-> NoReq]
  BY DEF DeliverToClosed, recvVars
<1>2. \A x \in Reqs : place'[x] \in {"none", "net", "done", "dropped"}
  BY DEF DeliverToClosed
<1>3. RunOK'
  BY Zenon, <1>1, <1>2 DEF RunOK, Pooled, Active
<1>4. CrashOK'
  BY <1>1, <1>2 DEF CrashOK
<1>5. crashed = FALSE
  BY Zenon, <1>1 DEF SerialInv, CrashOK
<1>6. ASSUME NEW u \in Shares PROVE Handling(u)' = {}
  BY Zenon, <1>2 DEF Handling, Pooled
<1>7. [u \in Shares |-> Handling(u)]' = [u \in Shares |-> {}]
  BY <1>6
<1> QED BY <1>1, <1>3, <1>4, <1>5, <1>7 DEF SerialInv, Pool!Crash

\* A thread's call of Submit appends a task.
LEMMA PoolSubmits ==
  ASSUME PlaceInv, SerialInv, NEW t \in Threads, SubmitToPool(t)
  PROVE  RunOK' /\ \E w \in Shares : \E x \in Pooled : Pool!Submit(w, x)
<1> DEFINE r == requests[t]
           w == Share[r]
<1>1. PlaceType /\ RunOK
  BY DEF PlaceInv, SerialInv
<1>2. /\ thread[t] = "process" /\ r \in Pooled /\ queue' = [queue EXCEPT ![w] = Append(@, r)]
      /\ Move(r, "queue") /\ running' = running /\ crashed' = crashed
  BY Zenon DEF SubmitToPool, connVars
<1>3. r \in Reqs /\ w \in Shares /\ place[r] = "thread"
  BY Zenon, <1>2 DEF PlaceInv, ThreadOK, Pooled, Shares
<1>4. RunOK' /\ \A u \in Shares : Handling(u)' = Handling(u)
  BY Zenon, <1>1, <1>2, <1>3, HandlingKept DEF Active
<1>5. crashed = FALSE
  BY Zenon, <1>2 DEF SerialInv, CrashOK
<1>6. [u \in Shares |-> Handling(u)]' = [u \in Shares |-> Handling(u)]
  BY <1>4
<1>7. Pool!Submit(w, r)
  BY Zenon, <1>2, <1>5, <1>6 DEF Pool!Submit
<1> QED BY Zenon, <1>2, <1>3, <1>4, <1>7

\* Nothing handles a request after a crash.
LEMMA CrashKept ==
  ASSUME PlaceInv, SerialInv, Next, crashed' = crashed
  PROVE  CrashOK'
<1>1. CASE ~crashed
  BY Zenon, <1>1 DEF SerialInv, CrashOK
<1>2. CASE crashed
  <2>1. /\ receiver = "stopped" /\ conn = "closed" /\ \A t \in Threads : thread[t] = "exit"
        /\ \A u \in Shares : queue[u] = <<>> /\ PlaceType
        /\ \A r \in Reqs : place[r] \in {"none", "net", "done", "dropped"}
    BY Zenon, <1>2 DEF SerialInv, CrashOK, PlaceInv
  <2>2. ASSUME NEW r \in Reqs, NEW q \in {"net", "dropped"}, Move(r, q), receiver' = receiver,
               conn' = conn, thread' = thread, queue' = queue
        PROVE  CrashOK'
    <3>1. \A x \in Reqs : place'[x] \in {"none", "net", "done", "dropped"}
      BY <2>1, <2>2 DEF PlaceType, Move
    <3> QED BY Zenon, <1>2, <2>1, <2>2, <3>1 DEF CrashOK
  <2>3. ASSUME place' = place, receiver' = receiver, conn' = conn, thread' = thread, queue' = queue
        PROVE  CrashOK'
    BY <1>2, <2>1, <2>3 DEF CrashOK
  <2>4. ASSUME NEW r \in Reqs, Call(r) PROVE CrashOK'
    BY Zenon, <2>2, <2>4 DEF Call, recvVars, threadVars, poolVars, connVars
  <2>5. ASSUME NEW r \in Reqs, Deliver(r) PROVE CrashOK'
    <3>1. Move(r, "dropped")
      BY Zenon, <2>1, <2>5 DEF Deliver
    <3> QED BY Zenon, <2>2, <2>5, <3>1 DEF Deliver, threadVars, poolVars, connVars
  <2>6. ASSUME NEW r \in Reqs, ReceiveReply(r) \/ CallTimeout(r) \/ TimePasses(r) PROVE CrashOK'
    BY Zenon, <2>3, <2>6
    DEF ReceiveReply, CallTimeout, TimePasses, recvVars, threadVars, poolVars, connVars
  <2>7. ASSUME NEW r \in Reqs PROVE ~DeliverToClosed(r) /\ ~RequestStep(r)
    BY Zenon, <2>1 DEF DeliverToClosed, RequestStep, Acquire, AcquireFails, processRequest, HandlerReturns,
                Respond, Release
  <2>8. CASE Shutdown
    BY Zenon, <2>3, <2>8 DEF Shutdown, recvVars, threadVars, poolVars
  <2>9. ~DrainEnds /\ ~ReceiverStep
    BY Zenon, <2>1 DEF DrainEnds, ReceiverStep, Receive, StopReceiver, CloseChannels
  <2>10. ASSUME NEW t \in Threads PROVE ~ThreadStep(t)
    BY Zenon, <2>1 DEF ThreadStep, HandOver, ThreadExits, BadContext, SubmitToPool, StartGoroutine
  <2>11. ASSUME NEW u \in Shares PROVE ~PoolRuns(u)
    BY <2>1 DEF PoolRuns
  <2> QED BY Zenon, <2>4, <2>5, <2>6, <2>7, <2>8, <2>9, <2>10, <2>11 DEF Next
<1> QED BY <1>1, <1>2

\* The steps the pool does not see.
LEMMA PoolUnaware ==
  ASSUME RunOK, PlaceType, running' = running, queue' = queue, crashed' = crashed,
         \/ place' = place
         \/ \E r \in Reqs : \E q : Move(r, q) /\ (r \in Pooled => (place[r] \in Active <=> q \in Active))
  PROVE  RunOK' /\ PoolStutters
  BY Zenon, HandlingKept, HandlingStays DEF PoolStutters

\* Each step of the server is a step of the SerialExecutor or one it does not see.
LEMMA SerialStep ==
  ASSUME ServerInv, SerialInv, Next
  PROVE  RunOK' /\ ((crashed' = crashed /\ Pool!Next) \/ PoolStutters \/ (CrashOK' /\ Pool!Next))
<1> DEFINE Unseen == RunOK' /\ PoolStutters
<1>0. PlaceInv /\ PlaceType /\ RunOK
  BY DEF ServerInv, PlaceInv, SerialInv
<1>1. ASSUME NEW r \in Reqs, NEW q, Move(r, q), running' = running, queue' = queue, crashed' = crashed,
             r \in Pooled => (place[r] \in Active <=> q \in Active)
      PROVE  Unseen
  BY Zenon, <1>0, <1>1, PoolUnaware
<1>2. ASSUME place' = place, running' = running, queue' = queue, crashed' = crashed PROVE Unseen
  BY Zenon, <1>0, <1>2, PoolUnaware
<1>3. ASSUME NEW r \in Reqs, Call(r) PROVE Unseen
  <2>1. place[r] = "none"
    BY Zenon, <1>3 DEF Call, ServerInv, AnswerOK, Answer
  <2>2. Move(r, "net") /\ running' = running /\ queue' = queue /\ crashed' = crashed
    BY Zenon, <1>3 DEF Call, poolVars, connVars
  <2> QED BY <1>1, <2>1, <2>2 DEF Active
<1>4. ASSUME NEW r \in Reqs, ReceiveReply(r) \/ CallTimeout(r) \/ TimePasses(r) PROVE Unseen
  BY Zenon, <1>2, <1>4 DEF ReceiveReply, CallTimeout, TimePasses, poolVars, connVars
<1>5. ASSUME NEW r \in Reqs, Deliver(r) PROVE Unseen
  <2>1. PICK q \in {"subChan", "dropped"} : Move(r, q)
    BY Zenon, <1>5 DEF Deliver
  <2>2. place[r] = "net" /\ running' = running /\ queue' = queue /\ crashed' = crashed
    BY Zenon, <1>5 DEF Deliver, poolVars, connVars
  <2> QED BY <1>1, <2>1, <2>2 DEF Active
<1>6. ASSUME NEW r \in Reqs, Acquire(r) \/ AcquireFails(r) \/ Release(r) PROVE Unseen
  <2>1. PICK q : Move(r, q)
    BY Zenon, <1>6 DEF Acquire, AcquireFails, Release
  <2>2. place[r] \in {"acquire", "release"} /\ running' = running /\ queue' = queue /\ crashed' = crashed
    BY Zenon, <1>6 DEF Acquire, AcquireFails, Release, poolVars, connVars
  <2>3. r \notin Pooled
    BY <2>2 DEF ServerInv, PlaceInv, PathOK
  <2> QED BY Zenon, <1>1, <2>1, <2>2, <2>3
<1>7. ASSUME NEW r \in Reqs, processRequest(r) \/ HandlerReturns(r) PROVE Unseen
  <2>1. PICK q \in {"handler", "respond"} : Move(r, q)
    BY Zenon, <1>7 DEF processRequest, HandlerReturns
  <2>2. place[r] \in {"process", "handler"} /\ running' = running /\ queue' = queue /\ crashed' = crashed
    BY Zenon, <1>7 DEF processRequest, HandlerReturns, poolVars, connVars
  <2> QED BY <1>1, <2>1, <2>2 DEF Active
<1>8. ASSUME NEW r \in Reqs \ Pooled, Respond(r) PROVE Unseen
  BY Zenon, <1>1, <1>8 DEF Respond, connVars
<1>9. ASSUME NEW r \in Pooled, Respond(r) PROVE RunOK' /\ crashed' = crashed /\ Pool!Next
  <2>1. crashed' = crashed
    BY <1>9 DEF Respond, connVars
  <2> QED BY Zenon, <1>0, <1>9, <2>1, PoolEnds DEF Pool!Next
<1>10. ASSUME NEW r \in Reqs, DeliverToClosed(r) PROVE RunOK' /\ CrashOK' /\ Pool!Next
  BY Zenon, <1>0, <1>10, PoolCrashes DEF Pool!Next, SerialInv
<1>11. CASE DrainEnds \/ Shutdown \/ StopReceiver \/ CloseChannels
  BY <1>2, <1>11 DEF DrainEnds, Shutdown, StopReceiver, CloseChannels, poolVars, connVars
<1>12. CASE Receive
  <2>1. Head(subChan) \in Reqs /\ place[Head(subChan)] = "subChan"
    BY <1>0, <1>12, ReceiveStep
  <2>2. PICK q \in {"receiver", "dropped"} : Move(Head(subChan), q)
    BY Zenon, <1>12 DEF Receive
  <2>3. running' = running /\ queue' = queue /\ crashed' = crashed
    BY Zenon, <1>12 DEF Receive, poolVars, connVars
  <2> QED BY <1>1, <2>1, <2>2, <2>3 DEF Active
<1>13. ASSUME NEW t \in Threads, HandOver(t) PROVE Unseen
  <2>1. current \in Reqs /\ place[current] = "receiver"
    BY <1>0, <1>13 DEF HandOver, PlaceInv, RecvOK
  <2>2. Move(current, "thread") /\ running' = running /\ queue' = queue /\ crashed' = crashed
    BY Zenon, <1>13 DEF HandOver, poolVars, connVars
  <2> QED BY <1>1, <2>1, <2>2 DEF Active
<1>14. ASSUME NEW t \in Threads, ThreadExits(t) PROVE Unseen
  BY Zenon, <1>2, <1>14 DEF ThreadExits, poolVars, connVars
<1>15. ASSUME NEW t \in Threads, BadContext(t) \/ StartGoroutine(t) PROVE Unseen
  <2>1. requests[t] \in Reqs /\ place[requests[t]] = "thread"
    BY Zenon, <1>0, <1>15 DEF BadContext, StartGoroutine, PlaceInv, ThreadOK
  <2>2. PICK q \in {"done", "acquire"} : Move(requests[t], q)
    BY Zenon, <1>15 DEF BadContext, StartGoroutine
  <2>3. running' = running /\ queue' = queue /\ crashed' = crashed
    BY Zenon, <1>15 DEF BadContext, StartGoroutine, poolVars, connVars
  <2> QED BY Zenon, <1>1, <2>1, <2>2, <2>3 DEF Active
<1>16. ASSUME NEW t \in Threads, SubmitToPool(t) PROVE RunOK' /\ crashed' = crashed /\ Pool!Next
  <2>1. crashed' = crashed
    BY Zenon, <1>16 DEF SubmitToPool, connVars
  <2> QED BY Zenon, <1>0, <1>16, <2>1, PoolSubmits DEF Pool!Next
<1>17. ASSUME NEW u \in Shares, PoolRuns(u) PROVE RunOK' /\ crashed' = crashed /\ Pool!Next
  <2>1. crashed' = crashed
    BY <1>17 DEF PoolRuns, connVars
  <2> QED BY Zenon, <1>0, <1>17, <2>1, PoolBegins DEF Pool!Next
<1>18. ASSUME NEW r \in Reqs, Respond(r)
       PROVE  Unseen \/ (RunOK' /\ crashed' = crashed /\ Pool!Next)
  BY Zenon, <1>8, <1>9, <1>18
<1> QED
  BY Zenon, <1>3, <1>4, <1>5, <1>6, <1>7, <1>10, <1>11, <1>12, <1>13, <1>14, <1>15, <1>16, <1>17, <1>18
  DEF Next, RequestStep, ReceiverStep, ThreadStep

\* From Submit to the response the server implements the SerialExecutor, for any number
\* of threads, requests and share IDs and through a shutdown that ends in a panic.
THEOREM HandlesSerially == Spec => HandledSerially
<1>1. Init => SerialInv /\ Pool!Init
  <2> SUFFICES ASSUME Init PROVE SerialInv /\ Pool!Init
    OBVIOUS
  <2>1. SerialInv
    BY Zenon DEF Init, SerialInv, RunOK, CrashOK, Pooled, Active
  <2>2. ASSUME NEW u \in Shares PROVE Handling(u) = {}
    BY DEF Init, Handling, Pooled
  <2>3. [u \in Shares |-> Handling(u)] = [u \in Shares |-> {}]
    BY <2>2
  <2> QED BY <2>1, <2>3 DEF Init, Pool!Init
<1>2. (ServerInv /\ PermitsInv) /\ SerialInv /\ [Next]_vars =>
        SerialInv' /\ [Pool!Next]_<<queue, [u \in Shares |-> Handling(u)], ~crashed>>
  <2> SUFFICES ASSUME ServerInv, SerialInv, [Next]_vars
               PROVE  /\ SerialInv'
                      /\ [Pool!Next]_<<queue, [u \in Shares |-> Handling(u)], ~crashed>>
    OBVIOUS
  <2>0. PoolStutters => UNCHANGED <<queue, [u \in Shares |-> Handling(u)], ~crashed>>
    BY DEF PoolStutters
  <2>1. CASE Next
    <3>1. RunOK' /\ ((crashed' = crashed /\ Pool!Next) \/ PoolStutters \/ (CrashOK' /\ Pool!Next))
      BY Zenon, <2>1, SerialStep
    <3>2. PoolStutters => crashed' = crashed
      BY Zenon DEF PoolStutters
    <3>3. crashed' = crashed => CrashOK'
      BY Zenon, <2>1, CrashKept DEF ServerInv
    <3> QED BY Zenon, <2>0, <3>1, <3>2, <3>3 DEF SerialInv
  <2>2. CASE UNCHANGED vars
    <3>1. /\ place' = place /\ running' = running /\ queue' = queue /\ crashed' = crashed
          /\ receiver' = receiver /\ conn' = conn /\ thread' = thread
      BY Zenon, <2>2 DEF vars, recvVars, threadVars, poolVars, connVars
    <3>2. RunOK' /\ PoolStutters
      BY Zenon, <3>1, PoolUnaware DEF SerialInv, ServerInv, PlaceInv
    <3>3. CrashOK'
      BY <3>1 DEF SerialInv, CrashOK
    <3> QED BY Zenon, <2>0, <3>2, <3>3 DEF SerialInv
  <2> QED BY <2>1, <2>2
<1> QED BY <1>1, <1>2, ServerInvariant, PTL DEF Spec, HandledSerially, Pool!Spec
=============================================================================
