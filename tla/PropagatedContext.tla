------------------------- MODULE PropagatedContext --------------------------
(***************************************************************************)
(* The values that travel with a call: context/context.go, the Call of     *)
(* cluster/nats_rpc_client.go that fills them in, and the server side that *)
(* reads them back (util.GetContextFromRequest, parseRequestTimeout and    *)
(* processRequest of cluster/nats_rpc_server.go).                          *)
(*                                                                         *)
(* A context holds a Go map, and contexts derived from one another hold    *)
(* the same map: Call writes into it in place and without a lock.  A map   *)
(* is named by the call whose request it was decoded from, for the context *)
(* a handler gets, or is a map of the application.  Time is discrete; the  *)
(* clock of the server that handles call c is Skew[c] ahead of the clock   *)
(* that stamped the start of c.                                            *)
(***************************************************************************)
EXTENDS Integers

CONSTANTS
  Calls,       \* calls, each made at most once
  AppMaps,     \* maps in the contexts the application makes calls with
  MapOf,       \* the map in the context of each call: of AppMaps, or the call
               \* in whose handler it is made
  ReqTimeout,  \* ns.reqTimeout of the client that makes each call
  Skew,
  None,
  MaxTime      \* bound: ticks of the clock

ASSUME ContextAssumption ==
  /\ Calls \cap AppMaps = {} /\ None \notin Calls \cup AppMaps
  /\ MapOf \in [Calls -> Calls \cup AppMaps] /\ \A c \in Calls : MapOf[c] # c
  /\ ReqTimeout \in [Calls -> Nat \ {0}]
  /\ \A c, d \in Calls : MapOf[c] = MapOf[d] => ReqTimeout[c] = ReqTimeout[d]
  /\ Skew \in [Calls -> Int] /\ MaxTime \in Nat \ {0}

\* "0" of configure is refused; it stands for a key that is not in the map here.
Timeouts == {ReqTimeout[c] : c \in Calls}

\* Two clocks differ by less than half of every timeout.
ClocksAgree == \A c, d \in Calls : -ReqTimeout[d] < 2 * Skew[c]

VARIABLES
  now,     \* the time, from 1
  map,     \* content of each map: the keys Call and the server use
  client,  \* where each call is, or its result
  sentAt,  \* when its request was sent
  meta,    \* the metadata of its request
  srv      \* where its request is on the server, or its response

vars == <<now, map, client, sentAt, meta, srv>>

Values == [route : Calls \cup {None}, id : Calls \cup {None},
           timeout : Timeouts \cup {0}, start : 0..MaxTime]
Empty == [route |-> None, id |-> None, timeout |-> 0, start |-> 0]

\* The places of a call between its first and its last use of its map.
Using == {"route", "id", "setID", "timeout", "setTimeout", "start", "setStart", "encode"}

-----------------------------------------------------------------------------
(* Call *)

\* A handler makes calls with its own context while it runs.
StartCall(c) ==
  /\ client[c] = "idle"
  /\ MapOf[c] \in Calls => srv[MapOf[c]] = "handler"
  /\ client' = [client EXCEPT ![c] = "route"]
  /\ UNCHANGED <<now, map, sentAt, meta, srv>>

SetRoute(c) ==
  /\ client[c] = "route"
  /\ map' = [map EXCEPT ![MapOf[c]].route = c]
  /\ client' = [client EXCEPT ![c] = "id"]
  /\ UNCHANGED <<now, sentAt, meta, srv>>

\* Each of the next three looks for a key and, in a step of its own, adds it when it
\* was not there.
Check(c, from, present, set, next) ==
  /\ client[c] = from
  /\ client' = [client EXCEPT ![c] = IF present THEN next ELSE set]
  /\ UNCHANGED <<now, map, sentAt, meta, srv>>

CheckRequestID(c) == Check(c, "id", map[MapOf[c]].id # None, "setID", "timeout")

\* Mutant: the new request ID stays in its local variable.
SetRequestIDNowhere(c) ==
  /\ client[c] = "setID"
  /\ client' = [client EXCEPT ![c] = "timeout"]
  /\ UNCHANGED <<now, map, sentAt, meta, srv>>

SetRequestID(c) ==
  /\ client[c] = "setID"
  /\ map' = [map EXCEPT ![MapOf[c]].id = c]
  /\ client' = [client EXCEPT ![c] = "timeout"]
  /\ UNCHANGED <<now, sentAt, meta, srv>>

CheckTimeout(c) == Check(c, "timeout", map[MapOf[c]].timeout # 0, "setTimeout", "start")

SetTimeout(c) ==
  /\ client[c] = "setTimeout"
  /\ map' = [map EXCEPT ![MapOf[c]].timeout = ReqTimeout[c]]
  /\ client' = [client EXCEPT ![c] = "start"]
  /\ UNCHANGED <<now, sentAt, meta, srv>>

\* Mutant: every call is stamped with its own start.
CheckStartAlways(c) == Check(c, "start", FALSE, "setStart", "encode")

CheckStart(c) == Check(c, "start", map[MapOf[c]].start # 0, "setStart", "encode")

SetStart(c) ==
  /\ client[c] = "setStart"
  /\ map' = [map EXCEPT ![MapOf[c]].start = now]
  /\ client' = [client EXCEPT ![c] = "encode"]
  /\ UNCHANGED <<now, sentAt, meta, srv>>

\* buildRequest encodes the map and conn.Request sends it; the caller's timer runs
\* from here.
buildRequest(c) ==
  /\ client[c] = "encode"
  /\ meta' = [meta EXCEPT ![c] = map[MapOf[c]]]
  /\ sentAt' = [sentAt EXCEPT ![c] = now]
  /\ client' = [client EXCEPT ![c] = "wait"]
  /\ srv' = [srv EXCEPT ![c] = "net"]
  /\ UNCHANGED <<now, map>>

ReceiveReply(c) ==
  /\ client[c] = "wait" /\ srv[c] \in {"ok", "refused", "internal"}
  /\ client' = [client EXCEPT ![c] = srv[c]]
  /\ UNCHANGED <<now, map, sentAt, meta, srv>>

Expire(c) ==
  /\ client[c] = "wait" /\ now - sentAt[c] >= meta[c].timeout
  /\ client' = [client EXCEPT ![c] = "expired"]
  /\ UNCHANGED <<now, map, sentAt, meta, srv>>

\* Two goroutines of a process use one map at a time: the runtime may notice it and
\* end the process.  Calls of the application share a process; so do a handler and
\* the calls it makes.
ConcurrentMapAccess(c, d) ==
  /\ c # d /\ MapOf[c] = MapOf[d] /\ {client[c], client[d]} \subseteq Using
  /\ client' = [x \in Calls |->
       IF MapOf[x] = MapOf[c] \/ {MapOf[x], MapOf[c]} \subseteq AppMaps
         THEN "dead" ELSE client[x]]
  /\ srv' = IF MapOf[c] \in Calls THEN [srv EXCEPT ![MapOf[c]] = "dead"] ELSE srv
  /\ UNCHANGED <<now, map, sentAt, meta>>

-----------------------------------------------------------------------------
(* The server *)

Lose(c) ==
  /\ srv[c] = "net"
  /\ srv' = [srv EXCEPT ![c] = "lost"]
  /\ UNCHANGED <<now, map, client, sentAt, meta>>

\* Mutant: the route is the one in the metadata.
GetContextWithoutRoute(c) ==
  [meta[c] EXCEPT !.id = IF @ = None THEN c ELSE @]

\* The metadata with the route of the message and, if there is none, a request ID.
GetContextFromRequest(c) ==
  [meta[c] EXCEPT !.id = IF @ = None THEN c ELSE @, !.route = c]

\* A start time and a timeout must be there.
parseRequestTimeout(c) == meta[c].start # 0 /\ meta[c].timeout # 0

Receive(c) ==
  /\ srv[c] = "net"
  /\ map' = [map EXCEPT ![c] = GetContextFromRequest(c)]
  /\ srv' = [srv EXCEPT ![c] = IF parseRequestTimeout(c) THEN "queued" ELSE "internal"]
  /\ UNCHANGED <<now, client, sentAt, meta>>

\* Mutant: the time that has passed is not checked.
processRequestLate(c) ==
  /\ srv[c] = "queued"
  /\ srv' = [srv EXCEPT ![c] = "handler"]
  /\ UNCHANGED <<now, map, client, sentAt, meta>>

\* Refused when more than half of the timeout is over on the server's clock.
processRequest(c) ==
  /\ srv[c] = "queued"
  /\ srv' = [srv EXCEPT ![c] =
       IF 2 * (now + Skew[c] - meta[c].start) > meta[c].timeout
         THEN "refused" ELSE "handler"]
  /\ UNCHANGED <<now, map, client, sentAt, meta>>

HandlerReturns(c) ==
  /\ srv[c] = "handler"
  /\ srv' = [srv EXCEPT ![c] = "ok"]
  /\ UNCHANGED <<now, map, client, sentAt, meta>>

Tick ==
  /\ now < MaxTime
  /\ now' = now + 1
  /\ UNCHANGED <<map, client, sentAt, meta, srv>>

-----------------------------------------------------------------------------
Init ==
  /\ now = 1
  /\ map = [m \in Calls \cup AppMaps |-> Empty]
  /\ client = [c \in Calls |-> "idle"] /\ sentAt = [c \in Calls |-> 0]
  /\ meta = [c \in Calls |-> Empty] /\ srv = [c \in Calls |-> "none"]

CallStep(c) ==
  \/ StartCall(c) \/ SetRoute(c) \/ CheckRequestID(c) \/ SetRequestID(c)
  \/ CheckTimeout(c) \/ SetTimeout(c) \/ CheckStart(c) \/ SetStart(c)
  \/ buildRequest(c) \/ ReceiveReply(c) \/ Expire(c)
ServerStep(c) == Lose(c) \/ Receive(c) \/ processRequest(c) \/ HandlerReturns(c)

Next ==
  \/ \E c \in Calls : CallStep(c) \/ ServerStep(c)
  \/ \E c, d \in Calls : ConcurrentMapAccess(c, d)
  \/ Tick

Spec == Init /\ [][Next]_vars

-----------------------------------------------------------------------------
(* Properties *)

\* Every variable has its type.
TypeOK ==
  /\ now \in 1..MaxTime
  /\ map \in [Calls \cup AppMaps -> Values] /\ meta \in [Calls -> Values]
  /\ client \in [Calls -> Using \cup {"idle", "wait", "ok", "refused", "internal",
                                    "expired", "dead"}]
  /\ sentAt \in [Calls -> 0..MaxTime]
  /\ srv \in [Calls -> {"none", "net", "lost", "queued", "handler", "ok", "refused",
                        "internal", "dead"}]

\* Whatever other calls do to the map meanwhile, a request leaves with a request ID,
\* a timeout and a start time, so that no server answers it with an internal error.
CompleteMetadata ==
  \A c \in Calls : srv[c] # "none" =>
    meta[c].id # None /\ meta[c].timeout # 0 /\ meta[c].start # 0 /\ srv[c] # "internal"

\* The context a handler starts with names the route of its own message, although a
\* concurrent call may have put its route into the map before it was encoded.
HandlerSeesItsRoute ==
  [][\A c \in Calls : srv[c] # "handler" /\ srv'[c] = "handler" => map'[c].route = c]_vars

\* A handler starts only while its caller still waits for the answer, also for a
\* nested call, for one that finds the start time of an earlier call in its map and
\* when the clocks differ by less than half of the timeout.
StartsWhileCallerWaits ==
  [][\A c \in Calls : srv[c] # "handler" /\ srv'[c] = "handler" =>
       client[c] # "expired"]_vars

\* A call made in a handler carries the request ID, the start time and the timeout of
\* the request that is handled: the deadline of a chain of calls is the one of its
\* first call.
InheritsDeadline ==
  \A c \in Calls : MapOf[c] \in Calls /\ srv[c] # "none" =>
    /\ meta[c].id = meta[MapOf[c]].id
    /\ meta[c].start = meta[MapOf[c]].start
    /\ meta[c].timeout = meta[MapOf[c]].timeout
=============================================================================
