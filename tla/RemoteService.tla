---------------------------- MODULE RemoteService ----------------------------
(***************************************************************************)
(* The way of a call from App.RPC of one server to the handler of another   *)
(* and back: rpc.go, service/remote.go, the router, the hooks and the       *)
(* errors, over a network that loses messages, with servers that crash and  *)
(* views of the cluster that are out of date.  Handlers make calls of their *)
(* own, also back to a server that waits for them.                          *)
(*                                                                         *)
(* Time is left out: a caller may give up, and a server may find a request  *)
(* too old, at any moment.  NatsRPCServer and PropagatedContext have the    *)
(* detail of the server's queues and of the deadlines.                      *)
(***************************************************************************)
EXTENDS Naturals, Sequences, FiniteSets

CONSTANTS
  Servers,
  Types,       \* server types, also ones without a server
  TypeOf,      \* type of a server
  Calls,
  Parent,      \* the call whose handler makes a call, NoCall for one of the application
  Home,        \* the server whose application makes the calls without a parent
  Inputs,      \* per call: the arguments it may be made with
  Share,       \* the share ID in the context of a call, "" without one
  Pooled,      \* servers with a worker pool
  BeforeHooks, \* number of remoteHooks.BeforeHandler.Handlers
  AfterHooks,  \* remoteHooks.AfterHandler.Handlers, functions of the result
  QueueSize,   \* tasks the channel of a share ID holds
  Permits,     \* size of the semaphore
  NoCall,
  MaxFailures  \* bound: lost messages, failed sends, crashed servers

Shares == {Share[c] : c \in Calls} \ {""}
Children(c) == {d \in Calls : Parent[d] = c}

\* mt is the message type, svType and toID are as in the route and in RPCTo ("" for
\* none).  `form' says what is wrong: the route, the reply pointer or the argument cannot be
\* used, no such remote is registered, the argument or the reply has another type than the remote's.
Arguments == [mt : {"Request", "Notify"},
              svType : Types \cup {""}, toID : Servers \cup {""},
              form : {"good", "invalid", "unknown", "badArg", "badReply"}]

\* A Go error is untyped ("plain"; "local" when the call is refused before it is
\* sent), or an *errors.Error with its code, which may be empty.
Untyped == {"plain", "local"}
Codes == {"PIT-000", "PIT-400", "PIT-404", "PIT-408", "PIT-429", "PIT-500", "APP", ""}
Results == {"ok"} \cup Untyped \cup Codes

ASSUME RemoteAssumption ==
  /\ TypeOf \in [Servers -> Types] /\ "" \notin Servers \cup Types
  /\ NoCall \notin Calls /\ Parent \in [Calls -> Calls \cup {NoCall}]
  /\ Home \in Servers /\ Pooled \subseteq Servers
  /\ Inputs \in [Calls -> SUBSET Arguments]
  /\ BeforeHooks \in Nat /\ AfterHooks \in Seq([Results -> Results])
  /\ QueueSize \in Nat \ {0} /\ Permits \in Nat \ {0} /\ MaxFailures \in Nat

VARIABLES
  up,       \* servers that run
  view,     \* per server: the servers its service discovery lists
  client,   \* place of a call in its caller
  at,       \* the server that makes the call
  req,      \* its arguments
  target,   \* the server it is sent to
  outcome,  \* what App.RPC returns
  srv,      \* place of a request in its server
  inbox,    \* per server: requests delivered by NATS
  pool,     \* per server and share ID: the queue of the worker pool, its head running
  ret,      \* the result of the handler and the after hooks
  resp,     \* the response on its way, "none" without one
  runs,     \* history: times the handler was started
  failures

callVars == <<client, at, req, target, outcome>>
serverVars == <<srv, inbox, pool, ret, resp, runs>>
vars == <<up, view, callVars, serverVars, failures>>

Fail == failures < MaxFailures /\ failures' = failures + 1

-----------------------------------------------------------------------------
(* Errors *)

\* errors.NewError: a typed error keeps its code, another one is given the code.
NewError(err, code) == IF err \in Untyped THEN code ELSE err

\* The client reads an empty code as ErrUnknownCode.
Received(code) == IF code = "" THEN "PIT-000" ELSE code

\* What the hooks before the handler return: the error of the first one that has one.
ExecuteBeforePipeline == IF BeforeHooks = 0 THEN {"ok"} ELSE {"ok", "plain", "APP"}

\* Every hook after it gets what the one before it returned, an error as well as a result.
ExecuteAfterPipeline(result) ==
  LET after[n \in 0..Len(AfterHooks)] == IF n = 0 THEN result ELSE AfterHooks[n][after[n - 1]]
  IN after[Len(AfterHooks)]

-----------------------------------------------------------------------------
(* The caller *)

Return(c, result) ==
  /\ client' = [client EXCEPT ![c] = "done"]
  /\ outcome' = [outcome EXCEPT ![c] = result]

\* Mutant: the server type of the caller is not looked at.
NonsenseToID(s, in) == in.form = "invalid" \/ in.svType = "" \/ in.toID = s

\* What doSendRPC refuses when server s calls with arguments in.  (That there is an RPC
\* server is settled before the application runs.)
Nonsense(s, in) ==
  \/ in.form = "invalid" \/ in.svType = ""
  \/ in.svType = TypeOf[s] /\ in.toID = ""
  \/ in.toID = s

\* The application calls, or the handler of another call, one call after the other.
MayCall(c, s) ==
  IF Parent[c] = NoCall
    THEN s = Home /\ s \in up
    ELSE /\ srv[Parent[c]] = "handler" /\ s = target[Parent[c]]
         /\ \A d \in Children(Parent[c]) : client[d] \in {"idle", "done"}

doSendRPC(c, s, in) ==
  /\ client[c] = "idle" /\ MayCall(c, s)
  /\ at' = [at EXCEPT ![c] = s]
  /\ req' = [req EXCEPT ![c] = in]
  /\ IF Nonsense(s, in) THEN Return(c, "local")
     ELSE client' = [client EXCEPT ![c] = "route"] /\ UNCHANGED outcome
  /\ UNCHANGED <<up, view, target, serverVars, failures>>

\* RPCTo: the server is looked up by its ID, whatever its type.
GetServer(c) ==
  /\ client[c] = "route" /\ req[c].toID # ""
  /\ IF req[c].toID \in view[at[c]]
       THEN /\ target' = [target EXCEPT ![c] = req[c].toID]
            /\ client' = [client EXCEPT ![c] = "send"]
            /\ UNCHANGED outcome
       ELSE Return(c, "local") /\ UNCHANGED target
  /\ UNCHANGED <<up, view, at, req, serverVars, failures>>

GetServersByType(s, type) == {t \in view[s] : TypeOf[t] = type}

\* RPC: the default route, or a routing function, picks a server of the type.
Route(c) ==
  /\ client[c] = "route" /\ req[c].toID = ""
  /\ LET servers == GetServersByType(at[c], req[c].svType)
     IN  \/ \E s \in servers :
              /\ target' = [target EXCEPT ![c] = s]
              /\ client' = [client EXCEPT ![c] = "send"]
              /\ UNCHANGED outcome
         \/ /\ servers = {}
            /\ Return(c, NewError("plain", "PIT-500")) /\ UNCHANGED target
  /\ UNCHANGED <<up, view, at, req, serverVars, failures>>

\* A routing function may return an error of its own.
RouteFails(c) ==
  /\ Fail
  /\ client[c] = "route" /\ req[c].toID = ""
  /\ \E err \in {"plain", "APP"} : Return(c, NewError(err, "PIT-500"))
  /\ UNCHANGED <<up, view, at, req, target, serverVars>>

\* conn.Request and conn.Publish.  Without a subscriber a Request is told so, a
\* Publish is not.
Send(c) ==
  /\ client[c] = "send"
  /\ IF target[c] \in up
       THEN /\ inbox' = [inbox EXCEPT ![target[c]] = Append(@, c)]
            /\ srv' = [srv EXCEPT ![c] = "inbox"]
       ELSE UNCHANGED <<inbox, srv>>
  /\ CASE req[c].mt = "Notify" -> Return(c, "ok")
       [] req[c].mt = "Request" /\ target[c] \notin up -> Return(c, "plain")
       [] OTHER -> client' = [client EXCEPT ![c] = "wait"] /\ UNCHANGED outcome
  /\ UNCHANGED <<up, view, at, req, target, pool, ret, resp, runs, failures>>

\* The client is not running or its connection is down.
SendFails(c) ==
  /\ Fail
  /\ client[c] = "send"
  /\ Return(c, "plain")
  /\ UNCHANGED <<up, view, at, req, target, serverVars>>

\* The response: an error with its code, or a reply that RPC unmarshals.
ReceiveReply(c) ==
  /\ client[c] = "wait" /\ resp[c] # "none"
  /\ Return(c, IF resp[c] # "ok" THEN Received(resp[c])
               ELSE IF req[c].form = "badReply" THEN "plain" ELSE "ok")
  /\ resp' = [resp EXCEPT ![c] = "none"]
  /\ UNCHANGED <<up, view, at, req, target, srv, inbox, pool, ret, runs, failures>>

\* Mutant: no timeout once the request is gone.
TimeoutServed(c) ==
  /\ client[c] = "wait" /\ srv[c] \notin {"lost", "dead"}
  /\ Return(c, "PIT-408")
  /\ resp' = [resp EXCEPT ![c] = "none"]
  /\ UNCHANGED <<up, view, at, req, target, srv, inbox, pool, ret, runs, failures>>

\* nats.ErrTimeout; a reply that is on its way has no subscriber any more.
Timeout(c) ==
  /\ client[c] = "wait"
  /\ Return(c, "PIT-408")
  /\ resp' = [resp EXCEPT ![c] = "none"]
  /\ UNCHANGED <<up, view, at, req, target, srv, inbox, pool, ret, runs, failures>>

-----------------------------------------------------------------------------
(* The network and the cluster *)

\* A request is dropped: by NATS, or because subChan is full.
LoseRequest(c) ==
  /\ Fail
  /\ srv[c] = "inbox" /\ inbox[target[c]][Len(inbox[target[c]])] = c
  /\ inbox' = [inbox EXCEPT ![target[c]] = SubSeq(@, 1, Len(@) - 1)]
  /\ srv' = [srv EXCEPT ![c] = "lost"]
  /\ UNCHANGED <<up, view, callVars, pool, ret, resp, runs>>

LoseReply(c) ==
  /\ Fail
  /\ client[c] = "wait" /\ resp[c] # "none"
  /\ resp' = [resp EXCEPT ![c] = "none"]
  /\ UNCHANGED <<up, view, callVars, srv, inbox, pool, ret, runs>>

\* The process of s ends, with the requests in it and the calls it was making.
Crash(s) ==
  /\ Fail
  /\ s \in up
  /\ up' = up \ {s}
  /\ client' = [c \in Calls |-> IF at[c] = s /\ client[c] \in {"route", "send", "wait"}
                                  THEN "dead" ELSE client[c]]
  /\ srv' = [c \in Calls |-> IF target[c] = s /\ srv[c] \notin {"none", "lost", "done"}
                               THEN "dead" ELSE srv[c]]
  /\ inbox' = [inbox EXCEPT ![s] = <<>>]
  /\ pool' = [pool EXCEPT ![s] = [p \in Shares |-> <<>>]]
  /\ UNCHANGED <<view, at, req, target, outcome, ret, resp, runs>>

\* The service discovery of s notices at last that t is gone.
Notice(s, t) ==
  /\ s \in up /\ t \in view[s] \ up
  /\ view' = [view EXCEPT ![s] = @ \ {t}]
  /\ UNCHANGED <<up, callVars, serverVars, failures>>

-----------------------------------------------------------------------------
(* The server *)

\* processMessages: to the queue of the share ID, for which the thread waits when it
\* is full, or to a goroutine that waits for the semaphore.
processMessages(s) ==
  /\ s \in up /\ inbox[s] # <<>>
  /\ inbox' = [inbox EXCEPT ![s] = Tail(@)]
  /\ LET c == Head(inbox[s]) IN
       IF Share[c] = "" \/ s \notin Pooled
         THEN srv' = [srv EXCEPT ![c] = "sem"] /\ UNCHANGED pool
         ELSE /\ Len(pool[s][Share[c]]) <= QueueSize
              /\ srv' = [srv EXCEPT ![c] = "pool"]
              /\ pool' = [pool EXCEPT ![s][Share[c]] = Append(@, c)]
  /\ UNCHANGED <<up, view, callVars, ret, resp, runs, failures>>

InPool(c) == Share[c] # "" /\ target[c] \in Pooled
Used(s) == {c \in Calls : target[c] = s /\ ~InPool(c) /\ srv[c] \in {"turn", "handler"}}

Acquire(c) ==
  /\ srv[c] = "sem" /\ Cardinality(Used(target[c])) < Permits
  /\ srv' = [srv EXCEPT ![c] = "turn"]
  /\ UNCHANGED <<up, view, callVars, inbox, pool, ret, resp, runs, failures>>

\* The request holds a unit of the semaphore or is the task its queue executes.
HasTurn(c) ==
  \/ srv[c] = "turn"
  \/ srv[c] = "pool" /\ Head(pool[target[c]][Share[c]]) = c

\* processResponse: nothing for a Notify, nor for a caller who has given up.
Reply(c, code) ==
  resp' = IF req[c].mt = "Notify" \/ client[c] # "wait" THEN resp
          ELSE [resp EXCEPT ![c] = code]

\* The reply, with what the request holds given back.
Respond(c, code) ==
  /\ srv' = [srv EXCEPT ![c] = "done"]
  /\ Reply(c, code)
  /\ pool' = IF InPool(c) THEN [pool EXCEPT ![target[c]][Share[c]] = Tail(@)] ELSE pool
  /\ UNCHANGED <<up, view, callVars, inbox, failures>>

\* The wait for the semaphore, or for the turn, has lasted too long.
Refuse(c) ==
  /\ \/ srv[c] = "sem" /\ Respond(c, "PIT-429")
     \/ HasTurn(c) /\ Respond(c, "PIT-408")
  /\ UNCHANGED <<ret, runs>>

\* Mutant: the handler is called although a hook has returned an error.
handleRPCHooked(c) ==
  /\ HasTurn(c) /\ req[c].form \in {"good", "badReply"}
  /\ runs' = [runs EXCEPT ![c] = @ + 1]
  /\ \/ Respond(c, "PIT-500") /\ UNCHANGED ret
     \/ /\ srv' = [srv EXCEPT ![c] = "handler"]
        /\ UNCHANGED <<up, view, callVars, inbox, pool, ret, resp, failures>>

\* The remote is looked up, its argument decoded, the before hooks run, the handler
\* starts.  The error of a hook loses its code.
handleRPC(c) ==
  /\ HasTurn(c)
  /\ CASE req[c].form = "unknown" -> Respond(c, "PIT-404") /\ UNCHANGED <<ret, runs>>
       [] req[c].form = "badArg" -> Respond(c, "PIT-400") /\ UNCHANGED <<ret, runs>>
       [] OTHER -> \E err \in ExecuteBeforePipeline :
            \/ err # "ok" /\ Respond(c, "PIT-500") /\ UNCHANGED <<ret, runs>>
            \/ /\ err = "ok"
               /\ srv' = [srv EXCEPT ![c] = "handler"]
               /\ runs' = [runs EXCEPT ![c] = @ + 1]
               /\ UNCHANGED <<up, view, callVars, inbox, pool, ret, resp, failures>>

\* What a handler returns through Pcall: a result, an error of either kind (a panic
\* is an untyped one) or what one of its own calls returned.
HandlerResults(c) ==
  {"ok", "plain", "APP", ""} \cup {outcome[d] : d \in {d \in Children(c) : client[d] = "done"}}

\* Mutant: every error of a handler is an unknown error.
HandlerReturnsUnknown(c) ==
  /\ srv[c] = "handler"
  /\ \A d \in Children(c) : client[d] \in {"idle", "done"}
  /\ \E r \in HandlerResults(c) :
       /\ ret' = [ret EXCEPT ![c] = ExecuteAfterPipeline(r)]
       /\ Respond(c, IF ret'[c] = "ok" THEN "ok" ELSE "PIT-000")
  /\ UNCHANGED runs

\* Mutant: the queue of the share ID keeps the task that has returned.
HandlerReturnsHeld(c) ==
  /\ srv[c] = "handler"
  /\ \A d \in Children(c) : client[d] \in {"idle", "done"}
  /\ \E r \in HandlerResults(c) :
       /\ ret' = [ret EXCEPT ![c] = ExecuteAfterPipeline(r)]
       /\ srv' = [srv EXCEPT ![c] = "done"]
       /\ Reply(c, NewError(ret'[c], "PIT-000"))
  /\ UNCHANGED <<up, view, callVars, inbox, pool, runs, failures>>

\* The handler and the after hooks have run: an untyped error becomes ErrUnknownCode.
HandlerReturns(c) ==
  /\ srv[c] = "handler"
  /\ \A d \in Children(c) : client[d] \in {"idle", "done"}
  /\ \E r \in HandlerResults(c) :
       /\ ret' = [ret EXCEPT ![c] = ExecuteAfterPipeline(r)]
       /\ Respond(c, NewError(ret'[c], "PIT-000"))
  /\ UNCHANGED runs

-----------------------------------------------------------------------------
Init ==
  /\ up = Servers /\ view = [s \in Servers |-> Servers]
  /\ client = [c \in Calls |-> "idle"] /\ at = [c \in Calls |-> Home]
  /\ req = [c \in Calls |-> [mt |-> "Request", svType |-> "", toID |-> "", form |-> "good"]]
  /\ target = [c \in Calls |-> ""] /\ outcome = [c \in Calls |-> "none"]
  /\ srv = [c \in Calls |-> "none"] /\ inbox = [s \in Servers |-> <<>>]
  /\ pool = [s \in Servers |-> [p \in Shares |-> <<>>]]
  /\ ret = [c \in Calls |-> "none"] /\ resp = [c \in Calls |-> "none"]
  /\ runs = [c \in Calls |-> 0] /\ failures = 0

CallerStep(c) == GetServer(c) \/ Route(c) \/ Send(c) \/ ReceiveReply(c) \/ Timeout(c)
ServerStep(c) == Acquire(c) \/ Refuse(c) \/ handleRPC(c) \/ HandlerReturns(c)

Next ==
  \/ \E c \in Calls : \/ \E s \in Servers, in \in Inputs[c] : doSendRPC(c, s, in)
                      \/ CallerStep(c) \/ RouteFails(c) \/ SendFails(c)
                      \/ LoseRequest(c) \/ LoseReply(c) \/ ServerStep(c)
  \/ \E s \in Servers : Crash(s) \/ processMessages(s)
  \/ \E s, t \in Servers : Notice(s, t)

Spec == Init /\ [][Next]_vars

\* Goroutines are scheduled, timers fire and handlers return.
Fairness ==
  /\ \A c \in Calls : WF_vars(CallerStep(c)) /\ WF_vars(ServerStep(c))
  /\ \A s \in Servers : WF_vars(processMessages(s))

FairSpec == Spec /\ Fairness

-----------------------------------------------------------------------------
(* Properties *)

\* Codes with which the library says that it has not run the handler.
Refusals == {"local", "PIT-400", "PIT-404", "PIT-429", "PIT-500"}

\* An outcome tells whether the handler ran.  A request that succeeds has run once and
\* succeeded, whatever was lost or crashed on the way.  One that is refused has not run
\* and never will, so that it is safe to make again - unless its handler ran and passed
\* on the refusal of a call of its own, or a hook put it there.
Truthful ==
  \A c \in Calls :
    /\ outcome[c] = "ok" /\ req[c].mt = "Request" => runs[c] = 1 /\ ret[c] = "ok"
    /\ outcome[c] \in Refusals => runs[c] = 0 \/ ret[c] = outcome[c]

\* The code of an error survives every hop: a caller that got an answer from a handler
\* has the code the handler returned, or ErrUnknownCode if that had none, also when the
\* handler got it from a call of its own.
CodeSurvives ==
  \A c \in Calls :
    runs[c] = 1 /\ outcome[c] \notin {"none", "ok", "plain", "PIT-408"} =>
      outcome[c] = IF ret[c] \in Untyped \cup {""} THEN "PIT-000" ELSE ret[c]

\* A handler runs on the server that was asked for or, for a call that names only a
\* type, on one of that type and never on the caller, also when handlers call on.
RightServer ==
  \A c \in Calls : runs[c] = 1 =>
    /\ target[c] # at[c]
    /\ target[c] = req[c].toID \/ (req[c].toID = "" /\ TypeOf[target[c]] = req[c].svType)

\* Every call returns, though messages are lost, servers crash and handlers wait for
\* one another in a circle: conn.Request always has a timeout.
EveryCallReturns ==
  \A c \in Calls : client[c] \in {"route", "send", "wait"} ~> client[c] \in {"done", "dead"}

\* A request that a server has received is run or refused, also when the queue of its
\* share ID is held by a handler that waits for this very request.
EveryRequestServed ==
  \A c \in Calls : srv[c] \in {"inbox", "sem", "pool", "turn"}
                     ~> srv[c] \in {"handler", "done", "lost", "dead"}
=============================================================================
