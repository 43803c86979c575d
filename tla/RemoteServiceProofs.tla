------------------------- MODULE RemoteServiceProofs ------------------------
(***************************************************************************)
(* What a caller may conclude from the outcome of a call, for every cluster, *)
(* every tree of calls and every number of lost messages and crashes:       *)
(* Truthful, CodeSurvives, RightServer.  The argument follows one request.  *)
(* It enters one inbox once, because its caller sends it once; so it leaves *)
(* the inbox once, its handler starts at most once, and once the server is  *)
(* done with it neither `runs' nor `ret' changes.  An answer is made in the *)
(* step in which the server is done, from these two.  What the after hooks   *)
(* are does not matter to the argument.  For the same reasons an answer is  *)
(* final: nothing of the call happens after it (Final).                     *)
(***************************************************************************)
EXTENDS RemoteService, TLAPS

\* A call that has not been sent; a request whose handler has not been started; the
\* answers of a server that does not start the handler.
Early == {"idle", "route", "send"}
NotRun == {"none", "inbox", "sem", "pool", "turn", "lost"}
Refused == {"PIT-400", "PIT-404", "PIT-408", "PIT-429", "PIT-500"}

CallTypes ==
  /\ client \in [Calls -> Early \cup {"wait", "done", "dead"}]
  /\ at \in [Calls -> Servers] /\ req \in [Calls -> Arguments]
  /\ target \in [Calls -> Servers \cup {""}]
  /\ srv \in [Calls -> NotRun \cup {"handler", "done", "dead"}]
  /\ inbox \in [Servers -> Seq(Calls)]
  /\ view \in [Servers -> SUBSET Servers]
  /\ runs \in [Calls -> {0, 1}]
  /\ DOMAIN outcome = Calls /\ DOMAIN ret = Calls /\ DOMAIN resp = Calls

\* An inbox holds requests to its server that nothing else has taken, each of them once.
InboxOK(s) ==
  /\ \A k \in 1..Len(inbox[s]) : srv[inbox[s][k]] = "inbox" /\ target[inbox[s][k]] = s
  /\ \A k, l \in 1..Len(inbox[s]) : inbox[s][k] = inbox[s][l] => k = l

\* The server of a call is the one it asks for.
Addressed(c) ==
  /\ target[c] \in Servers /\ target[c] # at[c]
  /\ target[c] = req[c].toID \/ (req[c].toID = "" /\ TypeOf[target[c]] = req[c].svType)

\* Where a call is in its caller, where its request is in the server, and whether its
\* handler has been started, fit together.
PlaceOK(c) ==
  /\ client[c] = "route" => ~Nonsense(at[c], req[c])
  /\ client[c] = "send" \/ srv[c] # "none" => Addressed(c)
  /\ client[c] \in Early => srv[c] = "none"
  /\ srv[c] \in NotRun => runs[c] = 0
  /\ srv[c] = "handler" => runs[c] = 1

\* A response comes from a server that is done with the request, and says what it did.
ReplyOK(c) ==
  resp[c] # "none" =>
    /\ srv[c] = "done"
    /\ \/ runs[c] = 0 /\ resp[c] \in Refused
       \/ runs[c] = 1 /\ resp[c] = NewError(ret[c], "PIT-000")

\* What has been returned was returned without an answer, for a Notify, for a call that
\* was never sent, or is an answer of a server that is done with the request.
OutcomeOK(c) ==
  \/ outcome[c] \in {"none", "plain", "PIT-408"}
  \/ /\ client[c] = "done"
     /\ \/ outcome[c] = "ok" /\ req[c].mt = "Notify"
        \/ srv[c] = "none" /\ outcome[c] # "ok"
        \/ srv[c] = "done" /\ runs[c] = 0 /\ outcome[c] \in Refused
        \/ srv[c] = "done" /\ runs[c] = 1 /\ outcome[c] = Received(NewError(ret[c], "PIT-000"))

CallOK(c) == PlaceOK(c) /\ ReplyOK(c) /\ OutcomeOK(c)

CallInv ==
  /\ CallTypes
  /\ \A s \in Servers : InboxOK(s)
  /\ \A c \in Calls : CallOK(c)

\* A call is in order as long as nothing of it changes.
LEMMA CallAlone ==
  ASSUME NEW c \in Calls, CallOK(c),
         client'[c] = client[c], at'[c] = at[c], req'[c] = req[c], target'[c] = target[c],
         outcome'[c] = outcome[c], srv'[c] = srv[c], ret'[c] = ret[c], resp'[c] = resp[c],
         runs'[c] = runs[c]
  PROVE  CallOK(c)'
BY Zenon DEF CallOK, PlaceOK, Addressed, ReplyOK, OutcomeOK, Nonsense, NewError, Received

\* The inboxes are in order as long as no request enters or leaves one.
LEMMA InboxAlone ==
  ASSUME CallTypes, \A s \in Servers : InboxOK(s), inbox' = inbox,
         \A c \in Calls : srv[c] = "inbox" => srv'[c] = "inbox" /\ target'[c] = target[c]
  PROVE  \A s \in Servers : InboxOK(s)'
<1> SUFFICES ASSUME NEW s \in Servers PROVE InboxOK(s)'
  OBVIOUS
<1>1. InboxOK(s) /\ inbox[s] \in Seq(Calls)
  BY Zenon DEF CallTypes
<1>2. \A k \in 1..Len(inbox[s]) : inbox[s][k] \in Calls
  BY <1>1
<1> QED BY <1>1, <1>2 DEF InboxOK

\* What a caller does before the request is sent keeps the invariant.
LEMMA CallerKeeps ==
  ASSUME CallInv, NEW c \in Calls,
         \/ \E s \in Servers, in \in Inputs[c] : doSendRPC(c, s, in)
         \/ GetServer(c) \/ Route(c) \/ RouteFails(c) \/ SendFails(c)
  PROVE  CallInv'
<1>0. CallTypes /\ (\A s \in Servers : InboxOK(s)) /\ (\A d \in Calls : CallOK(d))
  BY DEF CallInv
<1>1. client[c] \in Early /\ UNCHANGED serverVars /\ UNCHANGED view
  BY Zenon DEF doSendRPC, GetServer, Route, RouteFails, SendFails, Early, serverVars
<1>2. CallTypes'
  <2>1. \A in \in Inputs[c] : in \in Arguments
    BY Zenon, RemoteAssumption
  <2>2. \A s \in Servers : view[s] \subseteq Servers
    BY Zenon, <1>0 DEF CallTypes
  <2>3. ASSUME NEW s \in Servers, NEW in \in Inputs[c], doSendRPC(c, s, in) PROVE CallTypes'
    BY Zenon, <1>0, <2>1, <2>3 DEF CallTypes, doSendRPC, Return, Early, serverVars
  <2>4. CASE GetServer(c)
    BY Zenon, <1>0, <2>2, <2>4 DEF CallTypes, GetServer, Return, Early, serverVars
  <2>5. CASE Route(c)
    <3>1. \A t \in GetServersByType(at[c], req[c].svType) : t \in Servers
      BY Zenon, <1>0, <2>2 DEF CallTypes, GetServersByType
    <3>2. target' = target \/ \E t \in Servers : target' = [target EXCEPT ![c] = t]
      BY Zenon, <2>5, <3>1 DEF Route
    <3>3. target' \in [Calls -> Servers \cup {""}]
      BY Zenon, <1>0, <3>2 DEF CallTypes
    <3>4. client' \in [Calls -> Early \cup {"wait", "done", "dead"}] /\ DOMAIN outcome' = Calls
      BY Zenon, <1>0, <2>5 DEF CallTypes, Route, Return, Early
    <3> QED BY Zenon, <1>0, <1>1, <2>5, <3>3, <3>4 DEF CallTypes, Route, serverVars
  <2>6. CASE RouteFails(c) \/ SendFails(c)
    <3>1. client' = [client EXCEPT ![c] = "done"] /\ \E r : outcome' = [outcome EXCEPT ![c] = r]
      BY Zenon, <2>6 DEF RouteFails, SendFails, Return
    <3>2. client' \in [Calls -> Early \cup {"wait", "done", "dead"}] /\ DOMAIN outcome' = Calls
      BY Zenon, <1>0, <3>1 DEF CallTypes, Early
    <3> QED BY Zenon, <1>0, <1>1, <2>6, <3>2 DEF CallTypes, RouteFails, SendFails, serverVars
  <2> QED BY <2>3, <2>4, <2>5, <2>6
<1>3. srv[c] = "none" /\ runs[c] = 0 /\ resp[c] = "none"
  BY <1>0, <1>1 DEF CallOK, PlaceOK, ReplyOK, NotRun
<1>4. ASSUME NEW d \in Calls, d # c PROVE CallOK(d)'
  <2>1. /\ client'[d] = client[d] /\ at'[d] = at[d] /\ req'[d] = req[d] /\ target'[d] = target[d]
        /\ outcome'[d] = outcome[d]
    BY ZenonT(40), <1>0, <1>4 DEF CallTypes, doSendRPC, GetServer, Route, RouteFails, SendFails, Return
  <2>2. srv'[d] = srv[d] /\ ret'[d] = ret[d] /\ resp'[d] = resp[d] /\ runs'[d] = runs[d]
    BY <1>1 DEF serverVars
  <2> QED BY <1>0, <2>1, <2>2, CallAlone
<1>5. CallOK(c)'
  <2>1. srv'[c] = "none" /\ runs'[c] = 0 /\ resp'[c] = "none"
    BY <1>1, <1>3 DEF serverVars
  <2>2. PlaceOK(c)'
    <3>1. ASSUME NEW s \in Servers, NEW in \in Inputs[c], doSendRPC(c, s, in) PROVE PlaceOK(c)'
      BY Zenon, <1>0, <2>1, <3>1 DEF CallTypes, PlaceOK, doSendRPC, Return, NotRun, Nonsense
    <3>2. CASE GetServer(c)
      <4>1. CASE req[c].toID \in view[at[c]]
        <5>1. req[c].toID \in Servers /\ req[c].toID # at[c]
          BY Zenon, <1>0, <3>2, <4>1 DEF GetServer, CallTypes, CallOK, PlaceOK, Nonsense
        <5> QED BY Zenon, <1>0, <2>1, <3>2, <4>1, <5>1 DEF CallTypes, PlaceOK, Addressed, GetServer, NotRun
      <4>2. CASE req[c].toID \notin view[at[c]]
        BY Zenon, <1>0, <2>1, <3>2, <4>2 DEF CallTypes, PlaceOK, GetServer, Return, NotRun, Early
      <4> QED BY <4>1, <4>2
    <3>3. CASE Route(c)
      <4>1. ASSUME NEW t \in GetServersByType(at[c], req[c].svType),
                   target' = [target EXCEPT ![c] = t], client' = [client EXCEPT ![c] = "send"]
            PROVE  PlaceOK(c)'
        <5>1. t \in Servers /\ TypeOf[t] = req[c].svType
          BY Zenon, <1>0, <4>1 DEF GetServersByType, CallTypes
        <5>2. t # at[c]
          BY Zenon, <1>0, <3>3, <5>1 DEF Route, CallOK, PlaceOK, Nonsense
        <5> QED BY Zenon, <1>0, <2>1, <3>3, <4>1, <5>1, <5>2 DEF CallTypes, PlaceOK, Addressed, Route, NotRun
      <4>2. ASSUME Return(c, NewError("plain", "PIT-500")) PROVE PlaceOK(c)'
        BY Zenon, <1>0, <2>1, <4>2 DEF CallTypes, PlaceOK, Return, NotRun, Early
      <4> QED BY Zenon, <3>3, <4>1, <4>2 DEF Route
    <3>4. CASE RouteFails(c) \/ SendFails(c)
      BY Zenon, <1>0, <2>1, <3>4 DEF CallTypes, PlaceOK, RouteFails, SendFails, Return, NotRun, Early
    <3> QED BY <3>1, <3>2, <3>3, <3>4
  <2>3. OutcomeOK(c)'
    <3>1. outcome'[c] = outcome[c] \/ (client'[c] = "done" /\ outcome'[c] # "ok")
      <4>1. ASSUME NEW s \in Servers, NEW in \in Inputs[c], doSendRPC(c, s, in)
            PROVE  outcome'[c] = outcome[c] \/ (client'[c] = "done" /\ outcome'[c] # "ok")
        BY Zenon, <1>0, <4>1 DEF CallTypes, doSendRPC, Return
      <4>2. CASE GetServer(c)
        BY Zenon, <1>0, <4>2 DEF CallTypes, GetServer, Return
      <4>3. CASE Route(c)
        BY Zenon, <1>0, <4>3 DEF CallTypes, Route, Return, NewError
      <4>4. CASE RouteFails(c) \/ SendFails(c)
        BY Zenon, <1>0, <4>4 DEF CallTypes, RouteFails, SendFails, Return, NewError
      <4> QED BY <4>1, <4>2, <4>3, <4>4
    <3>2. outcome[c] \in {"none", "plain", "PIT-408"}
      BY <1>0, <1>1 DEF CallOK, OutcomeOK, Early
    <3> QED BY <2>1, <3>1, <3>2 DEF OutcomeOK
  <2> QED BY <2>1, <2>2, <2>3 DEF CallOK, ReplyOK
<1>6. \A s \in Servers : InboxOK(s)'
  <2>1. \A d \in Calls : srv[d] = "inbox" => srv'[d] = "inbox" /\ target'[d] = target[d]
    <3> SUFFICES ASSUME NEW d \in Calls, srv[d] = "inbox" PROVE srv'[d] = "inbox" /\ target'[d] = target[d]
      OBVIOUS
    <3>1. d # c
      BY <1>3
    <3> QED BY Zenon, <1>0, <1>1, <3>1 DEF CallTypes, serverVars, doSendRPC, GetServer, Route, RouteFails, SendFails
  <2> QED BY <1>0, <1>1, <2>1, InboxAlone DEF serverVars
<1> QED BY <1>2, <1>4, <1>5, <1>6 DEF CallInv

\* A request enters the inbox of its server, or none: Send.
LEMMA SendKeeps ==
  ASSUME CallInv, NEW c \in Calls, Send(c)
  PROVE  CallInv'
<1>0. CallTypes /\ (\A s \in Servers : InboxOK(s)) /\ (\A d \in Calls : CallOK(d))
  BY DEF CallInv
<1> DEFINE t == target[c]
<1>1. client[c] = "send" /\ srv[c] = "none" /\ runs[c] = 0 /\ resp[c] = "none" /\ t \in Servers
  BY Zenon, <1>0 DEF Send, CallOK, PlaceOK, ReplyOK, Addressed, Early, NotRun
<1>2. /\ UNCHANGED <<at, req, target, ret, resp, runs, view>>
      /\ srv' = srv \/ srv' = [srv EXCEPT ![c] = "inbox"]
      /\ \/ client' = [client EXCEPT ![c] = "wait"] /\ outcome' = outcome
         \/ Return(c, "plain")
         \/ req[c].mt = "Notify" /\ Return(c, "ok")
  BY DEF Send
<1>3. /\ client' \in [Calls -> Early \cup {"wait", "done", "dead"}] /\ DOMAIN outcome' = Calls
      /\ srv' \in [Calls -> NotRun \cup {"handler", "done", "dead"}]
      /\ \A d \in Calls \ {c} : client'[d] = client[d] /\ outcome'[d] = outcome[d] /\ srv'[d] = srv[d]
  <2>1. DOMAIN client = Calls /\ DOMAIN outcome = Calls /\ DOMAIN srv = Calls
    BY Zenon, <1>0 DEF CallTypes
  <2>2. srv' \in [Calls -> NotRun \cup {"handler", "done", "dead"}]
    BY Zenon, <1>0, <1>2 DEF CallTypes, NotRun
  <2>3. client' \in [Calls -> Early \cup {"wait", "done", "dead"}]
    BY Zenon, <1>0, <1>2 DEF CallTypes, Return
  <2>4. DOMAIN outcome' = Calls
    BY <1>2, <2>1 DEF Return
  <2> QED BY <1>2, <2>1, <2>2, <2>3, <2>4 DEF Return
<1>4. /\ inbox' \in [Servers -> Seq(Calls)]
      /\ \A s \in Servers : inbox'[s] # inbox[s] =>
           t = s /\ inbox'[s] = Append(inbox[s], c) /\ srv' = [srv EXCEPT ![c] = "inbox"]
  <2>1. CASE inbox' = inbox
    BY Zenon, <1>0, <2>1 DEF CallTypes
  <2>2. CASE srv' = [srv EXCEPT ![c] = "inbox"] /\ inbox' = [inbox EXCEPT ![t] = Append(@, c)]
    <3>1. Append(inbox[t], c) \in Seq(Calls)
      <4>1. inbox[t] \in Seq(Calls)
        BY Zenon, <1>0, <1>1 DEF CallTypes
      <4> QED BY <4>1
    <3> QED BY Zenon, <1>0, <1>1, <2>2, <3>1 DEF CallTypes
  <2> QED BY <2>1, <2>2 DEF Send
<1>5. CallTypes'
  BY Zenon, <1>0, <1>2, <1>3, <1>4 DEF CallTypes
<1>6. ASSUME NEW d \in Calls, d # c PROVE CallOK(d)'
  BY <1>0, <1>2, <1>3, <1>6, CallAlone
<1>7. CallOK(c)'
  <2>1. client'[c] \in {"wait", "done"} /\ srv'[c] \in {"none", "inbox"}
    BY Zenon, <1>0, <1>1, <1>2 DEF CallTypes, Return
  <2>2. PlaceOK(c)'
    <3>1. Addressed(c)'
      BY Zenon, <1>0, <1>1, <1>2 DEF CallOK, PlaceOK, Addressed
    <3> QED BY <1>1, <1>2, <2>1, <3>1 DEF PlaceOK, Early, NotRun
  <2>3. OutcomeOK(c)'
    <3>1. outcome[c] \in {"none", "plain", "PIT-408"}
      BY <1>0, <1>1 DEF CallOK, OutcomeOK
    <3> QED BY Zenon, <1>0, <1>2, <3>1 DEF CallTypes, OutcomeOK, Return
  <2> QED BY <1>1, <1>2, <2>2, <2>3 DEF CallOK, ReplyOK
<1>8. ASSUME NEW s \in Servers PROVE InboxOK(s)'
  <2>1. inbox[s] \in Seq(Calls) /\ InboxOK(s)
    BY Zenon, <1>0 DEF CallTypes
  <2>2. \A k \in 1..Len(inbox[s]) : inbox[s][k] \in Calls \ {c}
    BY <1>1, <2>1 DEF InboxOK
  <2>3. CASE inbox'[s] = inbox[s]
    BY <1>2, <1>3, <2>1, <2>2, <2>3 DEF InboxOK
  <2>4. CASE inbox'[s] # inbox[s]
    <3>1. inbox'[s] = Append(inbox[s], c) /\ t = s /\ srv'[c] = "inbox"
      BY Zenon, <1>0, <1>4, <2>4 DEF CallTypes
    <3>2. /\ Len(inbox'[s]) = Len(inbox[s]) + 1 /\ inbox'[s][Len(inbox[s]) + 1] = c
          /\ \A k \in 1..Len(inbox[s]) : inbox'[s][k] = inbox[s][k]
      BY <2>1, <3>1
    <3>3. Len(inbox[s]) \in Nat
      BY <2>1
    <3>4. \A k \in 1..Len(inbox'[s]) : k = Len(inbox[s]) + 1 \/ k \in 1..Len(inbox[s])
      BY <3>2, <3>3
    <3>5. \A k \in 1..Len(inbox'[s]) : srv'[inbox'[s][k]] = "inbox" /\ target'[inbox'[s][k]] = s
      BY <1>2, <1>3, <2>1, <2>2, <3>1, <3>2, <3>4 DEF InboxOK
    <3>6. \A k, l \in 1..Len(inbox'[s]) : inbox'[s][k] = inbox'[s][l] => k = l
      BY <2>1, <2>2, <3>2, <3>4 DEF InboxOK
    <3> QED BY <3>5, <3>6 DEF InboxOK
  <2> QED BY <2>3, <2>4
<1> QED BY <1>5, <1>6, <1>7, <1>8 DEF CallInv

\* What ends the wait of a caller, or only loses the response, keeps the invariant: the
\* outcome is what the server did, or says that there was no answer.
LEMMA WaitKeeps ==
  ASSUME CallInv, NEW c \in Calls, ReceiveReply(c) \/ Timeout(c) \/ LoseReply(c)
  PROVE  CallInv'
<1>0. CallTypes /\ (\A s \in Servers : InboxOK(s)) /\ (\A d \in Calls : CallOK(d))
  BY DEF CallInv
<1>1. /\ UNCHANGED <<at, req, target, ret, srv, inbox, runs, view>>
      /\ client[c] = "wait" /\ resp' = [resp EXCEPT ![c] = "none"]
      /\ \/ client' = client /\ outcome' = outcome
         \/ Return(c, "PIT-408")
         \/ resp[c] # "none" /\ Return(c, IF resp[c] # "ok" THEN Received(resp[c])
                                         ELSE IF req[c].form = "badReply" THEN "plain" ELSE "ok")
  BY Zenon DEF ReceiveReply, Timeout, LoseReply, callVars
<1>2. /\ client' \in [Calls -> Early \cup {"wait", "done", "dead"}]
      /\ DOMAIN outcome' = Calls /\ DOMAIN resp' = Calls
      /\ client'[c] \in {"wait", "done"} /\ resp'[c] = "none"
      /\ \A d \in Calls \ {c} : client'[d] = client[d] /\ outcome'[d] = outcome[d] /\ resp'[d] = resp[d]
  <2>1. client \in [Calls -> Early \cup {"wait", "done", "dead"}] /\ DOMAIN outcome = Calls /\ DOMAIN resp = Calls
    BY Zenon, <1>0 DEF CallTypes
  <2>2. DOMAIN resp' = Calls /\ resp'[c] = "none" /\ \A d \in Calls \ {c} : resp'[d] = resp[d]
    BY Zenon, <1>1, <2>1
  <2>3. CASE client' = client /\ outcome' = outcome
    BY Zenon, <1>1, <2>1, <2>2, <2>3
  <2>4. ASSUME NEW result, Return(c, result)
        PROVE  /\ client' \in [Calls -> Early \cup {"wait", "done", "dead"}] /\ DOMAIN outcome' = Calls
               /\ client'[c] = "done"
               /\ \A d \in Calls \ {c} : client'[d] = client[d] /\ outcome'[d] = outcome[d]
    <3>1. client' \in [Calls -> Early \cup {"wait", "done", "dead"}] /\ client'[c] = "done"
          /\ \A d \in Calls \ {c} : client'[d] = client[d]
      BY Zenon, <2>1, <2>4 DEF Return
    <3>2. DOMAIN outcome' = Calls /\ \A d \in Calls \ {c} : outcome'[d] = outcome[d]
      BY Zenon, <2>1, <2>4 DEF Return
    <3> QED BY Zenon, <3>1, <3>2
  <2> QED BY Zenon, <1>1, <2>2, <2>3, <2>4
<1>3. CallTypes'
  BY Zenon, <1>0, <1>1, <1>2 DEF CallTypes
<1>4. ASSUME NEW d \in Calls, d # c PROVE CallOK(d)'
  BY <1>0, <1>1, <1>2, <1>4, CallAlone
<1>5. PlaceOK(c)' /\ ReplyOK(c)'
  BY Zenon, <1>0, <1>1, <1>2 DEF CallOK, PlaceOK, ReplyOK, Addressed, Early
<1>6. OutcomeOK(c)'
  <2>1. outcome[c] \in {"none", "plain", "PIT-408"} /\ ReplyOK(c)
    BY Zenon, <1>0, <1>1 DEF CallOK, OutcomeOK
  <2>2. CASE outcome'[c] \in {outcome[c], "PIT-408", "plain"}
    BY Zenon, <2>1, <2>2 DEF OutcomeOK
  <2>3. CASE outcome'[c] \notin {outcome[c], "PIT-408", "plain"}
    <3>1. client'[c] = "done" /\ resp[c] # "none" /\ outcome'[c] = Received(resp[c])
      BY Zenon, <1>0, <1>1, <2>3 DEF CallTypes, Return, Received
    <3> QED BY Zenon, <1>1, <2>1, <3>1 DEF ReplyOK, OutcomeOK, Received, Refused, NewError
  <2> QED BY <2>2, <2>3
<1>7. \A s \in Servers : InboxOK(s)'
  BY Zenon, <1>0, <1>1, InboxAlone
<1> QED BY <1>3, <1>4, <1>5, <1>6, <1>7 DEF CallInv, CallOK

\* A request leaves an inbox at its end: it is lost.
LEMMA LoseKeeps ==
  ASSUME CallInv, NEW c \in Calls, LoseRequest(c)
  PROVE  CallInv'
<1>0. CallTypes /\ (\A s \in Servers : InboxOK(s)) /\ (\A d \in Calls : CallOK(d))
  BY DEF CallInv
<1> DEFINE t == target[c]
<1>1. /\ UNCHANGED <<client, at, req, target, outcome, ret, resp, runs, view>>
      /\ srv[c] = "inbox" /\ inbox[t][Len(inbox[t])] = c
      /\ srv' = [srv EXCEPT ![c] = "lost"]
      /\ inbox' = [inbox EXCEPT ![t] = SubSeq(@, 1, Len(@) - 1)]
  BY DEF LoseRequest, callVars
<1>2. t \in Servers /\ runs[c] = 0 /\ resp[c] = "none"
  BY Zenon, <1>0, <1>1 DEF CallOK, PlaceOK, ReplyOK, Addressed, NotRun
<1>3. srv' \in [Calls -> NotRun \cup {"handler", "done", "dead"}] /\ srv'[c] = "lost"
      /\ \A d \in Calls \ {c} : srv'[d] = srv[d]
  BY Zenon, <1>0, <1>1 DEF CallTypes, NotRun
<1>4. \A s \in Servers \ {t} : inbox'[s] = inbox[s]
  BY Zenon, <1>0, <1>1, <1>2 DEF CallTypes
<1>5. inbox[t] \in Seq(Calls) /\ inbox'[t] = SubSeq(inbox[t], 1, Len(inbox[t]) - 1) /\ InboxOK(t)
  BY Zenon, <1>0, <1>1, <1>2 DEF CallTypes
<1>6. /\ inbox'[t] \in Seq(Calls)
      /\ Len(inbox[t]) \in Nat /\ Len(inbox'[t]) \in Nat
      /\ Len(inbox'[t]) < Len(inbox[t]) \/ Len(inbox'[t]) = 0
      /\ \A k \in 1..Len(inbox'[t]) : inbox'[t][k] = inbox[t][k]
  BY <1>5
<1>7. inbox' \in [Servers -> Seq(Calls)]
  BY Zenon, <1>0, <1>1, <1>2, <1>5, <1>6 DEF CallTypes
<1>8. CallTypes'
  BY Zenon, <1>0, <1>1, <1>3, <1>7 DEF CallTypes
<1>9. ASSUME NEW d \in Calls, d # c PROVE CallOK(d)'
  BY <1>0, <1>1, <1>3, <1>9, CallAlone
<1>10. CallOK(c)'
  BY Zenon, <1>0, <1>1, <1>2, <1>3 DEF CallOK, PlaceOK, ReplyOK, OutcomeOK, Addressed, NotRun, Early
<1>11. ASSUME NEW s \in Servers, s # t PROVE InboxOK(s)'
  <2>1. inbox[s] \in Seq(Calls) /\ InboxOK(s) /\ inbox'[s] = inbox[s]
    BY Zenon, <1>0, <1>4, <1>11 DEF CallTypes
  <2>2. \A k \in 1..Len(inbox[s]) : inbox[s][k] \in Calls \ {c}
    BY <1>11, <2>1 DEF InboxOK
  <2>3. \A k \in 1..Len(inbox[s]) : srv'[inbox[s][k]] = "inbox" /\ target'[inbox[s][k]] = s
    BY Zenon, <1>1, <1>3, <2>1, <2>2 DEF InboxOK
  <2> QED BY Zenon, <2>1, <2>3 DEF InboxOK
<1>12. InboxOK(t)'
  <2>1. \A k \in 1..Len(inbox'[t]) : k \in 1..Len(inbox[t]) /\ k # Len(inbox[t])
    BY <1>6
  <2>2. Len(inbox'[t]) > 0 => Len(inbox[t]) \in 1..Len(inbox[t])
    BY <1>6
  <2>3. \A k \in 1..Len(inbox'[t]) : inbox[t][k] \in Calls \ {c}
    <3> SUFFICES ASSUME NEW k \in 1..Len(inbox'[t]) PROVE inbox[t][k] \in Calls \ {c}
      OBVIOUS
    <3>1. k \in 1..Len(inbox[t]) /\ k # Len(inbox[t]) /\ Len(inbox[t]) \in 1..Len(inbox[t])
      BY <1>6, <2>1, <2>2
    <3> QED BY <1>1, <1>5, <3>1 DEF InboxOK
  <2>4. \A k \in 1..Len(inbox'[t]) : srv'[inbox'[t][k]] = "inbox" /\ target'[inbox'[t][k]] = t
    <3> SUFFICES ASSUME NEW k \in 1..Len(inbox'[t])
                 PROVE  srv'[inbox'[t][k]] = "inbox" /\ target'[inbox'[t][k]] = t
      OBVIOUS
    <3>1. inbox'[t][k] = inbox[t][k] /\ inbox[t][k] \in Calls \ {c} /\ k \in 1..Len(inbox[t])
      BY Zenon, <1>6, <2>1, <2>3
    <3>2. srv[inbox[t][k]] = "inbox" /\ target[inbox[t][k]] = t
      BY Zenon, <1>5, <3>1 DEF InboxOK
    <3> QED BY Zenon, <1>1, <1>3, <3>1, <3>2
  <2>5. \A k, l \in 1..Len(inbox'[t]) : inbox'[t][k] = inbox'[t][l] => k = l
    BY Zenon, <1>5, <1>6, <2>1 DEF InboxOK
  <2>6. t' = t
    BY <1>1
  <2> QED BY <2>4, <2>5, <2>6 DEF InboxOK
<1>13. t' = t
  BY <1>1
<1> QED BY <1>8, <1>9, <1>10, <1>11, <1>12, <1>13 DEF CallInv

\* A request leaves an inbox at its front: processMessages takes it.
LEMMA TakeKeeps ==
  ASSUME CallInv, NEW s \in Servers, processMessages(s)
  PROVE  CallInv'
<1>0. CallTypes /\ (\A t \in Servers : InboxOK(t)) /\ (\A d \in Calls : CallOK(d))
  BY DEF CallInv
<1>1. inbox[s] \in Seq(Calls) /\ inbox[s] # <<>> /\ InboxOK(s)
  BY Zenon, <1>0 DEF CallTypes, processMessages
<1> PICK c \in Calls : c = Head(inbox[s])
  BY <1>1
<1>2. /\ Len(inbox[s]) \in Nat \ {0} /\ c = inbox[s][1]
      /\ Tail(inbox[s]) \in Seq(Calls) /\ Len(Tail(inbox[s])) = Len(inbox[s]) - 1
      /\ \A k \in 1..Len(Tail(inbox[s])) : Tail(inbox[s])[k] = inbox[s][k + 1]
  BY <1>1
<1>3. srv[c] = "inbox" /\ target[c] = s
  BY <1>1, <1>2 DEF InboxOK
<1>4. /\ UNCHANGED <<client, at, req, target, outcome, ret, resp, runs, view>>
      /\ inbox' = [inbox EXCEPT ![s] = Tail(@)]
      /\ srv' = [srv EXCEPT ![c] = "sem"] \/ srv' = [srv EXCEPT ![c] = "pool"]
  BY Zenon DEF processMessages, callVars
<1>5. runs[c] = 0 /\ resp[c] = "none"
  BY <1>0, <1>2, <1>3 DEF CallOK, PlaceOK, ReplyOK, NotRun
<1>6. srv' \in [Calls -> NotRun \cup {"handler", "done", "dead"}] /\ srv'[c] \in {"sem", "pool"}
      /\ \A d \in Calls \ {c} : srv'[d] = srv[d]
  BY Zenon, <1>0, <1>2, <1>4 DEF CallTypes, NotRun
<1>7. inbox' \in [Servers -> Seq(Calls)] /\ inbox'[s] = Tail(inbox[s])
      /\ \A t \in Servers \ {s} : inbox'[t] = inbox[t]
  BY Zenon, <1>0, <1>2, <1>4 DEF CallTypes
<1>8. CallTypes'
  BY Zenon, <1>0, <1>4, <1>6, <1>7 DEF CallTypes
<1>9. ASSUME NEW d \in Calls, d # c PROVE CallOK(d)'
  BY <1>0, <1>4, <1>6, <1>9, CallAlone
<1>10. CallOK(c)'
  BY Zenon, <1>0, <1>2, <1>3, <1>4, <1>5, <1>6 DEF CallOK, PlaceOK, ReplyOK, OutcomeOK, Addressed, NotRun, Early
<1>11. ASSUME NEW t \in Servers, t # s PROVE InboxOK(t)'
  <2>1. inbox[t] \in Seq(Calls) /\ InboxOK(t) /\ inbox'[t] = inbox[t]
    BY Zenon, <1>0, <1>7, <1>11 DEF CallTypes
  <2>2. \A k \in 1..Len(inbox[t]) : inbox[t][k] \in Calls \ {c}
    BY <1>3, <1>11, <2>1 DEF InboxOK
  <2>3. \A k \in 1..Len(inbox[t]) : srv'[inbox[t][k]] = "inbox" /\ target'[inbox[t][k]] = t
    BY <1>4, <1>6, <2>1, <2>2 DEF InboxOK
  <2> QED BY Zenon, <2>1, <2>3 DEF InboxOK
<1>12. InboxOK(s)'
  <2>1. \A k \in 1..Len(inbox'[s]) : k + 1 \in 1..Len(inbox[s]) /\ k + 1 # 1
    BY <1>2, <1>7
  <2>2. 1 \in 1..Len(inbox[s])
    BY <1>2
  <2>3. \A k \in 1..Len(inbox'[s]) : inbox'[s][k] = inbox[s][k + 1] /\ inbox[s][k + 1] \in Calls \ {c}
    BY <1>1, <1>2, <1>7, <2>1, <2>2 DEF InboxOK
  <2>4. \A k \in 1..Len(inbox'[s]) : srv'[inbox'[s][k]] = "inbox" /\ target'[inbox'[s][k]] = s
    BY <1>1, <1>4, <1>6, <2>1, <2>3 DEF InboxOK
  <2>5. \A k, l \in 1..Len(inbox'[s]) : inbox'[s][k] = inbox'[s][l] => k = l
    <3> SUFFICES ASSUME NEW k \in 1..Len(inbox'[s]), NEW l \in 1..Len(inbox'[s]), inbox'[s][k] = inbox'[s][l]
                 PROVE  k = l
      OBVIOUS
    <3>1. k + 1 = l + 1
      BY Zenon, <1>1, <2>1, <2>3 DEF InboxOK
    <3> QED BY <3>1
  <2> QED BY <2>4, <2>5 DEF InboxOK
<1> QED BY <1>8, <1>9, <1>10, <1>11, <1>12 DEF CallInv

\* A crash takes the inbox of its server with it and starts nothing.
LEMMA CrashKeeps ==
  ASSUME CallInv, NEW s \in Servers, Crash(s)
  PROVE  CallInv'
<1>0. CallTypes /\ (\A t \in Servers : InboxOK(t)) /\ (\A d \in Calls : CallOK(d))
  BY DEF CallInv
<1>1. /\ UNCHANGED <<at, req, target, outcome, ret, resp, runs, view>>
      /\ client' = [c \in Calls |-> IF at[c] = s /\ client[c] \in {"route", "send", "wait"}
                                      THEN "dead" ELSE client[c]]
      /\ srv' = [c \in Calls |-> IF target[c] = s /\ srv[c] \notin {"none", "lost", "done"}
                                   THEN "dead" ELSE srv[c]]
      /\ inbox' = [inbox EXCEPT ![s] = <<>>]
  BY DEF Crash
<1>2. CallTypes'
  <2>1. client' \in [Calls -> Early \cup {"wait", "done", "dead"}]
    BY Zenon, <1>0, <1>1 DEF CallTypes
  <2>2. srv' \in [Calls -> NotRun \cup {"handler", "done", "dead"}]
    BY Zenon, <1>0, <1>1 DEF CallTypes
  <2>3. inbox' \in [Servers -> Seq(Calls)]
    <3>1. inbox \in [Servers -> Seq(Calls)]
      BY Zenon, <1>0 DEF CallTypes
    <3>2. <<>> \in Seq(Calls)
      OBVIOUS
    <3> QED BY <1>1, <3>1, <3>2
  <2> QED BY Zenon, <1>0, <1>1, <2>1, <2>2, <2>3 DEF CallTypes
<1>3. ASSUME NEW c \in Calls PROVE CallOK(c)'
  <2>1. client'[c] = client[c] \/ (client'[c] = "dead" /\ client[c] # "done")
    BY <1>1
  <2>2. srv'[c] = srv[c] \/ (srv'[c] = "dead" /\ srv[c] \notin {"none", "done"})
    BY <1>1
  <2>3. PlaceOK(c) /\ ReplyOK(c) /\ OutcomeOK(c)
    BY <1>0 DEF CallOK
  <2>4. PlaceOK(c)'
    BY Zenon, <1>1, <2>1, <2>2, <2>3 DEF PlaceOK, Addressed, Nonsense, Early, NotRun
  <2>5. ReplyOK(c)'
    BY Zenon, <1>1, <2>2, <2>3 DEF ReplyOK
  <2>6. OutcomeOK(c)'
    BY Zenon, <1>1, <2>1, <2>2, <2>3 DEF OutcomeOK
  <2> QED BY <2>4, <2>5, <2>6 DEF CallOK
<1>4. ASSUME NEW t \in Servers PROVE InboxOK(t)'
  <2>1. CASE t = s
    <3>1. inbox'[t] = <<>> /\ Len(<<>>) = 0
      BY Zenon, <1>0, <1>1, <2>1 DEF CallTypes
    <3> QED BY <3>1 DEF InboxOK
  <2>2. CASE t # s
    <3>1. inbox[t] \in Seq(Calls) /\ InboxOK(t) /\ inbox'[t] = inbox[t]
      BY Zenon, <1>0, <1>1, <2>2 DEF CallTypes
    <3>2. \A k \in 1..Len(inbox[t]) : inbox[t][k] \in Calls /\ target[inbox[t][k]] # s
      <4>1. \A k \in 1..Len(inbox[t]) : inbox[t][k] \in Calls
        BY <3>1
      <4> QED BY Zenon, <2>2, <3>1, <4>1 DEF InboxOK
    <3>3. \A k \in 1..Len(inbox[t]) : srv'[inbox[t][k]] = "inbox" /\ target'[inbox[t][k]] = t
      BY <1>1, <3>1, <3>2 DEF InboxOK
    <3> QED BY <3>1, <3>3 DEF InboxOK
  <2> QED BY <2>1, <2>2
<1> QED BY <1>2, <1>3, <1>4 DEF CallInv

\* What a server does with a request it has taken, as far as the request is concerned: it
\* waits on, its handler is started, or the server is done with it and may answer.
Serves(c) ==
  /\ srv[c] \in {"sem", "pool", "turn", "handler"}
  /\ srv' \in [Calls -> NotRun \cup {"handler", "done", "dead"}] /\ runs' \in [Calls -> Nat]
  /\ DOMAIN ret' = Calls /\ DOMAIN resp' = Calls
  /\ \A d \in Calls \ {c} :
       srv'[d] = srv[d] /\ ret'[d] = ret[d] /\ resp'[d] = resp[d] /\ runs'[d] = runs[d]
  /\ \/ /\ srv[c] # "handler" /\ srv'[c] = "turn"
        /\ resp'[c] = resp[c] /\ runs'[c] = runs[c]
     \/ /\ srv[c] # "handler" /\ srv'[c] = "handler"
        /\ resp'[c] = resp[c] /\ runs'[c] = runs[c] + 1
     \/ /\ srv[c] # "handler" /\ srv'[c] = "done"
        /\ resp'[c] = resp[c] \/ resp'[c] \in Refused
        /\ runs'[c] = runs[c]
     \/ /\ srv[c] = "handler" /\ srv'[c] = "done"
        /\ resp'[c] = resp[c] \/ resp'[c] = NewError(ret'[c], "PIT-000")
        /\ runs'[c] = runs[c]

\* Every step of a server for a request is one of these.
LEMMA ServerStepServes ==
  ASSUME CallTypes, NEW c \in Calls, ServerStep(c)
  PROVE  Serves(c) /\ UNCHANGED <<client, at, req, target, outcome, inbox, view>>
<1>0. /\ srv \in [Calls -> NotRun \cup {"handler", "done", "dead"}] /\ runs \in [Calls -> Nat]
      /\ DOMAIN ret = Calls /\ DOMAIN resp = Calls
      /\ \A p \in {"turn", "handler", "done"} :
           /\ [srv EXCEPT ![c] = p] \in [Calls -> NotRun \cup {"handler", "done", "dead"}]
           /\ [srv EXCEPT ![c] = p][c] = p
           /\ \A d \in Calls \ {c} : [srv EXCEPT ![c] = p][d] = srv[d]
  <2>1. srv \in [Calls -> NotRun \cup {"handler", "done", "dead"}]
    BY Zenon DEF CallTypes
  <2>2. runs \in [Calls -> Nat]
    <3>1. runs \in [Calls -> {0, 1}]
      BY Zenon DEF CallTypes
    <3> QED BY <3>1
  <2>3. \A p \in {"turn", "handler", "done"} : p \in NotRun \cup {"handler", "done", "dead"}
    BY DEF NotRun
  <2> QED BY Zenon, <2>1, <2>2, <2>3 DEF CallTypes
<1>1. HasTurn(c) => srv[c] \in {"pool", "turn"}
  BY DEF HasTurn
<1>2. CASE Acquire(c)
  <2>1. srv[c] = "sem" /\ srv' = [srv EXCEPT ![c] = "turn"] /\ UNCHANGED <<ret, resp, runs>>
    BY <1>2 DEF Acquire
  <2> QED BY Zenon, <1>0, <1>2, <2>1 DEF Acquire, Serves, callVars
<1>3. ASSUME NEW code \in Refused, srv[c] \in {"sem", "pool", "turn"}, Respond(c, code), UNCHANGED <<ret, runs>>
      PROVE  Serves(c) /\ UNCHANGED <<client, at, req, target, outcome, inbox, view>>
  <2>1. /\ srv' = [srv EXCEPT ![c] = "done"]
        /\ resp' = resp \/ resp' = [resp EXCEPT ![c] = code]
        /\ UNCHANGED <<client, at, req, target, outcome, inbox, view>>
    BY <1>3 DEF Respond, Reply, callVars
  <2>2. /\ DOMAIN resp' = Calls /\ (resp'[c] = resp[c] \/ resp'[c] \in Refused)
        /\ \A d \in Calls \ {c} : resp'[d] = resp[d]
    BY <1>0, <1>3, <2>1
  <2>3. srv' \in [Calls -> NotRun \cup {"handler", "done", "dead"}] /\ srv'[c] = "done"
        /\ \A d \in Calls \ {c} : srv'[d] = srv[d]
    BY <1>0, <2>1, Zenon
  <2> QED BY Zenon, <1>0, <1>3, <2>1, <2>2, <2>3 DEF Serves
<1>4. CASE Refuse(c)
  BY <1>1, <1>3, <1>4 DEF Refuse, Refused
<1>5. CASE handleRPC(c)
  <2>1. srv[c] \in {"pool", "turn"}
    BY <1>1, <1>5 DEF handleRPC
  <2>2. ASSUME srv' = [srv EXCEPT ![c] = "handler"], runs' = [runs EXCEPT ![c] = @ + 1],
               UNCHANGED <<up, view, callVars, inbox, pool, ret, resp, failures>>
        PROVE  Serves(c) /\ UNCHANGED <<client, at, req, target, outcome, inbox, view>>
    <3>1. runs' \in [Calls -> Nat] /\ runs'[c] = runs[c] + 1 /\ \A d \in Calls \ {c} : runs'[d] = runs[d]
      BY <1>0, <2>2
    <3>2. srv' \in [Calls -> NotRun \cup {"handler", "done", "dead"}] /\ srv'[c] = "handler"
          /\ \A d \in Calls \ {c} : srv'[d] = srv[d]
      BY Zenon, <1>0, <2>2
    <3> QED BY Zenon, <1>0, <2>1, <2>2, <3>1, <3>2 DEF Serves, callVars
  <2> QED BY <1>3, <1>5, <2>1, <2>2 DEF handleRPC, Refused
<1>6. CASE HandlerReturns(c)
  <2>1. PICK r : /\ ret' = [ret EXCEPT ![c] = ExecuteAfterPipeline(r)]
                 /\ Respond(c, NewError(ret'[c], "PIT-000"))
    BY Zenon, <1>6 DEF HandlerReturns
  <2>2. /\ resp' = resp \/ resp' = [resp EXCEPT ![c] = NewError(ret'[c], "PIT-000")]
        /\ UNCHANGED <<client, at, req, target, outcome, inbox, view>>
        /\ srv' = [srv EXCEPT ![c] = "done"]
    BY <2>1 DEF Respond, Reply, callVars
  <2>3. srv[c] = "handler" /\ runs' = runs
    BY <1>6 DEF HandlerReturns
  <2> QED BY <1>0, <2>1, <2>2, <2>3 DEF Serves
<1> QED BY <1>2, <1>4, <1>5, <1>6 DEF ServerStep

\* They keep the invariant: the handler starts at most once, and an answer is given
\* together with what it reports.
LEMMA ServeKeeps ==
  ASSUME CallInv, NEW c \in Calls, ServerStep(c)
  PROVE  CallInv'
<1>0. CallTypes /\ (\A t \in Servers : InboxOK(t)) /\ (\A d \in Calls : CallOK(d))
  BY DEF CallInv
<1>1. Serves(c) /\ UNCHANGED <<client, at, req, target, outcome, inbox, view>>
  BY <1>0, ServerStepServes
<1>2. PlaceOK(c) /\ ReplyOK(c) /\ OutcomeOK(c)
  BY <1>0 DEF CallOK
<1>3. /\ resp[c] = "none" /\ srv[c] \notin {"none", "done", "inbox"} /\ client[c] \notin Early /\ Addressed(c)
      /\ runs[c] = IF srv[c] = "handler" THEN 1 ELSE 0
  BY Zenon, <1>1, <1>2 DEF Serves, PlaceOK, ReplyOK, NotRun
<1>4. outcome[c] \in {"none", "plain", "PIT-408"} \/ (client[c] = "done" /\ outcome[c] = "ok" /\ req[c].mt = "Notify")
  BY Zenon, <1>2, <1>3 DEF OutcomeOK
<1>5. srv'[c] \in {"turn", "handler", "done"} /\ runs'[c] = IF srv'[c] = "turn" THEN 0 ELSE IF srv'[c] = "handler" THEN 1 ELSE runs[c]
  <2>1. \/ srv[c] # "handler" /\ srv'[c] = "turn" /\ runs'[c] = runs[c]
        \/ srv[c] # "handler" /\ srv'[c] = "handler" /\ runs'[c] = runs[c] + 1
        \/ srv'[c] = "done" /\ runs'[c] = runs[c]
    BY Zenon, <1>1 DEF Serves
  <2>2. srv[c] # "handler" => runs[c] = 0
    BY Zenon, <1>3
  <2> QED BY <2>1, <2>2
<1>6. CallTypes'
  <2>1. \A d \in Calls : srv'[d] \in NotRun \cup {"handler", "done", "dead"} /\ runs'[d] \in {0, 1}
    BY Zenon, <1>0, <1>1, <1>3, <1>5 DEF Serves, CallTypes, NotRun
  <2>2. srv' \in [Calls -> NotRun \cup {"handler", "done", "dead"}] /\ runs' \in [Calls -> {0, 1}]
    BY Zenon, <1>1, <2>1 DEF Serves
  <2> QED BY Zenon, <1>0, <1>1, <2>2 DEF CallTypes, Serves
<1>7. \A d \in Calls \ {c} : srv'[d] = srv[d] /\ ret'[d] = ret[d] /\ resp'[d] = resp[d] /\ runs'[d] = runs[d]
  BY Zenon, <1>1 DEF Serves
<1>8. ASSUME NEW d \in Calls, d # c PROVE CallOK(d)'
  BY Zenon, <1>0, <1>1, <1>7, <1>8, CallAlone
<1>9. \A t \in Servers : InboxOK(t)'
  BY Zenon, <1>0, <1>1, <1>3, <1>7, InboxAlone
<1>10. CallOK(c)'
  <2>1. srv'[c] # "none" /\ Addressed(c)'
    BY Zenon, <1>1, <1>3, <1>5 DEF Serves, Addressed
  <2>2. PlaceOK(c)'
    BY Zenon, <1>1, <1>3, <1>5, <2>1 DEF Serves, PlaceOK, Early, NotRun
  <2>3. ReplyOK(c)'
    BY Zenon, <1>1, <1>3, <1>5 DEF Serves, ReplyOK
  <2>4. OutcomeOK(c)'
    BY Zenon, <1>1, <1>4 DEF OutcomeOK
  <2> QED BY <2>2, <2>3, <2>4 DEF CallOK
<1> QED BY <1>6, <1>8, <1>9, <1>10 DEF CallInv

\* The invariant holds in every state: every step is one of the above, is Notice, which
\* changes only views, or changes nothing.
THEOREM CallInvariant == Spec => []CallInv
<1>1. Init => CallInv
  <2> SUFFICES ASSUME Init PROVE CallInv
    OBVIOUS
  <2>0. Home \in Servers
    BY Zenon, RemoteAssumption
  <2>1. CallTypes
    <3>1. req \in [Calls -> Arguments]
      BY Zenon DEF Init, Arguments
    <3>2. inbox \in [Servers -> Seq(Calls)]
      <4>1. inbox = [s \in Servers |-> <<>>]
        BY Zenon DEF Init
      <4>2. <<>> \in Seq(Calls)
        OBVIOUS
      <4> QED BY <4>1, <4>2, Zenon
    <3>3. client \in [Calls -> Early \cup {"wait", "done", "dead"}]
      <4>1. client = [c \in Calls |-> "idle"] /\ "idle" \in Early
        BY Zenon DEF Init, Early
      <4> QED BY <4>1, Zenon
    <3>4. srv \in [Calls -> NotRun \cup {"handler", "done", "dead"}]
      <4>1. srv = [c \in Calls |-> "none"] /\ "none" \in NotRun
        BY Zenon DEF Init, NotRun
      <4> QED BY <4>1, Zenon
    <3> QED BY Zenon, <2>0, <3>1, <3>2, <3>3, <3>4 DEF Init, CallTypes
  <2>2. \A s \in Servers : InboxOK(s)
    <3>1. \A s \in Servers : inbox[s] = <<>>
      BY Zenon DEF Init
    <3>2. Len(<<>>) = 0 /\ 1..0 = {}
      OBVIOUS
    <3> QED BY <3>1, <3>2 DEF InboxOK
  <2>3. \A c \in Calls : CallOK(c)
    BY Zenon DEF Init, CallOK, PlaceOK, ReplyOK, OutcomeOK, NotRun
  <2> QED BY <2>1, <2>2, <2>3 DEF CallInv
<1>2. CallInv /\ [Next]_vars => CallInv'
  <2> SUFFICES ASSUME CallInv, [Next]_vars PROVE CallInv'
    OBVIOUS
  <2>0. CallTypes /\ (\A t \in Servers : InboxOK(t)) /\ (\A d \in Calls : CallOK(d))
    BY DEF CallInv
  <2>1. ASSUME UNCHANGED <<callVars, serverVars>>, view' \in [Servers -> SUBSET Servers] PROVE CallInv'
    <3>1. CallTypes'
      BY Zenon, <2>0, <2>1 DEF CallTypes, callVars, serverVars
    <3>2. \A d \in Calls : CallOK(d)'
      BY Zenon, <2>0, <2>1, CallAlone DEF callVars, serverVars
    <3>3. \A t \in Servers : InboxOK(t)'
      BY Zenon, <2>0, <2>1, InboxAlone DEF callVars, serverVars
    <3> QED BY <3>1, <3>2, <3>3 DEF CallInv
  <2>2. ASSUME NEW s \in Servers, NEW t \in Servers, Notice(s, t) PROVE CallInv'
    <3>1. view' \in [Servers -> SUBSET Servers]
      BY Zenon, <2>0, <2>2 DEF Notice, CallTypes
    <3> QED BY <2>1, <2>2, <3>1 DEF Notice
  <2>3. CASE UNCHANGED vars
    BY Zenon, <2>0, <2>1, <2>3 DEF vars, CallTypes
  <2>4. ASSUME NEW c \in Calls, CallerStep(c) PROVE CallInv'
    BY Zenon, <2>4, CallerKeeps, SendKeeps, WaitKeeps DEF CallerStep
  <2>5. ASSUME NEW c \in Calls,
               \/ \E s \in Servers, in \in Inputs[c] : doSendRPC(c, s, in)
               \/ RouteFails(c) \/ SendFails(c)
        PROVE  CallInv'
    BY <2>5, CallerKeeps
  <2> QED BY Zenon, <2>2, <2>3, <2>4, <2>5, WaitKeeps, LoseKeeps, ServeKeeps, CrashKeeps, TakeKeeps DEF Next
<1> QED BY <1>1, <1>2, PTL DEF Spec

\* What the invariant says of the runs, the outcomes and the servers of the calls.
LEMMA CallInvImplies ==
  ASSUME CallInv
  PROVE  Truthful /\ CodeSurvives /\ RightServer
<1> SUFFICES ASSUME NEW c \in Calls, CallOK(c), runs[c] \in {0, 1}
             PROVE  /\ outcome[c] = "ok" /\ req[c].mt = "Request" => runs[c] = 1 /\ ret[c] = "ok"
                    /\ outcome[c] \in Refusals => runs[c] = 0 \/ ret[c] = outcome[c]
                    /\ runs[c] = 1 /\ outcome[c] \notin {"none", "ok", "plain", "PIT-408"} =>
                         outcome[c] = IF ret[c] \in Untyped \cup {""} THEN "PIT-000" ELSE ret[c]
                    /\ runs[c] = 1 => Addressed(c)
  BY Zenon DEF CallInv, CallTypes, Truthful, CodeSurvives, RightServer, Addressed
<1>1. srv[c] = "none" => runs[c] = 0
  BY Zenon DEF CallOK, PlaceOK, NotRun
<1>2. OutcomeOK(c)
  BY DEF CallOK
<1>3. outcome[c] = "ok" /\ req[c].mt = "Request" => runs[c] = 1 /\ ret[c] = "ok"
  BY Zenon, <1>2 DEF OutcomeOK, Refused, Received, NewError
<1>4. outcome[c] \in Refusals => runs[c] = 0 \/ ret[c] = outcome[c]
  BY Zenon, <1>1, <1>2 DEF OutcomeOK, Refused, Received, NewError, Refusals
<1>5. runs[c] = 1 /\ outcome[c] \notin {"none", "ok", "plain", "PIT-408"} =>
        outcome[c] = IF ret[c] \in Untyped \cup {""} THEN "PIT-000" ELSE ret[c]
  <2>1. Received(NewError(ret[c], "PIT-000")) = IF ret[c] \in Untyped \cup {""} THEN "PIT-000" ELSE ret[c]
    BY Zenon DEF Received, NewError, Untyped
  <2>2. ASSUME runs[c] = 1, outcome[c] \notin {"none", "ok", "plain", "PIT-408"}
        PROVE  outcome[c] = Received(NewError(ret[c], "PIT-000"))
    BY <1>1, <1>2, <2>2 DEF OutcomeOK
  <2> QED BY Zenon, <2>1, <2>2
<1>6. runs[c] = 1 => Addressed(c)
  BY <1>1 DEF CallOK, PlaceOK
<1> QED BY Zenon, <1>3, <1>4, <1>5, <1>6

\* A request that returns without an error has run its handler once and the handler
\* succeeded; one that is refused has not run, or its handler passed the refusal on.
THEOREM OutcomesAreTruthful == Spec => []Truthful
BY CallInvariant, CallInvImplies, PTL

\* The code of a handler's error reaches the caller, through errors.NewError on the
\* server and the decoding of the response in the client.
THEOREM CodesSurvive == Spec => []CodeSurvives
BY CallInvariant, CallInvImplies, PTL

\* A handler runs on the server doSendRPC was asked for, never on the caller itself.
THEOREM ServersAreRight == Spec => []RightServer
BY CallInvariant, CallInvImplies, PTL

\* The caller of a request knows what became of it: not so after a timeout, or an error
\* without a code, which a lost connection gives.
Conclusive(c) == req[c].mt = "Request" /\ outcome[c] \notin {"none", "plain", "PIT-408"}

\* What a conclusive outcome says does not change any more.
Final ==
  \A c \in Calls : Conclusive(c) =>
    req'[c] = req[c] /\ outcome'[c] = outcome[c] /\ runs'[c] = runs[c] /\ ret'[c] = ret[c]

\* A call with a conclusive outcome is at its end, in its caller and in the server.
LEMMA ConclusiveIsOver ==
  ASSUME CallInv, NEW c \in Calls, Conclusive(c)
  PROVE  client[c] = "done" /\ srv[c] \in {"none", "done"}
<1>1. OutcomeOK(c) /\ req[c].mt # "Notify"
  BY DEF CallInv, CallOK, Conclusive
<1> QED BY Zenon, <1>1 DEF OutcomeOK, Conclusive

\* A step of a caller changes nothing of a call that has returned.
LEMMA CallerLeaves ==
  ASSUME CallInv, NEW c \in Calls, client[c] = "done", NEW d \in Calls,
         \/ \E s \in Servers, in \in Inputs[d] : doSendRPC(d, s, in)
         \/ CallerStep(d) \/ RouteFails(d) \/ SendFails(d) \/ LoseReply(d)
  PROVE  req'[c] = req[c] /\ outcome'[c] = outcome[c] /\ runs' = runs /\ ret' = ret
<1>0. DOMAIN outcome = Calls /\ DOMAIN req = Calls
  BY Zenon DEF CallInv, CallTypes
<1>1. /\ client[d] # "done" /\ runs' = runs /\ ret' = ret
      /\ req' = req \/ \E in : req' = [req EXCEPT ![d] = in]
      /\ outcome' = outcome \/ \E r : outcome' = [outcome EXCEPT ![d] = r]
  <2>1. CASE \E s \in Servers, in \in Inputs[d] : doSendRPC(d, s, in)
    BY Zenon, <2>1 DEF doSendRPC, Return, serverVars
  <2>2. CASE GetServer(d)
    BY Zenon, <2>2 DEF GetServer, Return, serverVars
  <2>3. CASE Route(d)
    BY Zenon, <2>3 DEF Route, Return, serverVars
  <2>4. CASE Send(d)
    <3>1. \/ outcome' = outcome \/ Return(d, "plain") \/ Return(d, "ok")
      BY <2>4 DEF Send
    <3> QED BY Zenon, <2>4, <3>1 DEF Send, Return
  <2>5. CASE ReceiveReply(d) \/ Timeout(d) \/ LoseReply(d)
    BY Zenon, <2>5 DEF ReceiveReply, Timeout, LoseReply, Return, callVars
  <2>6. CASE RouteFails(d) \/ SendFails(d)
    BY Zenon, <2>6 DEF RouteFails, SendFails, Return, serverVars
  <2> QED BY <2>1, <2>2, <2>3, <2>4, <2>5, <2>6 DEF CallerStep
<1> QED BY Zenon, <1>0, <1>1

\* When a caller has got an answer that is not a timeout, its request is over: the
\* handler has run by then or never will, so that making a refused call again does not
\* run it twice.
THEOREM AnswersAreFinal == Spec => [][Final]_vars
<1>1. CallInv /\ [Next]_vars => [Final]_vars
  <2> SUFFICES ASSUME CallInv, Next, NEW c \in Calls, Conclusive(c)
               PROVE  /\ req'[c] = req[c] /\ outcome'[c] = outcome[c]
                      /\ runs'[c] = runs[c] /\ ret'[c] = ret[c]
    BY Zenon DEF Final
  <2>0. client[c] = "done" /\ srv[c] \in {"none", "done"} /\ CallTypes
    BY Zenon, ConclusiveIsOver DEF CallInv
  <2>1. ASSUME NEW d \in Calls,
               \/ \E s \in Servers, in \in Inputs[d] : doSendRPC(d, s, in)
               \/ CallerStep(d) \/ RouteFails(d) \/ SendFails(d) \/ LoseReply(d)
        PROVE  /\ req'[c] = req[c] /\ outcome'[c] = outcome[c]
               /\ runs'[c] = runs[c] /\ ret'[c] = ret[c]
    BY Zenon, <2>0, <2>1, CallerLeaves
  <2>2. ASSUME NEW d \in Calls, ServerStep(d)
        PROVE  /\ req'[c] = req[c] /\ outcome'[c] = outcome[c]
               /\ runs'[c] = runs[c] /\ ret'[c] = ret[c]
    <3>1. Serves(d) /\ UNCHANGED <<client, at, req, target, outcome, inbox, view>>
      BY Zenon, <2>0, <2>2, ServerStepServes
    <3>2. c # d
      BY Zenon, <2>0, <3>1 DEF Serves
    <3> QED BY Zenon, <3>1, <3>2 DEF Serves
  <2>3. ASSUME NEW d \in Calls, LoseRequest(d) PROVE UNCHANGED <<req, outcome, runs, ret>>
    BY Zenon, <2>3 DEF LoseRequest, callVars
  <2>4. ASSUME NEW s \in Servers, Crash(s) \/ processMessages(s)
        PROVE  UNCHANGED <<req, outcome, runs, ret>>
    BY Zenon, <2>4 DEF Crash, processMessages, callVars
  <2>5. ASSUME NEW s \in Servers, NEW t \in Servers, Notice(s, t)
        PROVE  UNCHANGED <<req, outcome, runs, ret>>
    BY Zenon, <2>5 DEF Notice, callVars, serverVars
  <2> QED BY Zenon, <2>1, <2>2, <2>3, <2>4, <2>5 DEF Next
<1> QED BY <1>1, CallInvariant, PTL DEF Spec
=============================================================================
