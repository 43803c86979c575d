---------------------- MODULE PropagatedContextProofs ----------------------
(***************************************************************************)
(* Proofs about the values that travel with a call, for any calls, nested  *)
(* to any depth and sharing maps in any way.                               *)
(***************************************************************************)
EXTENDS PropagatedContext, TLAPS

-----------------------------------------------------------------------------
(* The values that travel with a call *)

\* The response to c, or what became of its request once the server has its map.
Decoded(c) == srv[c] \notin {"none", "net", "lost"}

\* A call that has not sent its request; a nested one runs in a handler that started.
BeforeSend ==
  \A c \in Calls : client[c] \in Using \cup {"idle"} =>
    /\ srv[c] = "none"
    /\ client[c] \in Using /\ MapOf[c] \in Calls =>
         /\ Decoded(MapOf[c])
         /\ client[c] \notin {"setID", "setTimeout", "setStart"}

\* A key that Call has passed is in the map.
KeysSet ==
  \A c \in Calls :
    /\ client[c] \in {"timeout", "setTimeout", "start", "setStart", "encode"} =>
         map[MapOf[c]].id # None
    /\ client[c] \in {"start", "setStart", "encode"} => map[MapOf[c]].timeout # 0
    /\ client[c] = "encode" => map[MapOf[c]].start # 0

\* No time lies in the future.
Past ==
  /\ \A m \in Calls \cup AppMaps : map[m].start <= now
  /\ \A c \in Calls : meta[c].start <= sentAt[c] /\ sentAt[c] <= now

\* A request is complete, and the map its server decodes keeps its values.
Sent ==
  \A c \in Calls : srv[c] # "none" =>
    /\ meta[c].id # None /\ meta[c].timeout # 0 /\ meta[c].start # 0
    /\ srv[c] # "internal"
    /\ MapOf[c] \in Calls => Decoded(MapOf[c])
    /\ Decoded(c) => /\ map[c].id = meta[c].id
                     /\ map[c].timeout = meta[c].timeout
                     /\ map[c].start = meta[c].start

\* A caller gives up after the timeout.
Expired ==
  \A c \in Calls : client[c] = "expired" => now - sentAt[c] >= meta[c].timeout

IndInv == TypeOK /\ BeforeSend /\ KeysSet /\ Past /\ Sent /\ InheritsDeadline /\ Expired

-----------------------------------------------------------------------------
(* Types *)

\* What the four writes of Call do to a map.
LEMMA WriteFacts ==
  ASSUME NEW v \in Values, NEW x \in Calls, NEW t \in Timeouts, NEW n \in 0..MaxTime
  PROVE  /\ [v EXCEPT !.route = x] \in Values /\ [v EXCEPT !.id = x] \in Values
         /\ [v EXCEPT !.timeout = t] \in Values /\ [v EXCEPT !.start = n] \in Values
         /\ [v EXCEPT !.id = x, !.route = x] \in Values
  BY Zenon DEF Values

\* What the server decodes: the values of the metadata, but for the route and a
\* missing request ID.
LEMMA DecodeFacts ==
  ASSUME NEW c \in Calls, meta[c] \in Values
  PROVE  /\ GetContextFromRequest(c) \in Values
         /\ GetContextFromRequest(c).route = c
         /\ meta[c].id # None => GetContextFromRequest(c).id = meta[c].id
         /\ GetContextFromRequest(c).timeout = meta[c].timeout
         /\ GetContextFromRequest(c).start = meta[c].start
  BY Zenon DEF Values, GetContextFromRequest

\* Every step of a caller, a server or the clock keeps the types.
LEMMA Typed == TypeOK /\ [Next]_vars => TypeOK'
  <1> SUFFICES ASSUME TypeOK, [Next]_vars PROVE TypeOK'
    OBVIOUS
  <1>0. /\ \A c \in Calls : /\ MapOf[c] \in Calls \cup AppMaps
                            /\ ReqTimeout[c] \in Timeouts /\ map[MapOf[c]] \in Values
        /\ now \in 0..MaxTime
    BY ContextAssumption DEF Timeouts, TypeOK
  <1>1. ASSUME NEW c \in Calls, SetRoute(c) PROVE TypeOK'
    <2>1. map' \in [Calls \cup AppMaps -> Values]
      BY Zenon, <1>0, <1>1, WriteFacts DEF TypeOK, SetRoute
    <2> QED
      BY <1>1, <2>1 DEF TypeOK, SetRoute, Using
  <1>2. ASSUME NEW c \in Calls, SetRequestID(c) PROVE TypeOK'
    <2>1. map' \in [Calls \cup AppMaps -> Values]
      BY Zenon, <1>0, <1>2, WriteFacts DEF TypeOK, SetRequestID
    <2> QED
      BY <1>2, <2>1 DEF TypeOK, SetRequestID, Using
  <1>3. ASSUME NEW c \in Calls, SetTimeout(c) PROVE TypeOK'
    <2>1. map' \in [Calls \cup AppMaps -> Values]
      BY Zenon, <1>0, <1>3, WriteFacts DEF TypeOK, SetTimeout
    <2> QED
      BY <1>3, <2>1 DEF TypeOK, SetTimeout, Using
  <1>4. ASSUME NEW c \in Calls, SetStart(c) PROVE TypeOK'
    <2>1. map' \in [Calls \cup AppMaps -> Values]
      BY Zenon, <1>0, <1>4, WriteFacts DEF TypeOK, SetStart
    <2> QED
      BY <1>4, <2>1 DEF TypeOK, SetStart, Using
  <1>5. ASSUME NEW c \in Calls,
               StartCall(c) \/ CheckRequestID(c) \/ CheckTimeout(c) \/ CheckStart(c)
        PROVE  TypeOK'
    BY <1>5 DEF TypeOK, StartCall, CheckRequestID, CheckTimeout, CheckStart, Check, Using
  <1>6. ASSUME NEW c \in Calls, buildRequest(c) PROVE TypeOK'
    BY <1>0, <1>6, ContextAssumption DEF TypeOK, buildRequest
  <1>7. ASSUME NEW c \in Calls, ReceiveReply(c) \/ Expire(c) PROVE TypeOK'
    BY <1>7 DEF TypeOK, ReceiveReply, Expire
  <1>8. ASSUME NEW c \in Calls, NEW d \in Calls, ConcurrentMapAccess(c, d) PROVE TypeOK'
    BY <1>0, <1>8 DEF TypeOK, ConcurrentMapAccess
  <1>9. ASSUME NEW c \in Calls, Receive(c) PROVE TypeOK'
    <2>1. meta[c] \in Values
      BY DEF TypeOK
    <2>2. map' \in [Calls \cup AppMaps -> Values]
      BY <1>9, <2>1, DecodeFacts DEF TypeOK, Receive
    <2> QED
      BY <1>9, <2>2 DEF TypeOK, Receive
  <1>10. ASSUME NEW c \in Calls, Lose(c) \/ processRequest(c) \/ HandlerReturns(c)
         PROVE  TypeOK'
    BY <1>10 DEF TypeOK, Lose, processRequest, HandlerReturns
  <1>11. CASE Tick
    BY <1>11, ContextAssumption DEF TypeOK, Tick
  <1>12. CASE UNCHANGED vars
    BY <1>12 DEF TypeOK, vars
  <1> QED
    BY <1>1, <1>2, <1>3, <1>4, <1>5, <1>6, <1>7, <1>8, <1>9, <1>10, <1>11, <1>12
    DEF Next, CallStep, ServerStep

-----------------------------------------------------------------------------
(* The inductive invariant *)

\* SetRoute changes no key but the route.
LEMMA RouteWritten ==
  ASSUME TypeOK, NEW c \in Calls, SetRoute(c)
  PROVE  \A m \in Calls \cup AppMaps :
           /\ map'[m].id = map[m].id
           /\ map'[m].timeout = map[m].timeout
           /\ map'[m].start = map[m].start
  BY ContextAssumption DEF TypeOK, SetRoute, Values

\* Call writes the request ID into its own map and nothing else anywhere.
LEMMA IDWritten ==
  ASSUME TypeOK, NEW c \in Calls, SetRequestID(c)
  PROVE  \A m \in Calls \cup AppMaps :
           /\ map'[m].id = IF m = MapOf[c] THEN c ELSE map[m].id
           /\ map'[m].timeout = map[m].timeout
           /\ map'[m].start = map[m].start
  BY ContextAssumption DEF TypeOK, SetRequestID, Values

\* Call writes the timeout into its own map and nothing else anywhere.
LEMMA TimeoutWritten ==
  ASSUME TypeOK, NEW c \in Calls, SetTimeout(c)
  PROVE  \A m \in Calls \cup AppMaps :
           /\ map'[m].id = map[m].id
           /\ map'[m].timeout = IF m = MapOf[c] THEN ReqTimeout[c] ELSE map[m].timeout
           /\ map'[m].start = map[m].start
  BY ContextAssumption DEF TypeOK, SetTimeout, Values

\* Call writes the start time into its own map and nothing else anywhere.
LEMMA StartWritten ==
  ASSUME TypeOK, NEW c \in Calls, SetStart(c)
  PROVE  \A m \in Calls \cup AppMaps :
           /\ map'[m].id = map[m].id
           /\ map'[m].timeout = map[m].timeout
           /\ map'[m].start = IF m = MapOf[c] THEN now ELSE map[m].start
  BY ContextAssumption DEF TypeOK, SetStart, Values

\* Every step of a caller, a server or the clock keeps the inductive invariant.
LEMMA Inductive == IndInv /\ [Next]_vars => IndInv'
  <1> SUFFICES ASSUME IndInv, [Next]_vars PROVE IndInv'
    OBVIOUS
  <1> USE DEF IndInv
  <1>t. TypeOK /\ TypeOK'
    BY Typed
  <1>0. /\ \A c \in Calls : /\ MapOf[c] \in Calls \cup AppMaps /\ MapOf[c] # c
                            /\ ReqTimeout[c] \in Nat \ {0}
        /\ None \notin Calls /\ now \in Nat \ {0} /\ sentAt \in [Calls -> Int]
    BY ContextAssumption, <1>t DEF TypeOK
  <1>1. ASSUME NEW c \in Calls, SetRoute(c) PROVE IndInv'
    <2>1. /\ client' = [client EXCEPT ![c] = "id"] /\ client[c] = "route"
          /\ UNCHANGED <<now, sentAt, meta, srv>>
      BY <1>1 DEF SetRoute
    <2>2. BeforeSend'
      BY <1>t, <2>1 DEF BeforeSend, Decoded, Using, TypeOK
    <2>3. KeysSet'
      BY <1>t, <1>0, <1>1, <2>1, RouteWritten DEF KeysSet, TypeOK
    <2>4. Past' /\ Sent'
      BY <1>t, <1>1, <2>1, RouteWritten DEF Past, Sent, Decoded
    <2>5. InheritsDeadline' /\ Expired'
      BY <1>t, <2>1 DEF InheritsDeadline, Expired, TypeOK
    <2> QED
      BY <1>t, <2>2, <2>3, <2>4, <2>5
  <1>2. ASSUME NEW c \in Calls, SetRequestID(c) PROVE IndInv'
    <2>1. /\ client' = [client EXCEPT ![c] = "timeout"] /\ client[c] = "setID"
          /\ UNCHANGED <<now, sentAt, meta, srv>>
      BY <1>2 DEF SetRequestID
    <2>2. BeforeSend' /\ MapOf[c] \notin Calls
      BY <1>t, <2>1 DEF BeforeSend, Decoded, Using, TypeOK
    <2>3. KeysSet'
      BY <1>t, <1>0, <1>2, <2>1, IDWritten DEF KeysSet, TypeOK
    <2>4. Past' /\ Sent'
      <3>0. \A m \in Calls \cup AppMaps : map'[m].start = map[m].start
        BY <1>t, <1>2, IDWritten
      <3>1. Past'
        BY <2>1, <3>0 DEF Past
      <3>2. Sent'
        BY <1>t, <1>2, <2>1, <2>2, IDWritten DEF Sent, Decoded
      <3> QED
        BY <3>1, <3>2
    <2>5. InheritsDeadline' /\ Expired'
      BY <1>t, <2>1 DEF InheritsDeadline, Expired, TypeOK
    <2> QED
      BY <1>t, <2>2, <2>3, <2>4, <2>5
  <1>3. ASSUME NEW c \in Calls, SetTimeout(c) PROVE IndInv'
    <2>1. /\ client' = [client EXCEPT ![c] = "start"] /\ client[c] = "setTimeout"
          /\ UNCHANGED <<now, sentAt, meta, srv>>
      BY <1>3 DEF SetTimeout
    <2>2. BeforeSend' /\ MapOf[c] \notin Calls
      BY <1>t, <2>1 DEF BeforeSend, Decoded, Using, TypeOK
    <2>3. KeysSet'
      <3>1. \A d \in Calls : client'[d] = IF d = c THEN "start" ELSE client[d]
        BY <1>t, <2>1 DEF TypeOK
      <3> QED BY <1>t, <1>0, <1>3, <2>1, <3>1, TimeoutWritten DEF KeysSet
    <2>4. Past' /\ Sent'
      <3>0. \A m \in Calls \cup AppMaps : map'[m].start = map[m].start
        BY <1>t, <1>3, TimeoutWritten
      <3>1. Past'
        BY <2>1, <3>0 DEF Past
      <3>2. Sent'
        BY <1>t, <1>3, <2>1, <2>2, TimeoutWritten DEF Sent, Decoded
      <3> QED
        BY <3>1, <3>2
    <2>5. InheritsDeadline' /\ Expired'
      BY <1>t, <2>1 DEF InheritsDeadline, Expired, TypeOK
    <2> QED
      BY <1>t, <2>2, <2>3, <2>4, <2>5
  <1>4. ASSUME NEW c \in Calls, SetStart(c) PROVE IndInv'
    <2>1. /\ client' = [client EXCEPT ![c] = "encode"] /\ client[c] = "setStart"
          /\ UNCHANGED <<now, sentAt, meta, srv>>
      BY <1>4 DEF SetStart
    <2>2. BeforeSend' /\ MapOf[c] \notin Calls
      BY <1>t, <2>1 DEF BeforeSend, Decoded, Using, TypeOK
    <2>3. KeysSet'
      BY <1>t, <1>0, <1>4, <2>1, StartWritten DEF KeysSet, TypeOK
    <2>4. Past' /\ Sent'
      BY <1>t, <1>0, <1>4, <2>1, <2>2, StartWritten DEF Past, Sent, Decoded
    <2>5. InheritsDeadline' /\ Expired'
      BY <1>t, <2>1 DEF InheritsDeadline, Expired, TypeOK
    <2> QED
      BY <1>t, <2>2, <2>3, <2>4, <2>5
  <1>5. ASSUME NEW c \in Calls, StartCall(c) PROVE IndInv'
    <2>1. /\ client' = [client EXCEPT ![c] = "route"] /\ client[c] = "idle"
          /\ MapOf[c] \in Calls => srv[MapOf[c]] = "handler"
          /\ UNCHANGED <<now, map, sentAt, meta, srv>>
      BY <1>5 DEF StartCall
    <2>2. BeforeSend'
      BY <1>t, <2>1 DEF BeforeSend, Decoded, Using, TypeOK
    <2>3. KeysSet' /\ Past' /\ Sent' /\ InheritsDeadline' /\ Expired'
      BY <1>t, <2>1 DEF KeysSet, Past, Sent, Decoded, InheritsDeadline, Expired, TypeOK
    <2> QED
      BY <1>t, <2>2, <2>3
  <1>6. ASSUME NEW c \in Calls, CheckRequestID(c) \/ CheckTimeout(c) \/ CheckStart(c)
        PROVE  IndInv'
    <2>1. /\ UNCHANGED <<now, map, sentAt, meta, srv>> /\ client[c] \in Using
          /\ \/ client[c] = "id" /\ client' = [client EXCEPT ![c] =
                  IF map[MapOf[c]].id # None THEN "timeout" ELSE "setID"]
             \/ client[c] = "timeout" /\ client' = [client EXCEPT ![c] =
                  IF map[MapOf[c]].timeout # 0 THEN "start" ELSE "setTimeout"]
             \/ client[c] = "start" /\ client' = [client EXCEPT ![c] =
                  IF map[MapOf[c]].start # 0 THEN "encode" ELSE "setStart"]
      BY <1>6 DEF CheckRequestID, CheckTimeout, CheckStart, Check, Using
    <2>2. MapOf[c] \in Calls =>
            /\ map[MapOf[c]].id # None /\ map[MapOf[c]].timeout # 0
            /\ map[MapOf[c]].start # 0
      BY <2>1 DEF BeforeSend, Sent, Decoded
    <2>3. BeforeSend'
      BY <1>t, <2>1, <2>2 DEF BeforeSend, Decoded, Using, TypeOK
    <2>4. KeysSet'
      BY <1>t, <2>1 DEF KeysSet, TypeOK
    <2>5. Past' /\ Sent' /\ InheritsDeadline' /\ Expired'
      BY <1>t, <2>1 DEF Past, Sent, Decoded, InheritsDeadline, Expired, TypeOK
    <2> QED
      BY <1>t, <2>3, <2>4, <2>5
  <1>7. ASSUME NEW c \in Calls, buildRequest(c) PROVE IndInv'
    <2>1. /\ client' = [client EXCEPT ![c] = "wait"] /\ client[c] = "encode"
          /\ meta' = [meta EXCEPT ![c] = map[MapOf[c]]]
          /\ sentAt' = [sentAt EXCEPT ![c] = now]
          /\ srv' = [srv EXCEPT ![c] = "net"]
          /\ UNCHANGED <<now, map>>
      BY <1>7 DEF buildRequest
    <2>2. srv[c] = "none" /\ (MapOf[c] \in Calls => Decoded(MapOf[c]))
      BY <2>1 DEF BeforeSend, Using
    <2>3. BeforeSend'
      BY <1>t, <2>1, <2>2 DEF BeforeSend, Decoded, Using, TypeOK
    <2>4. KeysSet'
      BY <1>t, <2>1 DEF KeysSet, TypeOK
    <2>5. Past'
      BY <1>t, <1>0, <2>1 DEF Past, TypeOK
    <2>6. Sent'
      BY <1>t, <1>0, <2>1, <2>2 DEF Sent, KeysSet, Decoded, TypeOK
    <2>7. InheritsDeadline'
      BY <1>t, <1>0, <2>1, <2>2 DEF InheritsDeadline, Sent, Decoded, TypeOK
    <2>8. Expired'
      BY <1>t, <2>1 DEF Expired, TypeOK
    <2> QED
      BY <1>t, <2>3, <2>4, <2>5, <2>6, <2>7, <2>8
  <1>8. ASSUME NEW c \in Calls, ReceiveReply(c) \/ Expire(c) PROVE IndInv'
    <2>1. /\ UNCHANGED <<now, map, sentAt, meta, srv>>
          /\ \/ client' = [client EXCEPT ![c] = srv[c]]
                  /\ srv[c] \in {"ok", "refused", "internal"}
             \/ client' = [client EXCEPT ![c] = "expired"]
                  /\ now - sentAt[c] >= meta[c].timeout
      BY <1>8 DEF ReceiveReply, Expire
    <2>2. BeforeSend' /\ KeysSet'
      BY <1>t, <2>1 DEF BeforeSend, KeysSet, Decoded, Using, TypeOK
    <2>3. Past' /\ Sent' /\ InheritsDeadline'
      BY <2>1 DEF Past, Sent, Decoded, InheritsDeadline
    <2>4. Expired'
      BY <1>t, <2>1 DEF Expired, TypeOK
    <2> QED
      BY <1>t, <2>2, <2>3, <2>4
  <1>9. ASSUME NEW c \in Calls, NEW d \in Calls, ConcurrentMapAccess(c, d)
        PROVE  IndInv'
    <2>1. /\ UNCHANGED <<now, map, sentAt, meta>>
          /\ client[c] \in Using
          /\ \A x \in Calls : client'[x] \in {client[x], "dead"}
          /\ MapOf[c] \in Calls => srv' = [srv EXCEPT ![MapOf[c]] = "dead"]
          /\ MapOf[c] \notin Calls => srv' = srv
      BY <1>9 DEF ConcurrentMapAccess
    <2>2. MapOf[c] \in Calls => Decoded(MapOf[c])
      BY <2>1 DEF BeforeSend
    <2>3. \A x \in Calls : /\ srv'[x] = srv[x] \/ (srv'[x] = "dead" /\ Decoded(x))
      BY <1>t, <2>1, <2>2 DEF TypeOK
    <2>4. BeforeSend'
      BY <2>1, <2>3 DEF BeforeSend, Decoded, Using
    <2>5. KeysSet' /\ Expired'
      BY <2>1 DEF KeysSet, Expired
    <2>6. Past' /\ Sent'
      BY <2>1, <2>3 DEF Past, Sent, Decoded
    <2>7. InheritsDeadline'
      BY <2>1, <2>3 DEF InheritsDeadline, Decoded
    <2> QED
      BY <1>t, <2>4, <2>5, <2>6, <2>7
  <1>10. ASSUME NEW c \in Calls, Receive(c) PROVE IndInv'
    <2>1. /\ map' = [map EXCEPT ![c] = GetContextFromRequest(c)]
          /\ srv[c] = "net" /\ UNCHANGED <<now, client, sentAt, meta>>
          /\ srv' = [srv EXCEPT ![c] = "queued"]
      BY Zenon, <1>10 DEF Receive, parseRequestTimeout, Sent
    <2>2. /\ map'[c].id = meta[c].id /\ map'[c].timeout = meta[c].timeout
          /\ map'[c].start = meta[c].start
          /\ \A m \in Calls \cup AppMaps : m # c => map'[m] = map[m]
      BY <1>t, <2>1, DecodeFacts DEF TypeOK, Sent
    <2>3. \A d \in Calls : client[d] \in Using => MapOf[d] # c
      BY <2>1 DEF BeforeSend, Decoded
    <2>4. BeforeSend'
      BY <1>t, <2>1 DEF BeforeSend, Decoded, Using, TypeOK
    <2>5. KeysSet'
      BY <1>0, <2>1, <2>2, <2>3 DEF KeysSet, Using
    <2>6. Past'
      <3>1. meta[c].start <= now
        BY <1>t, <1>0 DEF Past, TypeOK, Values
      <3> QED
        BY <2>1, <2>2, <3>1 DEF Past
    <2>7. Sent'
      BY <1>t, <2>1, <2>2 DEF Sent, Decoded, TypeOK
    <2>8. InheritsDeadline' /\ Expired'
      BY <1>t, <2>1 DEF InheritsDeadline, Expired, TypeOK
    <2> QED
      BY <1>t, <2>4, <2>5, <2>6, <2>7, <2>8
  <1>11. ASSUME NEW c \in Calls, Lose(c) \/ processRequest(c) \/ HandlerReturns(c)
         PROVE  IndInv'
    <2>1. /\ UNCHANGED <<now, map, client, sentAt, meta>>
          /\ \/ srv[c] = "net" /\ srv' = [srv EXCEPT ![c] = "lost"]
             \/ /\ srv[c] \in {"queued", "handler"}
                /\ \E r \in {"refused", "handler", "ok"} : srv' = [srv EXCEPT ![c] = r]
      BY <1>11 DEF Lose, processRequest, HandlerReturns
    <2>2. \A d \in Calls : /\ srv'[d] # "none" <=> srv[d] # "none"
                           /\ Decoded(d)' <=> Decoded(d)
                           /\ srv'[d] = "internal" => srv[d] = "internal"
      BY <1>t, <2>1 DEF Decoded, TypeOK
    <2>3. BeforeSend' /\ KeysSet'
      BY <2>1, <2>2 DEF BeforeSend, KeysSet
    <2>4. Past' /\ Sent'
      BY <2>1, <2>2 DEF Past, Sent
    <2>5. InheritsDeadline' /\ Expired'
      BY <2>1, <2>2 DEF InheritsDeadline, Expired
    <2> QED
      BY <1>t, <2>3, <2>4, <2>5
  <1>12. CASE Tick
    <2>1. now' = now + 1 /\ UNCHANGED <<map, client, sentAt, meta, srv>>
      BY <1>12 DEF Tick
    <2>2. BeforeSend' /\ KeysSet' /\ Sent' /\ InheritsDeadline'
      BY Zenon, <2>1 DEF BeforeSend, KeysSet, Sent, InheritsDeadline, Decoded
    <2>3. Past'
      BY <1>t, <1>0, <2>1 DEF Past, TypeOK, Values
    <2>4. Expired'
      <3>1. \A c \in Calls : meta[c].timeout \in Nat
        BY <1>t, <1>0 DEF TypeOK, Values, Timeouts
      <3> QED
        BY <1>0, <2>1, <3>1 DEF Expired
    <2> QED
      BY <1>t, <2>2, <2>3, <2>4
  <1>13. CASE UNCHANGED vars
    BY <1>t, <1>13 DEF vars, BeforeSend, KeysSet, Past, Sent, InheritsDeadline, Expired,
                       Decoded
  <1> QED
    BY <1>1, <1>2, <1>3, <1>4, <1>5, <1>6, <1>7, <1>8, <1>9, <1>10, <1>11, <1>12, <1>13
    DEF Next, CallStep, ServerStep

\* The inductive invariant holds before the first call.
LEMMA Initial == Init => IndInv
  <1> SUFFICES ASSUME Init PROVE IndInv
    OBVIOUS
  <1>1. Empty \in Values
    BY ContextAssumption DEF Empty, Values
  <1>2. TypeOK
    BY <1>1, ContextAssumption DEF Init, TypeOK, Using
  <1>3. BeforeSend /\ KeysSet /\ Sent /\ InheritsDeadline /\ Expired
    BY DEF Init, BeforeSend, KeysSet, Sent, InheritsDeadline, Expired, Using, Decoded
  <1>4. Past
    BY DEF Init, Past, Empty
  <1> QED
    BY <1>2, <1>3, <1>4 DEF IndInv

\* The inductive invariant holds in every state.
LEMMA Invariance == Spec => []IndInv
  BY Initial, Inductive, PTL DEF Spec

-----------------------------------------------------------------------------
(* The results *)

\* Every variable has its type, whatever calls run at once.
THEOREM Typing == Spec => []TypeOK
  <1>1. IndInv => TypeOK
    BY DEF IndInv
  <1> QED
    BY <1>1, Invariance, PTL

\* Every request leaves Call with a request ID, a timeout and a start time, and no
\* server answers it with an internal error, although calls that share a context
\* write to its map at the same time.
THEOREM Completeness == Spec => []CompleteMetadata
  <1>1. IndInv => CompleteMetadata
    BY DEF IndInv, Sent, CompleteMetadata
  <1> QED
    BY <1>1, Invariance, PTL

\* A call made in a handler carries the request ID, start time and timeout of the
\* request that is handled, at any depth of nesting.
THEOREM Chaining == Spec => []InheritsDeadline
  <1>1. IndInv => InheritsDeadline
    BY DEF IndInv
  <1> QED
    BY <1>1, Invariance, PTL

\* Only processRequest lets a handler start.
LEMMA HandlerStart ==
  ASSUME IndInv, Next, NEW c \in Calls, srv[c] # "handler", srv'[c] = "handler"
  PROVE  processRequest(c)
  <1>1. ASSUME NEW d \in Calls, CallStep(d) PROVE FALSE
    BY <1>1 DEF IndInv, TypeOK, CallStep, StartCall, SetRoute, CheckRequestID,
                SetRequestID, CheckTimeout, SetTimeout, CheckStart, SetStart, Check,
                buildRequest, ReceiveReply, Expire
  <1>2. ASSUME NEW d \in Calls, NEW x \in Calls,
               ConcurrentMapAccess(d, x) \/ Lose(d) \/ Receive(d) \/ HandlerReturns(d)
        PROVE  FALSE
    BY <1>2 DEF IndInv, TypeOK, ConcurrentMapAccess, Lose, Receive, HandlerReturns
  <1>3. PICK d \in Calls : processRequest(d)
    BY <1>1, <1>2 DEF Next, ServerStep, Tick
  <1>4. d = c
    BY <1>3 DEF IndInv, TypeOK, processRequest
  <1> QED
    BY <1>3, <1>4

\* When clocks differ by less than half of every timeout, a handler starts only while
\* its caller has not given up: processRequest's check at half of the timeout makes up
\* for a start time older than the request and for the difference of the clocks.
THEOREM Punctuality ==
  ASSUME ClocksAgree
  PROVE  Spec => StartsWhileCallerWaits
  <1> DEFINE Punctual == \A c \in Calls :
        srv[c] # "handler" /\ srv'[c] = "handler" => client[c] # "expired"
  <1>1. IndInv /\ [Next]_vars => [Punctual]_vars
    <2> SUFFICES ASSUME IndInv, Next,
                        NEW c \in Calls, srv[c] # "handler", srv'[c] = "handler",
                        client[c] = "expired"
                 PROVE  FALSE
      BY DEF IndInv
    <2>1. processRequest(c)
      BY HandlerStart
    <2>2. /\ srv[c] = "queued"
          /\ ~(2 * (now + Skew[c] - meta[c].start) > meta[c].timeout)
      BY <2>1 DEF processRequest, IndInv, TypeOK
    <2>3. /\ now \in Int /\ Skew[c] \in Int /\ sentAt[c] \in Int
          /\ meta[c].start \in Int /\ meta[c].timeout \in Int
          /\ meta[c].timeout \in Timeouts
      BY <2>2, ContextAssumption DEF IndInv, TypeOK, Values, Timeouts, Sent
    <2>4. -meta[c].timeout < 2 * Skew[c]
      BY <2>3 DEF ClocksAgree, Timeouts
    <2>5. now - sentAt[c] >= meta[c].timeout /\ meta[c].start <= sentAt[c]
      BY DEF IndInv, Expired, Past
    <2> QED
      BY <2>2, <2>3, <2>4, <2>5
  <1> QED
    BY <1>1, Invariance, PTL DEF Spec, StartsWhileCallerWaits

\* A map that was decoded and not yet given to a handler holds the route of its
\* message, and nobody writes to it.
Fresh ==
  \A c \in Calls : srv[c] = "queued" =>
    /\ map[c].route = c
    /\ \A d \in Calls : MapOf[d] = c => client[d] \notin Using

\* Fresh, which OwnRoute needs, holds in every state.
LEMMA FreshInvariance == Spec => []Fresh
  <1>1. Init => Fresh
    BY DEF Init, Fresh
  <1>2. IndInv /\ Fresh /\ [Next]_vars => Fresh'
    <2> SUFFICES ASSUME IndInv, Fresh, [Next]_vars PROVE Fresh'
      OBVIOUS
    <2>t. TypeOK /\ MapOf \in [Calls -> Calls \cup AppMaps]
      BY ContextAssumption DEF IndInv
    <2>1. ASSUME NEW c \in Calls,
                 SetRoute(c) \/ SetRequestID(c) \/ SetTimeout(c) \/ SetStart(c)
          PROVE  Fresh'
      <3>1. /\ client[c] \in Using /\ srv' = srv
            /\ \A d \in Calls : d # c => client'[d] = client[d]
            /\ \A m \in Calls \cup AppMaps : m # MapOf[c] => map'[m] = map[m]
        BY <2>t, <2>1 DEF TypeOK, SetRoute, SetRequestID, SetTimeout, SetStart, Using
      <3> QED
        BY <2>t, <3>1 DEF Fresh
    <2>2. ASSUME NEW c \in Calls, StartCall(c) PROVE Fresh'
      BY <2>t, <2>2 DEF TypeOK, StartCall, Fresh, Using
    <2>3. ASSUME NEW c \in Calls,
                 \/ CheckRequestID(c) \/ CheckTimeout(c) \/ CheckStart(c)
                 \/ ReceiveReply(c) \/ Expire(c)
          PROVE  Fresh'
      <3>1. /\ UNCHANGED <<map, srv>>
            /\ \A d \in Calls : client'[d] \in Using => client[d] \in Using
        BY <2>t, <2>3 DEF TypeOK, CheckRequestID, CheckTimeout, CheckStart, Check,
                          ReceiveReply, Expire, Using
      <3> QED
        BY <3>1 DEF Fresh
    <2>4. ASSUME NEW c \in Calls, buildRequest(c) PROVE Fresh'
      BY <2>t, <2>4 DEF TypeOK, buildRequest, Fresh, Using
    <2>5. ASSUME NEW c \in Calls, NEW d \in Calls, ConcurrentMapAccess(c, d) PROVE Fresh'
      <3>1. /\ UNCHANGED map
            /\ \A x \in Calls : client'[x] \in Using => client[x] \in Using
            /\ \A x \in Calls : srv'[x] \in {srv[x], "dead"}
        BY <2>t, <2>5 DEF TypeOK, ConcurrentMapAccess, Using
      <3> QED
        BY <3>1 DEF Fresh
    <2>6. ASSUME NEW c \in Calls, Receive(c) PROVE Fresh'
      <3>1. /\ srv[c] = "net" /\ UNCHANGED client
            /\ map' = [map EXCEPT ![c] = GetContextFromRequest(c)]
            /\ \A d \in Calls : d # c => srv'[d] = srv[d]
        BY <2>t, <2>6 DEF TypeOK, Receive
      <3>2. map'[c].route = c /\ \A d \in Calls : d # c => map'[d] = map[d]
        BY <2>t, <3>1, DecodeFacts DEF TypeOK
      <3>3. \A d \in Calls : MapOf[d] = c => client[d] \notin Using
        BY <3>1 DEF IndInv, BeforeSend, Decoded
      <3> QED
        BY <3>1, <3>2, <3>3 DEF Fresh
    <2>7. ASSUME NEW c \in Calls, Lose(c) \/ processRequest(c) \/ HandlerReturns(c)
          PROVE  Fresh'
      BY <2>t, <2>7 DEF TypeOK, Lose, processRequest, HandlerReturns, Fresh
    <2>8. CASE Tick \/ UNCHANGED vars
      BY <2>8 DEF Tick, vars, Fresh
    <2> QED
      BY <2>1, <2>2, <2>3, <2>4, <2>5, <2>6, <2>7, <2>8 DEF Next, CallStep, ServerStep
  <1> QED
    BY <1>1, <1>2, Invariance, PTL DEF Spec

\* A handler starts with the route of its own message in its context, whatever routes
\* concurrent calls have put into the map its metadata were encoded from.
THEOREM OwnRoute == Spec => HandlerSeesItsRoute
  <1> DEFINE Own == \A c \in Calls :
        srv[c] # "handler" /\ srv'[c] = "handler" => map'[c].route = c
  <1>1. IndInv /\ Fresh /\ [Next]_vars => [Own]_vars
    <2> SUFFICES ASSUME IndInv, Fresh, Next,
                        NEW c \in Calls, srv[c] # "handler", srv'[c] = "handler"
                 PROVE  map'[c].route = c
      OBVIOUS
    <2>1. processRequest(c)
      BY HandlerStart
    <2> QED
      BY <2>1 DEF processRequest, Fresh
  <1> QED
    BY <1>1, Invariance, FreshInvariance, PTL DEF Spec, HandlerSeesItsRoute

=============================================================================
