----------------------- MODULE ServiceDiscoveryProofs -----------------------
(***************************************************************************)
(* Proofs about ServiceDiscovery.  Types hold for any number of lease      *)
(* renewals; the other results for an instance whose lease is never lost   *)
(* (Renewers = {}), because with a renewal beside the ticker two syncs may *)
(* overlap and the watcher is released too early.                          *)
(***************************************************************************)
EXTENDS ServiceDiscovery, TLAPS

-----------------------------------------------------------------------------
(* The inductive invariant *)

\* The watcher waits exactly while the sync runs, and whoever is inside addServer
\* or deleteServer is at a place of its loop that calls them.
Handshake ==
  /\ Syncing(Ticker) <=> pc[Watcher] = "held"
  /\ op[Watcher] # "none" => pc[Watcher] = "apply"
  /\ batch > 0 => pc[Watcher] = "apply"
  /\ op[Ticker] # "none" => pc[Ticker] \in {"add", "range"}

InFlight(k, s) == \E p \in Procs : op[p] \in k /\ sv[p] = s

\* What the three views hold while one of them is already updated and another one
\* is not.
OpTargets ==
  \A p \in Procs :
    /\ op[p] \in {"addType", "addNotify", "delID"} => sv[p] \in serverMapByID
    /\ op[p] \in {"delType", "delNotify"} => sv[p] \notin serverMapByID
    /\ op[p] = "addNotify" => sv[p] # Self
ByType ==
  \A t \in Types, s \in ServerIDs :
    s \in serverMapByType[t] <=>
      /\ TypeOf[s] = t
      /\ \/ s \in serverMapByID /\ ~InFlight({"addType"}, s)
         \/ InFlight({"delType"}, s)
Told ==
  \A s \in ServerIDs \ {Self} :
    /\ balance[s] \in {0, 1}
    /\ balance[s] = 1 <=>
         \/ s \in serverMapByID /\ ~InFlight({"addType", "addNotify"}, s)
         \/ InFlight({"delType", "delNotify"}, s)
Views == OpTargets /\ ByType /\ Told

-----------------------------------------------------------------------------
(* Facts about the constants and the queue of events *)

\* The goroutines and servers that the code names are among those of the model.
LEMMA TypeOfFacts ==
  /\ \A s \in ServerIDs : TypeOf[s] \in Types
  /\ Ticker \in Syncers /\ Watcher \in Procs /\ Watcher \notin Syncers
  /\ Syncers \subseteq Procs /\ Self \in ServerIDs
  /\ \A S : Visible(S) \subseteq S
  BY Zenon, ConstantsAssumption DEF Types, Syncers, Procs, Visible

\* etcd adds an event at the end of the watch channel and changes no earlier one.
LEMMA AppendFacts ==
  ASSUME NEW w \in Seq(Event), NEW e \in Event
  PROVE  /\ Append(w, e) \in Seq(Event)
         /\ Len(Append(w, e)) = Len(w) + 1 /\ Len(w) \in Nat
         /\ \A i \in 1..Len(w) : Append(w, e)[i] = w[i]
         /\ Append(w, e)[Len(w) + 1] = e
  OBVIOUS

\* The watcher takes the first event of the channel and leaves the others in order.
LEMMA TailFacts ==
  ASSUME NEW w \in Seq(Event), Len(w) > 0
  PROVE  /\ Tail(w) \in Seq(Event)
         /\ Len(Tail(w)) = Len(w) - 1
         /\ \A i \in 1..Len(Tail(w)) : Tail(w)[i] = w[i + 1]
         /\ Head(w) = w[1] /\ w[1] \in Event
  OBVIOUS

\* Whatever etcd emits, the channel and the sets of lost and healing servers keep their types.
LEMMA EmitFacts ==
  ASSUME TypeOK, NEW type \in {Put, Delete}, NEW s \in ServerIDs, Emit(type, s)
  PROVE  /\ watch' \in Seq(Event) /\ Len(watch') \in Nat /\ Len(watch) <= Len(watch')
         /\ lost' \subseteq ServerIDs
         /\ healing' \in [Syncers -> SUBSET ServerIDs]
  <1>1. CASE watchOpen
    <2>1. [type |-> type, id |-> s] \in Event
      BY DEF Event
    <2>2. /\ watch' = Append(watch, [type |-> type, id |-> s])
          /\ lost' = lost /\ healing' = healing
      BY <1>1 DEF Emit, history
    <2>3. watch \in Seq(Event)
      BY DEF TypeOK
    <2>4. watch' \in Seq(Event) /\ Len(watch') = Len(watch) + 1 /\ Len(watch) \in Nat
      BY <2>1, <2>2, <2>3, AppendFacts
    <2> QED
      BY <2>2, <2>4 DEF TypeOK
  <1>2. CASE ~watchOpen
    BY <1>2 DEF Emit, TypeOK
  <1> QED
    BY <1>1, <1>2

\* addServer and deleteServer begin with the map by ID and leave the other views to later steps.
LEMMA MapFacts ==
  ASSUME TypeOK, NEW p \in Procs, NEW s \in ServerIDs,
         addServer(p, s) \/ deleteServer(p, s)
  PROVE  /\ serverMapByID' \subseteq ServerIDs
         /\ op' \in [Procs -> Steps] /\ sv' \in [Procs -> ServerIDs]
         /\ UNCHANGED <<serverMapByType, balance>>
  <1>1. CASE s \in serverMapByID
    BY Zenon, <1>1 DEF addServer, deleteServer, TypeOK, Steps, viewVars, opVars
  <1>2. CASE s \notin serverMapByID
    BY Zenon, <1>2 DEF addServer, deleteServer, TypeOK, Steps, viewVars, opVars
  <1> QED
    BY <1>1, <1>2

-----------------------------------------------------------------------------
(* Types *)

\* Every step of every goroutine, with any number of renewals, keeps the state
\* well-typed; in particular failedWatchAttempts never exceeds the limit at which
\* the client is rebuilt, and a response's events are at the head of the queue.
THEOREM Typing == Spec => []TypeOK
  <1>1. Init => TypeOK
    <2> SUFFICES ASSUME Init PROVE TypeOK
      OBVIOUS
    <2> USE ConstantsAssumption DEF Syncers, Procs
    <2>1. pc \in [Procs -> SyncPlaces \cup {"start", "select", "held", "apply"}]
      BY DEF Init, SyncPlaces
    <2>2. /\ pc[Watcher] \in {"start", "select", "held", "apply", "exit"}
          /\ \A p \in Syncers : pc[p] \in SyncPlaces
      BY DEF Init, SyncPlaces
    <2>3. /\ op \in [Procs -> Steps] /\ sv \in [Procs -> ServerIDs]
          /\ watch \in Seq(Event) /\ batch \in Nat /\ batch <= Len(watch)
      BY DEF Init, Steps
    <2>4. /\ watchOpen \in BOOLEAN /\ running \in BOOLEAN
          /\ firstSync \in [Syncers -> BOOLEAN]
      BY Zenon DEF Init
    <2>5. /\ etcd \subseteq ServerIDs /\ lost \subseteq ServerIDs
          /\ serverMapByType \in [Types -> SUBSET ServerIDs]
          /\ kvs \in [Syncers -> SUBSET ServerIDs]
      BY DEF Init
    <2> QED
      BY <2>1, <2>2, <2>3, <2>4, <2>5 DEF Init, TypeOK
  <1>2. TypeOK /\ [Next]_vars => TypeOK'
    <2> SUFFICES ASSUME TypeOK, [Next]_vars PROVE TypeOK'
      OBVIOUS
    <2> USE ConstantsAssumption, TypeOfFacts
    <2> USE DEF vars, etcdVars, viewVars, opVars, syncVars, history, bounds,
                localVars, worldVars, allButPc
    <2>1. ASSUME NEW s \in ServerIDs, Register(s) PROVE TypeOK'
      <3>1. etcd' \subseteq ServerIDs /\ changes' \in 0..MaxChanges
        BY <2>1 DEF TypeOK, Register
      <3>2. Emit(Put, s)
        BY <2>1 DEF Register
      <3>3. /\ watch' \in Seq(Event) /\ Len(watch') \in Nat /\ Len(watch) <= Len(watch')
            /\ lost' \subseteq ServerIDs
            /\ healing' \in [Syncers -> SUBSET ServerIDs]
        BY <3>2, EmitFacts
      <3>4. UNCHANGED <<localVars, watchOpen, failures>>
        BY <2>1 DEF Register
      <3>5. batch' \in Nat /\ batch' <= Len(watch')
        BY <3>3, <3>4 DEF TypeOK
      <3> QED
        BY <3>1, <3>3, <3>4, <3>5 DEF TypeOK
    <2>2. ASSUME NEW s \in ServerIDs, Deregister(s) PROVE TypeOK'
      <3>1. etcd' \subseteq ServerIDs /\ changes' \in 0..MaxChanges
        BY <2>2 DEF TypeOK, Deregister
      <3>2. Emit(Delete, s)
        BY <2>2 DEF Deregister
      <3>3. /\ watch' \in Seq(Event) /\ Len(watch') \in Nat /\ Len(watch) <= Len(watch')
            /\ lost' \subseteq ServerIDs
            /\ healing' \in [Syncers -> SUBSET ServerIDs]
        BY <3>2, EmitFacts
      <3>4. UNCHANGED <<localVars, watchOpen, failures>>
        BY <2>2 DEF Deregister
      <3>5. batch' \in Nat /\ batch' <= Len(watch')
        BY <3>3, <3>4 DEF TypeOK
      <3> QED
        BY <3>1, <3>3, <3>4, <3>5 DEF TypeOK
    <2>3. CASE WatchDies
      <3>1. failures' \in 0..MaxFailures
        BY <2>3 DEF TypeOK, WatchDies
      <3>2. watchOpen' = FALSE
        BY <2>3 DEF WatchDies
      <3> QED
        BY Zenon, <2>3, <3>1, <3>2 DEF TypeOK, WatchDies
    <2>4. CASE Shutdown
      BY Zenon, <2>4 DEF TypeOK, Shutdown
    <2>5. CASE StartWatch
      BY <2>5 DEF TypeOK, StartWatch
    <2>6. ASSUME NEW n \in 1..Len(watch), ReceiveResponse(n) PROVE TypeOK'
      BY <2>6 DEF TypeOK, ReceiveResponse
    <2>7. CASE ApplyEvent
      <3>1. Len(watch) > 0 /\ Head(watch) \in Event
        BY <2>7, TailFacts DEF ApplyEvent, TypeOK
      <3>2. /\ serverMapByID' \subseteq ServerIDs
            /\ op' \in [Procs -> Steps] /\ sv' \in [Procs -> ServerIDs]
            /\ UNCHANGED <<serverMapByType, balance>>
        <4>1. CASE \/ addServer(Watcher, Head(watch).id)
                   \/ deleteServer(Watcher, Head(watch).id)
          BY <3>1, <4>1, MapFacts DEF Event
        <4>2. CASE UNCHANGED <<viewVars, opVars>>
          BY <4>2 DEF TypeOK
        <4> QED
          BY <2>7, <4>1, <4>2 DEF ApplyEvent
      <3>3. watch' \in Seq(Event) /\ batch' \in Nat /\ batch' <= Len(watch')
        <4>1. watch' = Tail(watch)
          BY <2>7 DEF ApplyEvent
        <4>2. batch' = batch - 1 /\ batch > 0
          BY <2>7 DEF ApplyEvent
        <4>3. /\ batch \in Nat /\ batch <= Len(watch) /\ Len(watch) \in Nat
              /\ Len(watch') = Len(watch) - 1 /\ watch' \in Seq(Event)
          BY <3>1, <4>1, TailFacts DEF TypeOK
        <4> QED BY <4>2, <4>3
      <3> QED
        BY Zenon, <2>7, <3>2, <3>3 DEF ApplyEvent, TypeOK
    <2>8. CASE ResponseDone
      BY <2>8 DEF TypeOK, ResponseDone
    <2>9. CASE WatchClosed
      <3>1. /\ failedWatchAttempts' \in 0..WatchRetries
            /\ failures' \in 0..MaxFailures
        BY <2>9 DEF TypeOK, WatchClosed, InitETCDClient
      <3>2. watchOpen' \in BOOLEAN
        BY Zenon, <2>9 DEF TypeOK, WatchClosed, InitETCDClient
      <3> QED
        BY <2>9, <3>1, <3>2 DEF TypeOK, WatchClosed, InitETCDClient
    <2>10. CASE StopWatcher
      BY <2>10 DEF TypeOK, StopWatcher, SyncPlaces
    <2>11. CASE Tick
      BY <2>11 DEF TypeOK, Tick, SyncPlaces
    <2>12. CASE StopTicker
      BY <2>12 DEF TypeOK, StopTicker, SyncPlaces
    <2>13. ASSUME NEW p \in Renewers, StartRenewal(p) PROVE TypeOK'
      BY <2>13 DEF TypeOK, StartRenewal, SyncPlaces, Syncers
    <2>14. ASSUME NEW p \in Syncers, SyncerStep(p) PROVE TypeOK'
      <3>1. CASE bootstrapServer(p)
        <4>1. Emit(Put, Self) /\ etcd' \subseteq ServerIDs
          BY <3>1 DEF TypeOK, bootstrapServer
        <4>2. /\ watch' \in Seq(Event) /\ Len(watch') \in Nat /\ Len(watch) <= Len(watch')
              /\ lost' \subseteq ServerIDs
              /\ healing' \in [Syncers -> SUBSET ServerIDs]
          BY <4>1, EmitFacts
        <4>3. UNCHANGED <<syncVars, viewVars, opVars, bounds, watchOpen,
                          failedWatchAttempts, batch, running>>
          BY <3>1 DEF bootstrapServer
        <4>4. batch' \in Nat /\ batch' <= Len(watch')
          BY <4>2, <4>3 DEF TypeOK
        <4>5. /\ pc' \in [Procs -> SyncPlaces \cup {"start", "select", "held", "apply"}]
              /\ pc'[Watcher] \in {"start", "select", "held", "apply", "exit"}
              /\ \A q \in Syncers : pc'[q] \in SyncPlaces
          BY <2>14, <3>1 DEF TypeOK, bootstrapServer, SyncPlaces, Procs
        <4> QED
          BY Zenon, <4>1, <4>2, <4>3, <4>4, <4>5 DEF TypeOK
      <3>2. CASE SendTrue(p)
        BY Zenon, <2>14, <3>2 DEF TypeOK, SendTrue, SyncPlaces
      <3>3. CASE SyncGet(p)
        BY <2>14, <3>3 DEF TypeOK, SyncGet, SyncPlaces
      <3>4. CASE SyncGetFails(p)
        BY <2>14, <3>4 DEF TypeOK, SyncGetFails, SyncPlaces
      <3>5. ASSUME NEW s \in ServerIDs, SyncLoad(p, s) PROVE TypeOK'
        BY <2>14, <3>5 DEF TypeOK, SyncLoad
      <3>6. ASSUME NEW s \in ServerIDs, Fetch(p, s) PROVE TypeOK'
        BY <2>14, <3>6 DEF TypeOK, Fetch
      <3>7. ASSUME NEW s \in ServerIDs, FetchFails(p, s) PROVE TypeOK'
        BY <2>14, <3>7 DEF TypeOK, FetchFails
      <3>8. CASE waitAndGetResult(p)
        BY <2>14, <3>8 DEF TypeOK, waitAndGetResult, SyncPlaces
      <3>9. ASSUME NEW s \in ServerIDs, SyncAdd(p, s) PROVE TypeOK'
        <4>1. addServer(p, s)
          BY <3>9 DEF SyncAdd
        <4> QED
          BY Zenon, <2>14, <3>9, <4>1, MapFacts DEF TypeOK, SyncAdd
      <3>10. CASE deleteLocalInvalidServers(p)
        BY <2>14, <3>10 DEF TypeOK, deleteLocalInvalidServers, SyncPlaces
      <3>11. ASSUME NEW s \in ServerIDs, DeleteInvalid(p, s) PROVE TypeOK'
        <4>1. deleteServer(p, s)
          BY <3>11 DEF DeleteInvalid
        <4> QED
          BY Zenon, <2>14, <3>11, <4>1, MapFacts DEF TypeOK, DeleteInvalid
      <3>12. CASE SyncDone(p)
        BY <2>14, <3>12 DEF TypeOK, SyncDone, SyncPlaces
      <3>13. CASE SendFalse(p)
        BY Zenon, <2>14, <3>13 DEF TypeOK, SendFalse, SyncPlaces
      <3> QED
        BY <2>14, <3>1, <3>2, <3>3, <3>4, <3>5, <3>6, <3>7, <3>8, <3>9, <3>10,
           <3>11, <3>12, <3>13 DEF SyncerStep, SyncBody
    <2>15. ASSUME NEW p \in Procs, OpStep(p) PROVE TypeOK'
      <3>1. CASE AddByType(p)
        <4>1. serverMapByType' \in [Types -> SUBSET ServerIDs]
          BY <2>15, <3>1 DEF TypeOK, AddByType
        <4>2. op' \in [Procs -> Steps]
          BY <2>15, <3>1 DEF TypeOK, AddByType, Steps
        <4>3. /\ UNCHANGED <<serverMapByID, balance, sv>>
              /\ UNCHANGED <<worldVars, syncVars, history, pc, failures>>
          BY <2>15, <3>1 DEF OpStep, AddByType
        <4> QED
          BY <4>1, <4>2, <4>3 DEF TypeOK
      <3>2. CASE DeleteByID(p)
        BY <2>15, <3>2 DEF TypeOK, OpStep, DeleteByID, Steps
      <3>3. CASE DeleteByType(p)
        <4>1. serverMapByType' \in [Types -> SUBSET ServerIDs]
          BY <2>15, <3>3 DEF TypeOK, DeleteByType
        <4>2. op' \in [Procs -> Steps]
          BY <2>15, <3>3 DEF TypeOK, DeleteByType, Steps
        <4>3. /\ UNCHANGED <<serverMapByID, balance, sv>>
              /\ UNCHANGED <<worldVars, syncVars, history, pc, failures>>
          BY <2>15, <3>3 DEF OpStep, DeleteByType
        <4> QED
          BY <4>1, <4>2, <4>3 DEF TypeOK
      <3>4. CASE notifyListeners(p)
        <4>1. balance' \in [ServerIDs -> Int]
          BY <2>15, <3>4 DEF TypeOK, notifyListeners
        <4>2. op' \in [Procs -> Steps]
          BY <2>15, <3>4 DEF TypeOK, notifyListeners, Steps
        <4>3. /\ UNCHANGED <<serverMapByID, serverMapByType, sv>>
              /\ UNCHANGED <<worldVars, syncVars, history, pc, failures>>
          BY <2>15, <3>4 DEF OpStep, notifyListeners
        <4> QED
          BY Zenon, <4>1, <4>2, <4>3 DEF TypeOK
      <3> QED
        BY <2>15, <3>1, <3>2, <3>3, <3>4 DEF OpStep
    <2>16. CASE UNCHANGED vars
      BY <2>16 DEF TypeOK
    <2> QED
      BY <2>1, <2>2, <2>3, <2>4, <2>5, <2>6, <2>7, <2>8, <2>9, <2>10, <2>11,
         <2>12, <2>13, <2>14, <2>15, <2>16 DEF Next, Environment, WatcherStep
  <1> QED
    BY <1>1, <1>2, PTL DEF Spec

-----------------------------------------------------------------------------
(* The watcher and the sync exclude one another *)

\* Without renewals the watcher and the ticker are the only goroutines.
LEMMA Alone ==
  ASSUME Renewers = {}
  PROVE  Syncers = {Ticker} /\ Procs = {Watcher, Ticker} /\ Ticker # Watcher
  BY ConstantsAssumption DEF Syncers, Procs

\* The handshake over syncServersRunning holds in every state, without renewals.
LEMMA HandshakeInvariant ==
  ASSUME Renewers = {}
  PROVE  Spec => []Handshake
  <1> USE Alone
  <1>1. Init => Handshake
    BY DEF Init, Handshake, Syncing
  <1>2. TypeOK /\ Handshake /\ [Next]_vars => Handshake'
    <2> SUFFICES ASSUME TypeOK, Handshake, [Next]_vars PROVE Handshake'
      OBVIOUS
    <2> USE DEF Handshake, Syncing, vars, etcdVars, viewVars, opVars, syncVars,
                history, bounds, localVars, worldVars, allButPc
    <2>1. CASE Environment \/ UNCHANGED vars
      BY <2>1 DEF Environment, Register, Deregister, WatchDies, Shutdown
    <2>2. CASE WatcherStep
      <3>1. CASE StartWatch \/ ResponseDone \/ StopWatcher \/ WatchClosed
        BY <2>2, <3>1 DEF TypeOK, StartWatch, ResponseDone, StopWatcher, WatchClosed
      <3>2. ASSUME NEW n \in 1..Len(watch), ReceiveResponse(n) PROVE Handshake'
        BY <3>2 DEF TypeOK, ReceiveResponse
      <3>3. CASE ApplyEvent
        <4>1. /\ op'[Ticker] = op[Ticker]
              /\ pc' = pc
          BY <3>3 DEF TypeOK, ApplyEvent, addServer, deleteServer
        <4> QED
          BY <3>3, <4>1 DEF ApplyEvent
      <3> QED
        BY <2>2, <3>1, <3>2, <3>3 DEF WatcherStep
    <2>3. CASE Tick \/ StopTicker \/ bootstrapServer(Ticker)
      BY <2>3 DEF TypeOK, Tick, StopTicker, bootstrapServer
    <2>4. CASE SendTrue(Ticker)
      BY <2>4 DEF TypeOK, SendTrue
    <2>5. CASE SyncBody(Ticker)
      <3>1. CASE \/ SyncGet(Ticker) \/ SyncGetFails(Ticker)
                 \/ waitAndGetResult(Ticker) \/ SyncDone(Ticker)
                 \/ deleteLocalInvalidServers(Ticker)
        BY <3>1 DEF TypeOK, SyncGet, SyncGetFails, waitAndGetResult, SyncDone,
                    deleteLocalInvalidServers
      <3>2. ASSUME NEW s \in ServerIDs,
                   SyncLoad(Ticker, s) \/ Fetch(Ticker, s) \/ FetchFails(Ticker, s)
            PROVE  Handshake'
        BY <3>2 DEF SyncLoad, Fetch, FetchFails
      <3>3. ASSUME NEW s \in ServerIDs,
                   SyncAdd(Ticker, s) \/ DeleteInvalid(Ticker, s)
            PROVE  Handshake'
        <4>1. op'[Watcher] = op[Watcher] /\ pc' = pc /\ batch' = batch
          BY <3>3 DEF TypeOK, SyncAdd, DeleteInvalid, addServer, deleteServer
        <4>2. pc[Ticker] \in {"add", "range"}
          BY <3>3 DEF SyncAdd, DeleteInvalid
        <4> QED
          BY <4>1, <4>2
      <3> QED
        BY <2>5, <3>1, <3>2, <3>3 DEF SyncBody
    <2>6. CASE SendFalse(Ticker)
      BY <2>6 DEF TypeOK, SendFalse
    <2>7. ASSUME NEW p \in Procs, OpStep(p) PROVE Handshake'
      <3>1. op[p] # "none" /\ \A q \in Procs \ {p} : op'[q] = op[q]
        BY <2>7 DEF TypeOK, OpStep, AddByType, DeleteByID, DeleteByType,
                    notifyListeners
      <3>2. pc' = pc /\ batch' = batch
        BY Zenon, <2>7 DEF OpStep
      <3> QED
        BY <3>1, <3>2
    <2> QED
      BY <2>1, <2>2, <2>3, <2>4, <2>5, <2>6, <2>7 DEF Next, SyncerStep
  <1> QED
    BY <1>1, <1>2, Typing, PTL DEF Spec

\* With no renewal beside the ticker, the watcher never applies an event while a
\* SyncServers runs: between the `true' and the `false' it sends, the watcher is
\* in the inner loop that waits for the `false'.
THEOREM Exclusion ==
  ASSUME Renewers = {}
  PROVE  Spec => []WatcherBlockedDuringSync
  <1>1. Handshake => WatcherBlockedDuringSync
    BY Alone DEF Handshake, WatcherBlockedDuringSync
  <1> QED
    BY <1>1, HandshakeInvariant, PTL

-----------------------------------------------------------------------------
(* The map by ID, the map by type and the listeners agree *)

\* At most one goroutine is inside addServer or deleteServer.
LEMMA OneAtATime ==
  ASSUME Renewers = {}, Handshake, NEW p \in Procs, NEW q \in Procs,
         op[p] # "none", p # q
  PROVE  op[q] = "none"
  BY Alone DEF Handshake, Syncing

\* A goroutine starts addServer or deleteServer when nobody is inside one.
LEMMA ViewsCall ==
  ASSUME TypeOK, Views, NEW p \in Procs, NEW s \in ServerIDs,
         \A q \in Procs : op[q] = "none",
         addServer(p, s) \/ deleteServer(p, s)
  PROVE  Views'
  <1>1. CASE UNCHANGED <<viewVars, opVars>>
    BY <1>1 DEF Views, OpTargets, ByType, Told, InFlight, viewVars, opVars
  <1>2. CASE s \notin serverMapByID /\ addServer(p, s)
    <2>1. /\ serverMapByID' = serverMapByID \cup {s}
          /\ \A q \in Procs : op'[q] = IF q = p THEN "addType" ELSE "none"
          /\ sv'[p] = s /\ UNCHANGED <<serverMapByType, balance>>
      BY <1>2 DEF addServer, TypeOK
    <2> QED
      BY <1>2, <2>1 DEF Views, OpTargets, ByType, Told, InFlight, TypeOK
  <1>3. CASE s \in serverMapByID /\ deleteServer(p, s)
    <2>1. /\ \A q \in Procs : op'[q] = IF q = p THEN "delID" ELSE "none"
          /\ sv'[p] = s /\ UNCHANGED viewVars
      BY <1>3 DEF deleteServer, TypeOK
    <2>2. OpTargets'
      BY <1>3, <2>1 DEF OpTargets, viewVars
    <2>3. ByType' /\ Told'
      BY <1>3, <2>1, <2>2 DEF Views, ByType, Told, InFlight, viewVars
    <2> QED
      BY <2>2, <2>3 DEF Views
  <1> QED
    BY <1>1, <1>2, <1>3 DEF addServer, deleteServer

\* A step inside addServer or deleteServer keeps what Views says of each place in them.
LEMMA ViewsStep ==
  ASSUME Renewers = {}, TypeOK, Handshake, Views, NEW p \in Procs, OpStep(p)
  PROVE  Views'
  <1> DEFINE s == sv[p]
  <1>1. op[p] # "none" /\ s \in ServerIDs /\ TypeOf[s] \in Types
    BY TypeOfFacts
       DEF TypeOK, OpStep, AddByType, DeleteByID, DeleteByType, notifyListeners
  <1>2. \A q \in Procs : q # p => op[q] = "none" /\ op'[q] = "none"
    BY <1>1, OneAtATime
       DEF TypeOK, OpStep, AddByType, DeleteByID, DeleteByType, notifyListeners
  <1>3. sv' = sv
    BY DEF OpStep, AddByType, DeleteByID, DeleteByType, notifyListeners
  <1>4. \A r :
          /\ InFlight({"addType"}, r) <=> op[p] = "addType" /\ s = r
          /\ InFlight({"delType"}, r) <=> op[p] = "delType" /\ s = r
          /\ InFlight({"addType", "addNotify"}, r) <=>
               op[p] \in {"addType", "addNotify"} /\ s = r
          /\ InFlight({"delType", "delNotify"}, r) <=>
               op[p] \in {"delType", "delNotify"} /\ s = r
    BY <1>2 DEF InFlight
  <1>4a. \A r :
          /\ InFlight({"addType"}, r)' <=> op'[p] = "addType" /\ s = r
          /\ InFlight({"delType"}, r)' <=> op'[p] = "delType" /\ s = r
          /\ InFlight({"addType", "addNotify"}, r)' <=>
               op'[p] \in {"addType", "addNotify"} /\ s = r
          /\ InFlight({"delType", "delNotify"}, r)' <=>
               op'[p] \in {"delType", "delNotify"} /\ s = r
    BY <1>2, <1>3 DEF InFlight
  <1>5. CASE AddByType(p)
    <2>1. /\ op[p] = "addType"
          /\ op'[p] = IF s = Self THEN "none" ELSE "addNotify"
          /\ \A t \in Types : serverMapByType'[t] =
               IF t = TypeOf[s] THEN serverMapByType[t] \cup {s}
               ELSE serverMapByType[t]
          /\ UNCHANGED <<serverMapByID, balance>>
      BY Zenon, <1>5 DEF AddByType, TypeOK
    <2>2. OpTargets'
      BY <1>1, <1>2, <1>3, <2>1 DEF Views, OpTargets
    <2>3. ByType'
      <3>1. ASSUME NEW t \in Types, NEW r \in ServerIDs
            PROVE  r \in serverMapByType'[t] <=>
                     /\ TypeOf[r] = t
                     /\ \/ r \in serverMapByID' /\ ~InFlight({"addType"}, r)'
                        \/ InFlight({"delType"}, r)'
        <4>1. r \in serverMapByType[t] <=>
                /\ TypeOf[r] = t
                /\ \/ r \in serverMapByID /\ ~(op[p] = "addType" /\ s = r)
                   \/ op[p] = "delType" /\ s = r
          BY <1>4 DEF Views, ByType
        <4>2. CASE r = s
          BY Zenon, <1>1, <1>4a, <2>1, <4>1, <4>2 DEF Views, OpTargets
        <4>3. CASE r # s
          BY Zenon, <1>1, <1>4a, <2>1, <4>1, <4>3
        <4> QED
          BY <4>2, <4>3
      <3> QED
        BY <3>1 DEF ByType
    <2>4. Told'
      BY <1>1, <1>4, <1>4a, <2>1 DEF Views, OpTargets, Told
    <2> QED
      BY <2>2, <2>3, <2>4 DEF Views
  <1>6. CASE DeleteByID(p)
    <2>1. /\ op[p] = "delID" /\ op'[p] = "delType"
          /\ serverMapByID' = serverMapByID \ {s}
          /\ UNCHANGED <<serverMapByType, balance>>
      BY <1>6 DEF DeleteByID, TypeOK
    <2>2. OpTargets'
      BY <1>1, <1>2, <1>3, <2>1 DEF Views, OpTargets
    <2>3. ByType'
      BY <1>1, <1>4, <1>4a, <2>1 DEF Views, OpTargets, ByType
    <2>4. Told'
      BY <1>1, <1>4, <1>4a, <2>1 DEF Views, OpTargets, Told
    <2> QED
      BY <2>2, <2>3, <2>4 DEF Views
  <1>7. CASE DeleteByType(p)
    <2>1. /\ op[p] = "delType" /\ op'[p] = "delNotify"
          /\ \A t \in Types : serverMapByType'[t] =
               IF t = TypeOf[s] THEN serverMapByType[t] \ {s} ELSE serverMapByType[t]
          /\ UNCHANGED <<serverMapByID, balance>>
      BY Zenon, <1>7 DEF DeleteByType, TypeOK
    <2>2. OpTargets'
      BY <1>1, <1>2, <1>3, <2>1 DEF Views, OpTargets
    <2>3. ByType'
      <3>1. ASSUME NEW t \in Types, NEW r \in ServerIDs
            PROVE  r \in serverMapByType'[t] <=>
                     /\ TypeOf[r] = t
                     /\ \/ r \in serverMapByID' /\ ~InFlight({"addType"}, r)'
                        \/ InFlight({"delType"}, r)'
        <4>1. r \in serverMapByType[t] <=>
                /\ TypeOf[r] = t
                /\ \/ r \in serverMapByID /\ ~(op[p] = "addType" /\ s = r)
                   \/ op[p] = "delType" /\ s = r
          BY <1>4 DEF Views, ByType
        <4>2. CASE r = s
          BY Zenon, <1>1, <1>4a, <2>1, <4>1, <4>2 DEF Views, OpTargets
        <4>3. CASE r # s
          BY Zenon, <1>1, <1>4a, <2>1, <4>1, <4>3
        <4> QED
          BY <4>2, <4>3
      <3> QED
        BY <3>1 DEF ByType
    <2>4. Told'
      BY <1>1, <1>4, <1>4a, <2>1 DEF Views, OpTargets, Told
    <2> QED
      BY <2>2, <2>3, <2>4 DEF Views
  <1>8. CASE notifyListeners(p)
    <2>1. /\ op[p] \in {"addNotify", "delNotify"} /\ op'[p] = "none"
          /\ \A r \in ServerIDs : balance'[r] =
               IF r # s THEN balance[r]
               ELSE IF op[p] = "addNotify" THEN balance[r] + 1 ELSE balance[r] - 1
          /\ UNCHANGED <<serverMapByID, serverMapByType>>
      BY <1>1, <1>8 DEF notifyListeners, TypeOK
    <2>2. OpTargets'
      BY <1>1, <1>2, <1>3, <2>1 DEF Views, OpTargets
    <2>3. ByType'
      BY <1>1, <1>4, <1>4a, <2>1 DEF Views, OpTargets, ByType
    <2>4. Told'
      <3>1. ASSUME NEW r \in ServerIDs \ {Self}
            PROVE  /\ balance'[r] \in {0, 1}
                   /\ balance'[r] = 1 <=>
                        \/ r \in serverMapByID' /\ ~InFlight({"addType", "addNotify"}, r)'
                        \/ InFlight({"delType", "delNotify"}, r)'
        <4>1. /\ balance[r] \in {0, 1}
              /\ balance[r] = 1 <=>
                   \/ r \in serverMapByID /\ ~(op[p] \in {"addType", "addNotify"} /\ s = r)
                   \/ op[p] \in {"delType", "delNotify"} /\ s = r
          BY <1>4 DEF Views, Told
        <4>2. CASE r = s
          BY <1>1, <1>4a, <2>1, <4>1, <4>2 DEF Views, OpTargets
        <4>3. CASE r # s
          BY <1>1, <1>4a, <2>1, <4>1, <4>3
        <4> QED
          BY <4>2, <4>3
      <3> QED
        BY <3>1 DEF Told
    <2> QED
      BY <2>2, <2>3, <2>4 DEF Views
  <1> QED
    BY <1>5, <1>6, <1>7, <1>8 DEF OpStep

\* Views holds in every state, without renewals.
LEMMA ViewsInvariant ==
  ASSUME Renewers = {}
  PROVE  Spec => []Views
  <1>1. Init => Views
    BY Alone DEF Init, Views, OpTargets, ByType, Told, InFlight
  <1>2. TypeOK /\ Handshake /\ Views /\ [Next]_vars => Views'
    <2> SUFFICES ASSUME TypeOK, Handshake, Views, [Next]_vars PROVE Views'
      OBVIOUS
    <2>1. CASE UNCHANGED <<viewVars, opVars>>
      BY <2>1 DEF Views, OpTargets, ByType, Told, InFlight, viewVars, opVars
    <2>2. CASE ApplyEvent
      <3>1. \A q \in Procs : op[q] = "none"
        BY <2>2, Alone DEF ApplyEvent, Handshake, Syncing
      <3>2. Head(watch).id \in ServerIDs
        <4>1. watch \in Seq(Event) /\ Len(watch) > 0
          BY <2>2 DEF ApplyEvent, TypeOK
        <4> QED
          BY Zenon, <4>1, TailFacts DEF Event
      <3>3. \/ UNCHANGED <<viewVars, opVars>>
            \/ addServer(Watcher, Head(watch).id)
            \/ deleteServer(Watcher, Head(watch).id)
        BY <2>2 DEF ApplyEvent
      <3> QED
        BY <2>1, <3>1, <3>2, <3>3, ViewsCall, TypeOfFacts
    <2>3. ASSUME NEW s \in ServerIDs, SyncAdd(Ticker, s) \/ DeleteInvalid(Ticker, s)
          PROVE  Views'
      <3>1. \A q \in Procs : op[q] = "none"
        BY <2>3, Alone DEF SyncAdd, DeleteInvalid, Handshake, Syncing
      <3>2. addServer(Ticker, s) \/ deleteServer(Ticker, s)
        BY Zenon, <2>3 DEF SyncAdd, DeleteInvalid
      <3> QED
        BY <3>1, <3>2, ViewsCall, TypeOfFacts
    <2>4. ASSUME NEW p \in Procs, OpStep(p) PROVE Views'
      BY <2>4, ViewsStep
    <2>5. CASE Environment
      BY <2>1, <2>5 DEF Environment, Register, Deregister, WatchDies, Shutdown,
                        localVars
    <2>6. CASE WatcherStep
      BY <2>1, <2>2, <2>6
         DEF WatcherStep, StartWatch, ReceiveResponse, ResponseDone, WatchClosed,
             StopWatcher, allButPc
    <2>7. CASE Tick \/ StopTicker \/ bootstrapServer(Ticker) \/ SendTrue(Ticker)
               \/ SendFalse(Ticker)
      BY <2>1, <2>7
         DEF Tick, StopTicker, bootstrapServer, SendTrue, SendFalse, allButPc
    <2>8. CASE SyncBody(Ticker)
      BY Zenon, <2>1, <2>3, <2>8
         DEF SyncBody, SyncGet, SyncGetFails, SyncLoad, Fetch, FetchFails,
             waitAndGetResult, deleteLocalInvalidServers, SyncDone, allButPc
    <2>9. CASE UNCHANGED vars
      BY <2>1, <2>9 DEF vars
    <2> QED
      BY <2>4, <2>5, <2>6, <2>7, <2>8, <2>9, Alone DEF Next, SyncerStep
  <1> QED
    BY <1>1, <1>2, Typing, HandshakeInvariant, PTL DEF Spec

\* With no renewal beside the ticker, the two maps and the listeners agree whenever
\* nobody is inside addServer or deleteServer: every ADD a listener hears is for a
\* server it does not have and every DEL for one it has.
THEOREM Agreement ==
  ASSUME Renewers = {}
  PROVE  Spec => []ViewsAgree
  <1>1. TypeOK /\ Views => ViewsAgree
    <2> SUFFICES ASSUME TypeOK, Views, \A p \in Procs : op[p] = "none"
                 PROVE  /\ \A t \in Types : serverMapByType[t] =
                             {s \in serverMapByID : TypeOf[s] = t}
                        /\ \A s \in ServerIDs \ {Self} :
                             balance[s] = IF s \in serverMapByID THEN 1 ELSE 0
      BY DEF ViewsAgree
    <2>1. \A s : /\ ~InFlight({"addType"}, s) /\ ~InFlight({"delType"}, s)
                 /\ ~InFlight({"addType", "addNotify"}, s)
                 /\ ~InFlight({"delType", "delNotify"}, s)
      BY DEF InFlight
    <2>2. ASSUME NEW t \in Types
          PROVE  serverMapByType[t] = {s \in serverMapByID : TypeOf[s] = t}
      BY <2>1 DEF Views, ByType, TypeOK
    <2>3. ASSUME NEW s \in ServerIDs \ {Self}
          PROVE  balance[s] = IF s \in serverMapByID THEN 1 ELSE 0
      BY <2>1 DEF Views, Told
    <2> QED
      BY <2>2, <2>3
  <1> QED
    BY <1>1, Typing, ViewsInvariant, PTL

-----------------------------------------------------------------------------
(* The view follows etcd *)

\* A server the filter lets through.
Shown(s) == s \in Visible({s})

\* The history of s is complete, or will be when the sync under way is done.
Known(s) == s \notin lost \/ s \in healing[Ticker]

\* p has found s in the map by ID and will remove it.
Deleting(p, s) == op[p] = "delID" /\ sv[p] = s

\* The newest event about a server tells whether it is registered.
Tells(s) ==
  Known(s) => \A i \in 1..Len(watch) :
    watch[i].id = s /\ (\A j \in 1..Len(watch) : i < j => watch[j].id # s) =>
      (watch[i].type = Put <=> s \in etcd)

\* A server with no event in the queue is seen as it is, unless the watcher is about to
\* remove it.
Settled(s) ==
  s \notin lost /\ ~Pending(s) =>
    IF Deleting(Watcher, s) THEN s \notin etcd ELSE s \in serverMapByID <=> s \in etcd /\ Shown(s)

InSnapshot == pc[Ticker] \in {"collect", "add", "range"}

\* How far the sync has come with a server its snapshot tells it the truth about: one that
\* is missing is on its way to the view, one that is gone will be removed.
Progress(s) ==
  InSnapshot /\ Known(s) /\ ~Pending(s) =>
    /\ s \in allIds[Ticker] <=> s \in etcd /\ Shown(s)
    /\ s \in allIds[Ticker] =>
         s \in serverMapByID \cup kvs[Ticker] \cup fetching[Ticker] \cup servers[Ticker]
    /\ pc[Ticker] = "range" /\ s \in serverMapByID /\ s \notin allIds[Ticker] =>
         s \in invalid[Ticker] \/ Deleting(Ticker, s)

\* What the sync's variables hold at each of its places.
SyncShape ==
  /\ healing[Ticker] \subseteq lost
  /\ healing[Ticker] # {} => InSnapshot
  /\ \A s \in serverMapByID \cup allIds[Ticker] : Shown(s)
  /\ kvs[Ticker] \cup fetching[Ticker] \cup servers[Ticker] \subseteq allIds[Ticker]
  /\ invalid[Ticker] \cap allIds[Ticker] = {}
  /\ pc[Ticker] # "range" => invalid[Ticker] = {}
  /\ pc[Ticker] \notin {"collect", "add"} => servers[Ticker] = {}
  /\ pc[Ticker] # "collect" => kvs[Ticker] = {} /\ fetching[Ticker] = {}
  /\ op[Ticker] = "delID" => sv[Ticker] \notin allIds[Ticker] /\ pc[Ticker] = "range"

\* The inductive invariant of InSyncWhenDrained and DropsAreJustified.
SyncInv == SyncShape /\ \A s \in ServerIDs : Tells(s) /\ Settled(s) /\ Progress(s)

\* The filter looks at one server at a time.
LEMMA ShownFacts == \A S, s : s \in Visible(S) <=> s \in S /\ Shown(s)
BY DEF Visible, Shown

\* What an event about s, delivered or lost, does to the history of a server r.
LEMMA EmitTells ==
  ASSUME Renewers = {}, TypeOK, NEW type \in {Put, Delete}, NEW s \in ServerIDs, Emit(type, s),
         s \in etcd' <=> type = Put, NEW r \in ServerIDs, r # s => (r \in etcd' <=> r \in etcd), Tells(r)
  PROVE  /\ Tells(r)'
         /\ r # s => /\ Pending(r)' <=> Pending(r)
                     /\ (r \in lost' <=> r \in lost) /\ (r \in healing'[Ticker] <=> r \in healing[Ticker])
         /\ r = s => Pending(r)' \/ (r \in lost' /\ ~Known(r)')
         /\ lost \subseteq lost' /\ healing'[Ticker] \subseteq healing[Ticker]
<1>1. CASE watchOpen
  <2>1. PICK e \in Event : e.type = type /\ e.id = s /\ watch' = Append(watch, e)
    BY <1>1 DEF Emit, Event
  <2>2. lost' = lost /\ healing' = healing
    BY <1>1 DEF Emit, history
  <2>3. PICK n \in Nat : n = Len(watch) /\ Len(watch') = n + 1 /\ watch'[n + 1] = e
                         /\ \A i \in 1..n : watch'[i] = watch[i]
    BY Zenon, <2>1, AppendFacts DEF TypeOK
  <2>4. r = s => Pending(r)'
    BY <2>1, <2>3 DEF Pending
  <2>5. r # s => (Pending(r)' <=> Pending(r))
    <3>1. \A i \in 1..(n + 1) : i \in 1..n \/ i = n + 1
      OBVIOUS
    <3>2. \A i \in 1..n : i \in 1..(n + 1)
      OBVIOUS
    <3> QED BY Zenon, <2>1, <2>3, <3>1, <3>2 DEF Pending
  <2>6. Tells(r)'
    <3> SUFFICES ASSUME Known(r), NEW i \in 1..(n + 1), watch'[i].id = r,
                        \A j \in 1..(n + 1) : i < j => watch'[j].id # r
                 PROVE  watch'[i].type = Put <=> r \in etcd'
      BY Zenon, <2>2, <2>3 DEF Tells, Known
    <3>1. CASE i = n + 1
      BY <2>1, <2>3, <3>1
    <3>2. CASE i # n + 1
      <4>1. i \in 1..n /\ n + 1 \in 1..(n + 1) /\ i < n + 1
        BY <3>2
      <4>2. r # s
        BY <2>1, <2>3, <4>1
      <4>3. \A j \in 1..n : j \in 1..(n + 1)
        OBVIOUS
      <4>4. watch[i].id = r /\ \A j \in 1..n : i < j => watch[j].id # r
        BY Zenon, <2>3, <4>1, <4>3
      <4>5. watch[i].type = Put <=> r \in etcd
        BY Zenon, <2>3, <4>1, <4>4 DEF Tells
      <4> QED BY <2>3, <4>1, <4>2, <4>5
    <3> QED BY <3>1, <3>2
  <2> QED BY <2>2, <2>4, <2>5, <2>6
<1>2. CASE ~watchOpen
  <2>1. lost' = lost \cup {s} /\ healing'[Ticker] = healing[Ticker] \ {s} /\ watch' = watch
    BY <1>2, Alone DEF Emit
  <2>2. Pending(r)' <=> Pending(r)
    BY <2>1 DEF Pending
  <2>3. r = s => r \in lost' /\ ~Known(r)'
    BY <2>1 DEF Known
  <2>4. r # s => (r \in lost' <=> r \in lost) /\ (r \in healing'[Ticker] <=> r \in healing[Ticker])
    BY <2>1
  <2>5. Tells(r)'
    <3>1. CASE r = s
      BY <2>3, <3>1 DEF Tells
    <3>2. CASE r # s
      BY <2>1, <2>4, <3>2 DEF Tells, Known
    <3> QED BY <3>1, <3>2
  <2> QED BY <2>1, <2>2, <2>3, <2>4, <2>5
<1> QED BY <1>1, <1>2

\* What applying the first event does to the history of a server r: the event that was the
\* last one about r tells whether r is registered.
LEMMA TailTells ==
  ASSUME TypeOK, Len(watch) > 0, watch' = Tail(watch), UNCHANGED <<etcd, lost, healing>>,
         NEW r \in ServerIDs, Tells(r)
  PROVE  /\ Tells(r)'
         /\ Pending(r)' => Pending(r)
         /\ Pending(r) /\ Head(watch).id # r => Pending(r)'
         /\ Head(watch).id = r /\ Known(r) /\ ~Pending(r)' => (Head(watch).type = Put <=> r \in etcd)
<1>1. PICK n \in Nat : /\ Len(watch) = n + 1 /\ Len(watch') = n /\ Head(watch) = watch[1]
                       /\ \A i \in 1..n : watch'[i] = watch[i + 1]
  <2>1. watch \in Seq(Event) /\ Len(watch) \in Nat
    BY DEF TypeOK
  <2>2. PICK n \in Nat : Len(watch) = n + 1
    <3>1. Len(watch) - 1 \in Nat /\ Len(watch) = (Len(watch) - 1) + 1
      BY <2>1
    <3> QED BY Zenon, <3>1
  <2>3. Len(watch') = n /\ Head(watch) = watch[1] /\ \A i \in 1..n : watch'[i] = watch[i + 1]
    BY <2>1, <2>2, TailFacts
  <2> QED BY <2>2, <2>3
<1>2. \A i \in 1..n : i + 1 \in 1..(n + 1) /\ i + 1 > 1
  OBVIOUS
<1>3. \A k \in 1..(n + 1) : k = 1 \/ \E i \in 1..n : k = i + 1
  <2> SUFFICES ASSUME NEW k \in 1..(n + 1), k # 1 PROVE \E i \in 1..n : k = i + 1
    OBVIOUS
  <2>1. k - 1 \in 1..n /\ k = (k - 1) + 1
    OBVIOUS
  <2> QED BY <2>1
<1>4. 1 \in 1..(n + 1)
  OBVIOUS
<1>5. Pending(r)' => Pending(r)
  BY Zenon, <1>1, <1>2 DEF Pending
<1>6. Pending(r) /\ Head(watch).id # r => Pending(r)'
  <2> SUFFICES ASSUME NEW k \in 1..(n + 1), watch[k].id = r, watch[1].id # r PROVE Pending(r)'
    BY Zenon, <1>1 DEF Pending
  <2>1. PICK i \in 1..n : k = i + 1
    BY Zenon, <1>3
  <2> QED BY <1>1, <2>1 DEF Pending
<1>7. Tells(r)'
  <2> SUFFICES ASSUME Known(r), NEW i \in 1..n, watch'[i].id = r,
                      \A j \in 1..n : i < j => watch'[j].id # r
               PROVE  watch'[i].type = Put <=> r \in etcd
    BY Zenon, <1>1 DEF Tells, Known
  <2>1. ASSUME NEW k \in 1..(n + 1), i + 1 < k PROVE watch[k].id # r
    <3>1. k - 1 \in 1..n /\ i < k - 1 /\ (k - 1) + 1 = k
      BY <2>1
    <3> QED BY Zenon, <1>1, <3>1
  <2>2. i + 1 \in 1..(n + 1) /\ watch[i + 1] = watch'[i]
    BY <1>1
  <2> QED BY <1>1, <2>1, <2>2 DEF Tells
<1>8. Head(watch).id = r /\ Known(r) /\ ~Pending(r)' => (Head(watch).type = Put <=> r \in etcd)
  <2> SUFFICES ASSUME watch[1].id = r, Known(r), ~Pending(r)' PROVE watch[1].type = Put <=> r \in etcd
    BY <1>1
  <2>1. ASSUME NEW k \in 1..(n + 1), 1 < k PROVE watch[k].id # r
    <3>1. k - 1 \in 1..n /\ (k - 1) + 1 = k
      BY <2>1
    <3> QED BY Zenon, <1>1, <3>1 DEF Pending
  <2> QED BY <1>1, <1>4, <2>1 DEF Tells
<1> QED BY Zenon, <1>5, <1>6, <1>7, <1>8

\* A server stays settled as long as nothing of it changes ...
LEMMA SettledKept ==
  ASSUME NEW r, Settled(r), r \notin lost' => r \notin lost, Pending(r) => Pending(r)',
         r \in etcd' <=> r \in etcd, r \in serverMapByID' <=> r \in serverMapByID,
         Deleting(Watcher, r)' <=> Deleting(Watcher, r)
  PROVE  Settled(r)'
<1>1. Shown(r)' <=> Shown(r)
  BY DEF Shown, Visible
<1> QED BY <1>1 DEF Settled

\* ... and a sync in which r only advances does not lose it.
LEMMA ProgressKept ==
  ASSUME NEW r, Progress(r), InSnapshot' => InSnapshot, Known(r)' => Known(r), Pending(r) => Pending(r)',
         r \in etcd' <=> r \in etcd, r \in allIds'[Ticker] <=> r \in allIds[Ticker],
         r \in serverMapByID \cup kvs[Ticker] \cup fetching[Ticker] \cup servers[Ticker] =>
           r \in serverMapByID' \cup kvs'[Ticker] \cup fetching'[Ticker] \cup servers'[Ticker],
         pc'[Ticker] = "range" => pc[Ticker] = "range", r \in serverMapByID' => r \in serverMapByID,
         r \in invalid[Ticker] \/ Deleting(Ticker, r) => r \in invalid'[Ticker] \/ Deleting(Ticker, r)'
  PROVE  Progress(r)'
<1>1. Shown(r)' <=> Shown(r)
  BY Zenon DEF Shown, Visible
<1> QED BY Zenon, <1>1 DEF Progress

\* Steps that touch neither the view, nor a history, nor the sync.
LEMMA QuietKeeps ==
  ASSUME SyncInv, UNCHANGED <<etcd, watch, history, viewVars, opVars, kvs, fetching, servers, invalid, allIds>>,
         pc'[Ticker] = pc[Ticker] \/ (~InSnapshot /\ ~InSnapshot')
  PROVE  SyncInv'
<1>1. /\ UNCHANGED <<etcd, watch, lost, healing, serverMapByID, op, sv>>
      /\ UNCHANGED <<kvs, fetching, servers, invalid, allIds>>
  BY Zenon DEF history, viewVars, opVars
<1>2. /\ InSnapshot' <=> InSnapshot
      /\ (pc'[Ticker] = "range" <=> pc[Ticker] = "range") /\ (pc'[Ticker] = "collect" <=> pc[Ticker] = "collect")
      /\ pc'[Ticker] \notin {"collect", "add"} <=> pc[Ticker] \notin {"collect", "add"}
  BY DEF InSnapshot
<1>3. SyncShape'
  BY Zenon, <1>1, <1>2 DEF SyncInv, SyncShape, Shown, Visible
<1>4. ASSUME NEW r \in ServerIDs PROVE Tells(r)' /\ Settled(r)' /\ Progress(r)'
  <2>1. Tells(r) /\ Settled(r) /\ Progress(r)
    BY DEF SyncInv
  <2>2. /\ (Known(r)' <=> Known(r)) /\ (Pending(r)' <=> Pending(r))
        /\ Deleting(Watcher, r)' <=> Deleting(Watcher, r)
        /\ Deleting(Ticker, r)' <=> Deleting(Ticker, r)
    BY Zenon, <1>1 DEF Known, Pending, Deleting
  <2>3. Tells(r)'
    BY Zenon, <1>1, <2>1, <2>2 DEF Tells
  <2>4. Settled(r)'
    BY Zenon, <1>1, <2>1, <2>2, SettledKept
  <2>5. Progress(r)'
    BY Zenon, <1>1, <1>2, <2>1, <2>2, ProgressKept
  <2> QED BY <2>3, <2>4, <2>5
<1> QED BY Zenon, <1>3, <1>4 DEF SyncInv

\* A change in etcd: it is queued, or the server is marked as lost.
LEMMA ChangeKeeps ==
  ASSUME Renewers = {}, TypeOK, SyncInv, NEW type \in {Put, Delete}, NEW s \in ServerIDs, Emit(type, s),
         etcd' = IF type = Put THEN etcd \cup {s} ELSE etcd \ {s},
         UNCHANGED <<viewVars, opVars, syncVars>>,
         pc'[Ticker] = pc[Ticker] \/ (~InSnapshot /\ ~InSnapshot')
  PROVE  SyncInv'
<1>1. UNCHANGED <<serverMapByID, op, sv, kvs, fetching, servers, invalid, allIds>>
  BY DEF viewVars, opVars, syncVars
<1>2. /\ InSnapshot' <=> InSnapshot
      /\ (pc'[Ticker] = "range" <=> pc[Ticker] = "range") /\ (pc'[Ticker] = "collect" <=> pc[Ticker] = "collect")
      /\ pc'[Ticker] \notin {"collect", "add"} <=> pc[Ticker] \notin {"collect", "add"}
  BY DEF InSnapshot
<1>3. s \in etcd' <=> type = Put
  BY DEF Put, Delete
<1>4. \A r : r # s => (r \in etcd' <=> r \in etcd)
  OBVIOUS
<1>5. ASSUME NEW r \in ServerIDs PROVE Tells(r)' /\ Settled(r)' /\ Progress(r)'
  <2>1. Tells(r) /\ Settled(r) /\ Progress(r)
    BY DEF SyncInv
  <2>2. /\ Tells(r)'
        /\ r # s => /\ Pending(r)' <=> Pending(r)
                    /\ (r \in lost' <=> r \in lost) /\ (r \in healing'[Ticker] <=> r \in healing[Ticker])
        /\ r = s => Pending(r)' \/ (r \in lost' /\ ~Known(r)')
    BY Zenon, <1>3, <1>4, <2>1, EmitTells
  <2>3. CASE r = s
    BY Zenon, <2>2, <2>3 DEF Settled, Progress
  <2>4. CASE r # s
    <3>1. /\ Known(r)' <=> Known(r)
          /\ Deleting(Watcher, r)' <=> Deleting(Watcher, r)
          /\ Deleting(Ticker, r)' <=> Deleting(Ticker, r)
      BY Zenon, <1>1, <2>2, <2>4 DEF Known, Deleting
    <3>2. Settled(r)'
      BY Zenon, <1>1, <1>4, <2>1, <2>2, <2>4, <3>1, SettledKept
    <3>3. Progress(r)'
      BY Zenon, <1>1, <1>2, <1>4, <2>1, <2>2, <2>4, <3>1, ProgressKept
    <3> QED BY Zenon, <2>2, <3>2, <3>3
  <2> QED BY <2>3, <2>4
<1>6. healing'[Ticker] \subseteq lost' /\ healing'[Ticker] \subseteq healing[Ticker]
  <2>1. CASE watchOpen
    BY <2>1 DEF Emit, history, SyncInv, SyncShape
  <2>2. CASE ~watchOpen
    <3>1. lost' = lost \cup {s} /\ healing'[Ticker] = healing[Ticker] \ {s}
      BY <2>2, Alone DEF Emit
    <3>2. healing[Ticker] \subseteq lost
      BY Zenon DEF SyncInv, SyncShape
    <3> QED BY <3>1, <3>2
  <2> QED BY <2>1, <2>2
<1>7. SyncShape'
  BY Zenon, <1>1, <1>2, <1>6 DEF SyncInv, SyncShape, Shown, Visible
<1> QED BY Zenon, <1>5, <1>7 DEF SyncInv

\* The watcher applies an event.  No sync runs, and the event is the last one about its
\* server or leaves it with an event in the queue.
LEMMA ApplyKeeps ==
  ASSUME Renewers = {}, TypeOK, Handshake, SyncInv, ApplyEvent
  PROVE  SyncInv'
<1>1. /\ UNCHANGED <<etcd, lost, healing, pc, kvs, fetching, servers, invalid, allIds>>
      /\ pc[Watcher] = "apply" /\ op[Watcher] = "none" /\ watch' = Tail(watch) /\ batch > 0
  BY Zenon DEF ApplyEvent, history, syncVars
<1>2. ~InSnapshot /\ ~InSnapshot'
  BY Zenon, <1>1 DEF Handshake, Syncing, InSnapshot
<1>3. Len(watch) > 0 /\ Head(watch) \in Event
  BY <1>1, TailFacts DEF TypeOK
<1>4. PICK e \in Event : e = Head(watch)
  BY <1>3
<1>5. e.id \in ServerIDs /\ e.type \in {Put, Delete} /\ Put # Delete
  BY DEF Event, Put, Delete
<1>6. DOMAIN op = Procs /\ DOMAIN sv = Procs /\ Watcher \in Procs /\ Ticker \in Procs /\ Ticker # Watcher
  BY TypeOfFacts, Alone DEF TypeOK
<1>7. \/ /\ ~Shown(e.id) /\ UNCHANGED <<serverMapByID, op, sv>>
      \/ /\ Shown(e.id) /\ e.type = Put /\ serverMapByID' = serverMapByID \cup {e.id}
         /\ op'[Watcher] # "delID" /\ op'[Ticker] = op[Ticker] /\ sv'[Ticker] = sv[Ticker]
      \/ /\ Shown(e.id) /\ e.type = Delete /\ e.id \notin serverMapByID /\ UNCHANGED <<serverMapByID, op, sv>>
      \/ /\ Shown(e.id) /\ e.type = Delete /\ e.id \in serverMapByID /\ serverMapByID' = serverMapByID
         /\ op'[Watcher] = "delID" /\ sv'[Watcher] = e.id
         /\ op'[Ticker] = op[Ticker] /\ sv'[Ticker] = sv[Ticker]
  <2>1. CASE ~Shown(e.id)
    BY Zenon, <1>4, <2>1 DEF ApplyEvent, Shown, viewVars, opVars
  <2>2. CASE Shown(e.id) /\ e.type = Put
    <3>1. addServer(Watcher, e.id)
      BY Zenon, <1>4, <2>2 DEF ApplyEvent, Shown
    <3>2. CASE e.id \in serverMapByID
      <4>1. UNCHANGED <<serverMapByID, op, sv>> /\ serverMapByID \cup {e.id} = serverMapByID
        BY <3>1, <3>2 DEF addServer, viewVars, opVars
      <4> QED BY <1>1, <2>2, <4>1
    <3>3. CASE e.id \notin serverMapByID
      <4>1. /\ serverMapByID' = serverMapByID \cup {e.id}
            /\ op' = [op EXCEPT ![Watcher] = "addType"] /\ sv' = [sv EXCEPT ![Watcher] = e.id]
        BY <3>1, <3>3 DEF addServer
      <4>2. op'[Watcher] = "addType" /\ op'[Ticker] = op[Ticker] /\ sv'[Ticker] = sv[Ticker]
        BY <1>6, <4>1
      <4> QED BY <2>2, <4>1, <4>2
    <3> QED BY Zenon, <3>2, <3>3
  <2>3. CASE Shown(e.id) /\ e.type = Delete
    <3>1. deleteServer(Watcher, e.id)
      BY Zenon, <1>4, <1>5, <2>3 DEF ApplyEvent, Shown
    <3>2. serverMapByID' = serverMapByID
      BY <3>1 DEF deleteServer, viewVars
    <3>3. CASE e.id \in serverMapByID
      <4>1. op' = [op EXCEPT ![Watcher] = "delID"] /\ sv' = [sv EXCEPT ![Watcher] = e.id]
        BY <3>1, <3>3 DEF deleteServer
      <4>2. /\ op'[Watcher] = "delID" /\ sv'[Watcher] = e.id
            /\ op'[Ticker] = op[Ticker] /\ sv'[Ticker] = sv[Ticker]
        BY <1>6, <4>1
      <4> QED BY Zenon, <2>3, <3>2, <3>3, <4>2
    <3>4. CASE e.id \notin serverMapByID
      <4>1. UNCHANGED <<op, sv>>
        BY <3>1, <3>4 DEF deleteServer, opVars
      <4> QED BY <2>3, <3>2, <3>4, <4>1
    <3> QED BY Zenon, <3>3, <3>4
  <2> QED BY Zenon, <1>5, <2>1, <2>2, <2>3
<1>8. ASSUME NEW r \in ServerIDs PROVE Tells(r)' /\ Settled(r)' /\ Progress(r)'
  <2>1. Tells(r) /\ Settled(r) /\ Progress(r)
    BY DEF SyncInv
  <2>2. /\ Tells(r)'
        /\ Pending(r)' => Pending(r)
        /\ Pending(r) /\ e.id # r => Pending(r)'
        /\ e.id = r /\ Known(r) /\ ~Pending(r)' => (e.type = Put <=> r \in etcd)
    BY Zenon, <1>1, <1>3, <1>4, <2>1, TailTells
  <2>3. Progress(r)'
    BY Zenon, <1>2 DEF Progress
  <2>4. ~Deleting(Watcher, r)
    BY <1>1 DEF Deleting
  <2>5. CASE r # e.id
    <3>1. (r \in serverMapByID' <=> r \in serverMapByID) /\ ~Deleting(Watcher, r)'
      BY Zenon, <1>1, <1>7, <2>5 DEF Deleting
    <3> QED BY Zenon, <1>1, <2>1, <2>2, <2>3, <2>4, <2>5, <3>1, SettledKept
  <2>6. CASE r = e.id
    <3> SUFFICES ASSUME r \notin lost, ~Pending(r)'
                 PROVE  IF Deleting(Watcher, r)' THEN r \notin etcd ELSE r \in serverMapByID' <=> r \in etcd /\ Shown(r)
      BY Zenon, <1>1, <2>2, <2>3 DEF Settled, Shown, Visible
    <3>1. e.type = Put <=> r \in etcd
      BY <2>2, <2>6 DEF Known
    <3>2. r \in serverMapByID => Shown(r)
      BY Zenon DEF SyncInv, SyncShape
    <3> QED BY Zenon, <1>1, <1>5, <1>7, <2>6, <3>1, <3>2 DEF Deleting
  <2> QED BY <2>5, <2>6
<1>9. SyncShape'
  <2>1. \A r \in serverMapByID' : Shown(r)
    BY Zenon, <1>7 DEF SyncInv, SyncShape
  <2>2. op'[Ticker] = op[Ticker] /\ sv'[Ticker] = sv[Ticker]
    BY <1>7
  <2> QED BY Zenon, <1>1, <1>2, <2>1, <2>2 DEF SyncInv, SyncShape, InSnapshot, Shown, Visible
<1> QED BY <1>8, <1>9 DEF SyncInv

\* What the queue tells of a server that is known no better than before.
LEMMA TellsKept ==
  ASSUME NEW r, Tells(r), UNCHANGED <<etcd, watch>>, Known(r)' => Known(r) \/ ~Pending(r)
  PROVE  Tells(r)' /\ (Pending(r)' <=> Pending(r))
<1>1. Pending(r)' <=> Pending(r)
  BY DEF Pending
<1>2. CASE Known(r)
  <2>1. watch' = watch /\ etcd' = etcd
    OBVIOUS
  <2> QED BY Zenon, <1>1, <1>2, <2>1 DEF Tells
<1>3. CASE ~Pending(r)
  BY <1>1, <1>3 DEF Tells, Pending
<1>4. CASE ~Known(r)'
  BY <1>1, <1>4 DEF Tells
<1> QED BY <1>1, <1>2, <1>3, <1>4

\* What the steps of the ticker's sync have in common: the watcher waits.
LEMMA TickerFacts ==
  ASSUME Renewers = {}, TypeOK, Handshake
  PROVE  /\ Ticker \in Syncers /\ Ticker \in Procs /\ Watcher \in Procs /\ Ticker # Watcher
         /\ Syncing(Ticker) => op[Watcher] = "none"
         /\ op[Ticker] # "none" => pc[Ticker] \in {"add", "range"}
         /\ DOMAIN pc = Procs /\ DOMAIN op = Procs /\ DOMAIN sv = Procs
         /\ DOMAIN kvs = Syncers /\ DOMAIN allIds = Syncers /\ DOMAIN fetching = Syncers
         /\ DOMAIN servers = Syncers /\ DOMAIN invalid = Syncers /\ DOMAIN healing = Syncers
BY Alone DEF TypeOK, Handshake

\* The snapshot of etcd is exact for every server without an event in the queue.
LEMMA GetKeeps ==
  ASSUME Renewers = {}, TypeOK, Handshake, SyncInv, SyncGet(Ticker)
  PROVE  SyncInv'
<1>1. /\ kvs'[Ticker] = Visible(etcd) /\ allIds'[Ticker] = Visible(etcd) /\ pc'[Ticker] = "collect"
      /\ healing'[Ticker] = {s \in lost : ~Pending(s)}
  BY Zenon, TickerFacts DEF SyncGet
<1>2. /\ UNCHANGED <<etcd, watch, lost, serverMapByID, op, sv, fetching, servers, invalid>>
      /\ pc[Ticker] = "get"
  BY DEF SyncGet, worldVars, etcdVars, viewVars, opVars
<1>3. op[Ticker] = "none"
  BY Zenon, <1>2, TickerFacts
<1>4. ASSUME NEW r \in ServerIDs PROVE Tells(r)' /\ Settled(r)' /\ Progress(r)'
  <2>1. Tells(r) /\ Settled(r)
    BY DEF SyncInv
  <2>2. Known(r)' => Known(r) \/ ~Pending(r)
    BY Zenon, <1>1, <1>2 DEF Known
  <2>3. Tells(r)' /\ (Pending(r)' <=> Pending(r))
    BY <1>2, <2>1, <2>2, TellsKept
  <2>4. Settled(r)'
    BY Zenon, <1>2, <2>1, <2>3, SettledKept DEF Deleting
  <2>5. Progress(r)'
    <3>1. r \in Visible(etcd) <=> r \in etcd /\ Shown(r)
      BY ShownFacts
    <3>2. Shown(r)' <=> Shown(r)
      BY DEF Shown, Visible
    <3> QED BY Zenon, <1>1, <1>2, <3>1, <3>2 DEF Progress
  <2> QED BY <2>3, <2>4, <2>5
<1>5. SyncShape'
  <2>1. \A r \in serverMapByID \cup Visible(etcd) : Shown(r)
    BY Zenon, ShownFacts DEF SyncInv, SyncShape
  <2>2. fetching[Ticker] = {} /\ servers[Ticker] = {} /\ invalid[Ticker] = {}
    BY Zenon, <1>2 DEF SyncInv, SyncShape
  <2>3. \A r \in serverMapByID' \cup allIds'[Ticker] : Shown(r)'
    BY Zenon, <1>1, <1>2, <2>1 DEF Shown, Visible
  <2> QED BY Zenon, <1>1, <1>2, <1>3, <2>2, <2>3 DEF SyncShape, InSnapshot
<1> QED BY <1>4, <1>5 DEF SyncInv

\* The snapshot's servers that the view lacks are fetched.  A server that is registered
\* and has no event in the queue is still there when it is fetched.
LEMMA CollectKeeps ==
  ASSUME Renewers = {}, TypeOK, Handshake, SyncInv, NEW s \in ServerIDs,
         SyncLoad(Ticker, s) \/ Fetch(Ticker, s) \/ FetchFails(Ticker, s)
  PROVE  SyncInv'
<1>1. /\ UNCHANGED <<etcd, watch, serverMapByID, op, sv, allIds, pc, invalid>>
      /\ pc[Ticker] = "collect"
  BY Zenon DEF SyncLoad, Fetch, FetchFails, worldVars, etcdVars, viewVars, opVars
<1>2. \/ /\ SyncLoad(Ticker, s) /\ UNCHANGED <<lost, healing, servers>>
         /\ kvs'[Ticker] = kvs[Ticker] \ {s} /\ s \in kvs[Ticker]
         /\ \/ s \in serverMapByID /\ fetching'[Ticker] = fetching[Ticker]
            \/ fetching'[Ticker] = fetching[Ticker] \cup {s}
      \/ /\ Fetch(Ticker, s) /\ UNCHANGED <<lost, healing, kvs>>
         /\ fetching'[Ticker] = fetching[Ticker] \ {s} /\ s \in fetching[Ticker]
         /\ \/ s \notin etcd /\ servers'[Ticker] = servers[Ticker]
            \/ servers'[Ticker] = servers[Ticker] \cup {s}
      \/ /\ FetchFails(Ticker, s) /\ UNCHANGED <<servers, kvs>> /\ s \in fetching[Ticker]
         /\ fetching'[Ticker] = fetching[Ticker] \ {s}
         /\ lost' = lost \cup {s} /\ healing'[Ticker] = healing[Ticker] \ {s}
  <2>1. CASE SyncLoad(Ticker, s)
    BY Zenon, <2>1, TickerFacts DEF SyncLoad, history
  <2>2. CASE Fetch(Ticker, s)
    BY Zenon, <2>2, TickerFacts DEF Fetch, history, getServerFromEtcd
  <2>3. CASE FetchFails(Ticker, s)
    BY Zenon, <2>3, TickerFacts DEF FetchFails
  <2> QED BY Zenon, <2>1, <2>2, <2>3
<1>3. ASSUME NEW r \in ServerIDs PROVE Tells(r)' /\ Settled(r)' /\ Progress(r)'
  <2>1. Tells(r) /\ Settled(r) /\ Progress(r)
    BY DEF SyncInv
  <2>2. /\ Known(r)' => Known(r)
        /\ r \notin lost' => r \notin lost
    BY Zenon, <1>2 DEF Known
  <2>3. Tells(r)' /\ (Pending(r)' <=> Pending(r))
    BY <1>1, <2>1, <2>2, TellsKept
  <2>4. Settled(r)'
    BY Zenon, <1>1, <2>1, <2>2, <2>3, SettledKept DEF Deleting
  <2>5. Progress(r)'
    <3> SUFFICES ASSUME Known(r)', ~Pending(r)' PROVE Progress(r)'
      BY Zenon DEF Progress
    <3>1. /\ r \in allIds[Ticker] <=> r \in etcd /\ Shown(r)
          /\ r \in allIds[Ticker] =>
               r \in serverMapByID \cup kvs[Ticker] \cup fetching[Ticker] \cup servers[Ticker]
      BY Zenon, <1>1, <2>1, <2>2, <2>3 DEF Progress, InSnapshot
    <3>2. r \in allIds[Ticker] =>
            r \in serverMapByID \cup kvs'[Ticker] \cup fetching'[Ticker] \cup servers'[Ticker]
      <4>1. CASE r = s /\ FetchFails(Ticker, s)
        <5>1. ~Known(s)'
          BY Zenon, <4>1, TickerFacts DEF FetchFails, Known
        <5> QED BY <4>1, <5>1
      <4>2. CASE r # s \/ ~FetchFails(Ticker, s)
        BY Zenon, <1>2, <3>1, <4>2
      <4> QED BY Zenon, <4>1, <4>2
    <3>3. Shown(r)' <=> Shown(r)
      BY DEF Shown, Visible
    <3> QED BY Zenon, <1>1, <3>1, <3>2, <3>3 DEF Progress
  <2> QED BY <2>3, <2>4, <2>5
<1>4. SyncShape'
  <2>1. kvs'[Ticker] \cup fetching'[Ticker] \cup servers'[Ticker] \subseteq allIds[Ticker]
    BY Zenon, <1>2 DEF SyncInv, SyncShape
  <2>2. healing'[Ticker] \subseteq lost'
    BY Zenon, <1>2 DEF SyncInv, SyncShape
  <2> QED BY Zenon, <1>1, <2>1, <2>2 DEF SyncInv, SyncShape, InSnapshot, Shown, Visible
<1> QED BY <1>3, <1>4 DEF SyncInv

\* The fetched servers enter the view.
LEMMA AddKeeps ==
  ASSUME Renewers = {}, TypeOK, Handshake, SyncInv, NEW s \in ServerIDs, SyncAdd(Ticker, s)
  PROVE  SyncInv'
<1>1. /\ UNCHANGED <<etcd, watch, lost, healing, allIds, pc, invalid, kvs, fetching>>
      /\ pc[Ticker] = "add" /\ op[Ticker] = "none" /\ s \in servers[Ticker]
      /\ addServer(Ticker, s)
  BY Zenon DEF SyncAdd, worldVars, etcdVars, history
<1>2. servers'[Ticker] = servers[Ticker] \ {s}
  BY Zenon, TickerFacts DEF SyncAdd
<1>3. /\ serverMapByID' = serverMapByID \cup {s}
      /\ op'[Ticker] # "delID" /\ op'[Watcher] = op[Watcher]
  <2>1. CASE s \in serverMapByID
    <3>1. UNCHANGED <<serverMapByID, op, sv>> /\ serverMapByID \cup {s} = serverMapByID
      BY Zenon, <1>1, <2>1 DEF addServer, viewVars, opVars
    <3> QED BY Zenon, <1>1, <3>1
  <2>2. CASE s \notin serverMapByID
    BY Zenon, <1>1, <2>2, TickerFacts DEF addServer
  <2> QED BY Zenon, <2>1, <2>2
<1>4. op[Watcher] = "none"
  BY Zenon, <1>1, TickerFacts DEF Syncing
<1>5. s \in allIds[Ticker] /\ Shown(s)
  BY Zenon, <1>1 DEF SyncInv, SyncShape
<1>6. ASSUME NEW r \in ServerIDs PROVE Tells(r)' /\ Settled(r)' /\ Progress(r)'
  <2>1. Tells(r) /\ Settled(r) /\ Progress(r)
    BY DEF SyncInv
  <2>2. /\ Known(r)' <=> Known(r)
        /\ Shown(r)' <=> Shown(r)
        /\ ~Deleting(Watcher, r) /\ ~Deleting(Watcher, r)'
    BY Zenon, <1>1, <1>3, <1>4 DEF Known, Deleting, Shown, Visible
  <2>3. Tells(r)' /\ (Pending(r)' <=> Pending(r))
    BY Zenon, <1>1, <2>1, <2>2, TellsKept
  <2>4. Known(r) /\ ~Pending(r) =>
          /\ r \in allIds[Ticker] <=> r \in etcd /\ Shown(r)
          /\ r \in allIds[Ticker] =>
               r \in serverMapByID \cup kvs[Ticker] \cup fetching[Ticker] \cup servers[Ticker]
    BY Zenon, <1>1, <2>1 DEF Progress, InSnapshot
  <2>5. r \notin lost => Known(r)
    BY DEF Known
  <2>6. Settled(r)'
    <3>1. CASE r = s
      BY Zenon, <1>1, <1>3, <1>5, <2>2, <2>3, <2>4, <2>5, <3>1 DEF Settled
    <3>2. CASE r # s
      BY Zenon, <1>1, <1>3, <2>1, <2>2, <2>3, <3>2 DEF Settled
    <3> QED BY <3>1, <3>2
  <2>7. Progress(r)'
    BY Zenon, <1>1, <1>2, <1>3, <2>2, <2>3, <2>4 DEF Progress
  <2> QED BY <2>3, <2>6, <2>7
<1>7. SyncShape'
  <2>1. \A r \in serverMapByID' \cup allIds'[Ticker] : Shown(r)'
    BY Zenon, <1>1, <1>3, <1>5 DEF SyncInv, SyncShape, Shown, Visible
  <2> QED BY Zenon, <1>1, <1>2, <1>3, <2>1 DEF SyncInv, SyncShape, InSnapshot
<1> QED BY <1>6, <1>7 DEF SyncInv

\* The places between: all servers are fetched, and the Range over the view begins.
LEMMA PhaseKeeps ==
  ASSUME Renewers = {}, TypeOK, Handshake, SyncInv,
         waitAndGetResult(Ticker) \/ deleteLocalInvalidServers(Ticker)
  PROVE  SyncInv'
<1>1. UNCHANGED <<etcd, watch, lost, healing, allIds, kvs, fetching, servers, serverMapByID, op, sv>>
  BY Zenon DEF waitAndGetResult, deleteLocalInvalidServers, allButPc, worldVars, etcdVars, history, syncVars,
         viewVars, opVars
<1>2. \/ /\ pc[Ticker] = "collect" /\ pc'[Ticker] = "add" /\ invalid'[Ticker] = invalid[Ticker]
         /\ kvs[Ticker] = {} /\ fetching[Ticker] = {}
      \/ /\ pc[Ticker] = "add" /\ pc'[Ticker] = "range" /\ servers[Ticker] = {} /\ op[Ticker] = "none"
         /\ invalid'[Ticker] = serverMapByID \ allIds[Ticker]
  <2>1. CASE waitAndGetResult(Ticker)
    BY Zenon, <2>1, TickerFacts DEF waitAndGetResult, allButPc, syncVars
  <2>2. CASE deleteLocalInvalidServers(Ticker)
    BY Zenon, <2>2, TickerFacts DEF deleteLocalInvalidServers
  <2> QED BY Zenon, <2>1, <2>2
<1>3. ASSUME NEW r \in ServerIDs PROVE Tells(r)' /\ Settled(r)' /\ Progress(r)'
  <2>1. Tells(r) /\ Settled(r) /\ Progress(r)
    BY DEF SyncInv
  <2>2. /\ Known(r)' <=> Known(r)
        /\ Shown(r)' <=> Shown(r)
    BY <1>1 DEF Known, Shown, Visible
  <2>3. Tells(r)' /\ (Pending(r)' <=> Pending(r))
    BY <1>1, <2>1, <2>2, TellsKept
  <2>4. Settled(r)'
    BY Zenon, <1>1, <2>1, <2>2, <2>3, SettledKept DEF Deleting
  <2>5. Progress(r)'
    BY Zenon, <1>1, <1>2, <2>1, <2>2, <2>3 DEF Progress, InSnapshot
  <2> QED BY <2>3, <2>4, <2>5
<1>4. SyncShape'
  BY Zenon, <1>1, <1>2 DEF SyncInv, SyncShape, InSnapshot, Shown, Visible
<1> QED BY <1>3, <1>4 DEF SyncInv

\* The Range takes the next server the snapshot does not have.
LEMMA InvalidKeeps ==
  ASSUME Renewers = {}, TypeOK, Handshake, SyncInv, NEW s \in ServerIDs, DeleteInvalid(Ticker, s)
  PROVE  SyncInv'
<1>1. /\ UNCHANGED <<etcd, watch, lost, healing, allIds, pc, kvs, fetching, servers, serverMapByID>>
      /\ pc[Ticker] = "range" /\ op[Ticker] = "none" /\ s \in invalid[Ticker]
      /\ deleteServer(Ticker, s)
  BY Zenon DEF DeleteInvalid, worldVars, etcdVars, history, deleteServer, viewVars
<1>2. invalid'[Ticker] = invalid[Ticker] \ {s}
  BY Zenon, TickerFacts DEF DeleteInvalid
<1>3. /\ op'[Watcher] = op[Watcher] /\ sv'[Watcher] = sv[Watcher]
      /\ s \in serverMapByID => op'[Ticker] = "delID" /\ sv'[Ticker] = s
      /\ s \notin serverMapByID => op'[Ticker] = "none"
  <2>1. CASE s \in serverMapByID
    BY Zenon, <1>1, <2>1, TickerFacts DEF deleteServer
  <2>2. CASE s \notin serverMapByID
    BY Zenon, <1>1, <2>2 DEF deleteServer, opVars
  <2> QED BY <2>1, <2>2
<1>4. ASSUME NEW r \in ServerIDs PROVE Tells(r)' /\ Settled(r)' /\ Progress(r)'
  <2>1. Tells(r) /\ Settled(r) /\ Progress(r)
    BY DEF SyncInv
  <2>2. /\ Known(r)' <=> Known(r)
        /\ Shown(r)' <=> Shown(r)
        /\ Deleting(Watcher, r)' <=> Deleting(Watcher, r)
        /\ ~Deleting(Ticker, r)
        /\ r = s /\ s \in serverMapByID => Deleting(Ticker, r)'
    BY Zenon, <1>1, <1>3 DEF Known, Shown, Visible, Deleting
  <2>3. Tells(r)' /\ (Pending(r)' <=> Pending(r))
    BY Zenon, <1>1, <2>1, <2>2, TellsKept
  <2>4. Settled(r)'
    BY Zenon, <1>1, <2>1, <2>2, <2>3, SettledKept
  <2>5. Progress(r)'
    BY Zenon, <1>1, <1>2, <2>1, <2>2, <2>3 DEF Progress, InSnapshot
  <2> QED BY <2>3, <2>4, <2>5
<1>5. SyncShape'
  <2>1. s \notin allIds[Ticker]
    BY Zenon, <1>1 DEF SyncInv, SyncShape
  <2> QED BY Zenon, <1>1, <1>2, <1>3, <2>1 DEF SyncInv, SyncShape, InSnapshot, Shown, Visible
<1> QED BY <1>4, <1>5 DEF SyncInv

\* The sync is done: what its snapshot was exact about is settled, whatever was lost before.
LEMMA DoneKeeps ==
  ASSUME Renewers = {}, TypeOK, Handshake, SyncInv, SyncDone(Ticker)
  PROVE  SyncInv'
<1>1. /\ UNCHANGED <<etcd, watch, serverMapByID, op, sv, kvs, allIds, fetching, servers, invalid>>
      /\ pc[Ticker] = "range" /\ op[Ticker] = "none" /\ invalid[Ticker] = {}
      /\ lost' = lost \ healing[Ticker]
  BY Zenon DEF SyncDone, worldVars, etcdVars, viewVars, opVars, syncVars
<1>2. pc'[Ticker] = "done" /\ healing'[Ticker] = {}
  BY Zenon, TickerFacts DEF SyncDone
<1>3. op[Watcher] = "none"
  BY Zenon, <1>1, TickerFacts DEF Syncing
<1>4. kvs[Ticker] = {} /\ fetching[Ticker] = {} /\ servers[Ticker] = {}
  BY Zenon, <1>1 DEF SyncInv, SyncShape
<1>5. ASSUME NEW r \in ServerIDs PROVE Tells(r)' /\ Settled(r)' /\ Progress(r)'
  <2>1. Tells(r) /\ Settled(r) /\ Progress(r)
    BY DEF SyncInv
  <2>2. /\ Known(r)' => Known(r)
        /\ r \notin lost' => Known(r)
        /\ Shown(r)' <=> Shown(r)
        /\ ~Deleting(Watcher, r)' /\ ~Deleting(Ticker, r)
    BY Zenon, <1>1, <1>2, <1>3 DEF Known, Shown, Visible, Deleting
  <2>3. Tells(r)' /\ (Pending(r)' <=> Pending(r))
    BY Zenon, <1>1, <2>1, <2>2, TellsKept
  <2>4. Known(r) /\ ~Pending(r) => (r \in serverMapByID <=> r \in etcd /\ Shown(r))
    BY Zenon, <1>1, <1>4, <2>1, <2>2 DEF Progress, InSnapshot
  <2>5. Settled(r)'
    BY Zenon, <1>1, <2>2, <2>3, <2>4 DEF Settled
  <2>6. Progress(r)'
    BY Zenon, <1>2 DEF Progress, InSnapshot
  <2> QED BY <2>3, <2>5, <2>6
<1>6. SyncShape'
  BY Zenon, <1>1, <1>2, <1>4 DEF SyncInv, SyncShape, InSnapshot, Shown, Visible
<1> QED BY <1>5, <1>6 DEF SyncInv

\* The watcher is released, and the sync's variables are gone.
LEMMA ReleaseKeeps ==
  ASSUME Renewers = {}, TypeOK, Handshake, SyncInv, SendFalse(Ticker)
  PROVE  SyncInv'
<1>1. /\ UNCHANGED <<etcd, watch, lost, healing, serverMapByID, op, sv, kvs, fetching, servers, invalid>>
      /\ pc[Ticker] = "done"
  BY DEF SendFalse, worldVars, etcdVars, viewVars, opVars, history
<1>2. pc'[Ticker] = "idle" /\ allIds'[Ticker] = {}
  BY TickerFacts DEF SendFalse
<1>3. op[Ticker] = "none"
  BY Zenon, <1>1, TickerFacts
<1>4. ASSUME NEW r \in ServerIDs PROVE Tells(r)' /\ Settled(r)' /\ Progress(r)'
  <2>1. Tells(r) /\ Settled(r)
    BY DEF SyncInv
  <2>2. Known(r)' <=> Known(r)
    BY Zenon, <1>1 DEF Known
  <2>3. Tells(r)' /\ (Pending(r)' <=> Pending(r))
    BY <1>1, <2>1, <2>2, TellsKept
  <2>4. Settled(r)'
    BY Zenon, <1>1, <2>1, <2>3, SettledKept DEF Deleting
  <2>5. Progress(r)'
    BY Zenon, <1>2 DEF Progress, InSnapshot
  <2> QED BY <2>3, <2>4, <2>5
<1>5. SyncShape'
  BY Zenon, <1>1, <1>2, <1>3 DEF SyncInv, SyncShape, InSnapshot, Shown, Visible
<1> QED BY <1>4, <1>5 DEF SyncInv

\* addServer and deleteServer go on.  Only the removal from the map by ID matters here, and
\* it takes a server that is not registered, or about which an event is to come.
LEMMA OpKeeps ==
  ASSUME Renewers = {}, TypeOK, Handshake, SyncInv, NEW p \in Procs, OpStep(p)
  PROVE  SyncInv'
<1>1. UNCHANGED <<etcd, watch, lost, healing, kvs, allIds, fetching, servers, invalid, pc>>
  BY DEF OpStep, worldVars, etcdVars, history, syncVars
<1>2. /\ op[p] # "none" /\ op'[p] # "delID" /\ sv' = sv
      /\ \A q \in Procs \ {p} : op'[q] = op[q]
      /\ \/ op[p] = "delID" /\ serverMapByID' = serverMapByID \ {sv[p]}
         \/ op[p] # "delID" /\ serverMapByID' = serverMapByID
  <2>1. CASE AddByType(p)
    BY Zenon, <2>1, TickerFacts DEF AddByType
  <2>2. CASE DeleteByID(p)
    BY <2>2, TickerFacts DEF DeleteByID
  <2>3. CASE DeleteByType(p)
    BY Zenon, <2>3, TickerFacts DEF DeleteByType
  <2>4. CASE notifyListeners(p)
    BY <2>4, TickerFacts DEF notifyListeners
  <2> QED BY Zenon, <2>1, <2>2, <2>3, <2>4 DEF OpStep
<1>3. Procs = {Watcher, Ticker} /\ Watcher # Ticker
  BY Alone
<1>4. /\ p = Watcher => ~InSnapshot
      /\ p = Ticker => op[Watcher] = "none"
  BY Zenon, <1>2, <1>3, TickerFacts DEF Syncing, InSnapshot
<1>5. ASSUME NEW r \in ServerIDs PROVE Tells(r)' /\ Settled(r)' /\ Progress(r)'
  <2>1. Tells(r) /\ Settled(r) /\ Progress(r)
    BY DEF SyncInv
  <2>2. /\ Known(r)' <=> Known(r)
        /\ Shown(r)' <=> Shown(r)
        /\ InSnapshot' <=> InSnapshot
    BY Zenon, <1>1 DEF Known, Shown, Visible, InSnapshot
  <2>3. Tells(r)' /\ (Pending(r)' <=> Pending(r))
    BY <1>1, <2>1, <2>2, TellsKept
  <2>4. ~Deleting(p, r)' /\ \A q \in Procs \ {p} : Deleting(q, r)' <=> Deleting(q, r)
    BY Zenon, <1>2 DEF Deleting
  <2>5. CASE ~Deleting(p, r)
    <3>1. r \in serverMapByID' <=> r \in serverMapByID
      BY Zenon, <1>2, <2>5 DEF Deleting
    <3>2. (Deleting(Watcher, r)' <=> Deleting(Watcher, r)) /\ (Deleting(Ticker, r)' <=> Deleting(Ticker, r))
      BY <1>3, <2>4, <2>5
    <3>3. Settled(r)'
      BY <1>1, <2>1, <2>3, <3>1, <3>2, SettledKept
    <3>4. Progress(r)'
      BY Zenon, <1>1, <2>1, <2>2, <2>3, <3>1, <3>2, ProgressKept
    <3> QED BY <2>3, <3>3, <3>4
  <2>6. CASE Deleting(p, r)
    <3>1. r \notin serverMapByID'
      BY <1>2, <2>6 DEF Deleting
    <3>2. CASE p = Watcher
      <4>1. ~Deleting(Watcher, r)' /\ Deleting(Watcher, r)
        BY <2>4, <2>6, <3>2
      <4>2. Settled(r)'
        BY <1>1, <2>1, <2>3, <3>1, <4>1 DEF Settled
      <4>3. Progress(r)'
        BY Zenon, <1>4, <2>2, <3>2 DEF Progress
      <4> QED BY <2>3, <4>2, <4>3
    <3>3. CASE p = Ticker
      <4>1. r \notin allIds[Ticker] /\ InSnapshot
        BY Zenon, <2>6, <3>3 DEF Deleting, SyncInv, SyncShape, InSnapshot
      <4>2. Known(r) /\ ~Pending(r) => ~(r \in etcd /\ Shown(r))
        BY Zenon, <2>1, <4>1 DEF Progress
      <4>3. ~Deleting(Watcher, r)'
        BY Zenon, <1>2, <1>3, <1>4, <3>3 DEF Deleting
      <4>4. Settled(r)'
        BY Zenon, <1>1, <2>2, <2>3, <3>1, <4>2, <4>3 DEF Settled, Known
      <4>5. Progress(r)'
        BY Zenon, <1>1, <2>1, <2>2, <2>3, <3>1, <4>1 DEF Progress
      <4> QED BY <2>3, <4>4, <4>5
    <3> QED BY <1>3, <3>2, <3>3
  <2> QED BY <2>5, <2>6
<1>6. SyncShape'
  <2>1. op'[Ticker] = "delID" => op[Ticker] = "delID"
    BY <1>2, <1>3
  <2>2. serverMapByID' \subseteq serverMapByID
    BY <1>2
  <2> QED BY Zenon, <1>1, <1>2, <2>1, <2>2 DEF SyncInv, SyncShape, InSnapshot, Shown, Visible
<1> QED BY <1>5, <1>6 DEF SyncInv

\* Every step keeps SyncInv.
LEMMA SyncStep ==
  ASSUME Renewers = {}, TypeOK, Handshake, SyncInv, [Next]_vars
  PROVE  SyncInv'
<1> USE DEF localVars, worldVars, allButPc
<1>1. ASSUME NEW s \in ServerIDs, Register(s) PROVE SyncInv'
  <2>1. /\ Emit(Put, s) /\ etcd' = IF Put = Put THEN etcd \cup {s} ELSE etcd \ {s}
        /\ UNCHANGED <<viewVars, opVars, syncVars, pc>>
    BY <1>1 DEF Register
  <2> QED BY <2>1, ChangeKeeps
<1>2. ASSUME NEW s \in ServerIDs, Deregister(s) PROVE SyncInv'
  <2>1. /\ Emit(Delete, s) /\ etcd' = IF Delete = Put THEN etcd \cup {s} ELSE etcd \ {s}
        /\ UNCHANGED <<viewVars, opVars, syncVars, pc>>
    BY <1>2 DEF Deregister, Put, Delete
  <2> QED BY <2>1, ChangeKeeps
<1>3. CASE bootstrapServer(Ticker)
  <2>1. /\ Emit(Put, Self) /\ etcd' = IF Put = Put THEN etcd \cup {Self} ELSE etcd \ {Self}
        /\ UNCHANGED <<viewVars, opVars, syncVars>> /\ ~InSnapshot /\ ~InSnapshot'
    BY <1>3, TickerFacts DEF bootstrapServer, InSnapshot
  <2> QED BY Zenon, <2>1, ChangeKeeps, TypeOfFacts
<1>4. CASE WatchDies \/ Shutdown \/ UNCHANGED vars
  <2>1. UNCHANGED <<etcd, watch, history, viewVars, opVars, kvs, fetching, servers, invalid, allIds, pc>>
    BY <1>4 DEF WatchDies, Shutdown, vars, etcdVars, syncVars
  <2> QED BY <2>1, QuietKeeps
<1>5. CASE StartWatch \/ ResponseDone \/ WatchClosed \/ StopWatcher \/ \E n \in 1..Len(watch) : ReceiveResponse(n)
  <2>1. UNCHANGED <<etcd, watch, history, viewVars, opVars, kvs, fetching, servers, invalid, allIds>>
    BY Zenon, <1>5 DEF StartWatch, ResponseDone, WatchClosed, StopWatcher, ReceiveResponse, etcdVars, syncVars
  <2>2. pc'[Ticker] = pc[Ticker]
    BY Zenon, <1>5, TickerFacts DEF StartWatch, ResponseDone, WatchClosed, StopWatcher, ReceiveResponse
  <2> QED BY Zenon, <2>1, <2>2, QuietKeeps
<1>6. CASE Tick \/ StopTicker \/ SendTrue(Ticker) \/ SyncGetFails(Ticker)
  <2>1. UNCHANGED <<etcd, watch, history, viewVars, opVars, kvs, fetching, servers, invalid, allIds>>
    BY Zenon, <1>6 DEF Tick, StopTicker, SendTrue, SyncGetFails, etcdVars, syncVars
  <2>2. ~InSnapshot /\ ~InSnapshot'
    BY Zenon, <1>6, TickerFacts DEF Tick, StopTicker, SendTrue, SyncGetFails, InSnapshot
  <2> QED BY Zenon, <2>1, <2>2, QuietKeeps
<1>7. CASE SyncBody(Ticker)
  BY <1>6, <1>7, GetKeeps, CollectKeeps, AddKeeps, PhaseKeeps, InvalidKeeps, DoneKeeps DEF SyncBody
<1>8. CASE WatcherStep
  BY <1>5, <1>8, ApplyKeeps DEF WatcherStep
<1>9. CASE SyncerStep(Ticker)
  BY <1>3, <1>6, <1>7, <1>9, ReleaseKeeps DEF SyncerStep
<1>10. CASE Environment
  BY <1>1, <1>2, <1>4, <1>10 DEF Environment
<1> QED BY <1>4, <1>6, <1>8, <1>9, <1>10, OpKeeps, Alone DEF Next

\* SyncInv holds in every state of an instance whose lease is never lost.
THEOREM SyncInvariant ==
  ASSUME Renewers = {}
  PROVE  Spec => []SyncInv
<1>1. Init => SyncInv
  <2> SUFFICES ASSUME Init PROVE SyncInv
    OBVIOUS
  <2>1. /\ watch = <<>> /\ lost = etcd /\ serverMapByID = {}
        /\ healing[Ticker] = {} /\ allIds[Ticker] = {} /\ kvs[Ticker] = {} /\ fetching[Ticker] = {}
        /\ servers[Ticker] = {} /\ invalid[Ticker] = {}
        /\ pc[Ticker] = "boot" /\ op[Ticker] = "none" /\ op[Watcher] = "none"
    BY Alone DEF Init
  <2>2. SyncShape
    BY Zenon, <2>1 DEF SyncShape
  <2>3. ASSUME NEW r \in ServerIDs PROVE Tells(r) /\ Settled(r) /\ Progress(r)
    <3>1. Tells(r)
      BY <2>1 DEF Tells
    <3>2. Settled(r)
      BY <2>1 DEF Settled, Deleting
    <3>3. Progress(r)
      BY Zenon, <2>1 DEF Progress, InSnapshot
    <3> QED BY <3>1, <3>2, <3>3
  <2> QED BY <2>2, <2>3 DEF SyncInv
<1>2. TypeOK /\ Handshake /\ SyncInv /\ [Next]_vars => SyncInv'
  BY SyncStep
<1> QED BY <1>1, <1>2, Typing, HandshakeInvariant, PTL DEF Spec

\* With no renewal beside the ticker, a watcher that has applied every event sees exactly the
\* registered servers that are not filtered out, but for those with a change that neither an
\* event nor a SyncServers has brought: no change falls between the snapshot and the watch.
THEOREM DrainedIsInSync ==
  ASSUME Renewers = {}
  PROVE  Spec => []InSyncWhenDrained
<1>1. Handshake /\ SyncInv => InSyncWhenDrained
  <2> SUFFICES ASSUME Handshake, SyncInv, pc[Watcher] = "select", watch = <<>>, NEW r \in ServerIDs \ lost
               PROVE  r \in serverMapByID <=> r \in Visible(etcd)
    BY DEF InSyncWhenDrained
  <2>1. ~Deleting(Watcher, r)
    BY DEF Handshake, Deleting
  <2>2. ~Pending(r)
    BY DEF Pending
  <2>3. Settled(r)
    BY DEF SyncInv
  <2> QED BY <2>1, <2>2, <2>3, ShownFacts DEF Settled
<1> QED BY <1>1, HandshakeInvariant, SyncInvariant, PTL

\* With no renewal beside the ticker, deleteServer takes a server out of the view only when it
\* is not registered, or an event about it is queued, or a change of it got lost, whether the
\* watcher or SyncServers calls it.
THEOREM DropsAreRight ==
  ASSUME Renewers = {}
  PROVE  Spec => DropsAreJustified
<1>1. TypeOK /\ Handshake /\ SyncInv /\ [Next]_vars =>
        [\A s \in serverMapByID \ serverMapByID' : s \notin etcd \/ Pending(s) \/ s \in lost]_vars
  <2> SUFFICES ASSUME TypeOK, Handshake, SyncInv, Next, NEW s \in serverMapByID \ serverMapByID'
               PROVE  s \notin etcd \/ Pending(s) \/ s \in lost
    OBVIOUS
  <2>1. PICK p \in Procs : Deleting(p, s)
    <3>1. CASE \E p \in Procs : OpStep(p)
      <4>1. PICK p \in Procs : OpStep(p)
        BY <3>1
      <4>2. DeleteByID(p)
        BY Zenon, <4>1 DEF OpStep, AddByType, DeleteByType, notifyListeners
      <4> QED BY <4>2 DEF DeleteByID, Deleting
    <3>2. CASE \E r \in ServerIDs : SyncAdd(Ticker, r) \/ DeleteInvalid(Ticker, r)
      BY <3>2 DEF SyncAdd, DeleteInvalid, addServer, deleteServer, viewVars
    <3>3. CASE ApplyEvent
      BY Zenon, <3>3 DEF ApplyEvent, addServer, deleteServer, viewVars
    <3>4. CASE UNCHANGED viewVars
      BY <3>4 DEF viewVars
    <3>5. CASE Environment \/ Tick \/ StopTicker \/ bootstrapServer(Ticker) \/ SendTrue(Ticker) \/ SendFalse(Ticker)
      BY Zenon, <3>4, <3>5 DEF Environment, Register, Deregister, WatchDies, Shutdown, localVars, Tick, StopTicker,
                        bootstrapServer, SendTrue, SendFalse, allButPc
    <3>6. CASE WatcherStep
      BY Zenon, <3>3, <3>4, <3>6 DEF WatcherStep, StartWatch, ReceiveResponse, ResponseDone, WatchClosed, StopWatcher, allButPc
    <3>7. CASE SyncBody(Ticker)
      BY Zenon, <3>2, <3>4, <3>7 DEF SyncBody, SyncGet, SyncGetFails, SyncLoad, Fetch, FetchFails, waitAndGetResult,
                              deleteLocalInvalidServers, SyncDone, allButPc
    <3> QED BY <3>1, <3>5, <3>6, <3>7, Alone DEF Next, SyncerStep
  <2>2. s \in ServerIDs
    BY DEF TypeOK
  <2>3. CASE p = Watcher
    BY <2>1, <2>2, <2>3 DEF SyncInv, Settled
  <2>4. CASE p = Ticker
    <3>1. s \notin allIds[Ticker] /\ InSnapshot /\ Shown(s)
      BY Zenon, <2>1, <2>4 DEF Deleting, SyncInv, SyncShape, InSnapshot
    <3> QED BY Zenon, <2>2, <3>1 DEF SyncInv, Progress, Known
  <2> QED BY <2>3, <2>4, Alone
<1> QED BY <1>1, Typing, HandshakeInvariant, SyncInvariant, PTL DEF Spec, DropsAreJustified
=============================================================================
