-------------------------- MODULE ServiceDiscovery --------------------------
(***************************************************************************)
(* The etcd service discovery of cluster/etcd_service_discovery.go: the    *)
(* local view of the cluster (serverMapByID, serverMapByType, what the     *)
(* listeners were told) kept up to date by two kinds of goroutines, the    *)
(* watcher that applies etcd's change events and the syncers that compare  *)
(* the view with a snapshot of etcd.  They exclude one another with the    *)
(* unbuffered channel syncServersRunning.                                  *)
(*                                                                         *)
(* Keys and payloads that do not parse are skipped by both paths and are   *)
(* left out.  A server's type is a function of its ID: both are fixed when *)
(* the server process starts.                                              *)
(***************************************************************************)
EXTENDS Integers, Sequences

CONSTANTS
  ServerIDs,     \* IDs of all the servers that may register
  Self,          \* sd.server.ID
  TypeOf,        \* the type of each server
  Blacklist,     \* sd.serverTypesBlacklist
  Watcher,       \* the goroutine of watchEtcdChanges
  Ticker,        \* the goroutine that bootstraps, then syncs on every tick
  Renewers,      \* goroutines of renewLease, one per lease that is lost
  WatchRetries,  \* reads of a dead watch before reconnecting (10 in the code)
  MaxChanges,    \* bound: registrations and removals by the environment
  MaxFailures    \* bound: failed etcd calls and dead watches

Types == {TypeOf[s] : s \in ServerIDs}
Syncers == {Ticker} \cup Renewers
Procs == {Watcher} \cup Syncers

ASSUME ConstantsAssumption ==
  /\ Self \in ServerIDs
  /\ TypeOf = [s \in ServerIDs |-> TypeOf[s]]
  /\ Ticker \notin Renewers
  /\ Watcher \notin Syncers
  /\ WatchRetries \in Nat
  /\ MaxChanges \in Nat
  /\ MaxFailures \in Nat

VARIABLES
  etcd,                 \* IDs that have a key under servers/
  watch,                \* events the watch channel holds, oldest first
  watchOpen,            \* whether etcd still feeds that channel
  failedWatchAttempts,
  running,              \* sd.running; stopChan is closed when it is reset
  serverMapByID,
  serverMapByType,
  balance,              \* AddServer minus RemoveServer calls of the listeners
  pc,                   \* where each goroutine is
  batch,                \* events of the watch response still to be applied
  op,                   \* step of addServer or deleteServer a goroutine is in
  sv,                   \* the server that step is about
  firstSync,            \* argument of a syncer's SyncServers
  kvs,                  \* keys of the snapshot the loop has not reached
  allIds,               \* IDs of the snapshot that are not filtered out
  fetching,             \* work handed to the parallelGetter
  servers,              \* its result, not yet added
  invalid,              \* local IDs the Range of deleteLocalInvalidServers visits
  lost,                 \* history: IDs with a change no event will report
  healing,              \* history: lost IDs a syncer's snapshot makes good
  changes, failures     \* counters for the bounds

etcdVars == <<etcd, watch, watchOpen>>
viewVars == <<serverMapByID, serverMapByType, balance>>
opVars == <<op, sv>>
syncVars == <<firstSync, kvs, allIds, fetching, servers, invalid>>
history == <<lost, healing>>
bounds == <<changes, failures>>
vars == <<etcdVars, failedWatchAttempts, running, viewVars, pc, batch, opVars,
          syncVars, history, bounds>>

\* What the environment and what a syncer leaves alone.
localVars == <<failedWatchAttempts, batch, running, viewVars, pc, opVars, syncVars>>
worldVars == <<etcdVars, failedWatchAttempts, batch, running, changes>>
allButPc == <<worldVars, syncVars, viewVars, history, opVars, failures>>

Put == "PUT"
Delete == "DELETE"
Event == [type : {Put, Delete}, id : ServerIDs]

isServerTypeBlacklisted(type) == type \in Blacklist

\* The servers of S that a sync or the watcher lets through.
Visible(S) == {s \in S : ~isServerTypeBlacklisted(TypeOf[s]) \/ s = Self}

\* An event of the watch channel is about server s.
Pending(s) == \E i \in 1..Len(watch) : watch[i].id = s

-----------------------------------------------------------------------------
(* addServer and deleteServer.  Each access to a shared map and each call of
   the listeners is a step of its own: another goroutine may run between. *)

\* Mutant: Store in place of LoadOrStore.
addServerStores(p, s) ==
  /\ serverMapByID' = serverMapByID \cup {s}
  /\ op' = [op EXCEPT ![p] = "addType"]
  /\ sv' = [sv EXCEPT ![p] = s]
  /\ UNCHANGED <<serverMapByType, balance>>

\* LoadOrStore; the rest follows only when the ID was absent.
addServer(p, s) ==
  IF s \in serverMapByID
    THEN UNCHANGED <<viewVars, opVars>>
    ELSE /\ serverMapByID' = serverMapByID \cup {s}
         /\ op' = [op EXCEPT ![p] = "addType"]
         /\ sv' = [sv EXCEPT ![p] = s]
         /\ UNCHANGED <<serverMapByType, balance>>

\* Load; the rest follows only when the ID is present.
deleteServer(p, s) ==
  /\ IF s \in serverMapByID
       THEN /\ op' = [op EXCEPT ![p] = "delID"]
            /\ sv' = [sv EXCEPT ![p] = s]
       ELSE UNCHANGED opVars
  /\ UNCHANGED viewVars

AddByType(p) ==
  /\ op[p] = "addType"
  /\ serverMapByType' =
       [serverMapByType EXCEPT ![TypeOf[sv[p]]] = @ \cup {sv[p]}]
  /\ op' = [op EXCEPT ![p] = IF sv[p] = Self THEN "none" ELSE "addNotify"]
  /\ UNCHANGED <<serverMapByID, balance, sv>>

DeleteByID(p) ==
  /\ op[p] = "delID"
  /\ serverMapByID' = serverMapByID \ {sv[p]}
  /\ op' = [op EXCEPT ![p] = "delType"]
  /\ UNCHANGED <<serverMapByType, balance, sv>>

DeleteByType(p) ==
  /\ op[p] = "delType"
  /\ serverMapByType' =
       [serverMapByType EXCEPT ![TypeOf[sv[p]]] = @ \ {sv[p]}]
  /\ op' = [op EXCEPT ![p] = "delNotify"]
  /\ UNCHANGED <<serverMapByID, balance, sv>>

\* ADD raises the balance, DEL lowers it: DEL is not filtered for Self.
notifyListeners(p) ==
  /\ op[p] \in {"addNotify", "delNotify"}
  /\ balance' = [balance EXCEPT
       ![sv[p]] = IF op[p] = "addNotify" THEN @ + 1 ELSE @ - 1]
  /\ op' = [op EXCEPT ![p] = "none"]
  /\ UNCHANGED <<serverMapByID, serverMapByType, sv>>

OpStep(p) ==
  /\ AddByType(p) \/ DeleteByID(p) \/ DeleteByType(p) \/ notifyListeners(p)
  /\ UNCHANGED <<worldVars, syncVars, history, pc, failures>>

-----------------------------------------------------------------------------
(* etcd: the keys, and the events a watch delivers for their changes. *)

\* A change of s reaches an open watch; a closed one loses it.
Emit(type, s) ==
  IF watchOpen
    THEN /\ watch' = Append(watch, [type |-> type, id |-> s])
         /\ UNCHANGED history
    ELSE /\ lost' = lost \cup {s}
         /\ healing' = [p \in Syncers |-> healing[p] \ {s}]
         /\ UNCHANGED watch

\* A server writes its key, for the first time or again after a renewal.
Register(s) ==
  /\ changes < MaxChanges
  /\ s # Self
  /\ etcd' = etcd \cup {s}
  /\ Emit(Put, s)
  /\ changes' = changes + 1
  /\ UNCHANGED <<localVars, watchOpen, failures>>

\* A key goes away: its lease was revoked or has expired.
Deregister(s) ==
  /\ changes < MaxChanges
  /\ s \in etcd
  /\ etcd' = etcd \ {s}
  /\ Emit(Delete, s)
  /\ changes' = changes + 1
  /\ UNCHANGED <<localVars, watchOpen, failures>>

\* etcd cancels the watch: the client closes the channel behind its events.
WatchDies ==
  /\ failures < MaxFailures
  /\ watchOpen
  /\ watchOpen' = FALSE
  /\ failures' = failures + 1
  /\ UNCHANGED <<localVars, history, etcd, watch, changes>>

-----------------------------------------------------------------------------
(* watchEtcdChanges *)

\* sd.cli.Watch returns once etcd has created the watch.
StartWatch ==
  /\ pc[Watcher] = "start"
  /\ pc' = [pc EXCEPT ![Watcher] = "select"]
  /\ watchOpen' = TRUE
  /\ UNCHANGED <<syncVars, viewVars, history, opVars, bounds, etcd, watch,
                 failedWatchAttempts, batch, running>>

\* A response with n events arrives.
ReceiveResponse(n) ==
  /\ pc[Watcher] = "select"
  /\ n <= Len(watch)
  /\ pc' = [pc EXCEPT ![Watcher] = "apply"]
  /\ batch' = n
  /\ failedWatchAttempts' = 0
  /\ UNCHANGED <<syncVars, viewVars, etcdVars, history, opVars, bounds,
                 running>>

\* Mutant: a filtered event ends the loop over the response (break, not continue).
ApplyEventBreaks ==
  /\ pc[Watcher] = "apply" /\ op[Watcher] = "none" /\ batch > 0
  /\ LET ev == Head(watch) IN
       IF ev.id \notin Visible({ev.id})
         THEN /\ UNCHANGED <<viewVars, opVars>>
              /\ watch' = SubSeq(watch, batch + 1, Len(watch))
              /\ batch' = 0
         ELSE /\ IF ev.type = Put THEN addServer(Watcher, ev.id)
                 ELSE deleteServer(Watcher, ev.id)
              /\ watch' = Tail(watch)
              /\ batch' = batch - 1
  /\ UNCHANGED <<syncVars, history, bounds, etcd, watchOpen,
                 failedWatchAttempts, running, pc>>

ApplyEvent ==
  /\ pc[Watcher] = "apply" /\ op[Watcher] = "none" /\ batch > 0
  /\ LET ev == Head(watch) IN
       IF ev.id \notin Visible({ev.id}) THEN UNCHANGED <<viewVars, opVars>>
       ELSE IF ev.type = Put THEN addServer(Watcher, ev.id)
       ELSE deleteServer(Watcher, ev.id)
  /\ watch' = Tail(watch)
  /\ batch' = batch - 1
  /\ UNCHANGED <<syncVars, history, bounds, etcd, watchOpen,
                 failedWatchAttempts, running, pc>>

ResponseDone ==
  /\ pc[Watcher] = "apply" /\ op[Watcher] = "none" /\ batch = 0
  /\ pc' = [pc EXCEPT ![Watcher] = "select"]
  /\ UNCHANGED allButPc

\* Mutant: the watcher gives up when its channel is closed.
WatchClosedReturns ==
  /\ pc[Watcher] = "select" /\ ~watchOpen /\ watch = <<>>
  /\ pc' = [pc EXCEPT ![Watcher] = "exit"]
  /\ UNCHANGED allButPc

\* A new client and, when that succeeds, a new watch, which starts at etcd's
\* current revision.
InitETCDClient ==
  \/ watchOpen' = TRUE /\ UNCHANGED failures
  \/ failures < MaxFailures /\ failures' = failures + 1 /\ UNCHANGED watchOpen

\* The channel is closed: after more than WatchRetries reads the client is
\* rebuilt; should that fail, the count starts again.
WatchClosed ==
  /\ pc[Watcher] = "select" /\ ~watchOpen /\ watch = <<>>
  /\ \/ /\ failedWatchAttempts + 1 <= WatchRetries
        /\ failedWatchAttempts' = failedWatchAttempts + 1
        /\ UNCHANGED <<watchOpen, failures>>
     \/ /\ failedWatchAttempts + 1 > WatchRetries
        /\ InitETCDClient
        /\ failedWatchAttempts' = 0
  /\ UNCHANGED <<syncVars, viewVars, history, opVars, etcd, watch, batch,
                 running, pc, changes>>

\* stopChan is closed.  `running' is read without synchronisation, so the loop
\* may go round again before it stops.
StopWatcher ==
  /\ pc[Watcher] = "select" /\ ~running
  /\ pc' = [pc EXCEPT ![Watcher] = "exit"]
  /\ UNCHANGED allButPc

-----------------------------------------------------------------------------
(* bootstrapServer and SyncServers *)

\* Init and renewLease write the own key and sync; Put precedes the sync.
bootstrapServer(p) ==
  /\ pc[p] = "boot"
  /\ etcd' = etcd \cup {Self}
  /\ Emit(Put, Self)
  /\ pc' = [pc EXCEPT ![p] = "want"]
  /\ UNCHANGED <<syncVars, viewVars, opVars, bounds, watchOpen,
                 failedWatchAttempts, batch, running>>

\* The lease that Init granted is lost, and a renewal has got a new one.
StartRenewal(p) ==
  /\ pc[p] = "idle"
  /\ pc' = [pc EXCEPT ![p] = "boot"]
  /\ UNCHANGED allButPc

Tick ==
  /\ pc[Ticker] = "idle"
  /\ pc' = [pc EXCEPT ![Ticker] = "want"]
  /\ UNCHANGED allButPc

\* Mutant: a buffered syncServersRunning, the sender does not wait.
SendTrueBuffered(p) ==
  /\ pc[p] = "want"
  /\ pc' = [pc EXCEPT ![p] = "get"]
  /\ UNCHANGED allButPc

\* syncServersRunning <- true: taken by the select or by the loop inside it.
SendTrue(p) ==
  /\ pc[p] = "want" /\ pc[Watcher] \in {"select", "held"}
  /\ pc' = [pc EXCEPT ![p] = "get", ![Watcher] = "held"]
  /\ UNCHANGED allButPc

\* Mutant: allIds collects only the IDs that are not known yet.
SyncGetMissingOnly(p) ==
  /\ pc[p] = "get"
  /\ kvs' = [kvs EXCEPT ![p] = Visible(etcd)]
  /\ allIds' = [allIds EXCEPT ![p] = Visible(etcd) \ serverMapByID]
  /\ healing' = [healing EXCEPT ![p] = {s \in lost : ~Pending(s)}]
  /\ pc' = [pc EXCEPT ![p] = "collect"]
  /\ UNCHANGED <<worldVars, viewVars, opVars, firstSync, fetching, servers,
                 invalid, lost, failures>>

\* The prefix Get answers with the keys of one revision.
SyncGet(p) ==
  /\ pc[p] = "get"
  /\ kvs' = [kvs EXCEPT ![p] = Visible(etcd)]
  /\ allIds' = [allIds EXCEPT ![p] = Visible(etcd)]
  /\ healing' = [healing EXCEPT ![p] = {s \in lost : ~Pending(s)}]
  /\ pc' = [pc EXCEPT ![p] = "collect"]
  /\ UNCHANGED <<worldVars, viewVars, opVars, firstSync, fetching, servers,
                 invalid, lost, failures>>

\* The prefix Get fails and SyncServers returns, through its defer.
SyncGetFails(p) ==
  /\ pc[p] = "get"
  /\ failures < MaxFailures
  /\ failures' = failures + 1
  /\ pc' = [pc EXCEPT ![p] = "done"]
  /\ UNCHANGED <<worldVars, syncVars, viewVars, history, opVars>>

\* The loop over kvs.Kvs hands the servers it does not know to the getter.
SyncLoad(p, s) ==
  /\ pc[p] = "collect" /\ s \in kvs[p]
  /\ kvs' = [kvs EXCEPT ![p] = @ \ {s}]
  /\ fetching' = IF s \in serverMapByID THEN fetching
                 ELSE [fetching EXCEPT ![p] = @ \cup {s}]
  /\ UNCHANGED <<worldVars, viewVars, history, opVars, pc, firstSync, allIds,
                 servers, invalid, failures>>

getServerFromEtcd(s) == s \in etcd

\* A worker of the parallelGetter takes the payload of the snapshot, or gets
\* the key, which may be gone by now.
Fetch(p, s) ==
  /\ pc[p] = "collect" /\ s \in fetching[p]
  /\ fetching' = [fetching EXCEPT ![p] = @ \ {s}]
  /\ servers' = IF firstSync[p] \/ getServerFromEtcd(s)
                THEN [servers EXCEPT ![p] = @ \cup {s}] ELSE servers
  /\ UNCHANGED <<worldVars, viewVars, history, opVars, pc, firstSync, kvs,
                 allIds, invalid, failures>>

\* The worker's Get fails: the server is logged and skipped.
FetchFails(p, s) ==
  /\ pc[p] = "collect" /\ s \in fetching[p]
  /\ ~firstSync[p] /\ failures < MaxFailures
  /\ fetching' = [fetching EXCEPT ![p] = @ \ {s}]
  /\ lost' = lost \cup {s}
  /\ healing' = [healing EXCEPT ![p] = @ \ {s}]
  /\ failures' = failures + 1
  /\ UNCHANGED <<worldVars, viewVars, opVars, pc, firstSync, kvs, allIds,
                 servers, invalid>>

waitAndGetResult(p) ==
  /\ pc[p] = "collect" /\ kvs[p] = {} /\ fetching[p] = {}
  /\ pc' = [pc EXCEPT ![p] = "add"]
  /\ UNCHANGED allButPc

\* for _, server := range servers: in the order the workers finished.
SyncAdd(p, s) ==
  /\ pc[p] = "add" /\ op[p] = "none" /\ s \in servers[p]
  /\ addServer(p, s)
  /\ servers' = [servers EXCEPT ![p] = @ \ {s}]
  /\ UNCHANGED <<worldVars, history, pc, firstSync, kvs, allIds, fetching,
                 invalid, failures>>

\* Mutant: the servers that are gone are not looked for.
deleteNoInvalidServers(p) ==
  /\ pc[p] = "add" /\ op[p] = "none" /\ servers[p] = {}
  /\ pc' = [pc EXCEPT ![p] = "range"]
  /\ UNCHANGED allButPc

\* deleteLocalInvalidServers: Range visits every ID present when it starts.  It
\* may or may not visit one stored meanwhile; here it does not.
deleteLocalInvalidServers(p) ==
  /\ pc[p] = "add" /\ op[p] = "none" /\ servers[p] = {}
  /\ invalid' = [invalid EXCEPT ![p] = serverMapByID \ allIds[p]]
  /\ pc' = [pc EXCEPT ![p] = "range"]
  /\ UNCHANGED <<worldVars, viewVars, history, opVars, firstSync, kvs, allIds,
                 fetching, servers, failures>>

DeleteInvalid(p, s) ==
  /\ pc[p] = "range" /\ op[p] = "none" /\ s \in invalid[p]
  /\ deleteServer(p, s)
  /\ invalid' = [invalid EXCEPT ![p] = @ \ {s}]
  /\ UNCHANGED <<worldVars, history, pc, firstSync, kvs, allIds, fetching,
                 servers, failures>>

SyncDone(p) ==
  /\ pc[p] = "range" /\ op[p] = "none" /\ invalid[p] = {}
  /\ pc' = [pc EXCEPT ![p] = "done"]
  /\ lost' = lost \ healing[p]
  /\ healing' = [healing EXCEPT ![p] = {}]
  /\ UNCHANGED <<worldVars, syncVars, viewVars, opVars, failures>>

\* Mutant: only the watcher's inner loop receives the end of a sync.
SendFalseToHeld(p) ==
  /\ pc[p] = "done" /\ pc[Watcher] = "held"
  /\ pc' = [pc EXCEPT ![p] = IF p = Ticker THEN "idle" ELSE "exit",
                      ![Watcher] = "select"]
  /\ firstSync' = [firstSync EXCEPT ![p] = FALSE]
  /\ allIds' = [allIds EXCEPT ![p] = {}]
  /\ UNCHANGED <<worldVars, viewVars, history, opVars, kvs, fetching, servers,
                 invalid, failures>>

\* The deferred syncServersRunning <- false ends the watcher's wait.  The
\* ticker goes back to its select; a renewal's goroutine is finished.
SendFalse(p) ==
  /\ pc[p] = "done" /\ pc[Watcher] \in {"select", "held"}
  /\ pc' = [pc EXCEPT ![p] = IF p = Ticker THEN "idle" ELSE "exit",
                      ![Watcher] = "select"]
  /\ firstSync' = [firstSync EXCEPT ![p] = FALSE]
  /\ allIds' = [allIds EXCEPT ![p] = {}]
  /\ UNCHANGED <<worldVars, viewVars, history, opVars, kvs, fetching, servers,
                 invalid, failures>>

\* The ticker's goroutine leaves its select by stopChan.
StopTicker ==
  /\ pc[Ticker] = "idle" /\ ~running
  /\ pc' = [pc EXCEPT ![Ticker] = "exit"]
  /\ UNCHANGED allButPc

\* running = false; close(stopChan).  The application shuts its modules down
\* only after Init has returned, that is after the bootstrap's sync.
Shutdown ==
  /\ running /\ ~firstSync[Ticker]
  /\ running' = FALSE
  /\ UNCHANGED <<syncVars, viewVars, etcdVars, history, opVars, bounds,
                 failedWatchAttempts, batch, pc>>

-----------------------------------------------------------------------------
Init ==
  /\ etcd \in SUBSET (ServerIDs \ {Self})
  /\ watch = <<>> /\ watchOpen = FALSE
  /\ failedWatchAttempts = 0
  /\ running = TRUE
  /\ serverMapByID = {}
  /\ serverMapByType = [t \in Types |-> {}]
  /\ balance = [s \in ServerIDs |-> 0]
  /\ pc = [p \in Procs |-> IF p = Watcher THEN "start"
                           ELSE IF p = Ticker THEN "boot" ELSE "idle"]
  /\ batch = 0
  /\ op = [p \in Procs |-> "none"]
  /\ sv = [p \in Procs |-> Self]
  /\ firstSync = [p \in Syncers |-> TRUE]
  /\ kvs = [p \in Syncers |-> {}] /\ allIds = [p \in Syncers |-> {}]
  /\ fetching = [p \in Syncers |-> {}] /\ servers = [p \in Syncers |-> {}]
  /\ invalid = [p \in Syncers |-> {}]
  /\ lost = etcd
  /\ healing = [p \in Syncers |-> {}]
  /\ changes = 0 /\ failures = 0

WatcherStep ==
  \/ StartWatch
  \/ \E n \in 1..Len(watch) : ReceiveResponse(n)
  \/ ApplyEvent
  \/ ResponseDone
  \/ WatchClosed
  \/ StopWatcher

\* The steps of SyncServers between the two messages to the watcher.
SyncBody(p) ==
  \/ SyncGet(p)
  \/ SyncGetFails(p)
  \/ \E s \in ServerIDs : SyncLoad(p, s) \/ Fetch(p, s) \/ FetchFails(p, s)
  \/ waitAndGetResult(p)
  \/ \E s \in ServerIDs : SyncAdd(p, s)
  \/ deleteLocalInvalidServers(p)
  \/ \E s \in ServerIDs : DeleteInvalid(p, s)
  \/ SyncDone(p)

SyncerStep(p) ==
  bootstrapServer(p) \/ SendTrue(p) \/ SyncBody(p) \/ SendFalse(p)

Environment ==
  \/ \E s \in ServerIDs : Register(s) \/ Deregister(s)
  \/ WatchDies
  \/ Shutdown

Next ==
  \/ Environment
  \/ WatcherStep
  \/ Tick
  \/ StopTicker
  \/ \E p \in Renewers : StartRenewal(p)
  \/ \E p \in Syncers : SyncerStep(p)
  \/ \E p \in Procs : OpStep(p)

Spec == Init /\ [][Next]_vars

\* Goroutines are scheduled, etcd's calls return, the ticker fires, and a
\* select that finds a message again and again does not pass it by for ever.
Fairness ==
  /\ WF_vars(WatcherStep \/ OpStep(Watcher))
  /\ WF_vars(Tick)
  /\ \A p \in Syncers : SF_vars(SyncerStep(p) \/ OpStep(p))

FairSpec == Spec /\ Fairness

-----------------------------------------------------------------------------
(* Properties *)

Steps == {"none", "addType", "addNotify", "delID", "delType", "delNotify"}
SyncPlaces == {"boot", "idle", "want", "get", "collect", "add", "range", "done",
               "exit"}

\* Every variable has its type.
TypeOK ==
  /\ etcd \subseteq ServerIDs
  /\ watch \in Seq(Event)
  /\ watchOpen \in BOOLEAN
  /\ failedWatchAttempts \in 0..WatchRetries
  /\ running \in BOOLEAN
  /\ serverMapByID \subseteq ServerIDs
  /\ serverMapByType \in [Types -> SUBSET ServerIDs]
  /\ balance \in [ServerIDs -> Int]
  /\ pc \in [Procs -> SyncPlaces \cup {"start", "select", "held", "apply"}]
  /\ pc[Watcher] \in {"start", "select", "held", "apply", "exit"}
  /\ \A p \in Syncers : pc[p] \in SyncPlaces
  /\ batch \in Nat /\ batch <= Len(watch)
  /\ op \in [Procs -> Steps]
  /\ sv \in [Procs -> ServerIDs]
  /\ firstSync \in [Syncers -> BOOLEAN]
  /\ kvs \in [Syncers -> SUBSET ServerIDs]
  /\ allIds \in [Syncers -> SUBSET ServerIDs]
  /\ fetching \in [Syncers -> SUBSET ServerIDs]
  /\ servers \in [Syncers -> SUBSET ServerIDs]
  /\ invalid \in [Syncers -> SUBSET ServerIDs]
  /\ lost \subseteq ServerIDs
  /\ healing \in [Syncers -> SUBSET ServerIDs]
  /\ changes \in 0..MaxChanges
  /\ failures \in 0..MaxFailures

\* p has told the watcher that its SyncServers runs and not yet that it ended.
Syncing(p) == pc[p] \in {"get", "collect", "add", "range", "done"}

\* The watcher waits while a SyncServers runs ("Block here if SyncServers() is
\* running and consume the watcher channel after it's finished, to avoid
\* conflicts").
WatcherBlockedDuringSync == \A p \in Syncers : Syncing(p) => pc[Watcher] = "held"

\* When no addServer or deleteServer is under way, the map by type lists exactly
\* the servers of the map by ID, each under its own type, and a listener has been
\* told of exactly those (but for the own server, whose ADD is not announced):
\* ADD and DEL have alternated for every server.
ViewsAgree ==
  (\A p \in Procs : op[p] = "none") =>
    /\ \A t \in Types :
         serverMapByType[t] = {s \in serverMapByID : TypeOf[s] = t}
    /\ \A s \in ServerIDs \ {Self} :
         balance[s] = IF s \in serverMapByID THEN 1 ELSE 0

\* When the watcher waits for events and none is left, the view holds exactly the
\* registered servers that are not filtered out, but for those with a change that
\* neither an event nor a sync has brought here (lost).  In particular no event is
\* missed between the snapshot of a sync and the watch, although the events that
\* arrive during a sync are applied to a view that already reflects them.
InSyncWhenDrained ==
  (pc[Watcher] = "select" /\ watch = <<>> /\ \A p \in Syncers : ~Syncing(p)) =>
    \A s \in ServerIDs \ lost : s \in serverMapByID <=> s \in Visible(etcd)

\* A server is dropped from the view only if it is not registered any more, or an
\* event that brings it back is queued, or a change of it got lost: neither a late
\* DELETE event nor a sync's old snapshot removes a server that is there to stay.
DropsAreJustified ==
  [][\A s \in serverMapByID \ serverMapByID' :
       s \notin etcd \/ Pending(s) \/ s \in lost]_vars

\* Once etcd stays as it is and answers, the view becomes equal to it and stays
\* so, whatever events a dead watch has lost and however often the lease was
\* renewed: the next SyncServers repairs the view.
Converges == <>[](running => serverMapByID = Visible(etcd))

\* Every SyncServers that is started comes to its end while the service discovery
\* runs: its messages on syncServersRunning are always received.
EverySyncEnds ==
  \A p \in Syncers : pc[p] = "want" ~> pc[p] \in {"idle", "exit"} \/ ~running
=============================================================================
