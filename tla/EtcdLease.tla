----------------------------- MODULE EtcdLease ------------------------------
(***************************************************************************)
(* How a server keeps itself registered in etcd                            *)
(* (cluster/etcd_service_discovery.go): its key is bound to a lease, a     *)
(* goroutine per lease (watchLeaseChan) notices that the lease's keepalive *)
(* channel is closed and renews the registration with a new lease, or asks *)
(* the application to stop when it cannot, and BeforeShutdown revokes the  *)
(* lease.  Goroutines are named by the lease they watch.                   *)
(***************************************************************************)
EXTENDS Naturals

CONSTANTS
  MaxRetries,   \* grantLeaseMaxRetries
  MaxLeases,    \* bound: leases granted
  MaxFailures   \* bound: partitions, failed calls of etcd and timeouts

ASSUME LeaseAssumption ==
  MaxRetries \in Nat \ {0} /\ MaxLeases \in Nat \ {0} /\ MaxFailures \in Nat

Leases == 1..MaxLeases
None == 0

VARIABLES
  leases,     \* etcd: the leases that exist
  granted,    \* etcd: number of leases granted so far
  key,        \* etcd: the lease the server's key is bound to, None without the key
  keepAlive,  \* per lease: "none", "alive", "cut" (no answers come) or "closed"
  leaseID,    \* the field of the service discovery
  watchLeaseChan, \* where the watcher of a lease is
  attempts,   \* its failedGrantLeaseAttempts
  renew,      \* place of the goroutine of its last renewLease
  got,        \* the lease that goroutine was granted
  result,     \* what it has put in its channel
  app,        \* how far the shutdown of the application is
  failures

etcdVars == <<leases, granted, key, keepAlive>>
renewVars == <<renew, got, result>>
watchVars == <<watchLeaseChan, attempts>>
leaseVars == <<etcdVars, leaseID, watchVars, renewVars, app, failures>>

Fail == failures < MaxFailures /\ failures' = failures + 1

-----------------------------------------------------------------------------
(* etcd *)

Partition(i) ==
  /\ Fail
  /\ keepAlive[i] = "alive"
  /\ keepAlive' = [keepAlive EXCEPT ![i] = "cut"]
  /\ UNCHANGED <<leases, granted, key, leaseID, watchVars, renewVars, app>>

\* Keys bound to a lease go with it.
Drop(i) ==
  /\ leases' = leases \ {i}
  /\ key' = IF key = i THEN None ELSE key

\* No keepalive reaches etcd for heartbeatTTL; for a lease that is not kept alive yet
\* that is a failure of its own.
LeaseExpires(i) ==
  /\ i \in leases
  /\ \/ keepAlive[i] \in {"cut", "closed"} /\ UNCHANGED failures
     \/ keepAlive[i] = "none" /\ Fail
  /\ Drop(i)
  /\ UNCHANGED <<granted, keepAlive, leaseID, watchVars, renewVars, app>>

\* The client closes the channel when the lease is gone or no answer has come.
KeepAliveCloses(i) ==
  /\ keepAlive[i] = "cut" \/ (keepAlive[i] = "alive" /\ i \notin leases)
  /\ keepAlive' = [keepAlive EXCEPT ![i] = "closed"]
  /\ UNCHANGED <<leases, granted, key, leaseID, watchVars, renewVars, app, failures>>

-----------------------------------------------------------------------------
(* watchLeaseChan *)

WatcherSeesClose(i) ==
  /\ watchLeaseChan[i] = "select" /\ keepAlive[i] = "closed"
  /\ watchLeaseChan' = [watchLeaseChan EXCEPT ![i] = "renew"]
  /\ UNCHANGED <<etcdVars, leaseID, attempts, renewVars, app, failures>>

\* stopLeaseChan is closed by BeforeShutdown, stopChan by Shutdown.
WatcherStops(i) ==
  /\ watchLeaseChan[i] = "select" /\ app \in {"stopLease", "revoked", "unrevoked", "down"}
  /\ watchLeaseChan' = [watchLeaseChan EXCEPT ![i] = "exit"]
  /\ UNCHANGED <<etcdVars, leaseID, attempts, renewVars, app, failures>>

renewLease(i) ==
  /\ watchLeaseChan[i] = "renew"
  /\ watchLeaseChan' = [watchLeaseChan EXCEPT ![i] = "wait"]
  /\ renew' = [renew EXCEPT ![i] = "grant"]
  /\ result' = [result EXCEPT ![i] = "none"]
  /\ UNCHANGED <<etcdVars, leaseID, attempts, got, app, failures>>

\* The result of renewLease: success ends the goroutine (grantLease has started
\* another for the new lease), an error is retried up to grantLeaseMaxRetries.
Renewed(i) ==
  /\ watchLeaseChan[i] = "wait" /\ result[i] # "none"
  /\ IF result[i] = "ok"
       THEN watchLeaseChan' = [watchLeaseChan EXCEPT ![i] = "exit"] /\ UNCHANGED attempts
       ELSE /\ attempts' = [attempts EXCEPT ![i] = @ + 1]
            /\ watchLeaseChan' = [watchLeaseChan EXCEPT ![i] =
                             IF attempts'[i] >= MaxRetries THEN "die" ELSE "renew"]
  /\ UNCHANGED <<etcdVars, leaseID, renewVars, app, failures>>

\* grantLeaseTimeout: the goroutine of renewLease is left running.
RenewTimeout(i) ==
  /\ Fail
  /\ watchLeaseChan[i] = "wait"
  /\ watchLeaseChan' = [watchLeaseChan EXCEPT ![i] = "die"]
  /\ attempts' = [attempts EXCEPT ![i] = @ + 1]
  /\ UNCHANGED <<etcdVars, leaseID, renewVars, app>>

\* appDieChan <- true meets the receive of App.Start; nobody receives later.
AskToStop(i) ==
  /\ watchLeaseChan[i] = "die" /\ app = "running"
  /\ app' = "stopping"
  /\ watchLeaseChan' = [watchLeaseChan EXCEPT ![i] = "exit"]
  /\ UNCHANGED <<etcdVars, leaseID, attempts, renewVars, failures>>

-----------------------------------------------------------------------------
(* The goroutine of renewLease: grantLease, then bootstrapServer *)

RenewFails(i) ==
  /\ Fail
  /\ renew[i] \in {"grant", "keepAlive", "put"}
  /\ renew' = [renew EXCEPT ![i] = "done"]
  /\ result' = [result EXCEPT ![i] = "error"]
  /\ UNCHANGED <<etcdVars, leaseID, watchVars, got, app>>

Grant(i) ==
  /\ renew[i] = "grant" /\ granted < MaxLeases
  /\ granted' = granted + 1
  /\ leases' = leases \cup {granted'}
  /\ leaseID' = granted'
  /\ got' = [got EXCEPT ![i] = granted']
  /\ renew' = [renew EXCEPT ![i] = "keepAlive"]
  /\ UNCHANGED <<key, keepAlive, watchVars, result, app, failures>>

\* Mutant: the keepalive channel of the new lease is not watched.
KeepAliveUnwatched(i) ==
  /\ renew[i] = "keepAlive"
  /\ keepAlive' = [keepAlive EXCEPT ![got[i]] = "alive"]
  /\ renew' = [renew EXCEPT ![i] = "put"]
  /\ UNCHANGED <<leases, granted, key, leaseID, watchVars, got, result, app, failures>>

KeepAlive(i) ==
  /\ renew[i] = "keepAlive"
  /\ keepAlive' = [keepAlive EXCEPT ![got[i]] = "alive"]
  /\ watchLeaseChan' = [watchLeaseChan EXCEPT ![got[i]] = "select"]
  /\ renew' = [renew EXCEPT ![i] = "put"]
  /\ UNCHANGED <<leases, granted, key, leaseID, attempts, got, result, app, failures>>

\* addServerIntoEtcd: Put with sd.leaseID, an error when that lease is gone.
addServerIntoEtcd(i) ==
  /\ renew[i] = "put"
  /\ IF leaseID \in leases
       THEN /\ key' = leaseID
            /\ renew' = [renew EXCEPT ![i] = "sync"]
            /\ UNCHANGED result
       ELSE /\ renew' = [renew EXCEPT ![i] = "done"]
            /\ result' = [result EXCEPT ![i] = "error"]
            /\ UNCHANGED key
  /\ UNCHANGED <<leases, granted, keepAlive, leaseID, watchVars, got, app, failures>>

\* SyncServers(true) returns; its error is dropped.
Synced(i) ==
  /\ renew[i] = "sync"
  /\ renew' = [renew EXCEPT ![i] = "done"]
  /\ result' = [result EXCEPT ![i] = "ok"]
  /\ UNCHANGED <<etcdVars, leaseID, watchVars, got, app, failures>>

-----------------------------------------------------------------------------
(* The application stops *)

StopApp ==
  /\ app = "running"
  /\ app' = "stopping"
  /\ UNCHANGED <<etcdVars, leaseID, watchVars, renewVars, failures>>

\* BeforeShutdown calls revoke, which first closes stopLeaseChan ...
BeforeShutdown ==
  /\ app = "stopping"
  /\ app' = "stopLease"
  /\ UNCHANGED <<etcdVars, leaseID, watchVars, renewVars, failures>>

\* Mutant: the lease is left to expire.
revokeNothing ==
  /\ app = "stopLease"
  /\ app' = "revoked"
  /\ UNCHANGED <<etcdVars, leaseID, watchVars, renewVars, failures>>

\* ... and then revokes the lease sd.leaseID names.
revoke ==
  /\ app = "stopLease"
  /\ app' = "revoked"
  /\ Drop(leaseID)
  /\ UNCHANGED <<granted, keepAlive, leaseID, watchVars, renewVars, failures>>

RevokeFails ==
  /\ Fail
  /\ app = "stopLease"
  /\ app' = "unrevoked"
  /\ UNCHANGED <<etcdVars, leaseID, watchVars, renewVars>>

Shutdown ==
  /\ app \in {"revoked", "unrevoked"}
  /\ app' = "down"
  /\ UNCHANGED <<etcdVars, leaseID, watchVars, renewVars, failures>>

-----------------------------------------------------------------------------
\* The service discovery's Init has granted the first lease and put the key.
LeaseInit ==
  /\ leases = {1} /\ granted = 1 /\ key = 1 /\ leaseID = 1
  /\ keepAlive = [i \in Leases |-> IF i = 1 THEN "alive" ELSE "none"]
  /\ watchLeaseChan = [i \in Leases |-> IF i = 1 THEN "select" ELSE "none"]
  /\ attempts = [i \in Leases |-> 0]
  /\ renew = [i \in Leases |-> "none"] /\ got = [i \in Leases |-> None]
  /\ result = [i \in Leases |-> "none"]
  /\ app = "running" /\ failures = 0

EtcdStep(i) == LeaseExpires(i) \/ KeepAliveCloses(i)
WatcherStep(i) ==
  \/ WatcherSeesClose(i) \/ WatcherStops(i) \/ renewLease(i) \/ Renewed(i) \/ AskToStop(i)
RenewStep(i) == Grant(i) \/ KeepAlive(i) \/ addServerIntoEtcd(i) \/ Synced(i)
AppStep == BeforeShutdown \/ revoke \/ Shutdown

LeaseNext ==
  \/ \E i \in Leases : \/ Partition(i) \/ EtcdStep(i)
                       \/ WatcherStep(i) \/ RenewTimeout(i)
                       \/ RenewStep(i) \/ RenewFails(i)
  \/ StopApp \/ AppStep \/ RevokeFails

LeaseSpec == LeaseInit /\ [][LeaseNext]_leaseVars

\* Goroutines are scheduled, the calls of etcd answer or fail, and etcd and its
\* client notice a lost lease.
LeaseFairness ==
  /\ \A i \in Leases : WF_leaseVars(EtcdStep(i)) /\ WF_leaseVars(WatcherStep(i))
                       /\ WF_leaseVars(RenewStep(i))
  /\ WF_leaseVars(AppStep)

FairLeaseSpec == LeaseSpec /\ LeaseFairness

-----------------------------------------------------------------------------
(* Properties *)

\* While the application runs someone looks after its registration: the lease of
\* its key is watched, or a watcher has a closing channel before it, is renewing
\* the registration or is asking the application to stop.  A server never stays
\* unlisted, or listed by a lease nobody keeps, without a goroutine at work on it,
\* however renewals fail halfway.
LookedAfter ==
  app = "running" =>
    \E i \in Leases :
      \/ watchLeaseChan[i] = "select" /\ (key = i \/ keepAlive[i] # "alive" \/ i \notin leases)
      \/ watchLeaseChan[i] \in {"renew", "wait", "die"}

\* When partitions and failures come to an end, the server is listed for good or
\* the application stops.
StaysListed == <>[](key # None) \/ <>(app # "running")

\* BeforeShutdown "will remove the server from the list": if no watcher is left to renew
\* the registration and no renewal is under way before the revocation, which works,
\* the server leaves the list for good, also when an earlier renewal stopped between its new lease
\* and its put, so that the key has another lease than the one that is revoked.
NoRenewal ==
  \A i \in Leases :
    watchLeaseChan[i] \notin {"select", "renew", "wait"} /\ renew[i] \in {"none", "done"}
RevokedForGood ==
  (app = "stopLease" /\ NoRenewal) ~> (app = "unrevoked" \/ [](key = None))
=============================================================================
