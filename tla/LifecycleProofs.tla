-------------------------- MODULE LifecycleProofs ---------------------------
(***************************************************************************)
(* The two halves of what keeps a server listed while it may be called, and *)
(* only then.                                                               *)
(*                                                                          *)
(* The registration.  While the application runs its registration is looked *)
(* after, for every number of leases, retries and failures: LookedAfter.    *)
(* The argument follows the last lease that was granted, the one sd.leaseID *)
(* names: the goroutine that was granted it is still at work, or has failed *)
(* and its watcher has not given up; or it has put the key, which then has  *)
(* this lease, and the watcher of the lease cannot have left, because a     *)
(* watcher leaves only when it was granted a later lease.  Off the list and *)
(* without anybody who renews it, it stays off.                             *)
(*                                                                          *)
(* The modules.  The order in which they start and stop, for every set of   *)
(* modules and every way the application is stopped: DiscoveryLast and      *)
(* Nested.  At any time the modules are in two phases, with a border        *)
(* between them that App.Start moves up and, when it stops, down the array  *)
(* of modules.  So the hooks of a module are called once, in their order.   *)
(***************************************************************************)
EXTENDS EtcdLease, AppLifecycle, TLAPS

(***************************************************************************)
(* The registration (EtcdLease)                                             *)
(***************************************************************************)
LeaseType ==
  /\ granted \in Leases /\ leaseID = granted
  /\ keepAlive \in [Leases -> {"none", "alive", "cut", "closed"}]
  /\ watchLeaseChan \in [Leases -> {"none", "select", "renew", "wait", "die", "exit"}]
  /\ renew \in [Leases -> {"none", "grant", "keepAlive", "put", "sync", "done"}]
  /\ got \in [Leases -> Leases \cup {None}]
  /\ result \in [Leases -> {"none", "ok", "error"}]

Busy(i) == renew[i] \in {"grant", "keepAlive", "put", "sync"}

\* A renewal leads from a lease to a later one; no two lead to the same.
RenewalOK(i) ==
  /\ i > granted => watchLeaseChan[i] = "none"
  /\ watchLeaseChan[i] = "none" => renew[i] = "none"
  /\ got[i] # None => got[i] > i /\ got[i] <= granted
  /\ renew[i] \in {"keepAlive", "put", "sync"} \/ result[i] = "ok" => got[i] # None
  /\ renew[i] = "keepAlive" => watchLeaseChan[got[i]] = "none"
  /\ renew[i] = "put" => watchLeaseChan[got[i]] # "none"
  /\ Busy(i) => result[i] = "none"

\* The watcher that has begun a renewal waits for it unless it was successful.
WatcherOK(i) ==
  /\ watchLeaseChan[i] = "exit" => result[i] = "ok"
  /\ Busy(i) => watchLeaseChan[i] \in {"wait", "die"}
  /\ result[i] = "error" => watchLeaseChan[i] \in {"wait", "renew", "die"}

Working(i) == renew[i] \in {"grant", "keepAlive", "put"} \/ (renew[i] = "done" /\ result[i] = "error")

\* The last lease: its renewal is not at its end, or its key has been put.
LastOK ==
  \/ \E j \in Leases : got[j] = leaseID /\ Working(j)
  \/ /\ watchLeaseChan[leaseID] # "none"
     /\ key = leaseID \/ leaseID \notin leases \/ keepAlive[leaseID] # "alive"

LeaseInv ==
  /\ LeaseType
  /\ \A i \in Leases : RenewalOK(i)
  /\ \A i, j \in Leases : got[i] = got[j] /\ i # j => got[i] = None
  /\ app = "running" => (\A i \in Leases : WatcherOK(i)) /\ LastOK

\* Every step keeps the invariant.
LEMMA LeaseStep ==
  ASSUME LeaseInv, [LeaseNext]_leaseVars
  PROVE  LeaseInv'
<1> USE LeaseAssumption DEF LeaseInv, LeaseType, RenewalOK, WatcherOK, Busy, Working, LastOK,
                            Leases, None, etcdVars, watchVars, renewVars
<1>1. ASSUME NEW i \in Leases, Partition(i) PROVE LeaseInv'
  BY <1>1 DEF Partition, Fail
<1>2. ASSUME NEW i \in Leases, LeaseExpires(i) PROVE LeaseInv'
  BY <1>2 DEF LeaseExpires, Drop, Fail
<1>3. ASSUME NEW i \in Leases, KeepAliveCloses(i) PROVE LeaseInv'
  BY <1>3 DEF KeepAliveCloses
<1>4. ASSUME NEW i \in Leases, WatcherSeesClose(i) PROVE LeaseInv'
  <2>1. LeaseType'
    BY <1>4 DEF WatcherSeesClose
  <2>2. (\A j \in Leases : RenewalOK(j))' /\ (\A j, k \in Leases : got[j] = got[k] /\ j # k => got[j] = None)'
    BY <1>4 DEF WatcherSeesClose
  <2>3. ASSUME app' = "running", NEW j \in Leases PROVE WatcherOK(j)'
    <3>1. WatcherOK(j) /\ app = "running"
      BY <1>4, <2>3 DEF WatcherSeesClose
    <3>2. renew' = renew /\ result' = result /\ (watchLeaseChan'[j] = watchLeaseChan[j] \/ (j = i /\ watchLeaseChan'[j] = "renew"))
      BY <1>4 DEF WatcherSeesClose
    <3>3. watchLeaseChan[i] = "select"
      BY <1>4 DEF WatcherSeesClose
    <3> QED BY <3>1, <3>2, <3>3
  <2>4. app' = "running" => LastOK'
    BY <1>4 DEF WatcherSeesClose
  <2> QED BY <2>1, <2>2, <2>3, <2>4
<1>5. ASSUME NEW i \in Leases, WatcherStops(i) PROVE LeaseInv'
  BY <1>5 DEF WatcherStops
<1>6. ASSUME NEW i \in Leases, renewLease(i) PROVE LeaseInv'
  BY <1>6 DEF renewLease
<1>7. ASSUME NEW i \in Leases, Renewed(i) PROVE LeaseInv'
  <2>1. LeaseType'
    BY <1>7 DEF Renewed
  <2>2. (\A j \in Leases : RenewalOK(j))' /\ (\A j, k \in Leases : got[j] = got[k] /\ j # k => got[j] = None)'
    BY <1>7 DEF Renewed
  <2>3. app' = "running" => (\A j \in Leases : WatcherOK(j))'
    BY <1>7 DEF Renewed
  <2>4. app' = "running" => LastOK'
    BY <1>7 DEF Renewed
  <2> QED BY <2>1, <2>2, <2>3, <2>4
<1>8. ASSUME NEW i \in Leases, RenewTimeout(i) PROVE LeaseInv'
  BY <1>8 DEF RenewTimeout, Fail
<1>9. ASSUME NEW i \in Leases, AskToStop(i) PROVE LeaseInv'
  BY <1>9 DEF AskToStop
<1>10. ASSUME NEW i \in Leases, RenewFails(i) PROVE LeaseInv'
  BY <1>10 DEF RenewFails, Fail
<1>11. ASSUME NEW i \in Leases, Grant(i) PROVE LeaseInv'
  BY <1>11 DEF Grant
<1>12. ASSUME NEW i \in Leases, KeepAlive(i) PROVE LeaseInv'
  BY <1>12 DEF KeepAlive
<1>13. ASSUME NEW i \in Leases, addServerIntoEtcd(i) PROVE LeaseInv'
  <2>0. /\ renew[i] = "put"
        /\ leases' = leases /\ granted' = granted /\ keepAlive' = keepAlive /\ leaseID' = leaseID
        /\ watchLeaseChan' = watchLeaseChan /\ got' = got /\ app' = app
    BY <1>13 DEF addServerIntoEtcd
  <2>1. CASE leaseID \in leases
    <3>1. key' = leaseID /\ result' = result /\ renew' = [renew EXCEPT ![i] = "sync"]
      BY <1>13, <2>1 DEF addServerIntoEtcd
    <3>2. LeaseType' /\ (\A j, k \in Leases : got[j] = got[k] /\ j # k => got[j] = None)'
      BY <2>0, <3>1
    <3>3. \A j \in Leases : RenewalOK(j)'
      BY <2>0, <3>1
    <3>4. app' = "running" => \A j \in Leases : WatcherOK(j)'
      BY <2>0, <3>1
    <3>5. app' = "running" => LastOK'
      BY <2>0, <3>1
    <3> QED BY <3>2, <3>3, <3>4, <3>5
  <2>2. CASE leaseID \notin leases
    <3>1. /\ key' = key /\ renew' = [renew EXCEPT ![i] = "done"]
          /\ result' = [result EXCEPT ![i] = "error"]
      BY <1>13, <2>2 DEF addServerIntoEtcd
    <3>2. LeaseType' /\ (\A j, k \in Leases : got[j] = got[k] /\ j # k => got[j] = None)'
      BY <2>0, <3>1
    <3>3. \A j \in Leases : RenewalOK(j)'
      BY <2>0, <3>1
    <3>4. app' = "running" => \A j \in Leases : WatcherOK(j)'
      BY <2>0, <3>1
    <3>5. app' = "running" => LastOK'
      BY <2>0, <3>1
    <3> QED BY <3>2, <3>3, <3>4, <3>5
  <2> QED BY <2>1, <2>2
<1>14. ASSUME NEW i \in Leases, Synced(i) PROVE LeaseInv'
  BY <1>14 DEF Synced
<1>15. CASE StopApp \/ BeforeShutdown \/ revoke \/ RevokeFails \/ Shutdown
  BY <1>15 DEF StopApp, BeforeShutdown, revoke, Drop, RevokeFails, Fail, Shutdown
<1>16. CASE UNCHANGED leaseVars
  BY <1>16 DEF leaseVars
<1> QED
  BY <1>1, <1>2, <1>3, <1>4, <1>5, <1>6, <1>7, <1>8, <1>9, <1>10, <1>11, <1>12, <1>13, <1>14, <1>15, <1>16 DEF LeaseNext, EtcdStep, WatcherStep, RenewStep, AppStep

\* The invariant implies the property: a watcher that has left was granted a lease after
\* the last one, which there is not.
LEMMA InvLookedAfter ==
  ASSUME LeaseInv
  PROVE  LookedAfter
<1> USE LeaseAssumption DEF Leases, None
<1>1. SUFFICES ASSUME app = "running"
               PROVE  \E i \in Leases :
                        \/ watchLeaseChan[i] = "select" /\ (key = i \/ keepAlive[i] # "alive" \/ i \notin leases)
                        \/ watchLeaseChan[i] \in {"renew", "wait", "die"}
  BY DEF LookedAfter
<1>2. LeaseType /\ (\A i \in Leases : RenewalOK(i) /\ WatcherOK(i)) /\ LastOK
  BY <1>1 DEF LeaseInv
<1>3. ASSUME NEW j \in Leases, Working(j) PROVE watchLeaseChan[j] \in {"renew", "wait", "die"}
  BY <1>2, <1>3 DEF Working, WatcherOK, Busy
<1>4. leaseID \in Leases /\ watchLeaseChan[leaseID] # "exit"
  BY <1>2 DEF LeaseType, WatcherOK, RenewalOK
<1>5. CASE /\ watchLeaseChan[leaseID] # "none"
           /\ key = leaseID \/ leaseID \notin leases \/ keepAlive[leaseID] # "alive"
  BY <1>2, <1>4, <1>5 DEF LeaseType
<1> QED BY <1>2, <1>3, <1>5 DEF LastOK

\* While the application runs a goroutine looks after its registration, however many
\* leases are granted, lost and renewed and whichever calls of etcd fail: what
\* watchLeaseChan and renewLease are for.
THEOREM RegistrationLookedAfter == LeaseSpec => []LookedAfter
<1>1. LeaseInit => LeaseInv
  BY LeaseAssumption DEF LeaseInit, LeaseInv, LeaseType, RenewalOK, WatcherOK, LastOK, Busy, Leases, None
<1>2. LeaseInv /\ [LeaseNext]_leaseVars => LeaseInv'
  BY LeaseStep
<1>3. LeaseInv => LookedAfter
  BY InvLookedAfter
<1> QED BY <1>1, <1>2, <1>3, PTL DEF LeaseSpec

\* Off the list, with nobody left who could renew the registration.
Unlisted == NoRenewal /\ key = None

\* The safety part of RevokedForGood: once the server is off the list and no watcher is
\* left to renew its registration and no renewal under way, it stays off the list, for any
\* number of leases and whatever fails.
THEOREM UnlistedForGood == LeaseSpec => [](Unlisted => []Unlisted)
<1>1. Unlisted /\ [LeaseNext]_leaseVars => Unlisted'
  <2> SUFFICES ASSUME Unlisted, [LeaseNext]_leaseVars PROVE Unlisted'
    OBVIOUS
  <2>0. /\ \A i \in Leases : watchLeaseChan[i] \notin {"select", "renew", "wait"}
        /\ \A i \in Leases : renew[i] \in {"none", "done"}
        /\ key = None
    BY Zenon DEF Unlisted, NoRenewal
  <2>1. ASSUME watchLeaseChan' = watchLeaseChan, renew' = renew, key' = key PROVE Unlisted'
    BY Zenon, <2>1 DEF Unlisted, NoRenewal
  <2>2. ASSUME NEW i \in Leases, Partition(i) \/ KeepAliveCloses(i) PROVE Unlisted'
    BY Zenon, <2>1, <2>2 DEF Partition, KeepAliveCloses, watchVars, renewVars
  <2>3. ASSUME NEW i \in Leases, LeaseExpires(i) PROVE Unlisted'
    BY Zenon, <2>0, <2>1, <2>3 DEF LeaseExpires, Drop, watchVars, renewVars
  <2>4. ASSUME NEW i \in Leases,
               \/ WatcherSeesClose(i) \/ WatcherStops(i) \/ renewLease(i) \/ Renewed(i)
               \/ RenewTimeout(i) \/ RenewStep(i) \/ RenewFails(i)
        PROVE  FALSE
    BY <2>0, <2>4 DEF WatcherSeesClose, WatcherStops, renewLease, Renewed, RenewTimeout,
                      RenewStep, Grant, KeepAlive, addServerIntoEtcd, Synced, RenewFails
  <2>5. ASSUME NEW i \in Leases, AskToStop(i) PROVE Unlisted'
    <3>1. /\ watchLeaseChan' = [watchLeaseChan EXCEPT ![i] = "exit"]
          /\ renew' = renew /\ key' = key
      BY Zenon, <2>5 DEF AskToStop, etcdVars, renewVars
    <3>2. ASSUME NEW j \in Leases PROVE watchLeaseChan'[j] \notin {"select", "renew", "wait"}
      BY <2>0, <3>1
    <3> QED BY Zenon, <2>0, <3>1, <3>2 DEF Unlisted, NoRenewal
  <2>6. CASE StopApp \/ AppStep \/ RevokeFails
    BY Zenon, <2>0, <2>1, <2>6 DEF StopApp, AppStep, BeforeShutdown, revoke, Shutdown, RevokeFails,
                             Drop, etcdVars, watchVars, renewVars
  <2>7. CASE UNCHANGED leaseVars
    BY Zenon, <2>1, <2>7 DEF leaseVars, etcdVars, watchVars, renewVars
  <2> QED BY <2>2, <2>3, <2>4, <2>5, <2>6, <2>7 DEF LeaseNext, EtcdStep, WatcherStep
<1> QED BY <1>1, PTL DEF LeaseSpec

(***************************************************************************)
(* The modules (AppLifecycle)                                               *)
(***************************************************************************)
Places == {"new", "components", "init", "afterInit", "select", "beforeShutdown",
           "shutdown", "stopComponents", "done", "dead"}
Phases == {"new", "inited", "ready", "leaving", "stopped"}

AppType ==
  /\ modulesArr \in Seq(Modules) /\ phase \in [Modules -> Phases]
  /\ main \in Places

\* No module is registered twice, and only those of components come after the service
\* discovery; a module that is not registered has not been started.
OrderOK ==
  /\ \A j, k \in 1..Len(modulesArr) : modulesArr[j] = modulesArr[k] => j = k
  /\ \A j, k \in 1..Len(modulesArr) :
       modulesArr[j] = "serviceDiscovery" /\ j < k => modulesArr[k] \in LateModules
  /\ main = "new" => \A k \in 1..Len(modulesArr) : modulesArr[k] \in UserModules
  /\ \A m \in Modules \ Registered : phase[m] = "new"

\* The modules up to place x are in phase p, those after it in phase q.
Border(p, q, x) ==
  \A k \in 1..Len(modulesArr) : phase[modulesArr[k]] = IF k <= x THEN p ELSE q

Bordered ==
  \E x \in 0..Len(modulesArr) :
    \/ Border("inited", "new", x) \/ Border("ready", "inited", x)
    \/ Border("ready", "leaving", x) \/ Border("leaving", "stopped", x)

PhaseOK ==
  /\ main \in {"new", "components"} => Border("inited", "new", 0)
  /\ main = "init" => idx \in 1..(Len(modulesArr) + 1) /\ Border("inited", "new", idx - 1)
  /\ main = "afterInit" => idx \in 1..(Len(modulesArr) + 1) /\ Border("ready", "inited", idx - 1)
  /\ main = "select" => Border("ready", "leaving", Len(modulesArr))
  /\ main = "beforeShutdown" => idx \in 0..Len(modulesArr) /\ Border("ready", "leaving", idx)
  /\ main = "shutdown" => idx \in 0..Len(modulesArr) /\ Border("leaving", "stopped", idx)
  /\ main \in {"stopComponents", "done"} => Border("leaving", "stopped", 0)
  /\ main = "dead" => Bordered

AppInv == AppType /\ OrderOK /\ PhaseOK

\* Wherever App.Start is, there is a border.
LEMMA InvBordered ==
  ASSUME AppInv
  PROVE  Bordered
<1>1. Len(modulesArr) \in Nat /\ main \in Places
  BY DEF AppInv, AppType
<1>2. ASSUME NEW x \in 0..Len(modulesArr),
             Border("inited", "new", x) \/ Border("ready", "inited", x)
               \/ Border("ready", "leaving", x) \/ Border("leaving", "stopped", x)
      PROVE  Bordered
  BY <1>2 DEF Bordered
<1>3. CASE main \in {"new", "components"}
  BY <1>1, <1>2, <1>3 DEF AppInv, PhaseOK
<1>4. CASE main \in {"init", "afterInit"}
  <2>1. idx - 1 \in 0..Len(modulesArr)
    BY <1>1, <1>4 DEF AppInv, PhaseOK
  <2> QED BY <1>2, <1>4, <2>1 DEF AppInv, PhaseOK
<1>5. CASE main \in {"select", "beforeShutdown", "shutdown", "stopComponents", "done"}
  BY <1>1, <1>2, <1>5 DEF AppInv, PhaseOK
<1>6. CASE main = "dead"
  BY <1>6 DEF AppInv, PhaseOK
<1> QED BY <1>1, <1>3, <1>4, <1>5, <1>6 DEF Places

\* A module that is registered while none has been started.
LEMMA RegisterStep ==
  ASSUME AppInv, NEW m \in UserModules \cup LateModules,
         RegisterModuleAfter(m) \/ RegisterModuleBefore(m)
  PROVE  AppInv'
<1> DEFINE n == Len(modulesArr)
<1>1. /\ modulesArr \in Seq(Modules) /\ n \in Nat /\ phase \in [Modules -> Phases] /\ m \in Modules
      /\ main \in {"new", "components"} /\ m \notin Registered
      /\ phase' = phase /\ main' = main /\ idx' = idx
  BY DEF AppInv, AppType, RegisterModuleAfter, RegisterModuleBefore, Modules
<1>2. \A x \in Modules : phase[x] = "new"
  BY <1>1 DEF AppInv, OrderOK, PhaseOK, Border, Registered
<1>3. \A k \in 1..n : modulesArr[k] \in Modules /\ modulesArr[k] # m
  BY <1>1 DEF Registered
<1>4. CASE RegisterModuleAfter(m)
  <2>1. modulesArr' = Append(modulesArr, m)
    BY <1>4 DEF RegisterModuleAfter
  <2>2. /\ modulesArr' \in Seq(Modules) /\ Len(modulesArr') = n + 1
        /\ modulesArr'[n + 1] = m /\ \A k \in 1..n : modulesArr'[k] = modulesArr[k]
    BY <1>1, <2>1
  <2>3. main = "new" => m \in UserModules
    BY <1>4 DEF RegisterModuleAfter
  <2>4. main # "new" => m \in LateModules
    BY <1>4 DEF RegisterModuleAfter
  <2>5. main = "new" => \A k \in 1..n : modulesArr[k] # "serviceDiscovery"
    BY AppAssumption DEF AppInv, OrderOK, Core
  <2>6. \A j, k \in 1..(n + 1) : modulesArr'[j] = modulesArr'[k] => j = k
    BY <1>1, <1>3, <2>2 DEF AppInv, OrderOK
  <2>7. \A j, k \in 1..(n + 1) :
          modulesArr'[j] = "serviceDiscovery" /\ j < k => modulesArr'[k] \in LateModules
    BY <1>1, <2>2, <2>4, <2>5 DEF AppInv, OrderOK
  <2>8. main = "new" => \A k \in 1..(n + 1) : modulesArr'[k] \in UserModules
    BY <1>1, <2>2, <2>3 DEF AppInv, OrderOK
  <2>9. OrderOK'
    BY <1>1, <1>2, <2>2, <2>6, <2>7, <2>8 DEF OrderOK
  <2>10. \A k \in 1..(n + 1) : phase[modulesArr'[k]] = "new"
    BY <1>1, <1>2, <1>3, <2>2
  <2>11. PhaseOK'
    BY <1>1, <2>2, <2>10 DEF PhaseOK, Border
  <2> QED BY <1>1, <2>2, <2>9, <2>11 DEF AppInv, AppType, Places
<1>5. CASE RegisterModuleBefore(m)
  <2>1. modulesArr' = <<m>> \o modulesArr /\ main = "new" /\ m \in UserModules
    BY <1>5 DEF RegisterModuleBefore
  <2>2. /\ modulesArr' \in Seq(Modules) /\ Len(modulesArr') = n + 1
        /\ modulesArr'[1] = m /\ \A k \in 2..(n + 1) : modulesArr'[k] = modulesArr[k - 1]
    BY <1>1, <2>1
  <2>3. \A k \in 2..(n + 1) : k - 1 \in 1..n
    BY <1>1
  <2>4. \A k \in 1..(n + 1) : modulesArr'[k] \in UserModules /\ phase[modulesArr'[k]] = "new"
    BY <1>1, <1>2, <1>3, <2>1, <2>2, <2>3 DEF AppInv, OrderOK
  <2>5. \A k \in 1..(n + 1) : modulesArr'[k] # "serviceDiscovery"
    BY <2>4, AppAssumption DEF Core
  <2>6. \A j, k \in 1..(n + 1) : modulesArr'[j] = modulesArr'[k] => j = k
    <3>1. SUFFICES ASSUME NEW j \in 1..(n + 1), NEW k \in 1..(n + 1), modulesArr'[j] = modulesArr'[k]
                   PROVE  j = k
      OBVIOUS
    <3>2. CASE j = 1 \/ k = 1
      BY <1>1, <1>3, <2>2, <2>3, <3>1, <3>2
    <3>3. CASE j # 1 /\ k # 1
      <4>1. j \in 2..(n + 1) /\ k \in 2..(n + 1)
        BY <1>1, <3>3
      <4>2. modulesArr[j - 1] = modulesArr[k - 1] /\ j - 1 \in 1..n /\ k - 1 \in 1..n
        BY <2>2, <2>3, <3>1, <4>1
      <4>3. j - 1 = k - 1
        BY <4>2 DEF AppInv, OrderOK
      <4> QED BY <1>1, <4>3
    <3> QED BY <3>2, <3>3
  <2>7. OrderOK'
    BY <1>1, <1>2, <2>2, <2>4, <2>5, <2>6 DEF OrderOK
  <2>8. PhaseOK'
    BY <1>1, <2>2, <2>4 DEF PhaseOK, Border
  <2> QED BY <1>1, <2>2, <2>7, <2>8 DEF AppInv, AppType, Places
<1> QED BY <1>4, <1>5

\* App.Start puts its own modules around them.
LEMMA StartStep ==
  ASSUME AppInv, Start
  PROVE  AppInv'
<1> DEFINE n == Len(modulesArr)
<1>1. /\ modulesArr \in Seq(Modules) /\ n \in Nat /\ phase \in [Modules -> Phases]
      /\ main = "new" /\ main' = "components" /\ phase' = phase
      /\ modulesArr' = <<"rpcClient", "rpcServer">> \o modulesArr \o <<"serviceDiscovery">>
  BY DEF AppInv, AppType, Start
<1>2. \A x \in Modules : phase[x] = "new"
  BY <1>1 DEF AppInv, OrderOK, PhaseOK, Border, Registered
<1>3. /\ modulesArr' \in Seq(Modules) /\ Len(modulesArr') = n + 3
      /\ modulesArr'[1] = "rpcClient" /\ modulesArr'[2] = "rpcServer"
      /\ modulesArr'[n + 3] = "serviceDiscovery"
      /\ \A k \in 3..(n + 2) : modulesArr'[k] = modulesArr[k - 2]
  BY <1>1 DEF Modules, Core
<1>4. \A k \in 3..(n + 2) :
        k - 2 \in 1..n /\ modulesArr'[k] \in UserModules /\ modulesArr'[k] \notin Core
  BY <1>1, <1>3, AppAssumption DEF AppInv, OrderOK
<1>5. \A j, k \in 1..(n + 3) : modulesArr'[j] = modulesArr'[k] => j = k
  <2>1. SUFFICES ASSUME NEW j \in 1..(n + 3), NEW k \in 1..(n + 3), modulesArr'[j] = modulesArr'[k]
                 PROVE  j = k
    OBVIOUS
  <2>2. CASE j \in 3..(n + 2) /\ k \in 3..(n + 2)
    <3>1. modulesArr[j - 2] = modulesArr[k - 2] /\ j - 2 \in 1..n /\ k - 2 \in 1..n
      BY <1>3, <1>4, <2>1, <2>2
    <3>2. j - 2 = k - 2
      BY <3>1 DEF AppInv, OrderOK
    <3> QED BY <1>1, <3>2
  <2>3. CASE j \notin 3..(n + 2) \/ k \notin 3..(n + 2)
    BY <1>1, <1>3, <1>4, <2>1, <2>3 DEF Core
  <2> QED BY <2>2, <2>3
<1>6. \A j, k \in 1..(n + 3) :
        modulesArr'[j] = "serviceDiscovery" /\ j < k => modulesArr'[k] \in LateModules
  BY <1>1, <1>3, <1>5
<1>7. OrderOK'
  BY <1>1, <1>2, <1>3, <1>5, <1>6 DEF OrderOK
<1>8. \A k \in 1..(n + 3) : phase[modulesArr'[k]] = "new"
  BY <1>1, <1>2, <1>3
<1>9. PhaseOK'
  BY <1>1, <1>3, <1>8 DEF PhaseOK, Border
<1> QED BY <1>1, <1>3, <1>7, <1>9 DEF AppInv, AppType, Places

\* The hook of the module at idx moves the border over it, up ...
LEMMA BorderUp ==
  ASSUME AppType, OrderOK, idx \in 1..Len(modulesArr), NEW p, NEW q, Border(p, q, idx - 1),
         modulesArr' = modulesArr, phase' = [phase EXCEPT ![modulesArr[idx]] = p]
  PROVE  \A k \in 1..Len(modulesArr') : phase'[modulesArr'[k]] = IF k <= idx THEN p ELSE q
<1>1. Len(modulesArr) \in Nat /\ \A k \in 1..Len(modulesArr) : modulesArr[k] \in Modules
  BY DEF AppType
<1>2. SUFFICES ASSUME NEW k \in 1..Len(modulesArr)
               PROVE  phase'[modulesArr[k]] = IF k <= idx THEN p ELSE q
  OBVIOUS
<1>3. CASE k = idx
  BY <1>1, <1>3 DEF AppType
<1>4. CASE k # idx
  <2>1. modulesArr[k] # modulesArr[idx]
    BY <1>4 DEF OrderOK
  <2>2. phase'[modulesArr[k]] = phase[modulesArr[k]]
    BY <1>1, <2>1 DEF AppType
  <2> QED BY <1>1, <1>4, <2>2 DEF Border
<1> QED BY <1>3, <1>4

\* ... or down.
LEMMA BorderDown ==
  ASSUME AppType, OrderOK, idx \in 1..Len(modulesArr), NEW p, NEW q, Border(p, q, idx),
         modulesArr' = modulesArr, phase' = [phase EXCEPT ![modulesArr[idx]] = q]
  PROVE  \A k \in 1..Len(modulesArr') : phase'[modulesArr'[k]] = IF k <= idx - 1 THEN p ELSE q
<1>1. Len(modulesArr) \in Nat /\ \A k \in 1..Len(modulesArr) : modulesArr[k] \in Modules
  BY DEF AppType
<1>2. SUFFICES ASSUME NEW k \in 1..Len(modulesArr)
               PROVE  phase'[modulesArr[k]] = IF k <= idx - 1 THEN p ELSE q
  OBVIOUS
<1>3. CASE k = idx
  BY <1>1, <1>3 DEF AppType
<1>4. CASE k # idx
  <2>1. modulesArr[k] # modulesArr[idx]
    BY <1>4 DEF OrderOK
  <2>2. phase'[modulesArr[k]] = phase[modulesArr[k]]
    BY <1>1, <2>1 DEF AppType
  <2> QED BY <1>1, <1>4, <2>2 DEF Border
<1> QED BY <1>3, <1>4

\* A hook leaves the order of the modules alone.
LEMMA HookOrder ==
  ASSUME AppInv, idx \in 1..Len(modulesArr), NEW p \in Phases, main # "new",
         modulesArr' = modulesArr, main' = main, phase' = [phase EXCEPT ![modulesArr[idx]] = p]
  PROVE  AppType' /\ OrderOK'
<1>1. modulesArr[idx] \in Registered /\ Registered' = Registered /\ modulesArr[idx] \in Modules
  BY DEF AppInv, AppType, Registered
<1>2. AppType'
  BY DEF AppInv, AppType
<1>3. \A m \in Modules \ Registered' : phase'[m] = "new"
  BY <1>1 DEF AppInv, AppType, OrderOK
<1> QED BY <1>2, <1>3 DEF AppInv, OrderOK

\* The loops of startModules and shutdownModules.
LEMMA LoopStep ==
  ASSUME AppInv, startModules \/ shutdownModules
  PROVE  AppInv'
<1> DEFINE n == Len(modulesArr)
<1>0. n \in Nat /\ AppType /\ OrderOK /\ PhaseOK
  BY DEF AppInv, AppType
<1>1. CASE Loop("init", idx + 1, "inited")
  <2>1. /\ main = "init" /\ main' = "init" /\ idx \in 1..n /\ idx' = idx + 1
        /\ modulesArr' = modulesArr /\ phase' = [phase EXCEPT ![modulesArr[idx]] = "inited"]
    BY <1>1 DEF Loop
  <2>2. \A k \in 1..Len(modulesArr') : phase'[modulesArr'[k]] = IF k <= idx THEN "inited" ELSE "new"
    BY <1>0, <2>1, BorderUp DEF PhaseOK
  <2>3. idx' \in 1..(Len(modulesArr') + 1) /\ idx' - 1 = idx
    BY <1>0, <2>1
  <2>4. PhaseOK'
    BY <2>1, <2>2, <2>3 DEF PhaseOK, Border
  <2> QED BY <2>1, <2>4, HookOrder DEF AppInv, Phases
<1>2. CASE Loop("afterInit", idx + 1, "ready")
  <2>1. /\ main = "afterInit" /\ main' = "afterInit" /\ idx \in 1..n /\ idx' = idx + 1
        /\ modulesArr' = modulesArr /\ phase' = [phase EXCEPT ![modulesArr[idx]] = "ready"]
    BY <1>2 DEF Loop
  <2>2. \A k \in 1..Len(modulesArr') : phase'[modulesArr'[k]] = IF k <= idx THEN "ready" ELSE "inited"
    BY <1>0, <2>1, BorderUp DEF PhaseOK
  <2>3. idx' \in 1..(Len(modulesArr') + 1) /\ idx' - 1 = idx
    BY <1>0, <2>1
  <2>4. PhaseOK'
    BY <2>1, <2>2, <2>3 DEF PhaseOK, Border
  <2> QED BY <2>1, <2>4, HookOrder DEF AppInv, Phases
<1>3. CASE Loop("beforeShutdown", idx - 1, "leaving")
  <2>1. /\ main = "beforeShutdown" /\ main' = "beforeShutdown" /\ idx \in 1..n /\ idx' = idx - 1
        /\ modulesArr' = modulesArr /\ phase' = [phase EXCEPT ![modulesArr[idx]] = "leaving"]
    BY <1>3 DEF Loop
  <2>2. \A k \in 1..Len(modulesArr') : phase'[modulesArr'[k]] = IF k <= idx - 1 THEN "ready" ELSE "leaving"
    BY <1>0, <2>1, BorderDown DEF PhaseOK
  <2>3. idx' \in 0..Len(modulesArr')
    BY <1>0, <2>1
  <2>4. PhaseOK'
    BY <2>1, <2>2, <2>3 DEF PhaseOK, Border
  <2> QED BY <2>1, <2>4, HookOrder DEF AppInv, Phases
<1>4. CASE Loop("shutdown", idx - 1, "stopped")
  <2>1. /\ main = "shutdown" /\ main' = "shutdown" /\ idx \in 1..n /\ idx' = idx - 1
        /\ modulesArr' = modulesArr /\ phase' = [phase EXCEPT ![modulesArr[idx]] = "stopped"]
    BY <1>4 DEF Loop
  <2>2. \A k \in 1..Len(modulesArr') : phase'[modulesArr'[k]] = IF k <= idx - 1 THEN "leaving" ELSE "stopped"
    BY <1>0, <2>1, BorderDown DEF PhaseOK
  <2>3. idx' \in 0..Len(modulesArr')
    BY <1>0, <2>1
  <2>4. PhaseOK'
    BY <2>1, <2>2, <2>3 DEF PhaseOK, Border
  <2> QED BY <2>1, <2>4, HookOrder DEF AppInv, Phases
<1>5. CASE \/ LoopEnds("init", "afterInit", 1) \/ LoopEnds("afterInit", "select", 0)
           \/ LoopEnds("beforeShutdown", "shutdown", Len(modulesArr))
           \/ LoopEnds("shutdown", "stopComponents", 0)
  <2>1. modulesArr' = modulesArr /\ phase' = phase /\ main # "new" /\ main' # "new" /\ main' \in Places
    BY <1>5 DEF LoopEnds, moduleVars, Places
  <2>2. PhaseOK'
    BY <1>0, <1>5, <2>1 DEF LoopEnds, PhaseOK, Border
  <2>3. OrderOK'
    BY <1>0, <2>1 DEF OrderOK, Registered
  <2> QED BY <1>0, <2>1, <2>2, <2>3 DEF AppInv, AppType
<1> QED BY <1>1, <1>2, <1>3, <1>4, <1>5 DEF startModules, shutdownModules

\* The steps that run no hook: App.Start goes nowhere, begins to stop the modules it
\* has started, or the process dies.
LEMMA OtherStep ==
  ASSUME AppInv, modulesArr' = modulesArr, phase' = phase,
         \/ main' = main /\ idx' = idx
         \/ main = "select" /\ BeginStop
         \/ main' = "dead"
         \/ main = "components" /\ main' = "init" /\ idx' = 1
         \/ main = "stopComponents" /\ main' = "done"
  PROVE  AppInv'
<1>1. AppType' /\ OrderOK'
  BY DEF AppInv, AppType, OrderOK, Places, BeginStop, Registered
<1>2. Len(modulesArr) \in Nat
  BY DEF AppInv, AppType
<1>3. CASE main' = main /\ idx' = idx
  BY <1>1, <1>3 DEF AppInv, PhaseOK, Border, Bordered
<1>4. CASE main = "select" /\ BeginStop
  <2>1. PhaseOK
    BY DEF AppInv
  <2>2. PhaseOK'
    BY ONLY modulesArr' = modulesArr, phase' = phase, <1>2, <1>4, <2>1
      DEF PhaseOK, Border, BeginStop
  <2> QED BY <1>1, <2>2 DEF AppInv
<1>5. CASE main' = "dead"
  <2>1. Bordered'
    BY InvBordered DEF Bordered, Border
  <2> QED BY <1>1, <1>5, <2>1 DEF AppInv, PhaseOK
<1>6. CASE main = "components" /\ main' = "init" /\ idx' = 1
  BY <1>1, <1>2, <1>6 DEF AppInv, PhaseOK, Border
<1>7. CASE main = "stopComponents" /\ main' = "done"
  BY <1>1, <1>7 DEF AppInv, PhaseOK, Border
<1> QED BY <1>3, <1>4, <1>5, <1>6, <1>7

\* Every step keeps the invariant.
LEMMA LifecycleStep ==
  ASSUME AppInv, [Next]_vars
  PROVE  AppInv'
<1> USE DEF moduleVars, stopVars
<1>1. ASSUME NEW m \in UserModules \cup LateModules, RegisterModuleAfter(m) \/ RegisterModuleBefore(m)
      PROVE  AppInv'
  BY <1>1, RegisterStep
<1>2. CASE Start
  BY <1>2, StartStep
<1>3. CASE startModules \/ shutdownModules
  BY <1>3, LoopStep
<1>4. CASE startupComponents \/ InitFails \/ DieChanClosed \/ shutdownComponents
  BY <1>4, OtherStep DEF startupComponents, InitFails, DieChanClosed, shutdownComponents
<1>5. CASE SignalReceived
  BY <1>5, OtherStep DEF SignalReceived, Panic
<1>6. CASE Signal
  BY <1>6, OtherStep DEF Signal, Raise
<1>7. ASSUME NEW c \in Callers, ShutdownSelect(c) PROVE AppInv'
  BY <1>7, OtherStep DEF ShutdownSelect
<1>8. ASSUME NEW c \in Callers, ShutdownClose(c) PROVE AppInv'
  BY <1>8, OtherStep DEF ShutdownClose, Panic
<1>9. ASSUME NEW w \in LeaseWatchers, LeaseLost(w) PROVE AppInv'
  BY <1>9, OtherStep DEF LeaseLost
<1>10. ASSUME NEW w \in LeaseWatchers, SendDie(w) PROVE AppInv'
  BY <1>10, OtherStep DEF SendDie, Panic
<1>11. ASSUME NEW c \in NatsConns, ClosedHandler(c) PROVE AppInv'
  BY <1>11, OtherStep DEF ClosedHandler, Panic, Raise
<1>12. CASE UNCHANGED vars
  BY <1>12, OtherStep DEF vars
<1> QED
  BY <1>1, <1>2, <1>3, <1>4, <1>5, <1>6, <1>7, <1>8, <1>9, <1>10, <1>11, <1>12
  DEF Next, MainStep, CallerStep

\* The invariant implies the two properties: one border orders any two modules.
LEMMA InvOrdered ==
  ASSUME AppInv
  PROVE  DiscoveryLast /\ Nested
<1>1. PICK x \in 0..Len(modulesArr) :
        \/ Border("inited", "new", x) \/ Border("ready", "inited", x)
        \/ Border("ready", "leaving", x) \/ Border("leaving", "stopped", x)
  BY InvBordered DEF Bordered
<1>2. Len(modulesArr) \in Nat
  BY DEF AppInv, AppType
<1>3. Nested
  BY <1>1, <1>2 DEF Nested, Border
<1>4. ASSUME phase["serviceDiscovery"] \in {"inited", "ready"}, NEW m \in Registered \ LateModules
      PROVE  phase[m] \in {"inited", "ready"}
  <2>1. "serviceDiscovery" \in Registered
    BY <1>4 DEF AppInv, OrderOK, Modules, Core
  <2>2. PICK d \in 1..Len(modulesArr) : modulesArr[d] = "serviceDiscovery"
    BY <2>1 DEF Registered
  <2>3. PICK k \in 1..Len(modulesArr) : modulesArr[k] = m
    BY DEF Registered
  <2>4. k <= d
    BY <1>2, <1>4, <2>2, <2>3 DEF AppInv, OrderOK
  <2> QED BY <1>1, <1>2, <1>4, <2>2, <2>3, <2>4 DEF Border
<1> QED BY <1>3, <1>4 DEF DiscoveryLast

\* The server is found by others only while the modules it was started with are
\* initialized, whatever stops it and whenever: App.Start registers the service
\* discovery last.
THEOREM DiscoveryIsLast == Spec => []DiscoveryLast
<1>1. Init => AppInv
  BY DEF Init, AppInv, AppType, OrderOK, PhaseOK, Border, Places, Phases, Registered
<1>2. AppInv /\ [Next]_vars => AppInv'
  BY LifecycleStep
<1>3. AppInv => DiscoveryLast
  BY InvOrdered
<1> QED BY <1>1, <1>2, <1>3, PTL DEF Spec

\* Modules are stopped in the reverse order of their start, by BeforeShutdown and by
\* Shutdown, whatever stops the application and whenever.
THEOREM ModulesNest == Spec => []Nested
<1>1. Init => AppInv
  BY DEF Init, AppInv, AppType, OrderOK, PhaseOK, Border, Places, Phases, Registered
<1>2. AppInv /\ [Next]_vars => AppInv'
  BY LifecycleStep
<1>3. AppInv => Nested
  BY InvOrdered
<1> QED BY <1>1, <1>2, <1>3, PTL DEF Spec

\* What each of the four hooks finds and leaves behind.
Hooks(p, q) ==
  \/ p = "new" /\ q = "inited"       \* Init
  \/ p = "inited" /\ q = "ready"     \* AfterInit
  \/ p = "ready" /\ q = "leaving"    \* BeforeShutdown
  \/ p = "leaving" /\ q = "stopped"  \* Shutdown

Advances == \A m \in Modules : phase'[m] = phase[m] \/ Hooks(phase[m], phase'[m])

\* A loop of App.Start calls the hook of the module at the border.
LEMMA LoopAdvances ==
  ASSUME AppInv, NEW p, NEW q, Hooks(p, q), idx \in 1..Len(modulesArr),
         phase[modulesArr[idx]] = p, phase' = [phase EXCEPT ![modulesArr[idx]] = q]
  PROVE  Advances
<1>1. DOMAIN phase = Modules
  BY Zenon DEF AppInv, AppType
<1> QED BY Zenon, <1>1 DEF Advances

\* No module's hook is called twice or out of turn: Init, AfterInit, BeforeShutdown,
\* Shutdown, whatever stops the application and whenever, and none of the last two for a
\* module that has not had the first two.
THEOREM HooksInTurn == Spec => [][Advances]_vars
<1>1. Init => AppInv
  BY DEF Init, AppInv, AppType, OrderOK, PhaseOK, Border, Places, Phases, Registered
<1>2. AppInv /\ [Next]_vars => AppInv'
  BY LifecycleStep
<1>3. AppInv /\ [Next]_vars => [Advances]_vars
  <2> SUFFICES ASSUME AppInv, Next PROVE Advances
    OBVIOUS
  <2>0. /\ Len(modulesArr) \in Nat
        /\ main = "init" => Border("inited", "new", idx - 1)
        /\ main = "afterInit" => Border("ready", "inited", idx - 1)
        /\ main = "beforeShutdown" => Border("ready", "leaving", idx)
        /\ main = "shutdown" => Border("leaving", "stopped", idx)
    BY DEF AppInv, AppType, PhaseOK
  <2>1. ASSUME phase' = phase PROVE Advances
    BY Zenon, <2>1 DEF Advances
  <2>2. CASE Loop("init", idx + 1, "inited")
    <3>1. phase[modulesArr[idx]] = "new" /\ Hooks("new", "inited")
      BY <2>0, <2>2 DEF Loop, Border, Hooks
    <3> QED BY Zenon, <2>2, <3>1, LoopAdvances DEF Loop
  <2>3. CASE Loop("afterInit", idx + 1, "ready")
    <3>1. phase[modulesArr[idx]] = "inited" /\ Hooks("inited", "ready")
      BY <2>0, <2>3 DEF Loop, Border, Hooks
    <3> QED BY Zenon, <2>3, <3>1, LoopAdvances DEF Loop
  <2>4. CASE Loop("beforeShutdown", idx - 1, "leaving")
    <3>1. phase[modulesArr[idx]] = "ready" /\ Hooks("ready", "leaving")
      BY <2>0, <2>4 DEF Loop, Border, Hooks
    <3> QED BY Zenon, <2>4, <3>1, LoopAdvances DEF Loop
  <2>5. CASE Loop("shutdown", idx - 1, "stopped")
    <3>1. phase[modulesArr[idx]] = "leaving" /\ Hooks("leaving", "stopped")
      BY <2>0, <2>5 DEF Loop, Border, Hooks
    <3> QED BY Zenon, <2>5, <3>1, LoopAdvances DEF Loop
  <2>6. CASE \/ LoopEnds("init", "afterInit", 1) \/ LoopEnds("afterInit", "select", 0)
             \/ LoopEnds("beforeShutdown", "shutdown", Len(modulesArr))
             \/ LoopEnds("shutdown", "stopComponents", 0)
    BY Zenon, <2>1, <2>6 DEF LoopEnds, moduleVars
  <2>7. CASE \/ \E m \in UserModules \cup LateModules :
                  RegisterModuleAfter(m) \/ RegisterModuleBefore(m)
             \/ Start \/ startupComponents \/ InitFails \/ DieChanClosed \/ SignalReceived
             \/ shutdownComponents \/ Signal
    BY Zenon, <2>1, <2>7 DEF RegisterModuleAfter, RegisterModuleBefore, Start, startupComponents,
         InitFails, DieChanClosed, SignalReceived, shutdownComponents, Signal, moduleVars
  <2>8. CASE \/ \E c \in Callers : CallerStep(c)
             \/ \E w \in LeaseWatchers : LeaseLost(w) \/ SendDie(w)
             \/ \E n \in NatsConns : ClosedHandler(n)
    BY Zenon, <2>1, <2>8 DEF CallerStep, ShutdownSelect, ShutdownClose, LeaseLost, SendDie,
         ClosedHandler, moduleVars
  <2> QED BY <2>2, <2>3, <2>4, <2>5, <2>6, <2>7, <2>8 DEF Next, MainStep, startModules, shutdownModules
<1> QED BY <1>1, <1>2, <1>3, PTL DEF Spec
=============================================================================
