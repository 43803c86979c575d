---------------------------- MODULE AppLifecycle ----------------------------
(***************************************************************************)
(* The life of an application (app.go, module.go, component.go): modules   *)
(* are registered, started in order and stopped in reverse order by        *)
(* App.Start, which waits in between for the die channel or a signal.      *)
(* App.Shutdown, the lease watcher of the service discovery and the closed *)
(* handler of the NATS connections use the same unbuffered channel.        *)
(***************************************************************************)
EXTENDS Naturals, Sequences, FiniteSets

CONSTANTS
  UserModules,   \* modules the application registers before Start
  LateModules,   \* modules a component registers in its Init
  Callers,       \* goroutines that call App.Shutdown
  LeaseWatchers, \* goroutines that send to the die channel and wait
  NatsConns,     \* connections whose closed handler sends to it without waiting
  MaxSignals     \* bound: signals from outside

Core == {"rpcClient", "rpcServer", "serviceDiscovery"}

ASSUME AppAssumption ==
  MaxSignals \in Nat /\ Core \cap (UserModules \cup LateModules) = {}

Modules == Core \cup UserModules \cup LateModules

VARIABLES
  modulesArr,  \* registered modules, in the order of their start
  phase,       \* per module, the last of its hooks that was called
  main,        \* place of App.Start
  idx,         \* its loop index
  dieClosed,   \* dieChan is closed
  sg,          \* a signal is in the channel given to signal.Notify
  caller,      \* place of each call of App.Shutdown
  watcher,     \* place of each lease watcher
  conn,        \* each NATS connection
  signals,     \* number of signals so far
  panicked     \* a goroutine has closed or sent to the closed dieChan

moduleVars == <<modulesArr, phase>>
stopVars == <<dieClosed, sg, caller, watcher, conn, signals, panicked>>
vars == <<moduleVars, main, idx, stopVars>>

Registered == {modulesArr[i] : i \in 1..Len(modulesArr)}

-----------------------------------------------------------------------------
(* Registration and start *)

RegisterModuleAfter(m) ==
  /\ \/ main = "new" /\ m \in UserModules
     \/ main = "components" /\ m \in LateModules
  /\ m \notin Registered
  /\ modulesArr' = Append(modulesArr, m)
  /\ UNCHANGED <<phase, main, idx, stopVars>>

RegisterModuleBefore(m) ==
  /\ main = "new" /\ m \in UserModules \ Registered
  /\ modulesArr' = <<m>> \o modulesArr
  /\ UNCHANGED <<phase, main, idx, stopVars>>

\* Mutant: the service discovery is registered before the other modules.
StartDiscoveryFirst ==
  /\ main = "new"
  /\ modulesArr' = <<"serviceDiscovery", "rpcClient", "rpcServer">> \o modulesArr
  /\ main' = "components"
  /\ UNCHANGED <<phase, idx, stopVars>>

\* The RPC server and then the client go to the front, the service discovery to the end.
Start ==
  /\ main = "new"
  /\ modulesArr' = <<"rpcClient", "rpcServer">> \o modulesArr \o <<"serviceDiscovery">>
  /\ main' = "components"
  /\ UNCHANGED <<phase, idx, stopVars>>

Loop(from, step, to) ==
  /\ main = from
  /\ idx \in 1..Len(modulesArr)
  /\ phase' = [phase EXCEPT ![modulesArr[idx]] = to]
  /\ idx' = step
  /\ UNCHANGED <<modulesArr, main, stopVars>>

LoopEnds(from, to, first) ==
  /\ main = from
  /\ idx \notin 1..Len(modulesArr)
  /\ main' = to
  /\ idx' = first
  /\ UNCHANGED <<moduleVars, stopVars>>

startupComponents ==
  /\ main = "components"
  /\ main' = "init" /\ idx' = 1
  /\ UNCHANGED <<moduleVars, stopVars>>

\* An error of Init ends the process.
InitFails ==
  /\ main = "init" /\ idx <= Len(modulesArr)
  /\ main' = "dead"
  /\ UNCHANGED <<moduleVars, idx, stopVars>>

startModules ==
  \/ Loop("init", idx + 1, "inited")
  \/ LoopEnds("init", "afterInit", 1)
  \/ Loop("afterInit", idx + 1, "ready")
  \/ LoopEnds("afterInit", "select", 0)

-----------------------------------------------------------------------------
(* The end of App.Start *)

BeginStop == main' = "beforeShutdown" /\ idx' = Len(modulesArr)

Panic == panicked' = TRUE /\ main' = "dead"

DieChanClosed ==
  /\ main = "select" /\ dieClosed
  /\ BeginStop
  /\ UNCHANGED <<moduleVars, stopVars>>

\* The signal branch closes the die channel, closed or not.
SignalReceived ==
  /\ main = "select" /\ sg
  /\ sg' = FALSE
  /\ IF dieClosed THEN Panic /\ UNCHANGED <<dieClosed, idx>>
                  ELSE dieClosed' = TRUE /\ BeginStop /\ UNCHANGED panicked
  /\ UNCHANGED <<moduleVars, caller, watcher, conn, signals>>

\* Mutant: modules are stopped in the order in which they were started.
shutdownModulesForward ==
  \/ Loop("beforeShutdown", idx + 1, "leaving")
  \/ LoopEnds("beforeShutdown", "shutdown", 1)
  \/ Loop("shutdown", idx + 1, "stopped")
  \/ LoopEnds("shutdown", "done", 0)

shutdownModules ==
  \/ Loop("beforeShutdown", idx - 1, "leaving")
  \/ LoopEnds("beforeShutdown", "shutdown", Len(modulesArr))
  \/ Loop("shutdown", idx - 1, "stopped")
  \/ LoopEnds("shutdown", "stopComponents", 0)

shutdownComponents ==
  /\ main = "stopComponents"
  /\ main' = "done"
  /\ UNCHANGED <<moduleVars, idx, stopVars>>

-----------------------------------------------------------------------------
(* The others *)

Alive == main \notin {"dead", "done"}

\* A signal kills the process until signal.Notify is called, which App.Start does
\* when the modules are started.
Raise ==
  IF main \in {"new", "components", "init", "afterInit"}
    THEN main' = "dead" /\ UNCHANGED sg
    ELSE sg' = TRUE /\ UNCHANGED main

Signal ==
  /\ Alive /\ signals < MaxSignals
  /\ signals' = signals + 1
  /\ Raise
  /\ UNCHANGED <<moduleVars, idx, dieClosed, caller, watcher, conn, panicked>>

\* App.Shutdown: the receive succeeds when the channel is closed, and also when
\* a lease watcher is sending; only otherwise the channel is closed.
ShutdownSelect(c) ==
  /\ Alive /\ main # "new" /\ caller[c] = "idle"
  /\ \/ /\ dieClosed
        /\ caller' = [caller EXCEPT ![c] = "returned"] /\ UNCHANGED watcher
     \/ \E w \in LeaseWatchers :
          /\ ~dieClosed /\ watcher[w] = "sending"
          /\ watcher' = [watcher EXCEPT ![w] = "sent"]
          /\ caller' = [caller EXCEPT ![c] = "returned"]
     \/ /\ ~dieClosed /\ \A w \in LeaseWatchers : watcher[w] # "sending"
        /\ caller' = [caller EXCEPT ![c] = "close"] /\ UNCHANGED watcher
  /\ UNCHANGED <<moduleVars, main, idx, dieClosed, sg, conn, signals, panicked>>

\* Mutant: Shutdown returns without closing the channel.
ShutdownCloseForgotten(c) ==
  /\ Alive /\ caller[c] = "close"
  /\ caller' = [caller EXCEPT ![c] = "returned"]
  /\ UNCHANGED <<moduleVars, main, idx, dieClosed, sg, watcher, conn, signals, panicked>>

ShutdownClose(c) ==
  /\ Alive /\ caller[c] = "close"
  /\ caller' = [caller EXCEPT ![c] = "returned"]
  /\ IF dieClosed THEN Panic /\ UNCHANGED dieClosed
                  ELSE dieClosed' = TRUE /\ UNCHANGED <<main, panicked>>
  /\ UNCHANGED <<moduleVars, idx, sg, watcher, conn, signals>>

\* A lease watcher of the started service discovery gives up.
LeaseLost(w) ==
  /\ Alive /\ watcher[w] = "idle" /\ phase["serviceDiscovery"] \in {"inited", "ready"}
  /\ watcher' = [watcher EXCEPT ![w] = "sending"]
  /\ UNCHANGED <<moduleVars, main, idx, dieClosed, sg, caller, conn, signals, panicked>>

\* appDieChan <- true: App.Start receives it, or the channel is closed.
SendDie(w) ==
  /\ Alive /\ watcher[w] = "sending"
  /\ IF dieClosed
       THEN Panic /\ UNCHANGED <<watcher, idx>>
       ELSE /\ main = "select"
            /\ watcher' = [watcher EXCEPT ![w] = "sent"]
            /\ BeginStop /\ UNCHANGED panicked
  /\ UNCHANGED <<moduleVars, dieClosed, sg, caller, conn, signals>>

\* The closed handler: send if App.Start is waiting, else raise SIGTERM.
ClosedHandler(n) ==
  /\ Alive /\ conn[n] = "open" /\ phase["rpcServer"] # "new"
  /\ conn' = [conn EXCEPT ![n] = "closed"]
  /\ \/ dieClosed /\ Panic /\ UNCHANGED <<idx, sg>>
     \/ ~dieClosed /\ main = "select" /\ BeginStop /\ UNCHANGED <<sg, panicked>>
     \/ ~dieClosed /\ main # "select" /\ Raise /\ UNCHANGED <<idx, panicked>>
  /\ UNCHANGED <<moduleVars, dieClosed, caller, watcher, signals>>

-----------------------------------------------------------------------------
Init ==
  /\ modulesArr = <<>> /\ phase = [m \in Modules |-> "new"]
  /\ main = "new" /\ idx = 0
  /\ dieClosed = FALSE /\ sg = FALSE
  /\ caller = [c \in Callers |-> "idle"]
  /\ watcher = [w \in LeaseWatchers |-> "idle"]
  /\ conn = [n \in NatsConns |-> "open"]
  /\ signals = 0 /\ panicked = FALSE

MainStep ==
  \/ startupComponents \/ startModules
  \/ DieChanClosed \/ SignalReceived
  \/ shutdownModules \/ shutdownComponents
CallerStep(c) == ShutdownSelect(c) \/ ShutdownClose(c)

Next ==
  \/ \E m \in UserModules \cup LateModules :
       RegisterModuleAfter(m) \/ RegisterModuleBefore(m)
  \/ Start \/ InitFails \/ MainStep \/ Signal
  \/ \E c \in Callers : CallerStep(c)
  \/ \E w \in LeaseWatchers : LeaseLost(w) \/ SendDie(w)
  \/ \E n \in NatsConns : ClosedHandler(n)

Spec == Init /\ [][Next]_vars

\* App.Start, the calls of Shutdown that have begun and the lease watchers run on.
Fairness ==
  /\ WF_vars(MainStep)
  /\ \A c \in Callers : WF_vars(ShutdownClose(c))
  /\ \A w \in LeaseWatchers : WF_vars(SendDie(w))

FairSpec == Spec /\ Fairness

-----------------------------------------------------------------------------
(* Properties *)

\* The service discovery is "the last module to be started to ensure all modules
\* have been properly initialized before the server starts receiving requests":
\* while it is between Init and BeforeShutdown, so that other servers find this one,
\* so is every module but those a component has registered in its Init, which come
\* after it.
DiscoveryLast ==
  phase["serviceDiscovery"] \in {"inited", "ready"} =>
    \A m \in Registered \ LateModules : phase[m] \in {"inited", "ready"}

\* Modules nest: one that was started later is past BeforeShutdown before an earlier
\* one gets there, and stopped before it is stopped.
Nested ==
  \A i, j \in 1..Len(modulesArr) : i < j =>
    /\ phase[modulesArr[i]] \in {"leaving", "stopped"} =>
         phase[modulesArr[j]] \in {"leaving", "stopped"}
    /\ phase[modulesArr[i]] = "stopped" => phase[modulesArr[j]] = "stopped"

\* Shutdown sends "a signal to let" the application "shutdown itself": when a call has
\* returned, a signal has come or a lease watcher has delivered its message, the
\* application stops its modules or has ended.  The one exception is a call of
\* Shutdown that takes the message of a lease watcher for the closed channel.
ShutdownStops ==
  (sg \/ ((\E c \in Callers : caller[c] = "returned")
            # (\E w \in LeaseWatchers : watcher[w] = "sent")))
    ~> main \in {"done", "dead"}
=============================================================================
