----------------------------- MODULE RateLimiter ----------------------------
(***************************************************************************)
(* The rate limiter of package plugin, a hook that runs before a handler:   *)
(* the goroutines that serve requests share one list of the times of the    *)
(* last requests, without a lock, and report every request over the limit   *)
(* to the reporters of the application.                                     *)
(***************************************************************************)
EXTENDS Integers, FiniteSets, Metrics

CONSTANTS
  Callers,        \* goroutines that serve requests
  App,            \* the application whose reporters the limiter has
  limit, interval, forceDisable,
  MaxClock        \* bound: ticks of the clock

ASSUME LimiterAssumption ==
  /\ Callers \subseteq Goroutines /\ App \in Apps
  /\ limit \in Nat \ {0} /\ interval \in Nat /\ forceDisable \in BOOLEAN /\ MaxClock \in Nat

VARIABLES
  clock,
  times,      \* the list of the limiter, from front to back: elements with their values
  pc,         \* per caller: where it is in HandleBefore
  now,        \* per caller: the time it has read
  raced,      \* two callers have been in shouldRateLimit at once
  accepted,   \* history: the times of the requests let through until then, in order,
              \* with the elements of the list that hold them
  result      \* per caller: what HandleBefore returned last

limiterVars == <<clock, times, pc, now, raced, accepted, result>>
rateVars == <<metricsVars, limiterVars>>

-----------------------------------------------------------------------------

LimiterInit ==
  /\ clock = 0 /\ times = <<>> /\ raced = FALSE /\ accepted = <<>>
  /\ pc = [c \in Callers |-> "idle"] /\ now = [c \in Callers |-> 0]
  /\ result = [c \in Callers |-> "none"]

Tick ==
  /\ clock < MaxClock /\ clock' = clock + 1
  /\ UNCHANGED <<times, pc, now, raced, accepted, result, metricsVars>>

\* HandleBefore reads the clock ...
HandleBefore(c) ==
  /\ ~panicked /\ built[App] = "yes" /\ pc[c] = "idle"
  /\ now' = [now EXCEPT ![c] = clock]
  /\ pc' = [pc EXCEPT ![c] = "called"]
  /\ UNCHANGED <<clock, times, raced, accepted, result, metricsVars>>

\* ... and calls shouldRateLimit, perhaps after a caller that read it later.
Enter(c) ==
  /\ ~panicked /\ pc[c] = "called"
  /\ pc' = [pc EXCEPT ![c] = "in"]
  /\ LET race == raced \/ \E d \in Callers : pc[d] = "in" IN
     raced' = race /\ accepted' = IF race THEN <<>> ELSE accepted
  /\ UNCHANGED <<clock, times, now, result, metricsVars>>

\* The caller leaves shouldRateLimit with its time in element e of the list ...
Accept(c, list, e) ==
  /\ times' = Append(list, [element |-> e, value |-> now[c]])
  /\ accepted' = Append(accepted, [element |-> e, value |-> now[c]])
  /\ pc' = [pc EXCEPT ![c] = "idle"] /\ result' = [result EXCEPT ![c] = "passed"]
  /\ now' = [now EXCEPT ![c] = 0]
  /\ UNCHANGED <<clock, raced, metricsVars>>

\* ... or without.
Refuse(c) ==
  /\ pc' = [pc EXCEPT ![c] = "limited"]
  /\ now' = [now EXCEPT ![c] = 0]
  /\ UNCHANGED <<clock, times, raced, accepted, result, metricsVars>>

\* Mutant: the interval is one tick short.
ExceedsEarly(c) == now[c] - Head(times).value < interval - 1

\* The front of the list was set less than an interval ago.
Exceeds(c) == now[c] - Head(times).value < interval

shouldRateLimit(c) ==
  /\ ~panicked /\ ~raced /\ pc[c] = "in"
  /\ \/ Len(times) < limit /\ Accept(c, times, Len(times) + 1)
     \/ Len(times) >= limit /\ Exceeds(c) /\ Refuse(c)
     \/ Len(times) >= limit /\ ~Exceeds(c) /\ Accept(c, Tail(times), Head(times).element)

\* After a data race the list may hold anything and the answer is any: the list is not
\* looked at again.
shouldRateLimitRaced(c) ==
  /\ ~panicked /\ raced /\ pc[c] = "in"
  /\ \E limited \in BOOLEAN :
       /\ pc' = [pc EXCEPT ![c] = IF limited THEN "limited" ELSE "idle"]
       /\ result' = [result EXCEPT ![c] = IF limited THEN @ ELSE "passed"]
  /\ times' = <<>> /\ now' = [now EXCEPT ![c] = 0]
  /\ UNCHANGED <<clock, raced, accepted, metricsVars>>

\* The request is over the limit: it is reported ...
Limited(c) ==
  /\ pc[c] = "limited" /\ ReportExceededRateLimiting(c, App)
  /\ pc' = [pc EXCEPT ![c] = "reporting"]
  /\ UNCHANGED <<clock, times, now, raced, accepted, result>>

\* ... and refused if the limiter is set to.
Return(c) ==
  /\ ~panicked /\ pc[c] = "reporting" /\ job[c].todo = <<>>
  /\ pc' = [pc EXCEPT ![c] = "idle"]
  /\ result' = [result EXCEPT ![c] = IF forceDisable THEN "refused" ELSE "passed"]
  /\ UNCHANGED <<clock, times, now, raced, accepted, metricsVars>>

\* The steps of the reporters the limiter depends on; other reports share nothing with it.
Reporters ==
  /\ \/ addDefaultPrometheus(App) \/ addDefaultStatsd(App)
     \/ \E c \in Callers : ReportNext(c)
  /\ UNCHANGED limiterVars

LimiterNext ==
  \/ Tick
  \/ \E c \in Callers :
       \/ HandleBefore(c) \/ Enter(c) \/ shouldRateLimit(c) \/ shouldRateLimitRaced(c)
       \/ Limited(c) \/ Return(c)
  \/ Reporters

LimiterSpec == MetricsInit /\ LimiterInit /\ [][LimiterNext]_rateVars

\* The limiter among all the reports of the process.
ReportingNext == LimiterNext \/ (MetricsNext /\ UNCHANGED limiterVars)

ReportingSpec == MetricsInit /\ LimiterInit /\ [][ReportingNext]_rateVars

-----------------------------------------------------------------------------
(* Properties *)

\* "limit" is the number of requests it accepts during an "interval" duration: no
\* interval holds more, wherever it starts, as long as no two hooks are in
\* shouldRateLimit at once, and also when hooks get there in another order than they
\* read the clock.
WindowBound ==
  \A t \in 0..MaxClock :
    Cardinality({i \in DOMAIN accepted : accepted[i].value \in t..(t + interval - 1)}) <= limit
=============================================================================
