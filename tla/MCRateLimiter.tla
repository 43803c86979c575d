--------------------------- MODULE MCRateLimiter ----------------------------
(* An instance of the metrics and of the rate limiter.  Reports other than the limiter's
   share nothing with it, so that a behaviour has either. *)
EXTENDS RateLimiter

\* One additional label with its default; a context that has it, one that has not, and
\* one that came with a request.
MCAdditional == [region |-> "default"]
MCContexts ==
  { [tags |-> [region |-> "eu"], decoded |-> FALSE],
    [tags |-> <<>>, decoded |-> FALSE],
    [tags |-> [region |-> "eu"], decoded |-> TRUE] }

\* One custom metric of each kind.
MCCustom ==
  {Metric("count", "game", "matches", {"mode"}), Metric("histogram", "game", "latency", {"mode"}),
   Metric("gauge", "game", "rooms", {}), Metric("summary", "game", "rounds", {"mode", "map"})}

MCInit == MetricsInit /\ LimiterInit
MCNext ==
  \/ /\ clock = 0 /\ \A c \in Callers : pc[c] = "idle" /\ result[c] = "none"
     /\ MetricsNext /\ UNCHANGED limiterVars
     /\ \A c \in Callers : job'[c].todo = <<>>
  \/ /\ \A g \in Goroutines \ Callers : job[g].todo = <<>> /\ sample[g] = <<>>
     /\ \A a \in Apps \ {App} : built[a] = "no"
     /\ LimiterNext
MCSpec == MCInit /\ [][MCNext]_rateVars
=============================================================================
