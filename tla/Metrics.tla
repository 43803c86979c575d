------------------------------- MODULE Metrics ------------------------------
(***************************************************************************)
(* The metrics of package metrics: the reporters an application is built    *)
(* with (one Prometheus reporter per process, one statsd reporter per       *)
(* application) and the goroutines that report to them.  Metrics differ in  *)
(* their kind, their name and the labels they were declared with; values    *)
(* are left out.                                                            *)
(***************************************************************************)
EXTENDS Naturals, Sequences

CONSTANTS
  Apps,              \* the applications of the process, which have one configuration
  Enabled,           \* the reporters that are enabled
  Namespace,         \* namespace of the custom metrics
  ConstLabels,       \* the labels of config.ConstLabels
  AdditionalLabels,  \* config.AdditionalLabels: labels with their default values
  Custom,            \* config.Custom: metrics of the application
  Contexts,          \* contexts of calls: metric tags, and whether they came with a request
  Goroutines         \* goroutines that report

Metric(kind, subsystem, name, labels) ==
  [kind |-> kind, subsystem |-> subsystem, name |-> name, labels |-> labels]

ResponseTime         == "response_time_ns"
ConnectedClients     == "connected_clients"
CountServers         == "count_servers"
ChannelCapacity      == "channel_capacity"
DroppedMessages      == "dropped_messages"
ProcessDelay         == "handler_delay_ns"
NumGoroutines        == "goroutines"
HeapSize             == "heapsize"
HeapObjects          == "heapobjects"
WorkerJobsTotal      == "worker_jobs_total"
WorkerJobsRetry      == "worker_jobs_retry_total"
WorkerQueueSize      == "worker_queue_size"
ExceededRateLimiting == "exceeded_rate_limiting"

\* What registerMetrics declares besides the custom metrics.
Builtin == {
  Metric("summary", "handler", ResponseTime, {"route", "status", "type", "code"}),
  Metric("histogram", "handler", ResponseTime, {"route", "status", "type", "code"}),
  Metric("summary", "handler", ProcessDelay, {"route", "type"}),
  Metric("gauge", "acceptor", ConnectedClients, {}),
  Metric("gauge", "service_discovery", CountServers, {"type"}),
  Metric("gauge", "channel", ChannelCapacity, {"channel"}),
  Metric("gauge", "rpc_server", DroppedMessages, {}),
  Metric("gauge", "sys", NumGoroutines, {}),
  Metric("gauge", "sys", HeapSize, {}),
  Metric("gauge", "sys", HeapObjects, {}),
  Metric("gauge", "worker", WorkerJobsRetry, {}),
  Metric("gauge", "worker", WorkerQueueSize, {"queue"}),
  Metric("gauge", "worker", WorkerJobsTotal, {"status"}),
  Metric("count", "acceptor", ExceededRateLimiting, {}) }

ASSUME MetricsAssumption ==
  /\ Enabled \subseteq {"prometheus", "statsd"}
  /\ \A m, n \in Custom : m.kind = n.kind /\ m.name = n.name => m = n
  /\ \A ctx \in Contexts : DOMAIN ctx.tags \subseteq DOMAIN AdditionalLabels

\* The configuration names nothing twice, as prometheus.MustRegister demands: the
\* framework's metrics and labels are not the application's, no label of a metric is
\* also an additional or a constant label.
ASSUME ConfigurationAssumption ==
  /\ \A m \in Custom, n \in Builtin : m.kind # n.kind \/ m.name # n.name
  /\ \A m, n \in Custom : m.subsystem = n.subsystem /\ m.name = n.name => m = n
  /\ Namespace = "nrpc" =>
       \A m \in Custom, n \in Builtin : m.subsystem # n.subsystem \/ m.name # n.name
  /\ \A m \in Builtin \cup Custom :
       m.labels \cap (DOMAIN AdditionalLabels \cup ConstLabels \cup {"app", "serverType"}) = {}
  /\ DOMAIN AdditionalLabels \cap (ConstLabels \cup {"app", "serverType"}) = {}

VARIABLES
  once,         \* the Prometheus reporter exists
  constLabels,  \* the labels of the map config.ConstLabels
  built,        \* per application: how far NewBuilder has come
  reporters,    \* per application: its metricsReporters
  defaultTags,  \* per application: labels of the default tags of its statsd reporter
  job,          \* per goroutine: what is left of its report
  sample,       \* per goroutine: the last report to a reporter, and its outcome
  panicked      \* a goroutine has panicked: the process is gone

setupVars == <<once, constLabels, built, reporters, defaultTags>>
metricsVars == <<setupVars, job, sample, panicked>>

-----------------------------------------------------------------------------
(* Reporters *)

\* Collectors in the order of registration: the maps are keyed by name, so that the
\* later one of two with one kind and name replaces the earlier one.
Named(metrics, m) == {n \in metrics : n.kind = m.kind /\ n.name = m.name}
Collector(m, namespace) ==
  [kind |-> m.kind, name |-> m.name, fqName |-> <<namespace, m.subsystem, m.name>>,
   labels |-> m.labels \cup DOMAIN AdditionalLabels]

CustomCollectors == {Collector(m, Namespace) : m \in Custom}
BuiltinCollectors == {Collector(m, "nrpc") : m \in Builtin}

\* registerCustomMetrics, then the framework's: the four maps.
Collectors ==
  BuiltinCollectors \cup {m \in CustomCollectors : Named(BuiltinCollectors, m) = {}}

\* Mutant: all four maps are collected at the end.
toRegisterAll == Collectors

\* The histograms are collected before the framework adds its own, which has the
\* fully qualified name of a summary; the other maps are collected at the end.
toRegister ==
  {m \in CustomCollectors : m.kind = "histogram"} \cup {m \in Collectors : m.kind # "histogram"}

\* The collectors of the reporter, and the ones the default registry exports.
known == IF once THEN Collectors ELSE {}
registered == IF once THEN toRegister ELSE {}

\* prometheus.MustRegister panics on a name that is taken, on a label that is also a
\* constant label, and on a label that a metric has twice.
MustRegisterPanics ==
  \/ \E m \in toRegister : \E n \in registered \cup (toRegister \ {m}) : m.fqName = n.fqName
  \/ \E m \in toRegister : m.labels \cap ({"app", "serverType"} \cup constLabels) # {}
  \/ \E m \in Builtin \cup Custom : m.labels \cap DOMAIN AdditionalLabels # {}

\* once.Do makes the reporter and registers its metrics; registerMetrics writes two
\* labels into the map of the configuration.
getPrometheusReporter ==
  /\ once' = TRUE
  /\ IF once
       THEN UNCHANGED <<constLabels, panicked>>
       ELSE /\ constLabels' = constLabels \cup {"app", "serverType"}
            /\ panicked' = MustRegisterPanics

\* NewBuilder, as far as it makes reporters: first Prometheus' ...
addDefaultPrometheus(a) ==
  /\ ~panicked /\ built[a] = "no"
  /\ built' = [built EXCEPT ![a] = "prometheus"]
  /\ IF "prometheus" \in Enabled
       THEN /\ getPrometheusReporter
            /\ reporters' = [reporters EXCEPT ![a] = Append(@, "prometheus")]
       ELSE UNCHANGED <<once, constLabels, panicked, reporters>>
  /\ UNCHANGED <<defaultTags, job, sample>>

buildDefaultTags == {"serverType"} \cup constLabels

newStatsdReporter(a) ==
  /\ reporters' = [reporters EXCEPT ![a] = Append(@, "statsd")]
  /\ defaultTags' = [defaultTags EXCEPT ![a] = buildDefaultTags]

\* ... then statsd's, or none when the client cannot be made.
addDefaultStatsd(a) ==
  /\ ~panicked /\ built[a] = "prometheus"
  /\ built' = [built EXCEPT ![a] = "yes"]
  /\ \/ "statsd" \in Enabled /\ newStatsdReporter(a)
     \/ UNCHANGED <<reporters, defaultTags>>
  /\ UNCHANGED <<once, constLabels, job, sample, panicked>>

-----------------------------------------------------------------------------
(* Reports *)

\* The metric tags of a context: a map[string]string, or, after the context has been
\* decoded from a request, a map[string]interface{}, which is not looked at.
tagsFromContext(ctx) == IF ctx.decoded THEN <<>> ELSE ctx.tags

\* A map of tags written over another one.
Over(tags, below) ==
  [l \in DOMAIN tags \cup DOMAIN below |-> IF l \in DOMAIN tags THEN tags[l] ELSE below[l]]

getTags(ctx, tags) == Over(tagsFromContext(ctx), tags)

Own(labels) == [l \in labels |-> "own"]
Report(kind, name, tags) == [kind |-> kind, name |-> name, tags |-> tags]

\* A report to one reporter of application a.
Entry(to, a, report) ==
  [to |-> to, app |-> a, kind |-> report.kind, name |-> report.name, tags |-> report.tags]

\* A goroutine starts to make the reports `items' to every reporter of application a;
\* shared: all with one map of tags.
Start(g, a, ctx, shared, items) ==
  /\ ~panicked /\ job[g].todo = <<>> /\ built[a] = "yes"
  /\ LET n == Len(items) IN
     job' = [job EXCEPT ![g] =
       [ctx |-> ctx, shared |-> shared,
        todo |-> [j \in 1..(n * Len(reporters[a])) |->
                    Entry(reporters[a][((j - 1) \div n) + 1], a, items[((j - 1) % n) + 1])]]]
  /\ UNCHANGED <<setupVars, sample, panicked>>

NoContext == [tags |-> <<>>, decoded |-> FALSE]

\* The deferred function of NatsRPCClient.Call.
ReportTimingFromCtx(g, a, ctx) ==
  Start(g, a, ctx, TRUE, <<Report("summary", ResponseTime,
    getTags(ctx, Own({"route", "status", "type", "code"})))>>)

ReportMessageProcessDelayFromCtx(g, a, ctx) ==
  Start(g, a, ctx, TRUE, <<Report("summary", ProcessDelay, getTags(ctx, Own({"route", "type"})))>>)

ReportNumberOfConnectedClients(g, a) ==
  Start(g, a, NoContext, FALSE, <<Report("gauge", ConnectedClients, <<>>)>>)

\* A round of ReportSysMetrics.
ReportSysMetrics(g, a) ==
  Start(g, a, NoContext, FALSE,
    <<Report("gauge", NumGoroutines, <<>>), Report("gauge", HeapSize, <<>>),
      Report("gauge", HeapObjects, <<>>)>>)

\* NatsRPCServer.reportMetrics
reportMetrics(g, a) ==
  Start(g, a, NoContext, FALSE,
    <<Report("gauge", DroppedMessages, <<>>), Report("gauge", ChannelCapacity, Own({"channel"}))>>)

ReportExceededRateLimiting(g, a) ==
  Start(g, a, NoContext, FALSE, <<Report("count", ExceededRateLimiting, <<>>)>>)

\* The application reports a metric of its own.
ReportCustom(g, a) ==
  \E m \in Custom : Start(g, a, NoContext, FALSE, <<Report(m.kind, m.name, Own(m.labels))>>)

\* Mutant: labels the caller has set are overwritten.
ensureLabelsAlways(tags) == Over(AdditionalLabels, tags)

ensureLabels(tags) == Over(tags, AdditionalLabels)

\* tags: what the report leaves in the map; sent: the labels the reporter adds to it.
Result(tags, sent, outcome) == [tags |-> tags, sent |-> sent, outcome |-> outcome]

\* ReportSummary, ReportHistogram, ReportCount and ReportGauge of the Prometheus
\* reporter: the map of tags is completed in place, and With panics when its labels are
\* not the declared ones.
prometheusReport(x) ==
  LET c == Named(known, x)
      tags == ensureLabels(x.tags)
  IN IF c = {} THEN Result(x.tags, {}, "not known")
     ELSE Result(tags, constLabels, IF \A m \in c : m.labels = DOMAIN tags THEN "ok" ELSE "panic")

\* The same methods of the statsd reporter: the tags go after the default ones.
statsdReport(x) ==
  Result(x.tags, defaultTags[x.app], IF x.kind = "histogram" THEN "not implemented" ELSE "ok")

\* The next report of goroutine g.
ReportNext(g) ==
  /\ ~panicked /\ job[g].todo # <<>>
  /\ LET x == Head(job[g].todo)
         rest == Tail(job[g].todo)
         r == IF x.to = "prometheus" THEN prometheusReport(x) ELSE statsdReport(x)
     IN /\ sample' = [sample EXCEPT ![g] =
             <<[to |-> x.to, kind |-> x.kind, name |-> x.name, tags |-> r.tags, sent |-> r.sent,
                outcome |-> r.outcome, ctx |-> job[g].ctx]>>]
        /\ job' = [job EXCEPT ![g].todo =
             IF job[g].shared
               THEN [i \in DOMAIN rest |-> [rest[i] EXCEPT !.tags = r.tags]] ELSE rest]
        /\ panicked' = (r.outcome = "panic")
  /\ UNCHANGED setupVars

MetricsInit ==
  /\ once = FALSE /\ constLabels = ConstLabels
  /\ built = [a \in Apps |-> "no"] /\ reporters = [a \in Apps |-> <<>>]
  /\ defaultTags = [a \in Apps |-> {}]
  /\ job = [g \in Goroutines |-> [ctx |-> NoContext, shared |-> FALSE, todo |-> <<>>]]
  /\ sample = [g \in Goroutines |-> <<>>] /\ panicked = FALSE

MetricsNext ==
  \/ \E a \in Apps : addDefaultPrometheus(a) \/ addDefaultStatsd(a)
  \/ \E g \in Goroutines, a \in Apps :
       \/ \E ctx \in Contexts :
            ReportTimingFromCtx(g, a, ctx) \/ ReportMessageProcessDelayFromCtx(g, a, ctx)
       \/ ReportNumberOfConnectedClients(g, a) \/ ReportSysMetrics(g, a)
       \/ reportMetrics(g, a) \/ ReportCustom(g, a)
  \/ \E g \in Goroutines : ReportNext(g)

MetricsSpec == MetricsInit /\ [][MetricsNext]_metricsVars

-----------------------------------------------------------------------------
(* Properties *)

Samples == UNION {{sample[g][i] : i \in DOMAIN sample[g]} : g \in Goroutines}

\* Registration does not panic, however many applications are built, and every report
\* of the framework or of a custom metric is taken: the reporter knows the metric, the
\* labels, completed by ensureLabels, are the ones it was declared with in another
\* file, and its collector is one the registry exports.  statsd has no histograms.
ReportsLand ==
  /\ ~panicked
  /\ \A s \in Samples :
       /\ s.outcome = IF s.to = "statsd" /\ s.kind = "histogram" THEN "not implemented" ELSE "ok"
       /\ s.to = "prometheus" => Named(registered, s) # {}

\* The metric tags of a call's context reach every reporter, and a label without a tag
\* has its default in Prometheus: neither the framework's tags nor the defaults, nor the
\* reporter that came before on the same map, replace a tag.  The server type goes with
\* every report, whichever application made the reporter.
TagsReachReporters ==
  \A s \in Samples :
    /\ LET tags == tagsFromContext(s.ctx) IN
       \A l \in DOMAIN tags : l \in DOMAIN s.tags /\ s.tags[l] = tags[l]
    /\ "serverType" \in s.sent
    /\ s.to = "prometheus" =>
         \A l \in DOMAIN AdditionalLabels :
           s.tags[l] = Over(tagsFromContext(s.ctx), AdditionalLabels)[l]
=============================================================================
