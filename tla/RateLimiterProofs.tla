-------------------------- MODULE RateLimiterProofs -------------------------
(***************************************************************************)
(* Proofs about Metrics and RateLimiter.                                    *)
(*                                                                          *)
(* Reports are taken by the reporters, with the tags of the calls they are  *)
(* about, for every configuration that names nothing twice and every number *)
(* of applications and goroutines: ReportsLand, TagsReachReporters.  What   *)
(* waits in a goroutine fits a declared metric, and goes to a reporter that *)
(* has been made.                                                           *)
(*                                                                          *)
(* The rate limiter keeps its limit, for every limit, interval and number   *)
(* of callers: WindowBound.  The argument is the reuse of list elements: an *)
(* element gets a new time only an interval after its last one, so that the *)
(* requests of one interval have different elements, of which there are     *)
(* `limit'.                                                                 *)
(***************************************************************************)
EXTENDS RateLimiter, FiniteSetTheorems, TLAPS

-----------------------------------------------------------------------------
(* The metrics *)

\* The metrics that are reported: the framework declares one histogram it never uses.
Reported == {m \in Builtin : m.kind # "histogram"} \cup Custom

\* The tags of a report of metric m that a context has gone into: the labels of m, all
\* tags of the context, and some of the additional labels, each with the tag or the
\* default.
TagsFit(tags, m, ctx) ==
  LET own == tagsFromContext(ctx) IN
  /\ m.labels \subseteq DOMAIN tags /\ DOMAIN own \subseteq DOMAIN tags
  /\ DOMAIN tags \subseteq m.labels \cup DOMAIN AdditionalLabels
  /\ \A l \in DOMAIN tags \cap DOMAIN AdditionalLabels :
       tags[l] = IF l \in DOMAIN own THEN own[l] ELSE AdditionalLabels[l]

ReportFits(x, ctx) ==
  \E m \in Reported : x.kind = m.kind /\ x.name = m.name /\ TagsFit(x.tags, m, ctx)

\* Reporter `to' of application a has been made.
Made(to, a) ==
  /\ to \in {"prometheus", "statsd"} /\ a \in Apps
  /\ to = "prometheus" => once
  /\ to = "statsd" => "serverType" \in defaultTags[a]

IsSeq(s) == s \in Seq({s[i] : i \in DOMAIN s})

JobFits(j) ==
  /\ j = [ctx |-> j.ctx, shared |-> j.shared, todo |-> j.todo]
  /\ DOMAIN tagsFromContext(j.ctx) \subseteq DOMAIN AdditionalLabels
  /\ IsSeq(j.todo)
  /\ \A i \in 1..Len(j.todo) :
       LET x == j.todo[i] IN
       /\ x = Entry(x.to, x.app, x)
       /\ Made(x.to, x.app) /\ ReportFits(x, j.ctx)
  /\ j.shared => \A i, k \in 1..Len(j.todo) :
       j.todo[i].kind = j.todo[k].kind /\ j.todo[i].name = j.todo[k].name

SampleFits(s) ==
  /\ s.to \in {"prometheus", "statsd"} /\ (s.to = "prometheus" => once)
  /\ \E m \in Reported : s.kind = m.kind /\ s.name = m.name
  /\ s.outcome = IF s.to = "statsd" /\ s.kind = "histogram" THEN "not implemented" ELSE "ok"
  /\ LET tags == tagsFromContext(s.ctx) IN
     \A l \in DOMAIN tags : l \in DOMAIN s.tags /\ s.tags[l] = tags[l]
  /\ "serverType" \in s.sent
  /\ s.to = "prometheus" =>
       \A l \in DOMAIN AdditionalLabels :
         s.tags[l] = Over(tagsFromContext(s.ctx), AdditionalLabels)[l]

SetupInv ==
  /\ ~panicked /\ once \in BOOLEAN
  /\ constLabels = IF once THEN ConstLabels \cup {"app", "serverType"} ELSE ConstLabels
  /\ reporters = [a \in Apps |-> reporters[a]] /\ defaultTags = [a \in Apps |-> defaultTags[a]]
  /\ \A a \in Apps : IsSeq(reporters[a]) /\ \A i \in 1..Len(reporters[a]) : Made(reporters[a][i], a)

MetricsInv ==
  /\ SetupInv
  /\ job = [g \in Goroutines |-> job[g]] /\ \A g \in Goroutines : JobFits(job[g])
  /\ sample = [g \in Goroutines |-> sample[g]]
  /\ \A g \in Goroutines : \A i \in DOMAIN sample[g] : SampleFits(sample[g][i])

-----------------------------------------------------------------------------

\* A function on 1..n is a sequence.
LEMMA SeqOf ==
  ASSUME NEW n \in Nat, NEW f, f = [i \in 1..n |-> f[i]]
  PROVE  IsSeq(f) /\ Len(f) = n
BY DEF IsSeq

\* So is every member of a set of sequences.
LEMMA AnySeq ==
  ASSUME NEW S, NEW t \in Seq(S)
  PROVE  IsSeq(t) /\ Len(t) \in Nat /\ DOMAIN t = 1..Len(t)
<1>1. t = [i \in 1..Len(t) |-> t[i]] /\ Len(t) \in Nat
  OBVIOUS
<1> QED  BY <1>1, SeqOf

\* It has a length.
LEMMA LenOf ==
  ASSUME NEW s, IsSeq(s)
  PROVE  Len(s) \in Nat
BY DEF IsSeq

\* The rest of a todo list.
LEMMA TailSeq ==
  ASSUME NEW s, IsSeq(s), s # <<>>
  PROVE  /\ IsSeq(Tail(s)) /\ Len(Tail(s)) = Len(s) - 1 /\ Len(s) \in Nat \ {0}
         /\ DOMAIN Tail(s) = 1..Len(Tail(s))
         /\ Head(s) = s[1] /\ \A i \in 1..Len(Tail(s)) : Tail(s)[i] = s[i + 1]
<1> DEFINE S == {s[i] : i \in DOMAIN s}
<1>1. s \in Seq(S) /\ s # <<>>
  BY DEF IsSeq
<1> HIDE DEF S
<1>2. /\ Tail(s) \in Seq(S) /\ Len(Tail(s)) = Len(s) - 1 /\ Len(s) \in Nat \ {0}
      /\ Head(s) = s[1] /\ \A i \in 1..Len(Tail(s)) : Tail(s)[i] = s[i + 1]
  BY <1>1
<1>3. IsSeq(Tail(s)) /\ DOMAIN Tail(s) = 1..Len(Tail(s))
  BY Zenon, <1>2, AnySeq
<1> QED  BY <1>2, <1>3

\* A sequence with one more element.
Extended(p, q, x) == p = Append(q, x)

\* It is a sequence, and has all its elements in a set if the other one had.
LEMMA AppendSeq ==
  ASSUME NEW M, NEW q, IsSeq(q), \A i \in 1..Len(q) : q[i] \in M,
         NEW x \in M, NEW p, Extended(p, q, x)
  PROVE  IsSeq(p) /\ \A i \in 1..Len(p) : p[i] \in M
<1> DEFINE S == {q[i] : i \in DOMAIN q}
<1>1. q \in Seq(S) /\ p = Append(q, x)
  BY DEF IsSeq, Extended
<1> HIDE DEF S
<1>2. Len(q) \in Nat /\ p \in Seq(S \cup {x}) /\ Len(p) = Len(q) + 1
  BY <1>1
<1>3. IsSeq(p)
  BY <1>2, AnySeq
<1>4. p[Len(q) + 1] = x /\ \A i \in 1..Len(q) : p[i] = q[i]
  BY <1>1, <1>2
<1>5. ASSUME NEW i \in 1..(Len(q) + 1)  PROVE  p[i] \in M
  BY <1>2, <1>4
<1> QED  BY <1>2, <1>3, <1>5

\* Two metrics of the framework have different kinds or names, and, but for the
\* histogram, different fully qualified names.
LEMMA BuiltinDiffer ==
  /\ \A m, n \in Builtin : m.kind = n.kind /\ m.name = n.name => m = n
  /\ \A m, n \in Builtin : m.kind # "histogram" /\ n.kind # "histogram"
                           /\ m.subsystem = n.subsystem /\ m.name = n.name => m = n
BY DEF Builtin, Metric, ResponseTime, ConnectedClients, CountServers, ChannelCapacity,
       DroppedMessages, ProcessDelay, NumGoroutines, HeapSize, HeapObjects, WorkerJobsTotal,
       WorkerJobsRetry, WorkerQueueSize, ExceededRateLimiting

\* The collector of a metric that is reported: the one of its kind and name, with the
\* additional labels.
LEMMA CollectorOf ==
  ASSUME NEW m \in Reported, NEW x, x.kind = m.kind, x.name = m.name
  PROVE  /\ Named(Collectors, x) # {} /\ Named(toRegister, x) # {}
         /\ \A c \in Named(Collectors, x) : c.labels = m.labels \cup DOMAIN AdditionalLabels
<1>1. CASE m \in Custom
  <2> DEFINE c == Collector(m, Namespace)
  <2>1. c \in CustomCollectors /\ c.kind = m.kind /\ c.name = m.name
    BY Zenon, <1>1 DEF CustomCollectors, Collector
  <2>2. \A b \in BuiltinCollectors : b.kind # m.kind \/ b.name # m.name
    BY <1>1, ConfigurationAssumption DEF BuiltinCollectors, Collector
  <2>3. Named(BuiltinCollectors, c) = {} /\ c \in Collectors /\ c \in toRegister
    BY <2>1, <2>2 DEF Named, Collectors, toRegister
  <2>4. c \in Named(Collectors, x) /\ c \in Named(toRegister, x)
    BY <2>1, <2>3 DEF Named
  <2>5. ASSUME NEW d \in Named(Collectors, x)
        PROVE  d.labels = m.labels \cup DOMAIN AdditionalLabels
    <3>1. d \in CustomCollectors /\ d.kind = m.kind /\ d.name = m.name
      BY <2>2 DEF Named, Collectors
    <3>2. PICK n \in Custom : d = Collector(n, Namespace)
      BY <3>1 DEF CustomCollectors
    <3>3. n = m
      BY <1>1, <3>1, <3>2, MetricsAssumption DEF Collector
    <3> QED  BY <3>2, <3>3 DEF Collector
  <2> QED  BY <2>4, <2>5
<1>2. CASE m \in Builtin /\ m.kind # "histogram"
  <2> DEFINE c == Collector(m, "nrpc")
  <2>1. c \in BuiltinCollectors /\ c.kind = m.kind /\ c.name = m.name
    BY Zenon, <1>2 DEF BuiltinCollectors, Collector
  <2>2. \A b \in CustomCollectors : b.kind # m.kind \/ b.name # m.name
    BY <1>2, ConfigurationAssumption DEF CustomCollectors, Collector
  <2>3. c \in Collectors /\ c \in toRegister
    BY <1>2, <2>1 DEF Collectors, toRegister
  <2>4. c \in Named(Collectors, x) /\ c \in Named(toRegister, x)
    BY <2>1, <2>3 DEF Named
  <2>5. ASSUME NEW d \in Named(Collectors, x)
        PROVE  d.labels = m.labels \cup DOMAIN AdditionalLabels
    <3>1. d \in BuiltinCollectors /\ d.kind = m.kind /\ d.name = m.name
      BY <2>2 DEF Named, Collectors
    <3>2. PICK n \in Builtin : d = Collector(n, "nrpc")
      BY <3>1 DEF BuiltinCollectors
    <3>3. n = m
      BY <1>2, <3>1, <3>2, BuiltinDiffer DEF Collector
    <3> QED  BY <3>2, <3>3 DEF Collector
  <2> QED  BY <2>4, <2>5
<1> QED  BY <1>1, <1>2 DEF Reported

\* The first registration does not panic.
LEMMA RegistrationPasses ==
  ASSUME once = FALSE, constLabels = ConstLabels
  PROVE  ~MustRegisterPanics
<1>1. ASSUME NEW c \in toRegister
      PROVE  \/ \E m \in Custom : c = Collector(m, Namespace)
             \/ \E m \in Builtin : m.kind # "histogram" /\ c = Collector(m, "nrpc")
  BY DEF toRegister, Collectors, CustomCollectors, BuiltinCollectors, Collector
<1>2. ASSUME NEW c \in toRegister, NEW d \in toRegister, c.fqName = d.fqName
      PROVE  c = d
  <2>1. ASSUME NEW m \in Custom, c = Collector(m, Namespace),
               NEW n \in Custom, d = Collector(n, Namespace)
        PROVE  c = d
    <3>1. m.subsystem = n.subsystem /\ m.name = n.name
      BY <1>2, <2>1 DEF Collector
    <3> QED  BY <3>1, <2>1, ConfigurationAssumption
  <2>2. ASSUME NEW m \in Builtin, m.kind # "histogram", c = Collector(m, "nrpc"),
               NEW n \in Builtin, n.kind # "histogram", d = Collector(n, "nrpc")
        PROVE  c = d
    <3>1. m.subsystem = n.subsystem /\ m.name = n.name
      BY <1>2, <2>2 DEF Collector
    <3> QED  BY <3>1, <2>2, BuiltinDiffer
  <2>3. ASSUME NEW m \in Custom, NEW n \in Builtin,
               Collector(m, Namespace).fqName = Collector(n, "nrpc").fqName
        PROVE  FALSE
    <3>1. Namespace = "nrpc" /\ m.subsystem = n.subsystem /\ m.name = n.name
      BY <2>3 DEF Collector
    <3> QED  BY <3>1, ConfigurationAssumption
  <2> QED  BY <1>1, <1>2, <2>1, <2>2, <2>3
<1>3. ASSUME NEW c \in toRegister
      PROVE  c.labels \cap ({"app", "serverType"} \cup constLabels) = {}
  <2>1. PICK m \in Builtin \cup Custom : c.labels = m.labels \cup DOMAIN AdditionalLabels
    BY <1>1 DEF Collector
  <2> QED  BY <2>1, ConfigurationAssumption
<1>4. registered = {}
  BY DEF registered
<1> QED  BY <1>2, <1>3, <1>4, ConfigurationAssumption DEF MustRegisterPanics

\* Reporters that have been made stay, and so do the reports to them.
LEMMA SetupKeeps ==
  ASSUME MetricsInv, SetupInv', UNCHANGED <<job, sample>>, once => once',
         \A a \in Apps : "serverType" \in defaultTags[a] => "serverType" \in defaultTags'[a]
  PROVE  MetricsInv'
<1>1. ASSUME NEW to, NEW a, Made(to, a)  PROVE  Made(to, a)'
  BY <1>1 DEF Made
<1>2. ASSUME NEW j, JobFits(j)  PROVE  JobFits(j)'
  BY <1>1, <1>2 DEF JobFits
<1>3. ASSUME NEW s, SampleFits(s)  PROVE  SampleFits(s)'
  BY Zenon, <1>3 DEF SampleFits
<1> QED  BY <1>2, <1>3 DEF MetricsInv

\* Application a gets a reporter.
LEMMA ReporterAdded ==
  ASSUME SetupInv, NEW a \in Apps, NEW to, Made(to, a)',
         reporters' = [reporters EXCEPT ![a] = Append(@, to)], once => once',
         ~panicked', once' \in BOOLEAN,
         constLabels' = IF once' THEN ConstLabels \cup {"app", "serverType"} ELSE ConstLabels,
         defaultTags' = [b \in Apps |-> defaultTags'[b]],
         \A b \in Apps : "serverType" \in defaultTags[b] => "serverType" \in defaultTags'[b]
  PROVE  SetupInv'
<1> DEFINE MadeThen(x, b) ==
             /\ x \in {"prometheus", "statsd"} /\ b \in Apps
             /\ x = "prometheus" => once'
             /\ x = "statsd" => "serverType" \in defaultTags'[b]
           r == reporters'[a]
<1>1. MadeThen(to, a)
  BY DEF Made
<1>2. /\ reporters = [b \in Apps |-> reporters[b]]
      /\ \A b \in Apps : IsSeq(reporters[b])
      /\ \A b \in Apps : \A i \in 1..Len(reporters[b]) : MadeThen(reporters[b][i], b)
  BY DEF SetupInv, Made
<1> HIDE DEF MadeThen
<1>3. /\ reporters' = [b \in Apps |-> reporters'[b]] /\ r = Append(reporters[a], to)
      /\ \A b \in Apps \ {a} : reporters'[b] = reporters[b]
  BY Zenon, <1>2
<1>4. IsSeq(r) /\ \A i \in 1..Len(r) : MadeThen(r[i], a)
  <2> DEFINE M == {x \in {"prometheus", "statsd"} : MadeThen(x, a)}
             q == reporters[a]
  <2>1. IsSeq(q) /\ Extended(r, q, to)
    BY <1>2, <1>3 DEF Extended
  <2>2. to \in M /\ \A i \in 1..Len(q) : q[i] \in M
    BY <1>1, <1>2 DEF MadeThen
  <2> HIDE DEF M, q, r
  <2>3. IsSeq(r) /\ \A i \in 1..Len(r) : r[i] \in M
    BY <2>1, <2>2, AppendSeq, Zenon
  <2> QED  BY <2>3 DEF M
<1>5. ASSUME NEW b \in Apps
      PROVE  IsSeq(reporters'[b]) /\ \A i \in 1..Len(reporters'[b]) : MadeThen(reporters'[b][i], b)
  BY <1>2, <1>3, <1>4
<1> QED  BY Zenon, <1>3, <1>5 DEF SetupInv, MadeThen, Made, IsSeq

\* NewBuilder makes the Prometheus reporter, once for the process ...
LEMMA PrometheusStep ==
  ASSUME MetricsInv, NEW a \in Apps, addDefaultPrometheus(a)
  PROVE  MetricsInv'
<1>1. CASE "prometheus" \in Enabled
  <2>1. /\ once' = TRUE /\ reporters' = [reporters EXCEPT ![a] = Append(@, "prometheus")]
        /\ UNCHANGED <<defaultTags, job, sample>>
    BY <1>1 DEF addDefaultPrometheus, getPrometheusReporter
  <2>2. ~panicked' /\ constLabels' = ConstLabels \cup {"app", "serverType"}
    <3>1. CASE once
      BY <1>1, <3>1 DEF addDefaultPrometheus, getPrometheusReporter, MetricsInv, SetupInv
    <3>2. CASE ~once
      <4>1. once = FALSE /\ constLabels = ConstLabels
        BY <3>2 DEF MetricsInv, SetupInv
      <4> QED  BY Zenon, <1>1, <4>1, RegistrationPasses DEF addDefaultPrometheus, getPrometheusReporter
    <3> QED  BY <3>1, <3>2
  <2>3. SetupInv'
    BY Zenon, <2>1, <2>2, ReporterAdded DEF MetricsInv, SetupInv, Made
  <2> QED  BY <2>1, <2>3, SetupKeeps
<1>2. CASE "prometheus" \notin Enabled
  <2>1. UNCHANGED <<once, constLabels, panicked, reporters, defaultTags, job, sample>>
    BY <1>2 DEF addDefaultPrometheus
  <2>2. SetupInv'
    BY <2>1 DEF MetricsInv, SetupInv, Made
  <2> QED  BY <2>1, <2>2, SetupKeeps
<1> QED  BY <1>1, <1>2

\* ... and the statsd reporter, whose default tags have the server type.
LEMMA StatsdStep ==
  ASSUME MetricsInv, NEW a \in Apps, addDefaultStatsd(a)
  PROVE  MetricsInv'
<1>1. UNCHANGED <<once, constLabels, job, sample, panicked>>
  BY DEF addDefaultStatsd
<1>2. CASE newStatsdReporter(a)
  <2>1. /\ reporters' = [reporters EXCEPT ![a] = Append(@, "statsd")]
        /\ defaultTags' = [defaultTags EXCEPT ![a] = {"serverType"} \cup constLabels]
    BY <1>2 DEF newStatsdReporter, buildDefaultTags
  <2>2. /\ defaultTags' = [b \in Apps |-> defaultTags'[b]] /\ "serverType" \in defaultTags'[a]
        /\ \A b \in Apps : "serverType" \in defaultTags[b] => "serverType" \in defaultTags'[b]
    BY Zenon, <2>1 DEF MetricsInv, SetupInv
  <2>3. Made("statsd", a)'
    BY <2>2 DEF Made
  <2>4. SetupInv /\ ~panicked' /\ once' \in BOOLEAN
    BY <1>1 DEF MetricsInv, SetupInv
  <2>5. constLabels' = IF once' THEN ConstLabels \cup {"app", "serverType"} ELSE ConstLabels
    BY <1>1 DEF MetricsInv, SetupInv
  <2>6. SetupInv'
    BY Zenon, <1>1, <2>1, <2>2, <2>3, <2>4, <2>5, ReporterAdded
  <2> QED  BY <1>1, <2>2, <2>6, SetupKeeps
<1>3. CASE UNCHANGED <<reporters, defaultTags>>
  <2>1. SetupInv'
    BY <1>1, <1>3 DEF MetricsInv, SetupInv, Made
  <2> QED  BY <1>1, <1>3, <2>1, SetupKeeps
<1> QED  BY <1>2, <1>3 DEF addDefaultStatsd

\* Where an entry of a todo list takes its reporter and its report from.
LEMMA IndexBounds ==
  ASSUME NEW n \in 1..3, NEW k \in Nat, NEW j \in 1..(n * k)
  PROVE  ((j - 1) \div n) + 1 \in 1..k /\ ((j - 1) % n) + 1 \in 1..n
<1>1. CASE n = 1  BY <1>1
<1>2. CASE n = 2  BY <1>2
<1>3. CASE n = 3  BY <1>3
<1> QED  BY <1>1, <1>2, <1>3

\* A goroutine that starts reports of declared metrics has a list of them for reporters
\* that have been made.
LEMMA StartKeeps ==
  ASSUME MetricsInv, NEW g \in Goroutines, NEW a \in Apps, NEW ctx,
         DOMAIN tagsFromContext(ctx) \subseteq DOMAIN AdditionalLabels,
         NEW shared \in BOOLEAN, NEW items, Len(items) \in 1..3, shared => Len(items) = 1,
         \A i \in 1..Len(items) : ReportFits(items[i], ctx),
         Start(g, a, ctx, shared, items)
  PROVE  MetricsInv'
<1> DEFINE n == Len(items)
           k == Len(reporters[a])
           entry(j) == Entry(reporters[a][((j - 1) \div n) + 1], a, items[((j - 1) % n) + 1])
           todo == [j \in 1..(n * k) |-> entry(j)]
           new == [ctx |-> ctx, shared |-> shared, todo |-> todo]
<1>1. job' = [job EXCEPT ![g] = new] /\ UNCHANGED <<setupVars, sample, panicked>>
  BY DEF Start
<1>2. /\ SetupInv /\ k \in Nat /\ \A i \in 1..k : Made(reporters[a][i], a)
      /\ job = [h \in Goroutines |-> job[h]]
  BY LenOf DEF MetricsInv, SetupInv
<1>3. n \in 1..3 /\ n * k \in Nat
  BY <1>2
<1>4. IsSeq(todo) /\ Len(todo) = n * k
  <2> HIDE DEF entry
  <2>1. todo = [j \in 1..(n * k) |-> todo[j]]
    OBVIOUS
  <2> HIDE DEF todo
  <2> QED  BY <1>3, <2>1, SeqOf
<1>5. ASSUME NEW j \in 1..Len(todo)
      PROVE  LET x == todo[j] IN
             /\ x = Entry(x.to, x.app, x)
             /\ Made(x.to, x.app) /\ ReportFits(x, ctx)
             /\ \E i \in 1..n : x.kind = items[i].kind /\ x.name = items[i].name
  <2> DEFINE p == ((j - 1) \div n) + 1
             i == ((j - 1) % n) + 1
  <2>1. p \in 1..k /\ i \in 1..n
    BY Zenon, <1>2, <1>3, <1>4, IndexBounds
  <2>2. todo[j] = Entry(reporters[a][p], a, items[i])
    BY <1>4
  <2> HIDE DEF p, i, todo
  <2>3. Made(reporters[a][p], a) /\ ReportFits(items[i], ctx)
    BY <1>2, <2>1
  <2> QED  BY <2>1, <2>2, <2>3 DEF Entry, ReportFits
<1> HIDE DEF todo
<1>6. ASSUME NEW i \in 1..Len(todo), NEW j \in 1..Len(todo), shared
      PROVE  todo[i].kind = todo[j].kind /\ todo[i].name = todo[j].name
  <2>1. n = 1
    BY <1>6
  <2> QED  BY <1>5, <2>1
<1>7. JobFits(new)
  BY <1>4, <1>5, <1>6 DEF JobFits
<1> HIDE DEF new
<1>8. /\ job' = [h \in Goroutines |-> job'[h]]
      /\ \A h \in Goroutines : job'[h] = IF h = g THEN new ELSE job[h]
  BY <1>1, <1>2
<1>9. \A h \in Goroutines : JobFits(job'[h])
  BY <1>7, <1>8 DEF MetricsInv
<1>10. SetupInv'
  BY <1>1, <1>2 DEF SetupInv, Made, setupVars
<1>11. \A h \in Goroutines : JobFits(job[h])'
  <2>1. ASSUME NEW j, JobFits(j)  PROVE  JobFits(j)'
    BY Zenon, <1>1, <2>1 DEF JobFits, Made, setupVars
  <2> QED  BY <1>9, <2>1
<1>12. \A h \in Goroutines : \A i \in DOMAIN sample[h] : SampleFits(sample[h][i])
  BY DEF MetricsInv
<1>13. (\A h \in Goroutines : \A i \in DOMAIN sample[h] : SampleFits(sample[h][i]))'
  <2>1. ASSUME NEW s, SampleFits(s)  PROVE  SampleFits(s)'
    BY Zenon, <1>1, <2>1 DEF SampleFits, setupVars
  <2> QED  BY <1>1, <1>12, <2>1
<1>14. (sample = [h \in Goroutines |-> sample[h]])'
  BY <1>1 DEF MetricsInv
<1> QED  BY <1>8, <1>10, <1>11, <1>13, <1>14 DEF MetricsInv

\* The contexts that go with reports.
LEMMA ContextFits ==
  /\ DOMAIN tagsFromContext(NoContext) = {}
  /\ \A ctx \in Contexts : DOMAIN tagsFromContext(ctx) \subseteq DOMAIN AdditionalLabels
BY MetricsAssumption DEF tagsFromContext, NoContext

\* A report of metric m with the labels of m and, where it is made for a call, the tags
\* of the context.
LEMMA OwnFits ==
  ASSUME NEW m \in Reported, NEW ctx,
         DOMAIN tagsFromContext(ctx) \subseteq DOMAIN AdditionalLabels
  PROVE  ReportFits(Report(m.kind, m.name, getTags(ctx, Own(m.labels))), ctx)
<1>1. m.labels \cap DOMAIN AdditionalLabels = {}
  BY ConfigurationAssumption DEF Reported
<1> DEFINE own == tagsFromContext(ctx)
           tags == getTags(ctx, Own(m.labels))
<1>2. /\ DOMAIN tags = DOMAIN own \cup m.labels
      /\ \A l \in DOMAIN own : tags[l] = own[l]
  BY DEF getTags, Own, Over
<1> HIDE DEF tags
<1>3. TagsFit(tags, m, ctx)
  BY <1>1, <1>2 DEF TagsFit
<1> QED  BY <1>3 DEF ReportFits, Report, tags

\* One that is not made for a call.
LEMMA PlainFits ==
  ASSUME NEW m \in Reported, NEW tags, DOMAIN tags = m.labels
  PROVE  ReportFits(Report(m.kind, m.name, tags), NoContext)
<1>1. m.labels \cap DOMAIN AdditionalLabels = {}
  BY ConfigurationAssumption DEF Reported
<1>2. TagsFit(tags, m, NoContext)
  BY <1>1, ContextFits DEF TagsFit
<1> QED  BY <1>2 DEF ReportFits, Report

\* The metrics of the framework that are reported.
LEMMA FrameworkReports ==
  /\ Metric("summary", "handler", ResponseTime, {"route", "status", "type", "code"}) \in Reported
  /\ Metric("summary", "handler", ProcessDelay, {"route", "type"}) \in Reported
  /\ Metric("gauge", "acceptor", ConnectedClients, {}) \in Reported
  /\ Metric("gauge", "sys", NumGoroutines, {}) \in Reported
  /\ Metric("gauge", "sys", HeapSize, {}) \in Reported
  /\ Metric("gauge", "sys", HeapObjects, {}) \in Reported
  /\ Metric("gauge", "rpc_server", DroppedMessages, {}) \in Reported
  /\ Metric("gauge", "channel", ChannelCapacity, {"channel"}) \in Reported
  /\ Metric("count", "acceptor", ExceededRateLimiting, {}) \in Reported
BY Zenon DEF Reported, Builtin, Metric

\* A report without a context and without tags.
LEMMA BareFits ==
  ASSUME NEW kind, NEW subsystem, NEW name, Metric(kind, subsystem, name, {}) \in Reported
  PROVE  ReportFits(Report(kind, name, <<>>), NoContext)
<1> DEFINE m == Metric(kind, subsystem, name, {})
<1>1. m.kind = kind /\ m.name = name /\ m.labels = {}
  BY DEF Metric
<1>2. DOMAIN <<>> = {}
  OBVIOUS
<1> HIDE DEF m
<1> QED  BY Zenon, <1>1, <1>2, PlainFits DEF m

\* A report for a call.
LEMMA CallFits ==
  ASSUME NEW kind, NEW subsystem, NEW name, NEW labels, NEW ctx \in Contexts,
         Metric(kind, subsystem, name, labels) \in Reported
  PROVE  ReportFits(Report(kind, name, getTags(ctx, Own(labels))), ctx)
<1> DEFINE m == Metric(kind, subsystem, name, labels)
<1>1. m.kind = kind /\ m.name = name /\ m.labels = labels
  BY DEF Metric
<1>2. DOMAIN tagsFromContext(ctx) \subseteq DOMAIN AdditionalLabels
  BY ContextFits
<1>3. ReportFits(Report(m.kind, m.name, getTags(ctx, Own(m.labels))), ctx)
  BY <1>2, OwnFits
<1> QED  BY <1>1, <1>3

\* Each of the framework's reports, and those of the application.
LEMMA CallReports ==
  ASSUME MetricsInv, NEW g \in Goroutines, NEW a \in Apps, NEW ctx \in Contexts,
         ReportTimingFromCtx(g, a, ctx) \/ ReportMessageProcessDelayFromCtx(g, a, ctx)
  PROVE  MetricsInv'
<1> DEFINE timing == Report("summary", ResponseTime,
                       getTags(ctx, Own({"route", "status", "type", "code"})))
           delay == Report("summary", ProcessDelay, getTags(ctx, Own({"route", "type"})))
<1>1. ReportFits(timing, ctx) /\ ReportFits(delay, ctx)
  BY FrameworkReports, CallFits
<1>2. DOMAIN tagsFromContext(ctx) \subseteq DOMAIN AdditionalLabels
  BY ContextFits
<1>3. ASSUME NEW x, ReportFits(x, ctx), Start(g, a, ctx, TRUE, <<x>>)  PROVE  MetricsInv'
  <2> DEFINE items == <<x>>
  <2>1. Len(items) = 1 /\ \A i \in 1..Len(items) : ReportFits(items[i], ctx)
    BY <1>3
  <2>2. Start(g, a, ctx, TRUE, items)
    BY Zenon, <1>3
  <2> HIDE DEF items
  <2>3. Len(items) \in 1..3 /\ TRUE \in BOOLEAN
    BY <2>1
  <2> QED  BY Zenon, <1>2, <2>1, <2>2, <2>3, StartKeeps
<1> QED  BY Zenon, <1>1, <1>3 DEF ReportTimingFromCtx, ReportMessageProcessDelayFromCtx

\* The same for the reports that no call goes with.
LEMMA OtherReports ==
  ASSUME MetricsInv, NEW g \in Goroutines, NEW a \in Apps,
         \/ ReportNumberOfConnectedClients(g, a) \/ ReportSysMetrics(g, a)
         \/ reportMetrics(g, a) \/ ReportExceededRateLimiting(g, a) \/ ReportCustom(g, a)
  PROVE  MetricsInv'
<1>1. DOMAIN tagsFromContext(NoContext) \subseteq DOMAIN AdditionalLabels
  BY ContextFits
<1>2. ASSUME NEW items, Len(items) \in 1..3, \A i \in 1..Len(items) : ReportFits(items[i], NoContext),
             Start(g, a, NoContext, FALSE, items)
      PROVE  MetricsInv'
  BY Zenon, <1>1, <1>2, StartKeeps
<1>3. ASSUME NEW x, ReportFits(x, NoContext), Start(g, a, NoContext, FALSE, <<x>>)
      PROVE  MetricsInv'
  <2> DEFINE items == <<x>>
  <2>1. Len(items) \in 1..3 /\ \A i \in 1..Len(items) : ReportFits(items[i], NoContext)
    BY <1>3
  <2>2. Start(g, a, NoContext, FALSE, items)
    BY Zenon, <1>3
  <2> HIDE DEF items
  <2> QED  BY Zenon, <1>2, <2>1, <2>2
<1>4. CASE ReportNumberOfConnectedClients(g, a)
  <2>1. ReportFits(Report("gauge", ConnectedClients, <<>>), NoContext)
    BY FrameworkReports, BareFits
  <2> QED  BY Zenon, <1>3, <1>4, <2>1 DEF ReportNumberOfConnectedClients
<1>5. CASE ReportSysMetrics(g, a)
  <2> DEFINE x == Report("gauge", NumGoroutines, <<>>)
             y == Report("gauge", HeapSize, <<>>)
             z == Report("gauge", HeapObjects, <<>>)
             items == <<x, y, z>>
  <2>1. ReportFits(x, NoContext) /\ ReportFits(y, NoContext) /\ ReportFits(z, NoContext)
    BY FrameworkReports, BareFits
  <2>2. Start(g, a, NoContext, FALSE, items)
    BY Zenon, <1>5 DEF ReportSysMetrics
  <2> HIDE DEF x, y, z
  <2>3. Len(items) \in 1..3 /\ \A i \in 1..Len(items) : ReportFits(items[i], NoContext)
    BY <2>1
  <2> HIDE DEF items
  <2> QED  BY Zenon, <1>2, <2>2, <2>3
<1>6. CASE reportMetrics(g, a)
  <2> DEFINE x == Report("gauge", DroppedMessages, <<>>)
             y == Report("gauge", ChannelCapacity, Own({"channel"}))
             m == Metric("gauge", "channel", ChannelCapacity, {"channel"})
             items == <<x, y>>
  <2>1. ReportFits(x, NoContext)
    BY FrameworkReports, BareFits
  <2>2. m \in Reported /\ m.kind = "gauge" /\ m.name = ChannelCapacity /\ DOMAIN Own({"channel"}) = m.labels
    BY FrameworkReports DEF Metric, Own
  <2>3. ReportFits(Report(m.kind, m.name, Own({"channel"})), NoContext)
    BY <2>2, PlainFits
  <2>4. ReportFits(y, NoContext)
    BY <2>2, <2>3
  <2>5. Start(g, a, NoContext, FALSE, items)
    BY Zenon, <1>6 DEF reportMetrics
  <2> HIDE DEF x, y
  <2>6. Len(items) \in 1..3 /\ \A i \in 1..Len(items) : ReportFits(items[i], NoContext)
    BY <2>1, <2>4
  <2> HIDE DEF items
  <2> QED  BY Zenon, <1>2, <2>5, <2>6
<1>7. CASE ReportExceededRateLimiting(g, a)
  <2>1. ReportFits(Report("count", ExceededRateLimiting, <<>>), NoContext)
    BY FrameworkReports, BareFits
  <2> QED  BY Zenon, <1>3, <1>7, <2>1 DEF ReportExceededRateLimiting
<1>8. CASE ReportCustom(g, a)
  <2>1. PICK m \in Custom : Start(g, a, NoContext, FALSE, <<Report(m.kind, m.name, Own(m.labels))>>)
    BY Zenon, <1>8 DEF ReportCustom
  <2>2. m \in Reported /\ DOMAIN Own(m.labels) = m.labels
    BY DEF Reported, Own
  <2>3. ReportFits(Report(m.kind, m.name, Own(m.labels)), NoContext)
    BY <2>2, PlainFits
  <2> QED  BY Zenon, <1>3, <2>1, <2>3
<1> QED  BY <1>4, <1>5, <1>6, <1>7, <1>8

\* A report that fits is taken, and leaves tags that fit: the reporter knows the metric
\* and finds its labels.
LEMMA ReportTaken ==
  ASSUME SetupInv, NEW x, NEW ctx, Made(x.to, x.app), NEW m \in Reported,
         x.kind = m.kind, x.name = m.name, TagsFit(x.tags, m, ctx),
         NEW r, r = IF x.to = "prometheus" THEN prometheusReport(x) ELSE statsdReport(x)
  PROVE  /\ TagsFit(r.tags, m, ctx) /\ "serverType" \in r.sent
         /\ r.outcome = IF x.to = "statsd" /\ x.kind = "histogram" THEN "not implemented" ELSE "ok"
         /\ x.to = "prometheus" => DOMAIN AdditionalLabels \subseteq DOMAIN r.tags
<1>1. CASE x.to = "statsd"
  <2>1. /\ r.tags = x.tags /\ r.sent = defaultTags[x.app]
        /\ r.outcome = IF x.kind = "histogram" THEN "not implemented" ELSE "ok"
    BY Zenon, <1>1 DEF statsdReport, Result
  <2> QED  BY Zenon, <1>1, <2>1 DEF Made
<1>2. CASE x.to = "prometheus"
  <2> DEFINE tags == ensureLabels(x.tags)
  <2>1. /\ DOMAIN tags = DOMAIN x.tags \cup DOMAIN AdditionalLabels
        /\ \A l \in DOMAIN tags :
             tags[l] = IF l \in DOMAIN x.tags THEN x.tags[l] ELSE AdditionalLabels[l]
    BY DEF ensureLabels, Over
  <2> HIDE DEF tags
  <2>2. DOMAIN tags = m.labels \cup DOMAIN AdditionalLabels
    BY <2>1 DEF TagsFit
  <2>3. TagsFit(tags, m, ctx)
    BY <2>1, <2>2 DEF TagsFit
  <2>4. known = Collectors
    BY <1>2 DEF known, Made
  <2>5. /\ Named(known, x) # {}
        /\ \A c \in Named(known, x) : c.labels = DOMAIN tags
    BY <2>2, <2>4, CollectorOf
  <2>6. r = Result(tags, constLabels, "ok")
    BY Zenon, <1>2, <2>5 DEF prometheusReport, tags
  <2>7. "serverType" \in constLabels
    BY <1>2 DEF SetupInv, Made
  <2> QED  BY <1>2, <2>1, <2>3, <2>6, <2>7 DEF Result
<1> QED  BY Zenon, <1>1, <1>2 DEF Made

\* A goroutine makes its next report.
LEMMA ReportStep ==
  ASSUME MetricsInv, NEW g \in Goroutines, ReportNext(g)
  PROVE  MetricsInv'
<1> DEFINE j == job[g]
           x == Head(j.todo)
           rest == Tail(j.todo)
           r == IF x.to = "prometheus" THEN prometheusReport(x) ELSE statsdReport(x)
           left == IF j.shared
                     THEN [i \in DOMAIN rest |-> [rest[i] EXCEPT !.tags = r.tags]] ELSE rest
           new == [ctx |-> j.ctx, shared |-> j.shared, todo |-> left]
           s == [to |-> x.to, kind |-> x.kind, name |-> x.name, tags |-> r.tags,
                 sent |-> r.sent, outcome |-> r.outcome, ctx |-> j.ctx]
<1>1. /\ j.todo # <<>> /\ UNCHANGED setupVars
      /\ sample' = [sample EXCEPT ![g] = <<s>>] /\ job' = [job EXCEPT ![g].todo = left]
      /\ panicked' = (r.outcome = "panic")
  BY Zenon DEF ReportNext
<1>2. SetupInv /\ JobFits(j)
  BY DEF MetricsInv
<1>3. /\ IsSeq(rest) /\ Len(rest) = Len(j.todo) - 1 /\ Len(j.todo) \in Nat \ {0}
      /\ DOMAIN rest = 1..Len(rest)
      /\ x = j.todo[1] /\ \A i \in 1..Len(rest) : rest[i] = j.todo[i + 1]
  BY Zenon, <1>1, <1>2, TailSeq DEF JobFits
<1>4. 1 \in 1..Len(j.todo) /\ \A i \in 1..Len(rest) : i + 1 \in 1..Len(j.todo)
  BY <1>3
<1>5. Made(x.to, x.app) /\ ReportFits(x, j.ctx)
  BY Zenon, <1>2, <1>3, <1>4 DEF JobFits
<1>6. PICK m \in Reported : x.kind = m.kind /\ x.name = m.name /\ TagsFit(x.tags, m, j.ctx)
  BY <1>5 DEF ReportFits
<1>7. /\ TagsFit(r.tags, m, j.ctx) /\ "serverType" \in r.sent
      /\ r.outcome = IF x.to = "statsd" /\ x.kind = "histogram" THEN "not implemented" ELSE "ok"
      /\ x.to = "prometheus" => DOMAIN AdditionalLabels \subseteq DOMAIN r.tags
  BY Zenon, <1>2, <1>5, <1>6, ReportTaken
<1>8. DOMAIN tagsFromContext(j.ctx) \subseteq DOMAIN AdditionalLabels
  BY Zenon, <1>2 DEF JobFits
<1>9. SampleFits(s)
  <2> HIDE DEF r, x, j
  <2>1. \A l \in DOMAIN tagsFromContext(j.ctx) :
          l \in DOMAIN r.tags /\ r.tags[l] = tagsFromContext(j.ctx)[l]
    BY Zenon, <1>7, <1>8 DEF TagsFit
  <2>2. ASSUME x.to = "prometheus", NEW l \in DOMAIN AdditionalLabels
        PROVE  r.tags[l] = Over(tagsFromContext(j.ctx), AdditionalLabels)[l]
    BY <1>7, <2>2 DEF TagsFit, Over
  <2>3. x.to \in {"prometheus", "statsd"} /\ (x.to = "prometheus" => once)
    BY <1>5 DEF Made
  <2> QED  BY Zenon, <1>6, <1>7, <2>1, <2>2, <2>3 DEF SampleFits
<1>10. JobFits(new)
  <2> HIDE DEF r, x, j
  <2>1. ASSUME NEW i \in 1..Len(rest)
        PROVE  /\ rest[i] = Entry(rest[i].to, rest[i].app, rest[i])
               /\ Made(rest[i].to, rest[i].app) /\ ReportFits(rest[i], j.ctx)
               /\ j.shared => rest[i].kind = x.kind /\ rest[i].name = x.name
    BY <1>2, <1>3, <1>4 DEF JobFits
  <2>2. CASE ~j.shared
    <3>1. left = rest
      BY <2>2
    <3> HIDE DEF rest, left
    <3> QED  BY Zenon, <1>3, <1>8, <2>1, <2>2, <3>1 DEF JobFits
  <2>3. CASE j.shared
    <3>1. left = [i \in 1..Len(rest) |-> [rest[i] EXCEPT !.tags = r.tags]]
      BY <1>3, <2>3
    <3> HIDE DEF rest, left
    <3>2. IsSeq(left) /\ Len(left) = Len(rest)
      <4>1. left = [i \in 1..Len(rest) |-> left[i]] /\ Len(rest) \in Nat
        BY <1>3, <3>1
      <4> QED  BY <4>1, SeqOf
    <3>3. ASSUME NEW i \in 1..Len(rest)
          PROVE  LET y == left[i] IN
                 /\ y = Entry(y.to, y.app, y) /\ y.to = rest[i].to /\ y.app = rest[i].app
                 /\ y.kind = x.kind /\ y.name = x.name /\ y.tags = r.tags
      <4>1. left[i] = [rest[i] EXCEPT !.tags = r.tags]
        BY <3>1
      <4>2. rest[i] = Entry(rest[i].to, rest[i].app, rest[i])
        BY Zenon, <2>1
      <4> QED  BY <2>1, <2>3, <4>1, <4>2 DEF Entry
    <3>4. ASSUME NEW i \in 1..Len(rest)
          PROVE  Made(left[i].to, left[i].app) /\ ReportFits(left[i], j.ctx)
      BY Zenon, <1>6, <1>7, <2>1, <3>3 DEF ReportFits
    <3>5. ASSUME NEW i \in 1..Len(rest), NEW k \in 1..Len(rest)
          PROVE  left[i].kind = left[k].kind /\ left[i].name = left[k].name
      BY <3>3
    <3>6. ASSUME NEW i \in 1..Len(rest)
          PROVE  left[i] = Entry(left[i].to, left[i].app, left[i])
      BY <3>3
    <3>7. /\ new.ctx = j.ctx /\ new.shared = j.shared /\ new.todo = left
          /\ new = [ctx |-> new.ctx, shared |-> new.shared, todo |-> new.todo]
      OBVIOUS
    <3> HIDE DEF new
    <3> QED  BY <1>8, <3>2, <3>4, <3>5, <3>6, <3>7 DEF JobFits
  <2> QED  BY Zenon, <2>2, <2>3
<1>11. /\ job' = [h \in Goroutines |-> job'[h]]
       /\ \A h \in Goroutines : job'[h] = IF h = g THEN new ELSE job[h]
  <2>1. job = [h \in Goroutines |-> job[h]] /\ j = [ctx |-> j.ctx, shared |-> j.shared, todo |-> j.todo]
    BY <1>2 DEF MetricsInv, JobFits
  <2>2. [j EXCEPT !.todo = left] = new
    <3> HIDE DEF left
    <3> QED  BY <2>1
  <2> HIDE DEF left, new
  <2> QED  BY Zenon, <1>1, <2>1, <2>2
<1>12. /\ sample' = [h \in Goroutines |-> sample'[h]]
       /\ \A h \in Goroutines : sample'[h] = IF h = g THEN <<s>> ELSE sample[h]
  BY Zenon, <1>1 DEF MetricsInv
<1> HIDE DEF new, s
<1>13. \A h \in Goroutines : JobFits(job'[h])
  BY <1>10, <1>11 DEF MetricsInv
<1>14. \A h \in Goroutines : \A i \in DOMAIN sample'[h] : SampleFits(sample'[h][i])
  BY <1>9, <1>12 DEF MetricsInv
<1>15. ~panicked' /\ UNCHANGED <<once, constLabels, built, reporters, defaultTags>>
  BY Zenon, <1>1, <1>7 DEF setupVars
<1>16. SetupInv'
  BY <1>2, <1>15 DEF SetupInv, Made
<1>17. \A h \in Goroutines : JobFits(job[h])'
  <2>1. ASSUME NEW i, JobFits(i)  PROVE  JobFits(i)'
    BY Zenon, <1>15, <2>1 DEF JobFits, Made
  <2> QED  BY <1>13, <2>1
<1>18. (\A h \in Goroutines : \A i \in DOMAIN sample[h] : SampleFits(sample[h][i]))'
  <2>1. ASSUME NEW t, SampleFits(t)  PROVE  SampleFits(t)'
    BY Zenon, <1>15, <2>1 DEF SampleFits
  <2> QED  BY <1>14, <2>1
<1> QED  BY <1>11, <1>12, <1>16, <1>17, <1>18 DEF MetricsInv

\* No step of the process disturbs the invariant.
LEMMA MetricsStep == MetricsInv /\ [ReportingNext]_rateVars => MetricsInv'
<1> SUFFICES ASSUME MetricsInv, [ReportingNext]_rateVars  PROVE  MetricsInv'
  OBVIOUS
<1>1. CASE UNCHANGED metricsVars
  <2>1. SetupInv' /\ UNCHANGED <<once, job, sample, defaultTags>>
    BY <1>1 DEF MetricsInv, SetupInv, Made, metricsVars, setupVars
  <2> QED  BY <2>1, SetupKeeps
<1>2. ASSUME NEW a \in Apps, addDefaultPrometheus(a) \/ addDefaultStatsd(a)  PROVE  MetricsInv'
  BY <1>2, PrometheusStep, StatsdStep
<1>3. ASSUME NEW g \in Goroutines, ReportNext(g)  PROVE  MetricsInv'
  BY <1>3, ReportStep
<1>4. CASE MetricsNext
  BY <1>2, <1>3, <1>4, CallReports, OtherReports DEF MetricsNext
<1>5. CASE LimiterNext
  <2>1. App \in Apps /\ Callers \subseteq Goroutines
    BY LimiterAssumption
  <2>2. CASE Tick
    BY <1>1, <2>2 DEF Tick
  <2>3. ASSUME NEW c \in Callers, Limited(c)  PROVE  MetricsInv'
    BY <2>1, <2>3, OtherReports DEF Limited
  <2>4. ASSUME NEW c \in Callers,
               \/ HandleBefore(c) \/ Enter(c) \/ shouldRateLimit(c) \/ shouldRateLimitRaced(c)
               \/ Return(c)
        PROVE  MetricsInv'
    BY <1>1, <2>4 DEF HandleBefore, Enter, shouldRateLimit, Accept, Refuse, shouldRateLimitRaced, Return
  <2>5. CASE Reporters
    BY <1>2, <1>3, <2>1, <2>5 DEF Reporters
  <2> QED  BY <1>5, <2>2, <2>3, <2>4, <2>5 DEF LimiterNext
<1>6. CASE UNCHANGED rateVars
  BY <1>1, <1>6 DEF rateVars
<1> QED  BY <1>4, <1>5, <1>6 DEF ReportingNext

\* Before the first application is built there is no reporter and no report.
LEMMA MetricsStart == MetricsInit => MetricsInv
<1> SUFFICES ASSUME MetricsInit  PROVE  MetricsInv
  OBVIOUS
<1>1. IsSeq(<<>>) /\ Len(<<>>) = 0 /\ DOMAIN <<>> = {}
  BY DEF IsSeq
<1>2. SetupInv
  <2>1. ASSUME NEW a \in Apps
        PROVE  IsSeq(reporters[a]) /\ \A i \in 1..Len(reporters[a]) : Made(reporters[a][i], a)
    <3>1. reporters[a] = <<>>
      BY DEF MetricsInit
    <3> QED  BY <1>1, <3>1
  <2> QED  BY Zenon, <2>1 DEF MetricsInit, SetupInv
<1>3. JobFits([ctx |-> NoContext, shared |-> FALSE, todo |-> <<>>])
  BY <1>1, ContextFits DEF JobFits
<1> QED  BY <1>1, <1>2, <1>3 DEF MetricsInit, MetricsInv

\* However many applications are built, whoever reports and in whatever order the
\* goroutines get to the reporters, every report lands.
THEOREM ReportsAlwaysLand == ReportingSpec => []ReportsLand
<1>1. MetricsInit /\ LimiterInit => MetricsInv
  BY MetricsStart
<1>2. MetricsInv => ReportsLand
  <2> SUFFICES ASSUME MetricsInv  PROVE  ReportsLand
    OBVIOUS
  <2>1. ~panicked
    BY DEF MetricsInv, SetupInv
  <2>2. ASSUME NEW s \in Samples
        PROVE  /\ s.outcome = IF s.to = "statsd" /\ s.kind = "histogram" THEN "not implemented" ELSE "ok"
               /\ s.to = "prometheus" => Named(registered, s) # {}
    <3>1. SampleFits(s)
      BY DEF Samples, MetricsInv
    <3>2. PICK m \in Reported : s.kind = m.kind /\ s.name = m.name
      BY Zenon, <3>1 DEF SampleFits
    <3>3. Named(toRegister, s) # {}
      BY <3>2, CollectorOf
    <3> QED  BY Zenon, <3>1, <3>3 DEF SampleFits, registered
  <2> QED  BY Zenon, <2>1, <2>2 DEF ReportsLand
<1> QED  BY <1>1, <1>2, MetricsStep, PTL DEF ReportingSpec

\* The tags of a call reach every reporter, whichever reporter came before on the map.
THEOREM TagsAlwaysReach == ReportingSpec => []TagsReachReporters
<1>1. MetricsInit /\ LimiterInit => MetricsInv
  BY MetricsStart
<1>2. MetricsInv => TagsReachReporters
  <2> SUFFICES ASSUME MetricsInv, NEW s \in Samples  PROVE  SampleFits(s)
    BY Zenon DEF SampleFits, TagsReachReporters
  <2> QED  BY DEF Samples, MetricsInv
<1> QED  BY <1>1, <1>2, MetricsStep, PTL DEF ReportingSpec

-----------------------------------------------------------------------------
(* The rate limiter *)

Stamp == [element : Nat, value : Nat]

\* The types of what shouldRateLimit works on.
LimiterType ==
  /\ clock \in Nat /\ now \in [Callers -> Nat] /\ raced \in BOOLEAN
  /\ times \in Seq(Stamp) /\ accepted \in Seq(Stamp)

\* The list has at most `limit' elements, and they are different ones.
ListOK ==
  /\ Len(times) <= limit
  /\ \A k \in 1..Len(times) : times[k].element \in 1..Len(times)
  /\ \A k, l \in 1..Len(times) : times[k].element = times[l].element => k = l

\* The element of an accepted request is still in the list, with its time or a later
\* one, and two requests that had the same element are an interval apart.
HistoryOK ==
  /\ \A i \in 1..Len(accepted) : \E k \in 1..Len(times) :
       times[k].element = accepted[i].element /\ accepted[i].value <= times[k].value
  /\ \A i, j \in 1..Len(accepted) :
       i < j /\ accepted[i].element = accepted[j].element =>
         accepted[j].value - accepted[i].value >= interval

LimiterInv ==
  /\ LimiterType
  /\ raced => accepted = <<>>
  /\ ~raced => ListOK /\ HistoryOK

\* Accepting a request with a new element, when the list is not full, keeps the list and
\* the history in order: no accepted request has had that element.
LEMMA AcceptNew ==
  ASSUME LimiterInv, ~raced, NEW c \in Callers, Len(times) < limit,
         Accept(c, times, Len(times) + 1)
  PROVE  LimiterInv'
<1> DEFINE e == [element |-> Len(times) + 1, value |-> now[c]]
<1> USE LimiterAssumption
<1>0. LimiterType /\ ListOK /\ HistoryOK
  BY DEF LimiterInv
<1>1. times \in Seq(Stamp) /\ accepted \in Seq(Stamp) /\ now[c] \in Nat /\ e \in Stamp
  BY <1>0 DEF LimiterType, Stamp
<1>2. times' = Append(times, e) /\ accepted' = Append(accepted, e) /\ raced' = raced
      /\ clock' = clock /\ now' = [now EXCEPT ![c] = 0]
  BY DEF Accept
<1>3. /\ Len(times') = Len(times) + 1 /\ times'[Len(times) + 1] = e
      /\ \A k \in 1..Len(times) : times'[k] = times[k]
      /\ Len(times) \in Nat
  BY <1>1, <1>2
<1>4. /\ Len(accepted') = Len(accepted) + 1 /\ accepted'[Len(accepted) + 1] = e
      /\ \A i \in 1..Len(accepted) : accepted'[i] = accepted[i]
      /\ Len(accepted) \in Nat
  BY <1>1, <1>2
<1>5. LimiterType'
  BY <1>0, <1>1, <1>2 DEF LimiterType
<1>6. ListOK'
  <2>1. /\ \A k \in 1..Len(times') : k \in 1..Len(times) \/ k = Len(times) + 1
        /\ Len(times') <= limit /\ Len(times) + 1 \notin 1..Len(times)
        /\ \A m \in 1..Len(times) : m \in 1..Len(times')
        /\ Len(times) + 1 \in 1..Len(times')
    BY <1>3
  <2>2. times'[Len(times) + 1].element = Len(times) + 1
    BY <1>3
  <2>3. \A k \in 1..Len(times) : times'[k].element = times[k].element /\ times[k].element \in 1..Len(times)
    BY Zenon, <1>0, <1>3 DEF ListOK
  <2>4. \A k \in 1..Len(times') : times'[k].element \in 1..Len(times')
    BY Zenon, <2>1, <2>2, <2>3
  <2>5. ASSUME NEW k \in 1..Len(times'), NEW l \in 1..Len(times'), times'[k].element = times'[l].element
        PROVE  k = l
    <3>1. CASE k = Len(times) + 1 \/ l = Len(times) + 1
      BY Zenon, <2>1, <2>2, <2>3, <2>5, <3>1
    <3>2. CASE k \in 1..Len(times) /\ l \in 1..Len(times)
      <4>1. times[k].element = times[l].element
        BY Zenon, <2>3, <2>5, <3>2
      <4> QED BY Zenon, <1>0, <3>2, <4>1 DEF ListOK
    <3> QED BY Zenon, <2>1, <3>1, <3>2
  <2> QED BY Zenon, <2>1, <2>4, <2>5 DEF ListOK
<1>7. \A i \in 1..Len(accepted) : accepted[i].element # Len(times) + 1
  BY <1>0, <1>3 DEF ListOK, HistoryOK
<1>8. HistoryOK'
  <2>1. ASSUME NEW i \in 1..Len(accepted')
        PROVE  \E k \in 1..Len(times') : times'[k].element = accepted'[i].element
                                         /\ accepted'[i].value <= times'[k].value
    <3>1. CASE i = Len(accepted) + 1
      <4>1. accepted'[i] = times'[Len(times) + 1] /\ Len(times) + 1 \in 1..Len(times')
        BY <3>1, <1>3, <1>4
      <4>2. accepted'[i].value \in Nat
        BY <3>1, <1>1, <1>4
      <4> QED BY <4>1, <4>2
    <3>2. CASE i \in 1..Len(accepted)
      <4>1. PICK k \in 1..Len(times) :
              times[k].element = accepted[i].element /\ accepted[i].value <= times[k].value
        BY Zenon, <1>0, <3>2 DEF HistoryOK
      <4>2. k \in 1..Len(times')
        BY <1>3
      <4>3. times'[k] = times[k] /\ accepted'[i] = accepted[i]
        BY <1>3, <1>4, <3>2
      <4> QED BY Zenon, <4>1, <4>2, <4>3
    <3> QED BY <3>1, <3>2, <1>4
  <2>2. ASSUME NEW i \in 1..Len(accepted'), NEW j \in 1..Len(accepted'), i < j,
               accepted'[i].element = accepted'[j].element
        PROVE  accepted'[j].value - accepted'[i].value >= interval
    <3>1. i \in 1..Len(accepted)
      BY <2>2, <1>4
    <3>2. j # Len(accepted) + 1
      BY <2>2, <3>1, <1>4, <1>7
    <3>3. j \in 1..Len(accepted)
      BY <3>2, <1>4
    <3> QED BY Zenon, <1>0, <2>2, <3>1, <3>3, <1>4 DEF HistoryOK
  <2> QED BY Zenon, <2>1, <2>2 DEF HistoryOK
<1> QED BY <1>2, <1>5, <1>6, <1>8 DEF LimiterInv

\* Accepting a request with the element at the front, whose time is an interval back,
\* keeps them in order: the earlier requests with that element are at least as far back.
LEMMA AcceptFront ==
  ASSUME LimiterInv, ~raced, NEW c \in Callers, Len(times) >= limit, ~Exceeds(c),
         Accept(c, Tail(times), Head(times).element)
  PROVE  LimiterInv'
<1> DEFINE e == [element |-> Head(times).element, value |-> now[c]]
           n == Len(times)
<1> USE LimiterAssumption
<1>0. LimiterType /\ ListOK /\ HistoryOK
  BY DEF LimiterInv
<1>1. /\ times \in Seq(Stamp) /\ accepted \in Seq(Stamp) /\ now[c] \in Nat
      /\ n \in Nat /\ n = limit /\ n >= 1
  BY <1>0 DEF LimiterType, ListOK
<1>2. Head(times) = times[1] /\ times[1] \in Stamp /\ e \in Stamp /\ Tail(times) \in Seq(Stamp)
  <2>1. Head(times) = times[1] /\ times[1] \in Stamp /\ Tail(times) \in Seq(Stamp)
    BY <1>1
  <2> QED BY <2>1, <1>1 DEF Stamp
<1>3. times' = Append(Tail(times), e) /\ accepted' = Append(accepted, e) /\ raced' = raced
      /\ clock' = clock /\ now' = [now EXCEPT ![c] = 0]
  BY DEF Accept
<1>4. /\ Len(times') = n /\ times'[n] = e
      /\ \A k \in 1..(n - 1) : times'[k] = times[k + 1]
  BY <1>1, <1>2, <1>3
<1>5. /\ Len(accepted') = Len(accepted) + 1 /\ accepted'[Len(accepted) + 1] = e
      /\ \A i \in 1..Len(accepted) : accepted'[i] = accepted[i]
      /\ Len(accepted) \in Nat
  BY <1>1, <1>2, <1>3
<1>6. now[c] - times[1].value >= interval /\ times[1].value \in Nat
  BY <1>1, <1>2 DEF Exceeds, Stamp
<1>7. LimiterType'
  BY <1>0, <1>1, <1>2, <1>3 DEF LimiterType
<1>8. ListOK'
  <2>1. \A k \in 1..n : times'[k].element = times[IF k = n THEN 1 ELSE k + 1].element
    BY <1>1, <1>2, <1>4
  <2> DEFINE old(k) == IF k = n THEN 1 ELSE k + 1
  <2>2. \A k \in 1..n : old(k) \in 1..n /\ \A l \in 1..n : old(k) = old(l) => k = l
    BY <1>1
  <2>3. \A k \in 1..n : times'[k].element = times[old(k)].element
    BY Zenon, <2>1
  <2> HIDE DEF old
  <2>4. \A k \in 1..n : times'[k].element \in 1..n
    BY Zenon, <1>0, <2>2, <2>3 DEF ListOK
  <2>5. ASSUME NEW k \in 1..n, NEW l \in 1..n, times'[k].element = times'[l].element PROVE k = l
    <3>1. times[old(k)].element = times[old(l)].element
      BY Zenon, <2>3, <2>5
    <3>2. old(k) = old(l)
      BY Zenon, <1>0, <2>2, <3>1 DEF ListOK
    <3> QED BY Zenon, <2>2, <3>2
  <2>6. n <= limit
    BY Zenon, <1>0 DEF ListOK
  <2> QED BY Zenon, <1>4, <2>4, <2>5, <2>6 DEF ListOK
<1>9. \A i \in 1..Len(accepted) : accepted[i] \in Stamp
  BY <1>1
<1>10. \A i \in 1..Len(accepted) :
         accepted[i].element = e.element => accepted[i].value <= times[1].value
  BY <1>0, <1>1, <1>2 DEF ListOK, HistoryOK
<1>11. HistoryOK'
  <2>1. ASSUME NEW i \in 1..Len(accepted')
        PROVE  \E k \in 1..Len(times') : times'[k].element = accepted'[i].element
                                         /\ accepted'[i].value <= times'[k].value
    <3>1. CASE i = Len(accepted) + 1
      <4>1. accepted'[i] = times'[n] /\ n \in 1..Len(times')
        BY <3>1, <1>1, <1>4, <1>5
      <4>2. accepted'[i].value = now[c]
        BY <3>1, <1>5
      <4>3. accepted'[i].value <= times'[n].value
        BY <1>1, <4>1, <4>2
      <4> QED BY Zenon, <4>1, <4>3
    <3>2. CASE i \in 1..Len(accepted) /\ accepted[i].element = e.element
      <4>1. accepted[i].value <= now[c]
        <5>1. accepted[i].value \in Nat /\ accepted[i].value <= times[1].value
          BY Zenon, <3>2, <1>9, <1>10 DEF Stamp
        <5> QED BY <5>1, <1>1, <1>6
      <4> QED BY <3>2, <4>1, <1>1, <1>4, <1>5
    <3>3. CASE i \in 1..Len(accepted) /\ accepted[i].element # e.element
      <4>1. PICK k \in 1..n :
              times[k].element = accepted[i].element /\ accepted[i].value <= times[k].value
        BY <1>0, <3>3 DEF HistoryOK
      <4>2. k # 1
        BY <4>1, <3>3, <1>2
      <4>3. k - 1 \in 1..(n - 1) /\ times'[k - 1] = times[k]
        <5>1. k - 1 \in 1..(n - 1) /\ (k - 1) + 1 = k
          BY <4>2, <1>1
        <5> QED BY Zenon, <1>4, <5>1
      <4>4. k - 1 \in 1..Len(times') /\ accepted'[i] = accepted[i]
        BY <4>3, <3>3, <1>1, <1>4, <1>5
      <4> QED BY Zenon, <4>1, <4>3, <4>4
    <3> QED BY <3>1, <3>2, <3>3, <1>5
  <2>2. ASSUME NEW i \in 1..Len(accepted'), NEW j \in 1..Len(accepted'), i < j,
               accepted'[i].element = accepted'[j].element
        PROVE  accepted'[j].value - accepted'[i].value >= interval
    <3>1. i \in 1..Len(accepted)
      BY <2>2, <1>5
    <3>2. CASE j = Len(accepted) + 1
      <4>1. accepted[i].value <= times[1].value /\ accepted[i].value \in Nat
        BY <2>2, <3>1, <3>2, <1>5, <1>9, <1>10 DEF Stamp
      <4> QED BY <4>1, <3>1, <3>2, <1>1, <1>5, <1>6
    <3>3. CASE j \in 1..Len(accepted)
      <4>1. accepted'[i] = accepted[i] /\ accepted'[j] = accepted[j]
        BY Zenon, <3>1, <3>3, <1>5
      <4>2. accepted[i].element = accepted[j].element
        BY Zenon, <2>2, <4>1
      <4>3. accepted[j].value - accepted[i].value >= interval
        BY Zenon, <1>0, <2>2, <3>1, <3>3, <4>2 DEF HistoryOK
      <4> QED BY Zenon, <4>1, <4>3
    <3>4. j = Len(accepted) + 1 \/ j \in 1..Len(accepted)
      <4>1. j \in 1..(Len(accepted) + 1)
        BY Zenon, <1>5
      <4> QED BY <1>5, <4>1
    <3> QED BY Zenon, <3>2, <3>3, <3>4
  <2> QED BY Zenon, <2>1, <2>2 DEF HistoryOK
<1> QED BY <1>3, <1>7, <1>8, <1>11 DEF LimiterInv

\* Steps that leave the list and the history of it alone.
LEMMA TimesKept ==
  ASSUME LimiterInv, UNCHANGED <<times, accepted, raced>>, clock' \in Nat, now' \in [Callers -> Nat]
  PROVE  LimiterInv'
<1>1. times' = times /\ accepted' = accepted /\ raced' = raced
  OBVIOUS
<1>2. LimiterType'
  BY <1>1 DEF LimiterInv, LimiterType
<1>3. (ListOK' <=> ListOK) /\ (HistoryOK' <=> HistoryOK)
  BY Zenon, <1>1 DEF ListOK, HistoryOK
<1> QED BY <1>1, <1>2, <1>3 DEF LimiterInv

\* Every step keeps the invariant.
LEMMA LimiterStep == LimiterInv /\ [LimiterNext]_rateVars => LimiterInv'
<1> SUFFICES ASSUME LimiterInv, [LimiterNext]_rateVars PROVE LimiterInv'
  OBVIOUS
<1> USE LimiterAssumption
<1>0. clock \in Nat /\ now \in [Callers -> Nat] /\ \A c \in Callers : [now EXCEPT ![c] = 0] \in [Callers -> Nat]
  BY DEF LimiterInv, LimiterType
<1>1. CASE Tick
  BY <1>0, <1>1, TimesKept DEF Tick
<1>2. ASSUME NEW c \in Callers, HandleBefore(c) PROVE LimiterInv'
  BY <1>0, <1>2, TimesKept DEF HandleBefore
<1>3. ASSUME NEW c \in Callers, Enter(c) PROVE LimiterInv'
  <2> DEFINE race == raced \/ \E d \in Callers : pc[d] = "in"
  <2>1. /\ race \in BOOLEAN /\ raced' = race
        /\ accepted' = IF race THEN <<>> ELSE accepted
        /\ UNCHANGED <<clock, times, now>>
    BY <1>3 DEF Enter, LimiterInv, LimiterType
  <2>2. <<>> \in Seq(Stamp)
    OBVIOUS
  <2> HIDE DEF race
  <2>3. CASE race
    BY <2>1, <2>2, <2>3 DEF LimiterInv, LimiterType
  <2>4. CASE ~race
    <3>1. raced' = FALSE /\ UNCHANGED <<clock, times, now, accepted>>
      BY <2>1, <2>4
    <3>2. ~raced
      BY <2>4 DEF race
    <3> QED BY Zenon, <3>1, <3>2 DEF LimiterInv, LimiterType, ListOK, HistoryOK
  <2> QED BY <2>3, <2>4
<1>4. ASSUME NEW c \in Callers, shouldRateLimit(c) PROVE LimiterInv'
  <2>1. CASE Len(times) < limit /\ Accept(c, times, Len(times) + 1)
    BY <1>4, <2>1, AcceptNew DEF shouldRateLimit
  <2>2. CASE Refuse(c)
    BY <1>0, <2>2, TimesKept DEF Refuse
  <2>3. CASE Len(times) >= limit /\ ~Exceeds(c) /\ Accept(c, Tail(times), Head(times).element)
    BY <1>4, <2>3, AcceptFront DEF shouldRateLimit
  <2> QED BY <1>4, <2>1, <2>2, <2>3 DEF shouldRateLimit
<1>5. ASSUME NEW c \in Callers, shouldRateLimitRaced(c) PROVE LimiterInv'
  <2>1. raced /\ raced' = raced /\ accepted' = accepted /\ times' = <<>>
        /\ now' = [now EXCEPT ![c] = 0] /\ clock' = clock
    BY <1>5 DEF shouldRateLimitRaced
  <2> QED BY <2>1 DEF LimiterInv, LimiterType
<1>6. ASSUME NEW c \in Callers, Limited(c) PROVE LimiterInv'
  BY <1>0, <1>6, TimesKept DEF Limited
<1>7. ASSUME NEW c \in Callers, Return(c) PROVE LimiterInv'
  BY <1>0, <1>7, TimesKept DEF Return
<1>8. CASE Reporters
  BY <1>0, <1>8, TimesKept DEF Reporters, limiterVars
<1>9. CASE UNCHANGED rateVars
  BY <1>0, <1>9, TimesKept DEF rateVars, limiterVars
<1> QED BY <1>1, <1>2, <1>3, <1>4, <1>5, <1>6, <1>7, <1>8, <1>9 DEF LimiterNext

\* The invariant bounds every interval: its requests have different elements.
LEMMA InvBounds == LimiterInv => WindowBound
<1> SUFFICES ASSUME LimiterInv, NEW t \in 0..MaxClock
             PROVE  Cardinality({i \in DOMAIN accepted :
                                  accepted[i].value \in t..(t + interval - 1)}) <= limit
  BY DEF WindowBound
<1> DEFINE S == {i \in DOMAIN accepted : accepted[i].value \in t..(t + interval - 1)}
           f == [i \in S |-> accepted[i].element]
<1> USE LimiterAssumption
<1>1. DOMAIN accepted = 1..Len(accepted) /\ Len(accepted) \in Nat
  BY DEF LimiterInv, LimiterType
<1>2. CASE raced
  <2>1. S = {}
    BY <1>1, <1>2 DEF LimiterInv
  <2>2. Cardinality(S) = 0
    BY <2>1, FS_EmptySet
  <2> QED BY <2>2
<1>3. CASE ~raced
  <2>0. LimiterType /\ ListOK /\ HistoryOK
    BY <1>3 DEF LimiterInv
  <2>1. \A i \in S : accepted[i].element \in 1..limit
    <3> SUFFICES ASSUME NEW i \in S PROVE accepted[i].element \in 1..limit
      OBVIOUS
    <3>1. PICK k \in 1..Len(times) : times[k].element = accepted[i].element
      BY Zenon, <2>0, <1>1 DEF HistoryOK
    <3>2. Len(times) \in Nat /\ Len(times) <= limit
      BY <2>0 DEF LimiterType, ListOK
    <3> QED BY <2>0, <3>1, <3>2 DEF ListOK
  <2>2. ASSUME NEW i \in S, NEW j \in S, accepted[i].element = accepted[j].element PROVE i = j
    <3>1. ASSUME NEW p \in S, NEW q \in S, p < q,
                 accepted[p].element = accepted[q].element
          PROVE  FALSE
      <4>1. accepted[q].value - accepted[p].value >= interval
        BY Zenon, <2>0, <3>1, <1>1 DEF HistoryOK
      <4>2. /\ accepted[q].value \in t..(t + interval - 1)
            /\ accepted[p].value \in t..(t + interval - 1)
        OBVIOUS
      <4> QED BY <4>1, <4>2
    <3>2. i \in Nat /\ j \in Nat
      BY <1>1
    <3> QED BY <2>2, <3>1, <3>2
  <2>3. f \in Injection(S, 1..limit)
    BY <2>1, <2>2 DEF Injection, IsInjective
  <2>4. IsFiniteSet(1..limit) /\ Cardinality(1..limit) = limit
    BY FS_Interval
  <2> HIDE DEF S, f
  <2>5. Cardinality(S) <= limit
    BY <2>3, <2>4, FS_Injection DEF ExistsInjection
  <2> QED BY <2>5 DEF S
<1> QED BY <1>2, <1>3

\* The rate limiter never lets more than `limit' requests of one `interval' through,
\* whatever the order of the hooks, as long as shouldRateLimit is not entered twice.
THEOREM LimitKept == LimiterSpec => []WindowBound
<1>1. LimiterInit => LimiterInv
  <2> SUFFICES ASSUME LimiterInit PROVE LimiterInv
    OBVIOUS
  <2>1. LimiterType
    <3>1. <<>> \in Seq(Stamp)
      OBVIOUS
    <3> QED BY Zenon, <3>1 DEF LimiterInit, LimiterType
  <2>2. ListOK /\ HistoryOK
    BY LimiterAssumption DEF LimiterInit, ListOK, HistoryOK
  <2> QED BY <2>1, <2>2 DEF LimiterInv, LimiterInit
<1> QED BY <1>1, LimiterStep, InvBounds, PTL DEF LimiterSpec
=============================================================================
