------------------------------ MODULE Analytics ------------------------------
(***************************************************************************)
(* The analytics page: filters, an effect that asks for five series when a *)
(* filter changes or Refresh is pressed, and the figures made of them.     *)
(* The effect keeps what is on the screen until the answers are there, and *)
(* a clean-up makes the answers of an earlier effect void.                 *)
(***************************************************************************)
EXTENDS Integers, Sequences, SequencesExt, TimeRange, DashboardApi

CONSTANTS
  Key, Method, Host, Path,  \* values of the filters, beside "any"
  Direction,
  Bucket,                   \* time buckets stats-api may answer with
  MaxBuckets,               \* bound: the buckets of one answer
  MaxStale                  \* bound: requests of earlier effects not answered yet

\* A bucket of the time series: its time, its requests and its latencies.
BucketAssumption ==
  /\ \A b \in Bucket :
       /\ b \in [at : Nat, ok : Nat, e4 : Nat, e5 : Nat,
                 p50 : Nat, p95 : Nat, p99 : Nat, max : Nat]
       /\ b.p50 <= b.p95 /\ b.p95 <= b.p99 /\ b.p99 <= b.max
  /\ MaxBuckets \in Nat
  /\ MaxStale \in Nat
  /\ "any" \notin Key \cup Method \cup Host \cup Path \cup Direction

VARIABLES
  stats,     \* the component's state, see StatsState
  session

\* The five requests of an effect: host distribution is asked for without host.
Query == [range : RangeValue, key : Key \cup {"any"},
          method : Method \cup {"any"}, host : Host \cup {"any"},
          path : Path \cup {"any"}, direction : Direction \cup {"any"}]

\* Mutant of HostQuery: the hosts are asked for with the host filter.
HostQueryFiltered(q) == q

HostQuery(q) == [q EXCEPT !.host = "any"]

NoQuery == [range |-> "none"]

\* pathInput: what is typed.  dataOf, hostsOf: the queries that what is shown
\* was asked with.  asking: the effect in force waits.  stale: queries of
\* cancelled effects.
StatsState ==
  [filter : Query, pathInput : Path \cup {"any"},
   dataOf : Query \cup {NoQuery}, hostsOf : Query \cup {NoQuery},
   series : Seq(Bucket), hosts : SUBSET Host,
   loading : BOOLEAN, error : BOOLEAN, asking : BOOLEAN, stale : SUBSET Query]

Mounted ==
  [filter |-> [range |-> Preset("1h"), key |-> "any", method |-> "any",
               host |-> "any", path |-> "any", direction |-> "any"],
   pathInput |-> "any", dataOf |-> NoQuery, hostsOf |-> NoQuery,
   series |-> <<>>, hosts |-> {},
   loading |-> TRUE, error |-> FALSE, asking |-> TRUE, stale |-> {}]

Init == stats = Mounted

-----------------------------------------------------------------------------
\* A new effect with the filter f: the clean-up of the last one, then the
\* requests.  rangeToDates reads the clock here.
Effect(f) ==
  /\ Cardinality(stats.stale) < MaxStale
  /\ stats' = [stats EXCEPT !.filter = f, !.loading = TRUE, !.error = FALSE,
                            !.asking = TRUE,
                            !.stale = @ \cup (IF stats.asking THEN {stats.filter}
                                              ELSE {})]

\* A range is a new object even when the same preset is picked again.
SetRange == \E r \in Picked : Effect([stats.filter EXCEPT !.range = r])

\* The tabs and selects report only a value that differs.
SetDirection ==
  \E d \in (Direction \cup {"any"}) \ {stats.filter.direction} :
    Effect([stats.filter EXCEPT !.direction = d])

SetKey ==
  \E k \in (Key \cup {"any"}) \ {stats.filter.key} :
    Effect([stats.filter EXCEPT !.key = k])

SetMethod ==
  \E m \in (Method \cup {"any"}) \ {stats.filter.method} :
    Effect([stats.filter EXCEPT !.method = m])

\* The select offers the hosts of the last answer; the badge takes it back.
SetHost ==
  \E h \in (stats.hosts \cup {"any"}) \ {stats.filter.host} :
    Effect([stats.filter EXCEPT !.host = h])

TypePath(p) ==
  /\ p # stats.pathInput
  /\ stats' = [stats EXCEPT !.pathInput = p]

\* setPathFilter runs the effect only when the value differs.
SubmitPath ==
  /\ stats.pathInput # stats.filter.path
  /\ Effect([stats.filter EXCEPT !.path = stats.pathInput])

\* The cross of the input and of the badge.
ClearPath ==
  /\ stats.filter.path # "any"
  /\ Cardinality(stats.stale) < MaxStale
  /\ stats' = [stats EXCEPT !.filter.path = "any", !.pathInput = "any",
                            !.loading = TRUE, !.error = FALSE, !.asking = TRUE,
                            !.stale = @ \cup (IF stats.asking THEN {stats.filter}
                                              ELSE {})]

Refresh == Effect(stats.filter)

\* External: the answers to a time series query, in the order of time.
SeriesAnswers ==
  {s \in BoundedSeq(Bucket, MaxBuckets) :
     \A i, j \in DOMAIN s : i < j => s[i].at < s[j].at}

\* What the two last callbacks of the chain do with answers to the query q.
Shown(t, q) ==
  \E s \in SeriesAnswers, h \in SUBSET Host :
    stats' = [t EXCEPT !.dataOf = q, !.hostsOf = HostQuery(q), !.series = s,
                       !.hosts = h, !.loading = FALSE]

\* asJson of each answer; Promise.all fails with the first that does.
Answered ==
  /\ stats.asking
  /\ \E r \in Results(session) :
       LET t == [stats EXCEPT !.asking = FALSE]
       IN  IF r = "data" THEN Shown(t, stats.filter)
           ELSE stats' = [t EXCEPT !.error = TRUE, !.loading = FALSE]

\* Mutant of StaleAnswered: the flag cancelled is not asked.
StaleShown(q) ==
  /\ q \in stats.stale
  /\ Shown([stats EXCEPT !.stale = @ \ {q}], q)

\* The answers to a cancelled effect change nothing.
StaleAnswered(q) ==
  /\ q \in stats.stale
  /\ stats' = [stats EXCEPT !.stale = @ \ {q}]

Step ==
  \/ SetRange \/ SetDirection \/ SetKey \/ SetMethod \/ SetHost
  \/ \E p \in Path \cup {"any"} : TypePath(p)
  \/ SubmitPath \/ ClearPath \/ Refresh \/ Answered
  \/ \E q \in stats.stale : StaleAnswered(q)

-----------------------------------------------------------------------------
(* What is on the screen.  The cards show the series at all times; the      *)
(* charts show nothing while loading.                                       *)

Total(s, F(_)) == FoldLeft(LAMBDA sum, b : sum + F(b), 0, s)

Larger(a, b) == IF a >= b THEN a ELSE b

\* Mutant of Summary: the maximum is the last bucket's.
SummaryOfLast(s) ==
  [requests |-> Total(s, LAMBDA b : b.ok + b.e4 + b.e5),
   errors   |-> Total(s, LAMBDA b : b.e4 + b.e5),
   p50      |-> Total(s, LAMBDA b : b.p50),
   p95      |-> Total(s, LAMBDA b : b.p95),
   p99      |-> Total(s, LAMBDA b : b.p99),
   max      |-> IF s = <<>> THEN 0 ELSE Last(s).max,
   seconds  |-> IF s = <<>> THEN 1 ELSE Larger(Last(s).at - s[1].at, 1)]

\* deriveSummary.  The percentiles are sums, to be divided by the buckets; the
\* rate is requests by seconds.
Summary(s) ==
  [requests |-> Total(s, LAMBDA b : b.ok + b.e4 + b.e5),
   errors   |-> Total(s, LAMBDA b : b.e4 + b.e5),
   p50      |-> Total(s, LAMBDA b : b.p50),
   p95      |-> Total(s, LAMBDA b : b.p95),
   p99      |-> Total(s, LAMBDA b : b.p99),
   max      |-> FoldLeft(LAMBDA m, b : Larger(m, b.max), 0, s),
   seconds  |-> IF s = <<>> THEN 1 ELSE Larger(Last(s).at - s[1].at, 1)]

\* Labels of the time axes: hours only, for at most six hours.
DenseHours == SpanOf(stats.filter.range) <= 6 * Hour

\* The series a chart draws, if any.
Charted == IF stats.loading THEN <<>> ELSE stats.series

\* The host the select names: its placeholder stands for a host not offered.
HostNamed == IF stats.filter.host \in stats.hosts THEN stats.filter.host ELSE "any"

\* The badges of the filters that are in force.
ActiveFilters == {stats.filter.host, stats.filter.path} \ {"any"}

-----------------------------------------------------------------------------
\* Every field is in its range.
StatsTypeOK == stats \in StatsState

\* Unless the page is loading or shows an error, its figures answer the filters
\* that are set, and the hosts on offer answer the same filters without host.
FiguresAnswerFilters ==
  ~stats.loading /\ ~stats.error =>
    /\ stats.dataOf = stats.filter
    /\ stats.hostsOf = [stats.filter EXCEPT !.host = "any"]

\* The figures agree: no more errors than requests, percentiles in order and
\* below the maximum; and a host filter is named somewhere.
FiguresAgree ==
  LET k == Summary(stats.series)
  IN  /\ k.errors <= k.requests
      /\ k.p50 <= k.p95 /\ k.p95 <= k.p99 /\ k.p99 <= k.max * Len(stats.series)
      /\ stats.filter.host # "any" =>
           HostNamed = stats.filter.host \/ stats.filter.host \in ActiveFilters
=============================================================================
