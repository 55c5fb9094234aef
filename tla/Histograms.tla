----------------------------- MODULE Histograms -----------------------------
(***************************************************************************)
(* The latency distribution of one interval: how one histogram kind of a   *)
(* metrics body is gathered series by series (parse_metrics_bounded and    *)
(* HistogramAccumulator of src/inference/probe.rs), published and          *)
(* differenced with the sample before it (RuntimeHistogram of              *)
(* src/domain/report.rs), and kept by the tracker (src/analysis/trend.rs). *)
(*                                                                         *)
(* The server counts observations by bucket.  Its body holds one line per  *)
(* exposed series and bucket; lines may be missing, repeated or malformed, *)
(* in either order.  The four kinds are gathered alike and one by one.     *)
(***************************************************************************)
EXTENDS Integers, Sequences, SequencesExt

CONSTANTS Series,          \* label sets: sets of pairs of a name and a value
          Bounds,          \* the finite bucket bounds of the server
          Inf,             \* the bound of its open bucket, above every other
          Cells,           \* the order of a body: each series, as a sequence, and bucket
          Names,           \* names of the kind: [prefix, schema], runtime included
          Limits,          \* max_samples
          MaxSeries,       \* MAX_RUNTIME_HISTOGRAM_SERIES
          MaxBuckets,      \* MAX_RUNTIME_HISTOGRAM_BUCKETS
          Damageable,      \* positions of the lines that may be damaged (model bound)
          MaxObservations, \* bound on the work of the server (model bound)
          None, NaN

VARIABLES
  counts,    \* per series and bucket: the observations a server exposes
  exposed,   \* the series its body holds
  since,     \* per series and bucket: observations since the last counted sample
  restarted, \* the server restarted since then
  tracked,   \* Tracker.endpoints: the sample before, or None
  last       \* the last cycle: its interval and what the server really did

vars == <<counts, exposed, since, restarted, tracked, last>>

Top(S) == CHOOSE x \in S : \A y \in S : y <= x
Least(S) == CHOOSE x \in S : \A y \in S : x <= y
Sum(f) == MapThenSumSet(LAMBDA x : f[x], DOMAIN f)

Buckets == Bounds \cup {Inf}
Zero == [s \in Series |-> [b \in Buckets |-> 0]]
Work(made) == Sum([s \in Series |-> Sum(made[s])])

\* What the constants are; the modules that give them values assume it.
HistogramsAssumption ==
  /\ Bounds # {} /\ Bounds \subseteq Nat \ {0} /\ Series # {}
  /\ MaxSeries \in Nat \ {0} /\ MaxBuckets \in Nat \ {0, 1}
  /\ MaxObservations \in Nat /\ Limits \subseteq Nat
  /\ Inf \in Nat /\ \A b \in Bounds : b < Inf /\ IsFiniteSet(Bounds)
  /\ \A n \in Names : n.schema # None /\ \E m \in Names : m.schema # n.schema
  /\ Names # {} /\ Cells \in Seq(Seq(UNION Series) \X Buckets)
  /\ {<<ToSet(c[1]), c[2]>> : c \in ToSet(Cells)} = Series \X Buckets

Init ==
  /\ counts = Zero /\ exposed = {}
  /\ since = Zero /\ restarted = FALSE
  /\ tracked = None /\ last = None

-----------------------------------------------------------------------------
(* The server.                                                             *)

Observe(s, b) ==
  /\ Work(counts) < MaxObservations /\ Work(since) < MaxObservations
  /\ counts' = [counts EXCEPT ![s][b] = @ + 1]
  /\ since' = [since EXCEPT ![s][b] = @ + 1]
  /\ exposed' = exposed \cup {s}
  /\ last' = None
  /\ UNCHANGED <<restarted, tracked>>

\* A restarted server starts from zero, some of its series exposed at once.
Restart ==
  /\ ~restarted /\ counts # Zero
  /\ counts' = Zero /\ restarted' = TRUE
  /\ exposed' \in SUBSET Series
  /\ last' = None
  /\ UNCHANGED <<since, tracked>>

\* The lines of a body, each in the place of its cell.
Absent == None
Line(name, labels, b, value) ==
  [prefix |-> name.prefix, schema |-> name.schema, labels |-> labels, le |-> b, value |-> value]

Cumulative(f, b) == Sum([c \in {x \in DOMAIN f : x <= b} |-> f[c]])

Name == CHOOSE n \in Names : TRUE
WholeBody ==
  [i \in DOMAIN Cells |->
     LET labels == Cells[i][1]
         le == Cells[i][2]
     IN  IF ToSet(labels) \in exposed
         THEN Line(Name, labels, le, Cumulative(counts[ToSet(labels)], le)) ELSE Absent]

\* What may befall one line of a body.
Faults == {"lost", "repeated", "negative", "unparsable", "otherSchema", "noBound",
           "badBound", "doubleLabel"}
OtherSchema(name) == CHOOSE n \in Names : n.schema # name.schema

Damaged(line, fault, name) ==
  CASE fault = "lost"        -> <<Absent>>
    [] fault = "repeated"    -> <<line, line>>
    [] fault = "negative"    -> <<[line EXCEPT !.value = -1]>>
    [] fault = "unparsable"  -> <<[line EXCEPT !.value = NaN]>>
    [] fault = "otherSchema" -> <<[line EXCEPT !.schema = OtherSchema(name).schema]>>
    [] fault = "noBound"     -> <<[line EXCEPT !.le = None]>>
    [] fault = "badBound"    -> <<[line EXCEPT !.le = NaN]>>
    [] fault = "doubleLabel" -> <<[line EXCEPT !.labels = @ \o @]>>

\* A line with its labels in the other order.
Turned(line) == [line EXCEPT !.labels = Reverse(@)]

\* A body of the lines that F makes of those that are there.
Mapped(body, F(_)) == [i \in DOMAIN body |-> IF body[i] = Absent THEN Absent ELSE F(body[i])]

\* The whole body; one of some of the series, or under another name; in the
\* other order; or with one line damaged.
Bodies(all) ==
  {Mapped(all, LAMBDA line : IF ToSet(line.labels) \in shown THEN line ELSE Absent) :
     shown \in SUBSET exposed} \cup
  {Mapped(all, LAMBDA line : Line(name, line.labels, line.le, line.value)) : name \in Names} \cup
  {Reverse(Mapped(all, Turned))} \cup
  {SubSeq(all, 1, i - 1) \o Damaged(all[i], fault, Name) \o SubSeq(all, i + 1, Len(all)) :
     i \in {j \in DOMAIN all \cap Damageable : all[j] # Absent}, fault \in Faults}

-----------------------------------------------------------------------------
(* Gathering: HistogramAccumulator, filled line by line.                   *)

Empty == [schema |-> None, series |-> [k \in {} |-> None], invalid |-> FALSE,
          truncated |-> FALSE, samples |-> 0, complete |-> TRUE]

\* parse_histogram_sample_key: each label once, and one bound.
KeyParses(line) ==
  /\ \A i, j \in DOMAIN line.labels : line.labels[i][1] = line.labels[j][1] => i = j
  /\ line.le \notin {None, NaN}

With(f, x, value) == [y \in DOMAIN f \cup {x} |-> IF y = x THEN value ELSE f[y]]
Key(line) == <<line.prefix, line.schema, ToSet(line.labels)>>

Fill(acc, line) ==
  LET key == Key(line)
      buckets == IF key \in DOMAIN acc.series THEN acc.series[key] ELSE [b \in {} |-> 0]
      Invalid == [acc EXCEPT !.invalid = TRUE]
      Limited == [Invalid EXCEPT !.truncated = TRUE]
  IN  IF acc.invalid THEN acc
      ELSE IF \/ acc.schema \notin {None, line.schema}
              \/ line.value < 0
              \/ ~KeyParses(line) THEN Invalid
      ELSE IF key \notin DOMAIN acc.series /\ Cardinality(DOMAIN acc.series) >= MaxSeries
           THEN Limited
      ELSE IF line.le \in DOMAIN buckets THEN Invalid
      ELSE IF Cardinality(DOMAIN buckets) >= MaxBuckets THEN Limited
      ELSE [acc EXCEPT !.schema = line.schema,
                       !.series = With(@, key, With(buckets, line.le, line.value))]

\* parse_metrics_bounded for one line of a runtime's family.
Scan(acc, line, limit) ==
  IF ~acc.complete THEN acc
  ELSE IF line.value = NaN THEN [acc EXCEPT !.invalid = TRUE]
  ELSE IF acc.samples >= limit THEN [acc EXCEPT !.complete = FALSE, !.truncated = TRUE]
  ELSE Fill([acc EXCEPT !.samples = @ + 1], line)
Take(acc, line, limit) == IF line = Absent THEN acc ELSE Scan(acc, line, limit)

-----------------------------------------------------------------------------
(* RuntimeHistogram: a function from bounds to cumulative counts.          *)

\* valid_cumulative_histogram.
ValidBuckets(f) ==
  /\ Cardinality(DOMAIN f) \in 2..MaxBuckets
  /\ Inf \in DOMAIN f
  /\ \A x, y \in DOMAIN f : 0 <= f[x] /\ (x < y => f[x] <= f[y])

\* aggregate_histogram_series.
Aggregate(series) ==
  LET shape == DOMAIN series[CHOOSE k \in DOMAIN series : TRUE]
  IN  IF /\ Cardinality(DOMAIN series) \in 1..MaxSeries
         /\ \A k \in DOMAIN series : ValidBuckets(series[k]) /\ DOMAIN series[k] = shape
      THEN [b \in shape |-> Sum([k \in DOMAIN series |-> series[k][b]])]
      ELSE None

\* try_finish and from_series.
Finish(acc) ==
  IF acc.invalid \/ ~acc.complete \/ acc.series = Empty.series THEN None
  ELSE IF Aggregate(acc.series) = None THEN None
  ELSE [series |-> acc.series, buckets |-> Aggregate(acc.series)]

Parsed(body, limit) ==
  Finish(FoldLeft(LAMBDA acc, line : Take(acc, line, limit), Empty, body))

\* difference_histogram_buckets.
Differs(before, after) ==
  /\ DOMAIN before = DOMAIN after
  /\ \A b \in DOMAIN before : before[b] <= after[b]
  /\ ValidBuckets([b \in DOMAIN before |-> after[b] - before[b]])
Difference(before, after) == [b \in DOMAIN before |-> after[b] - before[b]]

\* histogram_quantile_seconds: a fraction, its rank in hundredths of a sample.
Quantile(f, q) ==
  LET rank == q * f[Inf]
      index == Least({b \in DOMAIN f : 100 * f[b] >= rank})
      below == {b \in DOMAIN f : b < index}
      lower == IF below = {} THEN 0 ELSE Top(below)
      before == IF below = {} THEN 0 ELSE f[lower]
      width == 100 * (f[index] - before)
  IN  IF index = Inf THEN [num |-> lower, den |-> 1]
      ELSE IF width = 0 THEN [num |-> index, den |-> 1]
      ELSE [num |-> lower * width + (index - lower) * (rank - 100 * before), den |-> width]

Quantiles(f) ==
  IF f[Inf] = 0 THEN None
  ELSE [samples |-> f[Inf], p50 |-> Quantile(f, 50), p95 |-> Quantile(f, 95),
        p99 |-> Quantile(f, 99)]

\* Seeded fault: the totals are differenced, not the series one by one.
IntervalOfTotals(before, after) ==
  IF /\ Cardinality(DOMAIN before.series) = Cardinality(DOMAIN after.series)
     /\ Differs(before.buckets, after.buckets)
  THEN Quantiles(Difference(before.buckets, after.buckets)) ELSE None
\* RuntimeHistogram::interval.
Interval(before, after) ==
  IF /\ DOMAIN before.series = DOMAIN after.series
     /\ \A k \in DOMAIN before.series : Differs(before.series[k], after.series[k])
  THEN Quantiles(Aggregate([k \in DOMAIN before.series |->
                              Difference(before.series[k], after.series[k])]))
  ELSE None

-----------------------------------------------------------------------------
(* One cycle: Tracker::observe_endpoints over what the probe returned.     *)

\* advanced: the clock is past the sample before.  An endpoint without any
\* counter leaves the sample before in place, like a failed probe.
Cycle(histogram, advanced) ==
  LET interval == IF tracked = None \/ ~advanced \/ histogram = None THEN None
                  ELSE IF tracked.histogram = None THEN None
                  ELSE Interval(tracked.histogram, histogram)
  IN  /\ tracked' = [histogram |-> histogram]
      /\ last' = [interval |-> interval, observed |-> since, restarted |-> restarted,
                  shown |-> IF histogram = None THEN {} ELSE {k[3] : k \in DOMAIN histogram.series},
                  bounds |-> IF histogram = None THEN {} ELSE DOMAIN histogram.buckets]
      /\ since' = Zero /\ restarted' = FALSE
      /\ UNCHANGED <<counts, exposed>>

Scraped ==
  LET all == WholeBody
  IN  {Parsed(body, Top(Limits)) : body \in Bodies(all)} \cup {Parsed(all, limit) : limit \in Limits}

Scrape ==
  \E histogram \in Scraped, advanced \in BOOLEAN : Cycle(histogram, advanced)

Next ==
  \/ \E s \in Series, b \in Buckets : Observe(s, b)
  \/ Restart \/ Scrape

Spec == Init /\ [][Next]_vars

-----------------------------------------------------------------------------
(* Properties.                                                             *)

AtMost(x, y) == x.num * y.den <= y.num * x.den

\* The estimate of a quantile lies in the bucket that holds the sample of that
\* rank, or is the highest finite bound when that is the open one.
InItsBucket(x, q, f) ==
  LET rank == (q * f[Inf] + 99) \div 100
      bucket == Least({b \in DOMAIN f : f[b] >= rank})
      lower == Top({0} \cup {b \in DOMAIN f : b < bucket})
  IN  IF bucket = Inf THEN x.num = lower * x.den
      ELSE lower * x.den <= x.num /\ x.num <= bucket * x.den

\* A reported interval is the distribution of the requests observed strictly
\* within it, whatever lines were lost, doubled or malformed, whichever
\* series came and went: of a server that kept running, all of its shown
\* series' samples and no other, each quantile in the bucket of its rank; of
\* one that restarted, at least no more samples than were made; and its
\* quantiles ascend.
IntervalIsDistribution ==
  last # None /\ last.interval # None =>
    LET seen == [b \in last.bounds |->
                   Sum([s \in last.shown |-> Cumulative(last.observed[s], b)])]
        i == last.interval
    IN  /\ i.samples \in 1..seen[Inf]
        /\ AtMost(i.p50, i.p95) /\ AtMost(i.p95, i.p99)
        /\ ~last.restarted =>
             /\ i.samples = seen[Inf]
             /\ InItsBucket(i.p50, 50, seen) /\ InItsBucket(i.p95, 95, seen)
             /\ InItsBucket(i.p99, 99, seen)
=============================================================================
