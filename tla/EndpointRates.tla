---------------------------- MODULE EndpointRates ----------------------------
(***************************************************************************)
(* Interval rates of the probed inference endpoints across collection      *)
(* cycles: Tracker::observe_endpoints of src/analysis/trend.rs over the    *)
(* endpoints src/inference/probe.rs returns.                               *)
(*                                                                         *)
(* One monotonic counter stands for the counters of an endpoint: they are  *)
(* differenced alike and one by one.  A rate is kept as the difference and *)
(* the time it is divided by.  A failed cycle leaves the tracker as it is. *)
(***************************************************************************)
EXTENDS Integers, Sequences, SequencesExt

CONSTANTS Targets,     \* the probe URLs, in the order of the endpoints
          Redacted(_), \* the metrics_url of a target, its query redacted
          Scrapes,     \* outcomes of a probe, see Sample
          MaxCount,    \* bound on the work of an endpoint (model bound)
          Steps,       \* clock steps between cycles, negative when it is set back
          MaxTime,     \* bound on the clock (model bound)
          None

\* What the constants are; the modules that give them values assume it.
RatesAssumption ==
  /\ MaxCount \in Nat /\ MaxTime \in Nat /\ Steps \subseteq Int
  /\ Scrapes \subseteq {"down", "noCounters", "noFamily", "partial", "full"}
  /\ Targets \in Seq({Targets[i] : i \in DOMAIN Targets})
  /\ None \notin Nat \cup [served : 0..MaxCount, at : 0..MaxTime]

VARIABLES
  now,       \* collected_at of the next report
  served,    \* per target: the work its server has done since it is watched
  counter,   \* per target: what its server exposes, zero after a restart
  endpoints, \* Tracker.endpoints
  rates,     \* per target: the rate in the last report, or None
  base       \* per target: served and time of its own last counted sample

vars == <<now, served, counter, endpoints, rates, base>>

TargetSet == {Targets[i] : i \in DOMAIN Targets}
Nothing == [k \in {} |-> 0]

Init ==
  /\ now = 0
  /\ served = [t \in TargetSet |-> 0]
  /\ counter = [t \in TargetSet |-> 0]
  /\ endpoints = Nothing
  /\ rates = [t \in TargetSet |-> None]
  /\ base = [t \in TargetSet |-> None]

-----------------------------------------------------------------------------
(* The endpoints at work.                                                  *)

Serve(t) ==
  /\ served[t] < MaxCount
  /\ served' = [served EXCEPT ![t] = @ + 1]
  /\ counter' = [counter EXCEPT ![t] = @ + 1]
  /\ UNCHANGED <<now, endpoints, rates, base>>

Restart(t) ==
  /\ counter[t] > 0
  /\ counter' = [counter EXCEPT ![t] = 0]
  /\ UNCHANGED <<now, served, endpoints, rates, base>>

-----------------------------------------------------------------------------
(* One cycle.                                                              *)

\* What a probe makes of an endpoint: unreachable, or reachable without any
\* counter, without this one, with the sum over the series a truncated scan
\* reached, or with the sum over all of them.
Sample(t, scrape) ==
  CASE scrape = "down"       -> {[counted |-> FALSE, value |-> None]}
    [] scrape = "noCounters" -> {[counted |-> FALSE, value |-> None]}
    [] scrape = "noFamily"   -> {[counted |-> TRUE, value |-> None]}
    [] scrape = "partial"    -> {[counted |-> TRUE, value |-> v] : v \in 0..counter[t]}
    [] scrape = "full"       -> {[counted |-> TRUE, value |-> counter[t]]}

SampleOf(t) == UNION {Sample(t, scrape) : scrape \in Scrapes}

\* derive_rates, rate and monotonic_delta.
Delta(before, after) ==
  IF before = None \/ after = None THEN None
  ELSE IF after >= before THEN after - before
  ELSE None

Rate(previous, value) ==
  IF now <= previous.at \/ Delta(previous.value, value) = None THEN None
  ELSE [delta |-> Delta(previous.value, value), over |-> now - previous.at]

\* Seeded fault: a missing family keeps the older sample.
ObserveKeepsBase(tracked, t, sample) ==
  IF ~sample.counted THEN tracked
  ELSE LET key == Redacted(t)
           rate == IF key \in DOMAIN tracked.endpoints
                   THEN Rate(tracked.endpoints[key], sample.value) ELSE None
       IN  [endpoints |->
              [k \in DOMAIN tracked.endpoints \cup {key} |->
                 IF k = key /\ (k \notin DOMAIN tracked.endpoints \/ sample.value # None)
                 THEN [value |-> sample.value, at |-> now]
                 ELSE tracked.endpoints[k]],
            rates |-> [tracked.rates EXCEPT ![t] = rate]]
\* The loop body of observe_endpoints for one endpoint.
ObserveEndpoint(tracked, t, sample) ==
  IF ~sample.counted THEN tracked
  ELSE LET key == Redacted(t)
           rate == IF key \in DOMAIN tracked.endpoints
                   THEN Rate(tracked.endpoints[key], sample.value) ELSE None
       IN  [endpoints |->
              [k \in DOMAIN tracked.endpoints \cup {key} |->
                 IF k = key THEN [value |-> sample.value, at |-> now]
                 ELSE tracked.endpoints[k]],
            rates |-> [tracked.rates EXCEPT ![t] = rate]]

\* observe_endpoints: the endpoints in order, a second endpoint under the
\* same key compared with the first; retain drops nothing, for each cycle
\* returns an endpoint for every target.
ObserveEndpoints(samples) ==
  FoldLeft(LAMBDA tracked, t : ObserveEndpoint(tracked, t, samples[t]),
           [endpoints |-> endpoints, rates |-> [t \in TargetSet |-> None]],
           Targets)

Counted(samples, t) == samples[t].counted

Cycle ==
  /\ \E samples \in [TargetSet -> UNION {SampleOf(t) : t \in TargetSet}] :
       /\ \A t \in TargetSet : samples[t] \in SampleOf(t)
       /\ LET tracked == ObserveEndpoints(samples)
          IN  endpoints' = tracked.endpoints /\ rates' = tracked.rates
       /\ base' = [t \in TargetSet |->
                     IF Counted(samples, t) THEN [served |-> served[t], at |-> now]
                     ELSE base[t]]
  /\ \E d \in Steps : now + d \in 0..MaxTime /\ now' = now + d
  /\ UNCHANGED <<served, counter>>

\* The scope that runs the probes panicked: the report has no endpoints, and
\* retain drops every sample.
CycleWithoutProbes ==
  /\ endpoints' = Nothing
  /\ rates' = [t \in TargetSet |-> None]
  /\ base' = [t \in TargetSet |-> None]
  /\ \E d \in Steps : now + d \in 0..MaxTime /\ now' = now + d
  /\ UNCHANGED <<served, counter>>

Next ==
  \/ Cycle \/ CycleWithoutProbes
  \/ \E t \in TargetSet : Serve(t) \/ Restart(t)

Spec == Init /\ [][Next]_vars

-----------------------------------------------------------------------------
(* Properties.                                                             *)

\* Types.
Sampled == [value : {None} \cup 0..MaxCount, at : 0..MaxTime]
TypeOK ==
  /\ now \in 0..MaxTime
  /\ served \in [TargetSet -> 0..MaxCount] /\ counter \in [TargetSet -> 0..MaxCount]
  /\ DOMAIN endpoints \subseteq {Redacted(t) : t \in TargetSet}
  /\ \A k \in DOMAIN endpoints : endpoints[k] \in Sampled
  /\ rates \in [TargetSet -> {None} \cup [delta : 0..MaxCount,
                                          over : -MaxTime..MaxTime]]
  /\ base \in [TargetSet -> {None} \cup [served : 0..MaxCount, at : 0..MaxTime]]

\* "No rate instead of a negative or fabricated value": a reported rate stands
\* for work the endpoint itself did since its own previous sample, never for
\* more, and is spread over exactly the time since that sample, whatever
\* restarts, failed scrapes and clock changes lie between.
RateNeverFabricated ==
  [][base' # base =>
       \A t \in TargetSet : rates'[t] # None =>
         /\ base[t] # None
         /\ rates'[t].over = now - base[t].at /\ rates'[t].over > 0
         /\ rates'[t].delta >= 0
         /\ rates'[t].delta <= served[t] - base[t].served]_vars
=============================================================================
